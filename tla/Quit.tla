-------------------------------- MODULE Quit --------------------------------
(***************************************************************************)
(* Quitting (disconnectAndQuit in internal/ui/main_window.go): from the    *)
(* menu or the tray, once or many times, also while a connect call is      *)
(* under way.  One goroutine hangs up the selected profile's tunnel and    *)
(* looks again; another waits for it, for five seconds at most, and then   *)
(* closes the program -- with every goroutine in it.  It does so by a      *)
(* closure, for which the window's thread must be free: the closures that  *)
(* end a connect or a save run a command or write the store there.         *)
(***************************************************************************)
EXTENDS ConnectCall, Naturals

CONSTANT StatusFails   \* the status query may fail

ASSUME QuitAssumption == StatusFails \in BOOLEAN

VARIABLES
  name,       \* the selected profile, never empty (profileName)
  saving,     \* a save of the settings is under way
  held,       \* one of those closures has the window's thread
  quitting,   \* ctrl.quitting
  dialogs,    \* progress dialogs that are showing
  hanging,    \* the goroutine that hangs up: what it does next
  waiting,    \* the goroutine that waits for it
  quits,      \* calls of a.Quit
  alive,      \* the process has not exited
  refused,    \* history: hang-ups that failed
  misled,     \* history: a status answer had it stop while the tunnel was up
  midCall,    \* history: a connect call was under way when Quit was pressed
  redialled   \* history: another program has dialled the profile since

quitVars == <<quitting, dialogs, hanging, waiting, quits, alive>>
history == <<refused, misled, midCall, redialled>>
vars == <<callVars, name, saving, held, quitVars, history>>

(* Every variable has the values the code gives it: the two goroutines run *)
(* only for a program that is quitting, the hang-up is retried once, and   *)
(* a.Quit is called once, however often and from wherever Quit is chosen.  *)
TypeOK ==
  /\ CallTypeOK
  /\ name \in Profiles
  /\ saving \in BOOLEAN
  /\ held \in BOOLEAN
  /\ quitting \in BOOLEAN
  /\ dialogs \in 0 .. 1
  /\ hanging \in {"none", "status", "hangup", "verify", "retry", "closed"}
  /\ waiting \in {"none", "waits", "closing", "quit"}
  /\ quits \in 0 .. 1
  /\ alive \in BOOLEAN
  /\ misled \in BOOLEAN
  /\ midCall \in BOOLEAN
  /\ redialled \in BOOLEAN
  /\ refused \in 0 .. 2
  /\ ~quitting => hanging = "none" /\ waiting = "none" /\ alive

Init ==
  /\ CallInit
  /\ name \in Profiles
  /\ saving = FALSE
  /\ held = FALSE
  /\ quitting = FALSE
  /\ dialogs = 0
  /\ hanging = "none"
  /\ waiting = "none"
  /\ quits = 0
  /\ alive = TRUE
  /\ refused = 0
  /\ misled = FALSE
  /\ midCall = FALSE
  /\ redialled = FALSE

-----------------------------------------------------------------------------
(* Quit is chosen, from the menu or from the tray.                         *)
Press ==
  /\ alive /\ ~held
  /\ ~quitting
  /\ quitting' = TRUE
  /\ dialogs' = dialogs + 1
  /\ hanging' = "status"
  /\ waiting' = "waits"
  /\ midCall' = (phase # "idle")
  /\ UNCHANGED <<callVars, name, saving, held, quits, alive, refused, misled, redialled>>

(* The answers of Manager.Status for the selected profile.                 *)
Statuses ==
  {IF name \in up THEN "Connected" ELSE "Disconnected"}
    \union (IF StatusFails THEN {"Unknown", "Disconnected"} ELSE {})
    \union (IF phase = "setup" /\ name = target /\ name \notin up
            THEN {"Connecting"} ELSE {})

AskStatus ==
  /\ hanging = "status"
  /\ \E st \in Statuses :
       /\ hanging' = IF st \in {"Connected", "Unknown"} THEN "hangup" ELSE "closed"
       /\ misled' = (misled \/ (hanging' = "closed" /\ name \in up))
  /\ UNCHANGED <<callVars, name, saving, held, quitting, dialogs, waiting, quits, alive,
                 refused, midCall, redialled>>

(* Manager.DisconnectFull, whose error is only logged.                     *)
HangUp ==
  \/ up' = up \ {name} /\ UNCHANGED refused
  \/ refused' = refused + 1 /\ UNCHANGED up

DisconnectFullOnly ==   \* slip: it does not look again
  /\ hanging = "hangup"
  /\ HangUp
  /\ hanging' = "closed"
  /\ UNCHANGED <<phase, target, cancelled, result, name, saving, held, quitting, dialogs,
                 waiting, quits, alive, misled, midCall, redialled>>

DisconnectFull ==
  /\ hanging = "hangup"
  /\ HangUp
  /\ hanging' = "verify"
  /\ UNCHANGED <<phase, target, cancelled, result, name, saving, held, quitting, dialogs,
                 waiting, quits, alive, misled, midCall, redialled>>

Verify ==
  /\ hanging = "verify"
  /\ \E st \in Statuses :
       /\ hanging' = IF st = "Connected" THEN "retry" ELSE "closed"
       /\ misled' = (misled \/ (hanging' = "closed" /\ name \in up))
  /\ UNCHANGED <<callVars, name, saving, held, quitting, dialogs, waiting, quits, alive,
                 refused, midCall, redialled>>

RetryAgain ==   \* slip: it looks again after the retry too
  /\ hanging = "retry"
  /\ HangUp
  /\ hanging' = "verify"
  /\ UNCHANGED <<phase, target, cancelled, result, name, saving, held, quitting, dialogs,
                 waiting, quits, alive, misled, midCall, redialled>>

Retry ==
  /\ hanging = "retry"
  /\ HangUp
  /\ hanging' = "closed"
  /\ UNCHANGED <<phase, target, cancelled, result, name, saving, held, quitting, dialogs,
                 waiting, quits, alive, misled, midCall, redialled>>

-----------------------------------------------------------------------------
(* The wait ends when the goroutine is through, or by the clock.           *)
WaitForEver ==   \* slip: there is no time limit
  /\ waiting = "waits"
  /\ hanging = "closed"
  /\ waiting' = "closing"
  /\ UNCHANGED <<callVars, name, saving, held, quitting, dialogs, hanging, quits, alive,
                 history>>

WaitEnds ==
  /\ waiting = "waits"
  /\ waiting' = "closing"
  /\ UNCHANGED <<callVars, name, saving, held, quitting, dialogs, hanging, quits, alive,
                 history>>

(* The last closure, on the window's thread when that is free.             *)
HideAndQuit ==
  /\ ~held
  /\ waiting = "closing"
  /\ dialogs' = dialogs - 1
  /\ quits' = quits + 1
  /\ waiting' = "quit"
  /\ UNCHANGED <<callVars, name, saving, held, quitting, hanging, alive, history>>

(* The event loop ends and main returns: goroutines and their closures are *)
(* gone, and commands they started are nobody's.                           *)
ProcessExits ==
  /\ ~held
  /\ waiting = "quit"
  /\ alive
  /\ alive' = FALSE
  /\ UNCHANGED <<callVars, name, saving, held, quitting, dialogs, hanging, waiting, quits,
                 history>>

-----------------------------------------------------------------------------
(* The window, which the dialog covers once Quit is pressed, and the       *)
(* connect call, which nothing tells to stop.                              *)
Use(A) == A /\ UNCHANGED <<name, quitVars, history>>

(* The user picks a profile, connects, cancels, or saves the settings;     *)
(* connects and saves keep each other out (c.busy).                        *)
Pick(p) ==
  /\ name' = p
  /\ UNCHANGED <<callVars, saving, held, quitVars, history>>

User ==
  /\ ~quitting /\ ~held
  /\ \/ ~saving /\ Use(Begin(name)) /\ UNCHANGED <<saving, held>>
     \/ Use(CancelCall) /\ UNCHANGED <<saving, held>>
     \/ /\ phase = "idle" /\ ~saving
        /\ saving' = TRUE
        /\ UNCHANGED <<callVars, name, held, quitVars, history>>
     \/ \E p \in Profiles : Pick(p)

(* The closure of a call that worked prints the profile's diagnostics,     *)
(* which is a command without a time limit, and stores the credentials.    *)
ConnectDone ==
  /\ ~held
  /\ held' = (result = "ok")
  /\ Use(Consume)
  /\ UNCHANGED saving

(* The closure of a save stores the credentials, unless the save failed.   *)
SaveDone ==
  /\ saving /\ ~held
  /\ saving' = FALSE
  /\ held' \in BOOLEAN
  /\ Use(UNCHANGED callVars)

ClosureEnds ==
  /\ held
  /\ held' = FALSE
  /\ Use(UNCHANGED <<callVars, saving>>)

Goes ==
  \/ /\ \/ Use(Dialled) \/ Use(Returns) \/ \E p \in Profiles : Use(SweepOther(p))
     /\ UNCHANGED <<saving, held>>
  \/ ConnectDone \/ SaveDone \/ ClosureEnds

OthersDial(p) ==
  /\ DialOutside(p)
  /\ redialled' = (redialled \/ (quitting /\ p = name))
  /\ UNCHANGED <<name, saving, held, quitVars, refused, misled, midCall>>

World ==
  \E p \in Profiles : (Use(Drop(p)) /\ UNCHANGED <<saving, held>>) \/ OthersDial(p)

Hanging == alive /\ (AskStatus \/ DisconnectFull \/ Verify \/ Retry)

Next ==
  \/ Press \/ Hanging \/ WaitEnds \/ HideAndQuit \/ ProcessExits
  \/ User \/ (alive /\ Goes) \/ World

(* The clock runs, and closures are run when the window's thread is free;  *)
(* commands may hang, on that thread too.                                  *)
Fairness ==
  WF_vars(WaitEnds) /\ WF_vars(HideAndQuit) /\ WF_vars(ProcessExits)

Spec == Init /\ [][Next]_vars /\ Fairness

-----------------------------------------------------------------------------
(* Nothing that hangs in a goroutine -- a status query, rasdial, a connect *)
(* call -- keeps the program from quitting.  What can is a command or a    *)
(* write that hangs on the window's thread, in the closure of a connect or *)
(* a save that was under way when Quit was pressed.                        *)
QuitEnds == (quitting ~> ~alive) \/ <>[]held

(* A program that was not cut short by the clock leaves the selected       *)
(* profile's tunnel up only for one of four reasons: a connect call was    *)
(* under way when Quit was pressed, a status query was wrong, another      *)
(* program dialled it meanwhile, or hanging up failed twice.               *)
QuitCloses ==
  ~alive /\ hanging = "closed" /\ name \in up =>
    midCall \/ misled \/ redialled \/ refused = 2

=============================================================================
