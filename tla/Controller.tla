----------------------------- MODULE Controller -----------------------------
(***************************************************************************)
(* The session side of the main window's controller                        *)
(* (internal/ui/main_window.go): the connection state it shows, the busy   *)
(* lock, and the goroutines its handlers start -- the connect call, the    *)
(* disconnect, the save, the clean-up after a cancelled connect and the    *)
(* status probe at start -- each of which ends in a closure that runs on   *)
(* the window's thread.  A handler or a closure is one action; everything  *)
(* a goroutine does between them interleaves with the user.                *)
(*                                                                         *)
(* The connect call is ConnectCall, which ConnectFull implements.  What    *)
(* the same handlers do to the settings is the subject of Settings.        *)
(***************************************************************************)
EXTENDS ConnectCall

CONSTANTS
  Slots,        \* clean-up goroutines that may be pending at once
  Worlds,       \* the kinds of user and machine a session may meet
  Outsiders     \* other programs dial profiles too

ASSUME WorldsAssumption == Worlds \subseteq {"calm", "picking", "rough"}

ASSUME OutsidersAssumption == Outsiders \in BOOLEAN

VARIABLES
  world,    \* the one this session meets; it does not change
  state,    \* c.state
  busy,     \* c.busy
  armed,    \* c.cancelConnect # nil
  name,     \* c.connectionName, never empty (profileName)
  ticking,  \* the profile whose traffic and ping tickers run, if any
  disc,     \* the disconnect goroutine
  save,     \* the save goroutine and the state it saw when it was started
  clean,    \* the clean-up goroutines of cancelled connects
  probe,    \* the status probe of loadInitial
  ours      \* history: tunnels this session brought up and that are still up

uiVars == <<world, state, busy, armed, name, ticking>>
jobVars == <<disc, save, clean, probe>>
vars == <<callVars, uiVars, jobVars, ours>>

States == {"Disconnected", "Connecting", "Connected", "Disconnecting", "Error"}
Statuses == {"Connected", "Disconnected", "Connecting", "Unknown"}
Discs == [pc : {"none", "hangup", "ok", "err"}, p : Profiles]
Saves == [pc : {"none", "writing"}, keep : States]
Cleans == [pc : {"free", "hangup", "query", "show"}, p : Profiles, st : Statuses]
Probes == [pc : {"start", "query", "show", "done"}, p : Profiles, st : Statuses]

(* Every variable has the values the code gives it; a status that cannot   *)
(* be shown ("Unknown", another client's dial) never becomes c.state.      *)
TypeOK ==
  /\ CallTypeOK
  /\ world \in Worlds
  /\ state \in States
  /\ busy \in BOOLEAN
  /\ armed \in BOOLEAN
  /\ name \in Profiles
  /\ ticking \in SUBSET Profiles
  /\ disc \in Discs
  /\ save \in Saves
  /\ clean \in [Slots -> Cleans]
  /\ probe \in Probes
  /\ ours \in SUBSET Profiles

(* After loadInitial: "Disconnected", the probe goroutine about to start.  *)
Init ==
  /\ CallInit
  /\ world \in Worlds
  /\ state = "Disconnected"
  /\ busy = FALSE
  /\ armed = FALSE
  /\ name = target
  /\ ticking = {}
  /\ disc = [pc |-> "none", p |-> name]
  /\ save = [pc |-> "none", keep |-> "Disconnected"]
  /\ clean = [s \in Slots |-> [pc |-> "free", p |-> name, st |-> "Unknown"]]
  /\ probe = [pc |-> "start", p |-> name, st |-> "Unknown"]
  /\ ours = {}

-----------------------------------------------------------------------------
(* No goroutine that reports a status is pending.                          *)
Settled == probe.pc = "done" /\ \A s \in Slots : clean[s].pc = "free"

(* In a calm world the user starts nothing while a probe or a clean-up is  *)
(* pending, picks profiles only when all is settled, and status queries    *)
(* answer.  A picking user picks at any time; in a rough world the user    *)
(* waits for nothing and queries fail.                                     *)
Calm == world = "calm"
Patient == world # "rough"
PicksAnyTime == world = "picking"
StatusFails == world = "rough"

UserActs == Patient => Settled

(* When applyEnablement enables Connect and Save.                          *)
Startable == ~busy /\ state \in {"Disconnected", "Error"}

(* What QueryStatus can answer for p: a dial in progress may be visible; a *)
(* query that fails is an error, or reads as a missing profile.            *)
StatusOf(p) ==
  {IF p \in up THEN "Connected" ELSE "Disconnected"}
    \union (IF StatusFails THEN {"Unknown", "Disconnected"} ELSE {})
    \union (IF phase = "setup" /\ p = target /\ p \notin up
            THEN {"Connecting"} ELSE {})

(* rasdial /DISCONNECT: a tunnel that is not up is not an error.           *)
HungUp(p) == up' = up \ {p} /\ ours' = ours \ {p}

-----------------------------------------------------------------------------
(* Connect *)

(* onConnect, from the button or the ring: validation fails, or the lock   *)
(* is taken, the cancel function stored and ConnectFull started.           *)
OnConnect ==
  /\ UserActs
  /\ Startable
  /\ \E s \in Slots : clean[s].pc = "free"   \* bound: room for its clean-up
  /\ \/ /\ state' = "Error"
        /\ UNCHANGED <<callVars, busy, armed>>
     \/ /\ busy' = TRUE
        /\ armed' = TRUE
        /\ state' = "Connecting"
        /\ Begin(name)
  /\ UNCHANGED <<world, name, ticking, jobVars, ours>>

(* onCancel cancels the context of the running call.                       *)
OnCancel ==
  /\ state = "Connecting"
  /\ armed
  /\ CancelCall
  /\ UNCHANGED <<uiVars, jobVars, ours>>

(* ConnectFull in its goroutine.                                           *)
CallSweeps(p) ==
  /\ SweepOther(p)
  /\ ours' = ours \ {p}
  /\ UNCHANGED <<uiVars, jobVars>>

CallDials ==
  /\ Dialled
  /\ ours' = ours \union {target}
  /\ UNCHANGED <<uiVars, jobVars>>

CallReturns ==
  /\ Returns
  /\ UNCHANGED <<uiVars, jobVars, ours>>

ConnectDoneStillArmed ==   \* slip: the stored cancel function is not cleared
  /\ Consume
  /\ busy' = FALSE
  /\ state' = IF result \in {"ok", "already"} THEN "Connected" ELSE "Error"
  /\ ticking' = IF result \in {"ok", "already"} THEN {target} ELSE ticking
  /\ UNCHANGED <<world, armed, name, disc, save, clean, probe, ours>>

ConnectDoneNoCleanUp ==   \* slip: a cancelled call is taken to have left nothing up
  /\ Consume
  /\ busy' = FALSE
  /\ armed' = FALSE
  /\ state' = CASE result \in {"ok", "already"} -> "Connected"
                [] result = "canceled" -> "Disconnected"
                [] OTHER -> "Error"
  /\ ticking' = IF result \in {"ok", "already"} THEN {target} ELSE ticking
  /\ UNCHANGED <<world, name, disc, save, clean, probe, ours>>

(* The completion closure.  Only a connect that worked (or found the       *)
(* tunnel up) starts the tickers; a cancelled one starts a clean-up.       *)
ConnectDone ==
  /\ Consume
  /\ busy' = FALSE
  /\ armed' = FALSE
  /\ CASE result = "canceled" ->
            /\ state' = "Disconnected"
            /\ \E s \in Slots :
                 /\ clean[s].pc = "free"
                 /\ clean' = [clean EXCEPT
                       ![s] = [pc |-> "hangup", p |-> target, st |-> "Unknown"]]
            /\ UNCHANGED ticking
       [] result \in {"ok", "already"} ->
            /\ state' = "Connected"
            /\ ticking' = {target}
            /\ UNCHANGED clean
       [] OTHER ->
            /\ state' = "Error"
            /\ UNCHANGED <<ticking, clean>>
  /\ UNCHANGED <<world, name, disc, save, probe, ours>>

-----------------------------------------------------------------------------
(* The clean-up after a cancelled connect: hang up (the error is ignored), *)
(* query the status (so is that error), show it.                           *)
CleanHangUp(s) ==
  /\ clean[s].pc = "hangup"
  /\ HungUp(clean[s].p) \/ UNCHANGED <<up, ours>>
  /\ clean' = [clean EXCEPT ![s].pc = "query"]
  /\ UNCHANGED <<phase, target, cancelled, result, uiVars, disc, save, probe>>

CleanQuery(s) ==
  /\ clean[s].pc = "query"
  /\ \E st \in StatusOf(clean[s].p) :
       clean' = [clean EXCEPT ![s].pc = "show", ![s].st = st]
  /\ UNCHANGED <<callVars, uiVars, disc, save, probe, ours>>

CleanShowRaw(s) ==   \* slip: whatever the query answered is shown as it is
  /\ clean[s].pc = "show"
  /\ state' = clean[s].st
  /\ clean' = [clean EXCEPT ![s].pc = "free", ![s].st = "Unknown"]
  /\ UNCHANGED <<world, callVars, busy, armed, name, ticking, disc, save, probe, ours>>

CleanShow(s) ==
  /\ clean[s].pc = "show"
  /\ state' = IF clean[s].st = "Connected" THEN "Connected" ELSE "Disconnected"
  /\ clean' = [clean EXCEPT ![s].pc = "free", ![s].st = "Unknown"]
  /\ UNCHANGED <<world, callVars, busy, armed, name, ticking, disc, save, probe, ours>>

-----------------------------------------------------------------------------
(* Disconnect *)

OnDisconnectUnlocked ==   \* slip: the tap does not look at the lock
  /\ UserActs
  /\ state = "Connected"
  /\ busy' = TRUE
  /\ state' = "Disconnecting"
  /\ disc' = [pc |-> "hangup", p |-> name]
  /\ UNCHANGED <<world, callVars, armed, name, ticking, save, clean, probe, ours>>

(* onDisconnect hangs up whatever profile is selected now.                 *)
OnDisconnect ==
  /\ UserActs
  /\ ~busy
  /\ state = "Connected"
  /\ busy' = TRUE
  /\ state' = "Disconnecting"
  /\ disc' = [pc |-> "hangup", p |-> name]
  /\ UNCHANGED <<world, callVars, armed, name, ticking, save, clean, probe, ours>>

DiscHangUpQuiet ==   \* slip: the error of the hang-up is dropped
  /\ disc.pc = "hangup"
  /\ HungUp(disc.p) \/ UNCHANGED <<up, ours>>
  /\ disc' = [disc EXCEPT !.pc = "ok"]
  /\ UNCHANGED <<phase, target, cancelled, result, uiVars, save, clean, probe>>

DiscHangUp ==
  /\ disc.pc = "hangup"
  /\ \/ /\ HungUp(disc.p)
        /\ disc' = [disc EXCEPT !.pc = "ok"]
     \/ /\ UNCHANGED <<up, ours>>
        /\ disc' = [disc EXCEPT !.pc = "err"]
  /\ UNCHANGED <<phase, target, cancelled, result, uiVars, save, clean, probe>>

DiscDoneStillTicking ==   \* slip: the tickers are not stopped
  /\ disc.pc \in {"ok", "err"}
  /\ busy' = FALSE
  /\ disc' = [disc EXCEPT !.pc = "none"]
  /\ state' = IF disc.pc = "ok" THEN "Disconnected" ELSE "Connected"
  /\ UNCHANGED <<world, callVars, armed, name, ticking, save, clean, probe, ours>>

DiscDone ==
  /\ disc.pc \in {"ok", "err"}
  /\ busy' = FALSE
  /\ disc' = [disc EXCEPT !.pc = "none"]
  /\ IF disc.pc = "ok"
     THEN state' = "Disconnected" /\ ticking' = {}
     ELSE state' = "Connected" /\ UNCHANGED ticking
  /\ UNCHANGED <<world, callVars, armed, name, save, clean, probe, ours>>

-----------------------------------------------------------------------------
(* Save *)

OnSaveUnlocked ==   \* slip: the handler relies on the button's enablement
  /\ UserActs
  /\ state \in {"Disconnected", "Error"}
  /\ busy' = TRUE
  /\ save' = [pc |-> "writing", keep |-> state]
  /\ UNCHANGED <<world, callVars, state, armed, name, ticking, disc, clean, probe, ours>>

(* The Save button is enabled by applyEnablement; the list may not parse.  *)
OnSave ==
  /\ UserActs
  /\ Startable
  /\ \/ /\ state' = "Error"
        /\ UNCHANGED <<busy, save>>
     \/ /\ busy' = TRUE
        /\ save' = [pc |-> "writing", keep |-> state]
        /\ UNCHANGED state
  /\ UNCHANGED <<world, callVars, armed, name, ticking, disc, clean, probe, ours>>

(* The closure of the save goroutine, after an error or a success.         *)
SaveDone ==
  /\ save.pc = "writing"
  /\ busy' = FALSE
  /\ save' = [pc |-> "none", keep |-> "Disconnected"]
  /\ \/ state' = "Error"
     \/ state' = IF save.keep = "Connected" THEN save.keep ELSE "Disconnected"
  /\ UNCHANGED <<world, callVars, armed, name, ticking, disc, clean, probe, ours>>

-----------------------------------------------------------------------------
(* The status probe of loadInitial, and the profile selector, which no     *)
(* state disables.                                                         *)
ProbeStart ==
  /\ probe.pc = "start"
  /\ probe' = [probe EXCEPT !.pc = "query", !.p = name]
  /\ UNCHANGED <<callVars, uiVars, disc, save, clean, ours>>

ProbeQuery ==
  /\ probe.pc = "query"
  /\ \E st \in StatusOf(probe.p) : probe' = [probe EXCEPT !.pc = "show", !.st = st]
  /\ UNCHANGED <<callVars, uiVars, disc, save, clean, ours>>

ProbeShow ==
  /\ probe.pc = "show"
  /\ state' = IF probe.st = "Connected" THEN "Connected" ELSE state
  /\ probe' = [probe EXCEPT !.pc = "done", !.st = "Unknown"]
  /\ UNCHANGED <<world, callVars, busy, armed, name, ticking, disc, save, clean, ours>>

OnProfileChanged(p) ==
  /\ p # name
  /\ PicksAnyTime \/ (Startable /\ Settled)
  /\ name' = p
  /\ UNCHANGED <<world, callVars, state, busy, armed, ticking, jobVars, ours>>

(* The world outside: a tunnel drops, another program dials.  The window   *)
(* is told of neither.                                                     *)
LinkDrops(p) ==
  /\ Drop(p)
  /\ ours' = ours \ {p}
  /\ UNCHANGED <<uiVars, jobVars>>

OthersDial(p) ==
  /\ Outsiders
  /\ DialOutside(p)
  /\ UNCHANGED <<uiVars, jobVars, ours>>

-----------------------------------------------------------------------------
Call == CallDials \/ CallReturns
CleanUp(s) == CleanHangUp(s) \/ CleanQuery(s) \/ CleanShow(s)
Probe == ProbeStart \/ ProbeQuery \/ ProbeShow

Next ==
  \/ OnConnect \/ OnCancel \/ OnDisconnect \/ OnSave
  \/ Call \/ ConnectDone
  \/ DiscHangUp \/ DiscDone
  \/ SaveDone
  \/ Probe
  \/ \E s \in Slots : CleanUp(s)
  \/ \E p \in Profiles :
       CallSweeps(p) \/ OnProfileChanged(p) \/ LinkDrops(p) \/ OthersDial(p)

(* Goroutines and queued closures run; external commands return.  The user *)
(* and the world outside owe nothing.                                      *)
Fairness ==
  /\ WF_vars(CallReturns) /\ WF_vars(ConnectDone)
  /\ WF_vars(DiscHangUp) /\ WF_vars(DiscDone)
  /\ WF_vars(SaveDone)
  /\ WF_vars(Probe)
  /\ \A s \in Slots : WF_vars(CleanUp(s))

Spec == Init /\ [][Next]_vars /\ Fairness

-----------------------------------------------------------------------------
Connecting == phase # "idle"
Disconnecting == disc.pc # "none"
Saving == save.pc # "none"

(* The busy lock is held exactly while one of the three operations runs,   *)
(* and two of them never overlap, however taps on the ring (which ignores  *)
(* the button's enablement) meet queued closures.                          *)
OneJob ==
  /\ busy <=> Connecting \/ Disconnecting \/ Saving
  /\ ~(Connecting /\ Disconnecting)
  /\ ~(Connecting /\ Saving)
  /\ ~(Disconnecting /\ Saving)

(* A window that shows a transition is really in it, and a shown "Cancel"  *)
(* reaches the call that is running: the cancel function is stored exactly *)
(* as long as a call is under way.                                         *)
SpinnerHasJob ==
  /\ armed <=> Connecting
  /\ state = "Connecting" => Connecting
  /\ state = "Disconnecting" => Disconnecting

(* The operations implement OneOperation.                                  *)
Operation ==
  CASE Connecting -> "connect"
    [] Disconnecting -> "disconnect"
    [] Saving -> "save"
    [] OTHER -> "idle"

Lock == INSTANCE OneOperation WITH op <- Operation

KeepsOneOperation == Lock!Spec

Quiet == ~busy /\ Settled

(* In a calm world, when nothing is pending, a tunnel this session brought *)
(* up and that is still up is the selected profile's and is shown as       *)
(* connected, so that the button takes it down: no cancel, failure or      *)
(* drop, in any order, leaves a tunnel behind that the window does not     *)
(* show.                                                                   *)
NoOrphanTunnel ==
  Calm /\ Quiet /\ ours # {} => state = "Connected" /\ ours = {name}

(* Why: at every moment one party answers for what is left of ours.  The   *)
(* call answers for its target once it has dialled, a disconnect and the   *)
(* one clean-up for the selected profile, and nobody else has anything.    *)
CallOwns ==
  Connecting =>
    /\ target = name
    /\ Settled
    /\ ours \subseteq IF phase = "up" \/ (phase = "returned" /\ result \in {"ok", "canceled"})
                     THEN {target} ELSE {}

DiscOwns ==
  Disconnecting =>
    /\ Settled
    /\ disc.p = name
    /\ ours \subseteq IF disc.pc = "ok" THEN {} ELSE {name}

CleanOwns ==
  \A s \in Slots : clean[s].pc # "free" =>
    /\ ~busy /\ probe.pc = "done"
    /\ \A t \in Slots : clean[t].pc # "free" => t = s
    /\ clean[s].p = name
    /\ ours \subseteq {name}
    /\ clean[s].pc = "show" /\ ours # {} => clean[s].st = "Connected"

OthersOwnNothing ==
  /\ probe.pc # "done" => ours = {} /\ ~busy
  /\ Saving => ours = {} /\ Settled
  /\ ours \subseteq up

OwnedTunnels ==
  Calm => CallOwns /\ DiscOwns /\ CleanOwns /\ OthersOwnNothing /\ NoOrphanTunnel

(* With a patient user the handlers implement Session, which the modules   *)
(* of the tickers are built on: however closures and reports meet, the     *)
(* state moves as it says, and the tickers start and stop with the         *)
(* connection they measure.                                                *)
Asking ==
  IF probe.pc # "done" THEN "start-up"
  ELSE IF \E s \in Slots : clean[s].pc # "free" THEN "clean-up" ELSE "no"

Seen == INSTANCE Session WITH asking <- Asking, ticking <- ticking # {}

KeepsSession ==
  /\ Patient => Seen!SessionInit
  /\ [][Patient => Seen!SessionNext]_(Seen!sessionVars)

-----------------------------------------------------------------------------
(* What the documents say and the code does not do (see README.md).        *)

(* "Disconnecting, then closed": a disconnect that reports success has     *)
(* taken down what the session brought up.                                 *)
ClosedMeansDown == [][Disconnecting /\ ~Disconnecting' /\ state' = "Disconnected"
                        => ours = {}]_vars

=============================================================================
