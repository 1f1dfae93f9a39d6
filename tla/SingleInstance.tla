---------------------------- MODULE SingleInstance ---------------------------
(***************************************************************************)
(* Launching Vepeen on Windows (cmd/vepeen/main.go,                        *)
(* internal/ui/single_instance_windows.go): a named mutex decides which    *)
(* process is the instance; a later launch sets a named auto-reset event   *)
(* and ends, and a goroutine of the instance that waits on the event shows *)
(* the window, which may be hidden in the tray.  Both names exist as long  *)
(* as some process has a handle, and a process that ends, in whichever     *)
(* way, loses its handles.  What quitting does first is Quit's subject.    *)
(***************************************************************************)
CONSTANTS
  Launches,   \* processes, each launched at most once
  CallsFail   \* CreateMutex and CreateEvent may fail

ASSUME CallsFailAssumption == CallsFail \in BOOLEAN

VARIABLES
  pc,         \* where each process is in main
  hides,      \* launched with --autostart
  mutex,      \* processes with a handle of the mutex
  event,      \* processes with a handle of the show event
  set,        \* the event is signalled
  listening,  \* processes whose goroutine waits on the event
  queued,     \* processes with a Show queued for their window's thread
  visible,    \* processes whose window is shown
  \* history:
  owed,       \* launches by hand that no window has answered yet
  unguarded,  \* CreateMutex has failed
  deaf        \* CreateEvent has failed

faults == <<unguarded, deaf>>
names == <<mutex, event, set>>
window == <<listening, queued, visible>>
instanceVars == <<pc, hides, names, window, owed, faults>>

Guarded == {"event", "listen", "show", "running"}   \* past the guard, not yet quit

Alive == {p \in Launches : pc[p] \notin {"off", "gone"}}

(* Names, goroutines and windows belong to processes that are there, and a *)
(* goroutine waits on a handle that is open.                               *)
InstanceTypeOK ==
  /\ pc \in [Launches -> Guarded \union {"off", "signal", "exiting", "gone"}]
  /\ hides \in SUBSET Launches
  /\ set \in BOOLEAN /\ unguarded \in BOOLEAN /\ deaf \in BOOLEAN
  /\ mutex \subseteq Alive /\ event \subseteq Alive
  /\ listening \subseteq Alive /\ queued \subseteq Alive /\ visible \subseteq Alive
  /\ owed \in SUBSET Launches
  /\ listening \subseteq event
  /\ set => event # {}

InstanceInit ==
  /\ pc = [p \in Launches |-> "off"]
  /\ hides = {}
  /\ mutex = {} /\ event = {} /\ set = FALSE
  /\ listening = {} /\ queued = {} /\ visible = {}
  /\ owed = {}
  /\ unguarded = FALSE /\ deaf = FALSE

-----------------------------------------------------------------------------
GoTo(p, step) == pc' = [pc EXCEPT ![p] = step]

(* AcquireSingleInstance: the process that creates the mutex is the        *)
(* instance; one that opens it has a handle of it too.  When CreateMutex   *)
(* fails the process goes on, without the event.                           *)
Launch(p) ==
  /\ pc[p] = "off"
  /\ \/ hides' = hides \union {p} /\ UNCHANGED owed
     \/ owed' = owed \union {p} /\ UNCHANGED hides
  /\ \/ /\ GoTo(p, IF mutex = {} THEN "event" ELSE "signal")
        /\ mutex' = mutex \union {p}
        /\ UNCHANGED unguarded
     \/ /\ CallsFail
        /\ GoTo(p, "listen")
        /\ unguarded' = TRUE
        /\ UNCHANGED mutex
  /\ UNCHANGED <<event, set, window, deaf>>

(* CreateEvent opens the event if it exists, signalled or not.             *)
OpenOrCreateEvent(p) == event' = event \union {p}

(* createShowEvent; its failure is not fatal.                              *)
CreateEvent(p) ==
  /\ pc[p] = "event"
  /\ GoTo(p, "listen")
  /\ \/ OpenOrCreateEvent(p) /\ UNCHANGED deaf
     \/ CallsFail /\ deaf' = TRUE /\ UNCHANGED event
  /\ UNCHANGED <<hides, mutex, set, window, owed, unguarded>>

SignalOrRun(p) ==   \* slip: a process that finds no event to signal runs itself
  /\ pc[p] = "signal"
  /\ IF event # {}
     THEN set' = TRUE /\ GoTo(p, "exiting")
     ELSE GoTo(p, "event") /\ UNCHANGED set
  /\ UNCHANGED <<hides, mutex, event, window, owed, faults>>

(* SignalExistingInstance, by a later launch: without an event (the first  *)
(* process has not created it yet) the signal is lost.  Then main returns. *)
Signal(p) ==
  /\ pc[p] = "signal"
  /\ IF event # {}
     THEN set' = TRUE /\ UNCHANGED owed
     ELSE owed' = owed \ {p} /\ UNCHANGED set
  /\ GoTo(p, "exiting")
  /\ UNCHANGED <<hides, mutex, event, window, faults>>

-----------------------------------------------------------------------------
(* The instance.  The window and the tray are built before it listens.     *)
Listen(p) ==
  /\ pc[p] = "listen"
  /\ GoTo(p, "show")
  /\ \/ /\ OpenOrCreateEvent(p)
        /\ listening' = listening \union {p}
        /\ UNCHANGED deaf
     \/ CallsFail /\ deaf' = TRUE /\ UNCHANGED <<event, listening>>
  /\ UNCHANGED <<hides, mutex, set, queued, visible, owed, unguarded>>

(* A window that comes up answers everybody who has asked for one.         *)
Appears(p) == visible' = visible \union {p} /\ owed' = {}

(* main shows the window, or leaves it in the tray; the main loop starts.  *)
FirstShow(p) ==
  /\ pc[p] = "show"
  /\ GoTo(p, "running")
  /\ IF p \in hides THEN UNCHANGED <<visible, owed>> ELSE Appears(p)
  /\ UNCHANGED <<hides, names, listening, queued, faults>>

WakeOnce(p) ==   \* slip: the goroutine ends after the first signal
  /\ p \in listening
  /\ set
  /\ set' = FALSE
  /\ queued' = queued \union {p}
  /\ listening' = listening \ {p}
  /\ UNCHANGED <<pc, hides, mutex, event, visible, owed, faults>>

(* The goroutine of ListenForShowSignal: one wait takes all the signals    *)
(* set before it, and queues one Show.  It lives as long as the process.   *)
Wake(p) ==
  /\ p \in listening
  /\ set
  /\ set' = FALSE
  /\ queued' = queued \union {p}
  /\ UNCHANGED <<pc, hides, mutex, event, listening, visible, owed, faults>>

Show(p) ==
  /\ pc[p] = "running"
  /\ p \in queued
  /\ queued' = queued \ {p}
  /\ Appears(p)
  /\ UNCHANGED <<pc, hides, names, listening, faults>>

(* The tray: X hides the window, the icon and the menu show it.            *)
Hide(p) ==
  /\ pc[p] = "running"
  /\ p \in visible
  /\ visible' = visible \ {p}
  /\ UNCHANGED <<pc, hides, names, listening, queued, owed, faults>>

TrayShow(p) ==
  /\ pc[p] = "running"
  /\ p \notin visible
  /\ Appears(p)
  /\ UNCHANGED <<pc, hides, names, listening, queued, faults>>

QuitClosingEvent(p) ==   \* slip: the handle that is closed is the listener's
  /\ pc[p] = "running"
  /\ GoTo(p, "exiting")
  /\ mutex' = mutex \ {p}
  /\ event' = event \ {p}
  /\ set' = (set /\ event' # {})
  /\ visible' = visible \ {p}
  /\ UNCHANGED <<hides, listening, queued, owed, faults>>

(* The main loop ends and the deferred release closes both handles; the    *)
(* listener keeps its own.                                                 *)
Quit(p) ==
  /\ pc[p] = "running"
  /\ GoTo(p, "exiting")
  /\ mutex' = mutex \ {p}
  /\ event' = event \ ({p} \ listening)
  /\ set' = (set /\ event' # {})
  /\ visible' = visible \ {p}
  /\ UNCHANGED <<hides, listening, queued, owed, faults>>

(* The process is over.  What its goroutine took from the event and did    *)
(* not show is gone with it.                                               *)
Ends(p) ==
  /\ GoTo(p, "gone")
  /\ mutex' = mutex \ {p}
  /\ event' = event \ {p}
  /\ set' = (set /\ event' # {})
  /\ listening' = listening \ {p}
  /\ queued' = queued \ {p}
  /\ visible' = visible \ {p}
  /\ UNCHANGED <<hides, faults>>

InstanceEnds(p) ==
  /\ pc[p] \in Guarded \/ (pc[p] = "exiting" /\ p \in event)
  /\ Ends(p)
  /\ owed' = {}

LaunchEnds(p) ==
  /\ pc[p] = "exiting" /\ p \notin event
  /\ Ends(p)
  /\ UNCHANGED owed

Exit(p) == pc[p] = "exiting" /\ (InstanceEnds(p) \/ LaunchEnds(p))
Crash(p) == pc[p] \in Guarded /\ InstanceEnds(p)

-----------------------------------------------------------------------------
Runs(p) ==
  CreateEvent(p) \/ Signal(p) \/ Listen(p) \/ FirstShow(p) \/ Show(p) \/ Exit(p)

InstanceNext ==
  \E p \in Launches :
    \/ Launch(p)
    \/ Runs(p) \/ Wake(p)
    \/ Hide(p) \/ TrayShow(p) \/ Quit(p)
    \/ Crash(p)

(* Processes and goroutines run, window threads serve their queues; users  *)
(* launch, hide and quit as they like.                                     *)
InstanceFairness ==
  \A p \in Launches : WF_instanceVars(Runs(p)) /\ WF_instanceVars(Wake(p))

InstanceSpec ==
  InstanceInit /\ [][InstanceNext]_instanceVars /\ InstanceFairness

-----------------------------------------------------------------------------
(* At most one process is past the guard and has not quit, whatever ended  *)
(* or crashed before: the window, the settings and the tunnels have one    *)
(* owner, unless a call of the guard itself failed ("fail open").          *)
AtMostOne ==
  ~unguarded => \A p, q \in Launches : pc[p] \in Guarded /\ pc[q] \in Guarded => p = q

(* "Second launch focuses the existing instance": a launch by hand that    *)
(* found the event gets a window shown, also when it falls into the        *)
(* start of a process that hides in the tray, and when several launches    *)
(* share one signal; unless the instance ends meanwhile.                   *)
LaunchAnswered ==
  \A p \in Launches : p \in owed ~> p \notin owed \/ unguarded \/ deaf

=============================================================================
