---------------------------- MODULE ProcessProofs ----------------------------
(***************************************************************************)
(* How a process of the program begins and ends: proofs about Quit, which  *)
(* runs once and says what it may leave up, and about SingleInstance, for  *)
(* any number of launches: who has the names, and that no two run at once. *)
(***************************************************************************)
EXTENDS Quit, SingleInstance, TLAPS

-----------------------------------------------------------------------------
(* Quit *)

(* What the two goroutines have done so far, by where they are.            *)
OneOfEach ==
  /\ ~quitting => waiting = "none"
  /\ waiting = "none" => dialogs = 0 /\ quits = 0
  /\ waiting \in {"waits", "closing"} => dialogs = 1 /\ quits = 0
  /\ waiting = "quit" => dialogs = 0 /\ quits = 1

Refusals ==
  /\ hanging \in {"none", "status", "hangup"} => refused = 0
  /\ hanging \in {"verify", "retry"} => refused \in 0 .. 1

(* Who else may have the tunnel up once the hang-up has been tried: nobody *)
(* but a call that was under way, since none is started any more.          *)
NoNewCall == quitting /\ ~midCall => phase = "idle"

Excused == midCall \/ redialled

TriedToClose ==
  /\ hanging \in {"verify", "retry"} /\ name \in up => Excused \/ refused = 1
  /\ hanging = "closed" /\ name \in up => Excused \/ misled \/ refused = 2

QuitInv == TypeOK /\ OneOfEach /\ Refusals /\ NoNewCall /\ TriedToClose

LEMMA QuitInit == Init => QuitInv
<1> SUFFICES ASSUME Init PROVE QuitInv
  OBVIOUS
<1>1. CallTypeOK
  BY DEF Init, CallInit, CallTypeOK
<1>2. TypeOK
  <2>1. /\ quitting \in BOOLEAN /\ alive \in BOOLEAN
        /\ misled \in BOOLEAN /\ midCall \in BOOLEAN /\ alive
        /\ redialled \in BOOLEAN /\ saving \in BOOLEAN /\ held \in BOOLEAN
    BY DEF Init
  <2> QED
    BY <1>1, <2>1 DEF Init, TypeOK
<1>3. OneOfEach /\ Refusals /\ TriedToClose
  BY DEF Init, OneOfEach, Refusals, TriedToClose
<1>4. NoNewCall
  BY DEF Init, NoNewCall
<1> QED
  BY <1>2, <1>3, <1>4 DEF QuitInv

LEMMA QuitStep == QuitInv /\ [Next]_vars => QuitInv'
<1> SUFFICES ASSUME QuitInv, [Next]_vars PROVE QuitInv'
  OBVIOUS
<1> USE DEF QuitInv, TypeOK, CallTypeOK, OneOfEach, Refusals, NoNewCall, Excused,
            TriedToClose
<1>1. CASE Press
  <2>1. midCall' \in BOOLEAN /\ (~midCall' => phase' = "idle")
    BY <1>1 DEF Press, callVars
  <2> QED
    BY <1>1, <2>1 DEF Press, callVars
<1>2. CASE AskStatus
  BY <1>2 DEF AskStatus, callVars
<1>3. CASE DisconnectFull
  BY <1>3 DEF DisconnectFull, HangUp
<1>4. CASE Verify
  BY <1>4 DEF Verify, callVars
<1>5. CASE Retry
  BY <1>5 DEF Retry, HangUp
<1>6. CASE WaitEnds
  BY <1>6 DEF WaitEnds, callVars, history
<1>7. CASE HideAndQuit
  BY <1>7 DEF HideAndQuit, callVars, history
<1>8. CASE ProcessExits
  <2>1. saving' \in BOOLEAN /\ held' \in BOOLEAN /\ alive' \in BOOLEAN /\ quitting' = quitting
    BY <1>8 DEF ProcessExits
  <2>2. quitting
    BY <1>8 DEF ProcessExits
  <2> QED
    BY <1>8, <2>1, <2>2 DEF ProcessExits, callVars, history
<1>9. ASSUME NEW p \in Profiles, ~quitting, Pick(p) PROVE QuitInv'
  BY <1>9 DEF Pick, callVars, quitVars, history
<1>10. CASE User
  <2>1. CASE ~quitting /\ Use(Begin(name)) /\ UNCHANGED <<saving, held>>
    BY <2>1 DEF Use, Begin, quitVars, history
  <2>2. CASE Use(CancelCall) /\ UNCHANGED <<saving, held>>
    BY <2>2 DEF Use, CancelCall, quitVars, history
  <2>3. CASE saving' = TRUE /\ UNCHANGED <<callVars, name, held, quitVars, history>>
    BY <2>3 DEF callVars, quitVars, history
  <2> QED
    BY <1>9, <1>10, <2>1, <2>2, <2>3 DEF User
<1>11. CASE Goes
  <2>1. CASE Use(Dialled) /\ UNCHANGED <<saving, held>>
    BY <2>1 DEF Use, Dialled, quitVars, history
  <2>2. CASE Use(Returns) /\ UNCHANGED <<saving, held>>
    BY <2>2 DEF Use, Returns, Return, quitVars, history
  <2>3. CASE ConnectDone
    <3>1. held' \in BOOLEAN
      BY <2>3 DEF ConnectDone
    <3> QED
      BY <2>3, <3>1 DEF ConnectDone, Use, Consume, quitVars, history
  <2>4. ASSUME NEW p \in Profiles, Use(SweepOther(p)), UNCHANGED <<saving, held>>
        PROVE  QuitInv'
    BY <2>4 DEF Use, SweepOther, quitVars, history
  <2>5. CASE SaveDone
    <3>1. saving' \in BOOLEAN /\ held' \in BOOLEAN
      BY <2>5 DEF SaveDone
    <3> QED
      BY <2>5, <3>1 DEF SaveDone, Use, callVars, quitVars, history
  <2>6. CASE ClosureEnds
    <3>1. saving' \in BOOLEAN /\ held' \in BOOLEAN
      BY <2>6 DEF ClosureEnds, Use
    <3> QED
      BY <2>6, <3>1 DEF ClosureEnds, Use, callVars, quitVars, history
  <2> QED
    BY <1>11, <2>1, <2>2, <2>3, <2>4, <2>5, <2>6 DEF Goes
<1>12. CASE World
  <2>1. ASSUME NEW p \in Profiles, Use(Drop(p)), UNCHANGED <<saving, held>>
        PROVE  QuitInv'
    BY <2>1 DEF Use, Drop, quitVars, history
  <2>2. ASSUME NEW p \in Profiles, OthersDial(p) PROVE QuitInv'
    BY <2>2 DEF OthersDial, DialOutside, quitVars
  <2> QED
    BY <1>12, <2>1, <2>2 DEF World
<1>13. CASE UNCHANGED vars
  BY <1>13 DEF vars, callVars, quitVars, history
<1> QED
  BY <1>1, <1>2, <1>3, <1>4, <1>5, <1>6, <1>7, <1>8, <1>9, <1>10, <1>11, <1>12,
     <1>13 DEF Next, Hanging

LEMMA QuitInvariant == Spec => []QuitInv
BY QuitInit, QuitStep, PTL DEF Spec

(* The goroutines run only while quitting, the hang-up is tried at most    *)
(* twice, and a.Quit is called at most once, however often Quit is chosen. *)
THEOREM QuitTypes == Spec => []TypeOK
BY QuitInvariant, PTL DEF QuitInv

(* What a program that quit in time leaves up, it could not close.         *)
THEOREM LeavesOnlyWhatItMust == Spec => []QuitCloses
<1>1. QuitInv => QuitCloses
  BY DEF QuitInv, TriedToClose, Excused, QuitCloses
<1> QED
  BY <1>1, QuitInvariant, PTL

-----------------------------------------------------------------------------
(* SingleInstance *)

LEMMA InstanceTypesInit == InstanceInit => InstanceTypeOK
BY DEF InstanceInit, InstanceTypeOK, Guarded, Alive

LEMMA InstanceTypesStep == InstanceTypeOK /\ [InstanceNext]_instanceVars => InstanceTypeOK'
<1> SUFFICES ASSUME InstanceTypeOK, [InstanceNext]_instanceVars PROVE InstanceTypeOK'
  OBVIOUS
<1> USE DEF InstanceTypeOK, Guarded, Alive
<1>1. ASSUME NEW p \in Launches, Launch(p) PROVE InstanceTypeOK'
  BY <1>1 DEF Launch, GoTo, window
<1>2. ASSUME NEW p \in Launches, CreateEvent(p) PROVE InstanceTypeOK'
  BY <1>2 DEF CreateEvent, OpenOrCreateEvent, GoTo, window
<1>3. ASSUME NEW p \in Launches, Signal(p) PROVE InstanceTypeOK'
  BY <1>3 DEF Signal, GoTo, window, faults
<1>4. ASSUME NEW p \in Launches, Listen(p) PROVE InstanceTypeOK'
  BY <1>4 DEF Listen, OpenOrCreateEvent, GoTo
<1>5. ASSUME NEW p \in Launches, FirstShow(p) PROVE InstanceTypeOK'
  BY <1>5 DEF FirstShow, Appears, GoTo, names, faults
<1>6. ASSUME NEW p \in Launches, Show(p) PROVE InstanceTypeOK'
  BY <1>6 DEF Show, Appears, names, faults
<1>7. ASSUME NEW p \in Launches, Wake(p) PROVE InstanceTypeOK'
  BY <1>7 DEF Wake, faults
<1>8. ASSUME NEW p \in Launches, Hide(p) PROVE InstanceTypeOK'
  BY <1>8 DEF Hide, names, faults
<1>9. ASSUME NEW p \in Launches, TrayShow(p) PROVE InstanceTypeOK'
  BY <1>9 DEF TrayShow, Appears, names, faults
<1>10. ASSUME NEW p \in Launches, Quit(p) PROVE InstanceTypeOK'
  BY <1>10 DEF Quit, GoTo, faults
<1>11. ASSUME NEW p \in Launches, Ends(p), owed' \in SUBSET Launches PROVE InstanceTypeOK'
  BY <1>11 DEF Ends, GoTo, faults
<1>12. CASE UNCHANGED instanceVars
  BY <1>12 DEF instanceVars, names, window, faults
<1> QED
  BY <1>1, <1>2, <1>3, <1>4, <1>5, <1>6, <1>7, <1>8, <1>9, <1>10, <1>11, <1>12
  DEF InstanceNext, Runs, Exit, Crash, InstanceEnds, LaunchEnds

(* Handles, goroutines and windows belong to processes that are there, the *)
(* event is signalled only while somebody has it, and a goroutine waits on *)
(* an open handle, also after the release of a process that quits.         *)
THEOREM InstanceTypes == InstanceSpec => []InstanceTypeOK
BY InstanceTypesInit, InstanceTypesStep, PTL DEF InstanceSpec

-----------------------------------------------------------------------------
(* A process that is past the guard has kept its handle of the mutex since *)
(* the guard: this is why the next launch does not create the mutex.       *)
HolderRuns == ~unguarded => \A p \in Launches : pc[p] \in Guarded => p \in mutex

GuardInv == InstanceTypeOK /\ HolderRuns /\ AtMostOne

LEMMA GuardInit == InstanceInit => GuardInv
BY InstanceTypesInit DEF InstanceInit, GuardInv, HolderRuns, AtMostOne, Guarded

(* A step that leaves the guard's failure and every other process alone,   *)
(* and does not bring p past the guard.                                    *)
LEMMA OneMoves ==
  ASSUME GuardInv, NEW p \in Launches, UNCHANGED unguarded,
         NEW step, pc' = [pc EXCEPT ![p] = step],
         step \in Guarded => pc[p] \in Guarded,
         mutex' = mutex \/ (step \notin Guarded /\ mutex' = mutex \ {p})
  PROVE  HolderRuns' /\ AtMostOne'
BY DEF GuardInv, InstanceTypeOK, HolderRuns, AtMostOne

LEMMA GuardStep == GuardInv /\ [InstanceNext]_instanceVars => GuardInv'
<1> SUFFICES ASSUME GuardInv, [InstanceNext]_instanceVars PROVE HolderRuns' /\ AtMostOne'
  BY InstanceTypesStep DEF GuardInv
<1> USE DEF Guarded
<1>1. ASSUME NEW p \in Launches, Launch(p) PROVE HolderRuns' /\ AtMostOne'
  BY <1>1 DEF Launch, GoTo, GuardInv, InstanceTypeOK, HolderRuns, AtMostOne
<1>2. ASSUME NEW p \in Launches, CreateEvent(p) PROVE HolderRuns' /\ AtMostOne'
  BY <1>2, OneMoves DEF CreateEvent, GoTo
<1>3. ASSUME NEW p \in Launches, Signal(p) PROVE HolderRuns' /\ AtMostOne'
  BY <1>3, OneMoves DEF Signal, GoTo, faults
<1>4. ASSUME NEW p \in Launches, Listen(p) PROVE HolderRuns' /\ AtMostOne'
  BY <1>4, OneMoves DEF Listen, GoTo
<1>5. ASSUME NEW p \in Launches, FirstShow(p) PROVE HolderRuns' /\ AtMostOne'
  BY <1>5, OneMoves DEF FirstShow, GoTo, names, faults
<1>6. ASSUME NEW p \in Launches, Quit(p) PROVE HolderRuns' /\ AtMostOne'
  BY <1>6, OneMoves DEF Quit, GoTo, faults
<1>7. ASSUME NEW p \in Launches, Ends(p) PROVE HolderRuns' /\ AtMostOne'
  BY <1>7, OneMoves DEF Ends, GoTo, faults
<1>8. CASE UNCHANGED <<pc, mutex, unguarded>>
  BY <1>8 DEF GuardInv, HolderRuns, AtMostOne
<1>9. ASSUME NEW p \in Launches, Show(p) \/ Wake(p) \/ Hide(p) \/ TrayShow(p)
      PROVE  UNCHANGED <<pc, mutex, unguarded>>
  BY <1>9 DEF Show, Wake, Hide, TrayShow, names, faults
<1>10. CASE UNCHANGED instanceVars
  BY <1>10, <1>8 DEF instanceVars, names, faults
<1> QED
  BY <1>1, <1>2, <1>3, <1>4, <1>5, <1>6, <1>7, <1>8, <1>9, <1>10
  DEF InstanceNext, Runs, Exit, Crash, InstanceEnds, LaunchEnds

(* However many launches overlap, and whichever instances quit or die      *)
(* between, at most one process is past the guard.                         *)
THEOREM OneInstance == InstanceSpec => []AtMostOne
<1>1. GuardInv => AtMostOne
  BY DEF GuardInv
<1> QED
  BY <1>1, GuardInit, GuardStep, PTL DEF InstanceSpec

-----------------------------------------------------------------------------
(* What the answer of a launch by hand rests on at every moment: its own   *)
(* window is to come, or the event is signalled and a process waits on it  *)
(* or will, or a Show is queued.                                           *)
Awaited(p) ==
  \/ pc[p] \in {"event", "listen", "show", "signal"}
  \/ set /\ \E q \in Launches : pc[q] = "listen" \/ q \in listening
  \/ queued # {}

NoLaunchForgotten == \A p \in owed : Awaited(p) \/ unguarded \/ deaf

(* Whoever holds the event listens or is about to, and only one who holds  *)
(* it has taken a signal.                                                  *)
EventIsHeard ==
  /\ ~deaf => \A p \in event : pc[p] = "listen" \/ p \in listening
  /\ queued \subseteq listening
  /\ owed \cap hides = {}
  /\ \A p \in Launches : pc[p] = "off" => p \notin hides \union owed

SignalInv == InstanceTypeOK /\ EventIsHeard /\ NoLaunchForgotten

LEMMA SignalInit == InstanceInit => SignalInv
BY InstanceTypesInit DEF InstanceInit, SignalInv, EventIsHeard, NoLaunchForgotten

LEMMA HeardStep ==
  ASSUME InstanceTypeOK, EventIsHeard, [InstanceNext]_instanceVars
  PROVE  EventIsHeard'
<1> USE DEF InstanceTypeOK, EventIsHeard, Guarded, Alive
<1>1. ASSUME NEW p \in Launches, Launch(p) PROVE EventIsHeard'
  BY <1>1 DEF Launch, GoTo, window
<1>2. ASSUME NEW p \in Launches, CreateEvent(p) PROVE EventIsHeard'
  BY <1>2 DEF CreateEvent, OpenOrCreateEvent, GoTo, window
<1>3. ASSUME NEW p \in Launches, Signal(p) PROVE EventIsHeard'
  BY <1>3 DEF Signal, GoTo, window, faults
<1>4. ASSUME NEW p \in Launches, Listen(p) PROVE EventIsHeard'
  BY <1>4 DEF Listen, OpenOrCreateEvent, GoTo
<1>5. ASSUME NEW p \in Launches, FirstShow(p) PROVE EventIsHeard'
  BY <1>5 DEF FirstShow, Appears, GoTo, names, faults
<1>6. ASSUME NEW p \in Launches, Show(p) \/ TrayShow(p) PROVE EventIsHeard'
  BY <1>6 DEF Show, TrayShow, Appears, names, faults
<1>7. ASSUME NEW p \in Launches, Wake(p) PROVE EventIsHeard'
  BY <1>7 DEF Wake, faults
<1>8. ASSUME NEW p \in Launches, Hide(p) PROVE EventIsHeard'
  BY <1>8 DEF Hide, names, faults
<1>9. ASSUME NEW p \in Launches, Quit(p) PROVE EventIsHeard'
  BY <1>9 DEF Quit, GoTo, faults
<1>10. ASSUME NEW p \in Launches, Ends(p), pc[p] # "off", owed' \in {owed, {}}
       PROVE  EventIsHeard'
  BY <1>10 DEF Ends, GoTo, faults
<1>11. CASE UNCHANGED instanceVars
  BY <1>11 DEF instanceVars, names, window, faults
<1> QED
  BY <1>1, <1>2, <1>3, <1>4, <1>5, <1>6, <1>7, <1>8, <1>9, <1>10, <1>11
  DEF InstanceNext, Runs, Exit, Crash, InstanceEnds, LaunchEnds

LEMMA SignalStep ==
  ASSUME SignalInv, [InstanceNext]_instanceVars
  PROVE  SignalInv'
<1> SUFFICES NoLaunchForgotten'
  BY InstanceTypesStep, HeardStep DEF SignalInv
<1>0. InstanceTypeOK /\ EventIsHeard /\ NoLaunchForgotten
  BY DEF SignalInv
<1>1. ASSUME NEW p \in Launches, Launch(p) PROVE NoLaunchForgotten'
  BY <1>0, <1>1 DEF Launch, GoTo, window, InstanceTypeOK, NoLaunchForgotten, Awaited
<1>2. ASSUME NEW p \in Launches, CreateEvent(p) PROVE NoLaunchForgotten'
  BY <1>0, <1>2 DEF CreateEvent, GoTo, window, InstanceTypeOK, NoLaunchForgotten, Awaited
<1>3. ASSUME NEW p \in Launches, Signal(p) PROVE NoLaunchForgotten'
  <2>1. CASE event # {}
    <3>1. deaf \/ \E q \in Launches : pc[q] = "listen" \/ q \in listening
      BY <1>0, <2>1 DEF EventIsHeard, InstanceTypeOK, Alive
    <3>2. set' /\ listening' = listening /\ deaf' = deaf
      BY <1>3, <2>1 DEF Signal, window, faults
    <3>3. \A q \in Launches : pc[q] = "listen" => pc'[q] = "listen"
      BY <1>0, <1>3 DEF Signal, GoTo, InstanceTypeOK
    <3> QED
      BY <3>1, <3>2, <3>3 DEF NoLaunchForgotten, Awaited
  <2>2. CASE event = {}
    BY <1>0, <1>3, <2>2 DEF Signal, GoTo, window, faults, InstanceTypeOK, NoLaunchForgotten,
       Awaited
  <2> QED
    BY <2>1, <2>2
<1>4. ASSUME NEW p \in Launches, Listen(p) PROVE NoLaunchForgotten'
  BY <1>0, <1>4 DEF Listen, GoTo, InstanceTypeOK, NoLaunchForgotten, Awaited
<1>5. ASSUME NEW p \in Launches, FirstShow(p) PROVE NoLaunchForgotten'
  BY <1>0, <1>5 DEF FirstShow, Appears, GoTo, names, faults, InstanceTypeOK, EventIsHeard,
     NoLaunchForgotten, Awaited
<1>6. ASSUME NEW p \in Launches, Show(p) \/ TrayShow(p) PROVE NoLaunchForgotten'
  BY <1>6 DEF Show, TrayShow, Appears, NoLaunchForgotten
<1>7. ASSUME NEW p \in Launches, Wake(p) PROVE NoLaunchForgotten'
  BY <1>7 DEF Wake, NoLaunchForgotten, Awaited
<1>8. ASSUME NEW p \in Launches, Hide(p) PROVE NoLaunchForgotten'
  BY <1>0, <1>8 DEF Hide, names, faults, NoLaunchForgotten, Awaited
<1>9. ASSUME NEW p \in Launches, Quit(p) PROVE NoLaunchForgotten'
  BY <1>0, <1>9 DEF Quit, GoTo, faults, InstanceTypeOK, EventIsHeard, NoLaunchForgotten,
     Awaited
<1>10. ASSUME NEW p \in Launches, InstanceEnds(p) PROVE NoLaunchForgotten'
  BY <1>10 DEF InstanceEnds, NoLaunchForgotten
<1>11. ASSUME NEW p \in Launches, LaunchEnds(p) PROVE NoLaunchForgotten'
  BY <1>0, <1>11 DEF LaunchEnds, Ends, GoTo, faults, InstanceTypeOK, EventIsHeard,
     NoLaunchForgotten, Awaited
<1>12. CASE UNCHANGED instanceVars
  BY <1>0, <1>12 DEF instanceVars, names, window, faults, NoLaunchForgotten, Awaited
<1> QED
  BY <1>1, <1>2, <1>3, <1>4, <1>5, <1>6, <1>7, <1>8, <1>9, <1>10, <1>11, <1>12
  DEF InstanceNext, Runs, Exit, Crash

(* No signal is lost between the launch that sets the event and the window *)
(* that comes up: at every moment, whichever processes quit or die, there  *)
(* is something that answers the launch.  That it does in the end is       *)
(* LaunchAnswered.                                                         *)
THEOREM SignalsAreKept == InstanceSpec => []NoLaunchForgotten
<1>1. SignalInv => NoLaunchForgotten
  BY DEF SignalInv
<1> QED
  BY <1>1, SignalInit, SignalStep, PTL DEF InstanceSpec

=============================================================================
