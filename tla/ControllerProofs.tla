-------------------------- MODULE ControllerProofs --------------------------
(***************************************************************************)
(* What holds of Controller for any number of profiles and clean-ups.      *)
(*                                                                         *)
(* The lock (OneJob, SpinnerHasJob) is inductive with the types and needs  *)
(* nothing of the user; who answers for a tunnel (OwnedTunnels), and with  *)
(* it NoOrphanTunnel, only holds in a calm world.  That the handlers       *)
(* implement OneOperation holds in every world, that they implement        *)
(* Session with a patient user.                                            *)
(***************************************************************************)
EXTENDS Controller, TLAPS

-----------------------------------------------------------------------------
(* Types *)

LEMMA InitTypes == Init => TypeOK
<1>. SUFFICES ASSUME Init PROVE TypeOK
  OBVIOUS
<1>1. CallTypeOK
  BY DEF Init, CallInit, CallTypeOK, Results
<1>2. disc \in Discs /\ save \in Saves /\ probe \in Probes
  BY DEF Init, CallInit, Discs, Saves, Probes, States, Statuses
<1>3. clean \in [Slots -> Cleans]
  BY DEF Init, CallInit, Cleans, Statuses
<1>. QED
  BY <1>1, <1>2, <1>3 DEF Init, CallInit, TypeOK, States

(* The clean-up of one slot moves on.                                      *)
LEMMA CleanMoves ==
  ASSUME clean \in [Slots -> Cleans], NEW s \in Slots,
         NEW c \in {"free", "hangup", "query", "show"}
  PROVE  /\ [clean EXCEPT ![s].pc = c] \in [Slots -> Cleans]
         /\ \A st \in Statuses : [clean EXCEPT ![s].pc = c, ![s].st = st] \in [Slots -> Cleans]
         /\ \A p \in Profiles :
              [clean EXCEPT ![s] = [pc |-> c, p |-> p, st |-> "Unknown"]] \in [Slots -> Cleans]
BY DEF Cleans, Statuses

(* So do the other goroutines.                                             *)
LEMMA JobMoves ==
  /\ disc \in Discs => \A c \in {"none", "hangup", "ok", "err"} :
       [disc EXCEPT !.pc = c] \in Discs
  /\ probe \in Probes => \A c \in {"start", "query", "show", "done"} :
       /\ \A p \in Profiles : [probe EXCEPT !.pc = c, !.p = p] \in Probes
       /\ \A st \in Statuses : [probe EXCEPT !.pc = c, !.st = st] \in Probes
BY DEF Discs, Probes, Statuses

LEMMA StatusTypes == \A p : StatusOf(p) \subseteq Statuses
BY DEF StatusOf, Statuses

LEMMA StepTypes == TypeOK /\ [Next]_vars => TypeOK'
<1>. SUFFICES ASSUME TypeOK, [Next]_vars PROVE TypeOK'
  OBVIOUS
<1>. USE DEF TypeOK, CallTypeOK
<1>1. CASE OnConnect
  BY <1>1 DEF OnConnect, Startable, Begin, Results, callVars, jobVars, States
<1>2. CASE OnCancel
  BY <1>2 DEF OnCancel, CancelCall, uiVars, jobVars
<1>3. CASE OnDisconnect
  BY <1>3 DEF OnDisconnect, callVars, Discs, States
<1>4. CASE OnSave
  <2>1. save' \in Saves
    BY <1>4 DEF OnSave, Saves
  <2>2. state' \in States
    BY <1>4 DEF OnSave, States
  <2>. QED
    BY <1>4, <2>1, <2>2 DEF OnSave, Startable, callVars
<1>5. CASE CallDials
  BY <1>5 DEF CallDials, Dialled, uiVars, jobVars
<1>6. CASE CallReturns
  BY <1>6 DEF CallReturns, Returns, Return, uiVars, jobVars
<1>7. CASE ConnectDone
  <2>1. CallTypeOK'
    BY <1>7 DEF ConnectDone, Consume
  <2>2. clean' \in [Slots -> Cleans]
    <3>1. CASE result = "canceled"
      <4>1. PICK s \in Slots :
              clean' = [clean EXCEPT ![s] = [pc |-> "hangup", p |-> target, st |-> "Unknown"]]
        BY <1>7, <3>1 DEF ConnectDone
      <4>. QED
        BY <4>1, CleanMoves
    <3>2. CASE result # "canceled"
      BY <1>7, <3>2 DEF ConnectDone
    <3>. QED BY <3>1, <3>2
  <2>3. state' \in States /\ ticking' \in SUBSET Profiles
    BY <1>7 DEF ConnectDone, States
  <2>. QED
    BY <1>7, <2>1, <2>2, <2>3 DEF ConnectDone
<1>8. CASE DiscHangUp
  BY <1>8, JobMoves DEF DiscHangUp, HungUp, uiVars
<1>9. CASE DiscDone
  BY <1>9, JobMoves DEF DiscDone, callVars, States
<1>10. CASE SaveDone
  BY <1>10 DEF SaveDone, callVars, Saves, States
<1>11. CASE ProbeStart
  BY <1>11, JobMoves DEF ProbeStart, callVars, uiVars
<1>12. CASE ProbeQuery
  BY <1>12, JobMoves, StatusTypes DEF ProbeQuery, callVars, uiVars
<1>13. CASE ProbeShow
  BY <1>13, JobMoves DEF ProbeShow, callVars, States, Statuses
<1>14. ASSUME NEW s \in Slots, CleanHangUp(s) PROVE TypeOK'
  BY <1>14, CleanMoves DEF CleanHangUp, HungUp, uiVars
<1>15. ASSUME NEW s \in Slots, CleanQuery(s) PROVE TypeOK'
  <2>1. PICK st \in StatusOf(clean[s].p) :
          clean' = [clean EXCEPT ![s].pc = "show", ![s].st = st]
    BY <1>15 DEF CleanQuery
  <2>2. clean' \in [Slots -> Cleans]
    BY <2>1, CleanMoves, StatusTypes
  <2>. QED
    BY <1>15, <2>2 DEF CleanQuery, callVars, uiVars
<1>16. ASSUME NEW s \in Slots, CleanShow(s) PROVE TypeOK'
  BY <1>16, CleanMoves DEF CleanShow, callVars, States, Statuses
<1>17. ASSUME NEW p \in Profiles, CallSweeps(p) PROVE TypeOK'
  BY <1>17 DEF CallSweeps, SweepOther, uiVars, jobVars
<1>18. ASSUME NEW p \in Profiles, OnProfileChanged(p) PROVE TypeOK'
  BY <1>18 DEF OnProfileChanged, Startable, callVars, jobVars
<1>19. ASSUME NEW p \in Profiles, LinkDrops(p) PROVE TypeOK'
  BY <1>19 DEF LinkDrops, Drop, uiVars, jobVars
<1>20. ASSUME NEW p \in Profiles, OthersDial(p) PROVE TypeOK'
  BY <1>20 DEF OthersDial, DialOutside, uiVars, jobVars
<1>21. CASE UNCHANGED vars
  BY <1>21 DEF vars, callVars, uiVars, jobVars
<1>. QED
  BY <1>1, <1>2, <1>3, <1>4, <1>5, <1>6, <1>7, <1>8, <1>9, <1>10, <1>11, <1>12,
     <1>13, <1>14, <1>15, <1>16, <1>17, <1>18, <1>19, <1>20, <1>21
  DEF Next, Call, CleanUp, Probe

(* Every variable of the controller keeps its type.                        *)
THEOREM Types == Spec => []TypeOK
BY InitTypes, StepTypes, PTL DEF Spec

-----------------------------------------------------------------------------
(* The lock *)

LockInv == OneJob /\ SpinnerHasJob

LEMMA InitLock == Init => LockInv
BY DEF Init, CallInit, LockInv, OneJob, SpinnerHasJob, Connecting, Disconnecting, Saving

LEMMA StepLock == TypeOK /\ LockInv /\ [Next]_vars => LockInv'
<1>. SUFFICES ASSUME TypeOK, LockInv, [Next]_vars PROVE LockInv'
  OBVIOUS
<1>. USE DEF LockInv, OneJob, SpinnerHasJob, Connecting, Disconnecting, Saving
<1>0. busy \in BOOLEAN /\ armed \in BOOLEAN
  BY DEF TypeOK
<1>1. CASE OnConnect
  BY <1>0, <1>1 DEF OnConnect, Startable, Begin, callVars, jobVars
<1>2. CASE OnCancel
  BY <1>2 DEF OnCancel, CancelCall, uiVars, jobVars
<1>3. CASE OnDisconnect
  BY <1>0, <1>3 DEF OnDisconnect, callVars
<1>4. CASE OnSave
  BY <1>0, <1>4 DEF OnSave, Startable, callVars
<1>5. CASE CallDials
  BY <1>5 DEF CallDials, Dialled, uiVars, jobVars
<1>6. CASE CallReturns
  BY <1>6 DEF CallReturns, Returns, Return, uiVars, jobVars
<1>7. CASE ConnectDone
  <2>1. phase = "returned" /\ phase' = "idle" /\ ~busy' /\ ~armed'
    BY <1>7 DEF ConnectDone, Consume
  <2>2. state' \in {"Disconnected", "Connected", "Error"}
    BY <1>7 DEF ConnectDone
  <2>. QED
    BY <1>0, <1>7, <2>1, <2>2 DEF ConnectDone
<1>8. CASE DiscHangUp
  <2>1. disc.pc = "hangup" /\ disc'.pc \in {"ok", "err"}
    BY <1>8 DEF DiscHangUp, TypeOK, Discs
  <2>. QED
    BY <1>8, <2>1 DEF DiscHangUp, uiVars
<1>9. CASE DiscDone
  <2>1. disc.pc # "none" /\ disc'.pc = "none"
    BY <1>9 DEF DiscDone, TypeOK, Discs
  <2>. QED
    BY <1>0, <1>9, <2>1 DEF DiscDone, callVars
<1>10. CASE SaveDone
  BY <1>0, <1>10 DEF SaveDone, callVars
<1>11. CASE ProbeStart
  BY <1>11 DEF ProbeStart, callVars, uiVars
<1>12. CASE ProbeQuery
  BY <1>12 DEF ProbeQuery, callVars, uiVars
<1>13. CASE ProbeShow
  BY <1>13 DEF ProbeShow, callVars
<1>14. ASSUME NEW s \in Slots, CleanHangUp(s) PROVE LockInv'
  BY <1>14 DEF CleanHangUp, uiVars
<1>15. ASSUME NEW s \in Slots, CleanQuery(s) PROVE LockInv'
  BY <1>15 DEF CleanQuery, callVars, uiVars
<1>16. ASSUME NEW s \in Slots, CleanShow(s) PROVE LockInv'
  BY <1>16 DEF CleanShow, callVars
<1>17. ASSUME NEW p \in Profiles, CallSweeps(p) PROVE LockInv'
  BY <1>17 DEF CallSweeps, SweepOther, uiVars, jobVars
<1>18. ASSUME NEW p \in Profiles, OnProfileChanged(p) PROVE LockInv'
  BY <1>18 DEF OnProfileChanged, Startable, callVars, jobVars
<1>19. ASSUME NEW p \in Profiles, LinkDrops(p) PROVE LockInv'
  BY <1>19 DEF LinkDrops, Drop, uiVars, jobVars
<1>20. ASSUME NEW p \in Profiles, OthersDial(p) PROVE LockInv'
  BY <1>20 DEF OthersDial, DialOutside, uiVars, jobVars
<1>21. CASE UNCHANGED vars
  BY <1>21 DEF vars, callVars, uiVars, jobVars
<1>. QED
  BY <1>1, <1>2, <1>3, <1>4, <1>5, <1>6, <1>7, <1>8, <1>9, <1>10, <1>11, <1>12,
     <1>13, <1>14, <1>15, <1>16, <1>17, <1>18, <1>19, <1>20, <1>21
  DEF Next, Call, CleanUp, Probe

(* The busy lock is held exactly while one operation runs, and two never   *)
(* overlap, for any number of profiles and pending clean-ups.              *)
THEOREM LockHeldByOneJob == Spec => []OneJob
<1>1. LockInv => OneJob
  BY DEF LockInv
<1>. QED
  BY InitTypes, InitLock, StepTypes, StepLock, <1>1, PTL DEF Spec

(* A shown transition is really under way, and Cancel reaches it.          *)
THEOREM SpinnerIsHonest == Spec => []SpinnerHasJob
<1>1. LockInv => SpinnerHasJob
  BY DEF LockInv
<1>. QED
  BY InitTypes, InitLock, StepTypes, StepLock, <1>1, PTL DEF Spec

-----------------------------------------------------------------------------
(* Tunnels *)

(* What kind of world it is does not change.                               *)
LEMMA SameWorld == [Next]_vars => world' = world
BY DEF Next, vars, uiVars, OnConnect, OnCancel, OnDisconnect, OnSave, Call, CallDials,
       CallReturns, ConnectDone, DiscHangUp, DiscDone, SaveDone, Probe, ProbeStart,
       ProbeQuery, ProbeShow, CleanUp, CleanHangUp, CleanQuery, CleanShow, CallSweeps,
       OnProfileChanged, LinkDrops, OthersDial

LEMMA CalmMeans == Calm => /\ UserActs => Settled
                           /\ ~PicksAnyTime
                           /\ ~StatusFails
BY DEF Calm, UserActs, Patient, PicksAnyTime, StatusFails

LEMMA InitOwned == Init => OwnedTunnels
BY DEF Init, CallInit, OwnedTunnels, CallOwns, DiscOwns, CleanOwns, OthersOwnNothing,
       NoOrphanTunnel, Connecting, Disconnecting, Saving

(* While the answer of a status query can only be the truth, a clean-up    *)
(* that queries with no call under way sees the tunnel if it is up.        *)
LEMMA StatusIsTrue ==
  ASSUME ~StatusFails, phase = "idle", NEW p \in up
  PROVE  StatusOf(p) = {"Connected"}
BY DEF StatusOf

LEMMA StepOwned ==
  ASSUME TypeOK, LockInv, OwnedTunnels, [Next]_vars
  PROVE  OwnedTunnels'
<1>. SUFFICES ASSUME Calm PROVE OwnedTunnels'
  BY SameWorld DEF OwnedTunnels, Calm
<1>. USE DEF LockInv, OneJob, SpinnerHasJob, Connecting, Disconnecting, Saving
<1>. USE DEF OwnedTunnels, CallOwns, DiscOwns, CleanOwns, OthersOwnNothing,
             NoOrphanTunnel, Quiet
<1>0. /\ busy \in BOOLEAN
      /\ ours \subseteq up
      /\ UserActs => Settled
  BY CalmMeans DEF TypeOK
<1>1. CASE OnConnect
  BY <1>0, <1>1 DEF OnConnect, Startable, Begin, callVars, jobVars, Settled
<1>2. CASE OnCancel
  BY <1>2 DEF OnCancel, CancelCall, uiVars, jobVars, Settled
<1>3. CASE OnDisconnect
  BY <1>0, <1>3 DEF OnDisconnect, callVars, Settled
<1>4. CASE OnSave
  BY <1>0, <1>4 DEF OnSave, Startable, callVars, Settled
<1>5. CASE CallDials
  BY <1>5 DEF CallDials, Dialled, uiVars, jobVars, Settled, TypeOK, CallTypeOK
<1>6. CASE CallReturns
  <2>1. PICK r \in Results : Return(r)
    BY <1>6 DEF CallReturns, Returns
  <2>. QED
    BY <1>6, <2>1 DEF CallReturns, Return, uiVars, jobVars, Settled
<1>7. CASE ConnectDone
  BY <1>7 DEF ConnectDone, Consume, Settled, TypeOK
<1>8. CASE DiscHangUp
  BY <1>8 DEF DiscHangUp, HungUp, uiVars, Settled, TypeOK, Discs
<1>9. CASE DiscDone
  BY <1>9 DEF DiscDone, callVars, Settled, TypeOK, Discs
<1>10. CASE SaveDone
  BY <1>10 DEF SaveDone, callVars, Settled
<1>11. CASE ProbeStart
  BY <1>11 DEF ProbeStart, callVars, uiVars, Settled, TypeOK, Probes
<1>12. CASE ProbeQuery
  BY <1>12 DEF ProbeQuery, callVars, uiVars, Settled, TypeOK, Probes
<1>13. CASE ProbeShow
  BY <1>13 DEF ProbeShow, callVars, Settled, TypeOK, Probes
<1>14. ASSUME NEW s \in Slots, CleanHangUp(s) PROVE OwnedTunnels'
  BY <1>14 DEF CleanHangUp, HungUp, uiVars, Settled, TypeOK, Cleans
<1>15. ASSUME NEW s \in Slots, CleanQuery(s) PROVE OwnedTunnels'
  <2>1. PICK st \in StatusOf(clean[s].p) :
          clean' = [clean EXCEPT ![s].pc = "show", ![s].st = st]
    BY <1>15 DEF CleanQuery
  <2>2. clean[s].pc = "query" /\ UNCHANGED <<callVars, uiVars, disc, save, probe, ours>>
    BY <1>15 DEF CleanQuery
  <2>3. phase = "idle" /\ ours \subseteq {clean[s].p}
    BY <2>2
  <2>4. ours # {} => st = "Connected"
    <3>1. ours # {} => clean[s].p \in up
      BY <1>0, <2>3
    <3>. QED
      BY <2>1, <2>3, <3>1, StatusIsTrue, CalmMeans
  <2>5. CleanOwns'
    BY <2>1, <2>2, <2>4 DEF callVars, uiVars, TypeOK, Cleans
  <2>. QED
    BY <2>1, <2>2, <2>5 DEF callVars, uiVars, Settled, TypeOK, Cleans
<1>16. ASSUME NEW s \in Slots, CleanShow(s) PROVE OwnedTunnels'
  BY <1>16 DEF CleanShow, callVars, Settled, TypeOK, Cleans
<1>17. ASSUME NEW p \in Profiles, CallSweeps(p) PROVE OwnedTunnels'
  BY <1>17 DEF CallSweeps, SweepOther, uiVars, jobVars, Settled
<1>18. ASSUME NEW p \in Profiles, OnProfileChanged(p) PROVE OwnedTunnels'
  BY <1>18, CalmMeans DEF OnProfileChanged, Startable, callVars, jobVars, Settled
<1>19. ASSUME NEW p \in Profiles, LinkDrops(p) PROVE OwnedTunnels'
  BY <1>19 DEF LinkDrops, Drop, uiVars, jobVars, Settled
<1>20. ASSUME NEW p \in Profiles, OthersDial(p) PROVE OwnedTunnels'
  BY <1>20 DEF OthersDial, DialOutside, uiVars, jobVars, Settled
<1>21. CASE UNCHANGED vars
  BY <1>21 DEF vars, callVars, uiVars, jobVars, Settled
<1>. QED
  BY <1>1, <1>2, <1>3, <1>4, <1>5, <1>6, <1>7, <1>8, <1>9, <1>10, <1>11, <1>12,
     <1>13, <1>14, <1>15, <1>16, <1>17, <1>18, <1>19, <1>20, <1>21
  DEF Next, Call, CleanUp, Probe

(* With a patient user, who picks no other profile while a tunnel may be   *)
(* up, and a status query that answers, no order of cancels, failures and  *)
(* drops leaves a tunnel up behind a window that does not show it: at      *)
(* every moment one party answers for what is left of ours.                *)
THEOREM TunnelsAreOwned == Spec => []OwnedTunnels
<1>1. TypeOK /\ LockInv /\ OwnedTunnels /\ [Next]_vars => OwnedTunnels'
  BY StepOwned
<1>. QED
  BY InitTypes, InitLock, InitOwned, StepTypes, StepLock, <1>1, PTL DEF Spec

(* So, once all is quiet, no tunnel of the session is up behind a window   *)
(* that does not show it.                                                  *)
THEOREM NoOrphans == Spec => []NoOrphanTunnel
<1>1. OwnedTunnels => NoOrphanTunnel
  BY DEF OwnedTunnels, NoOrphanTunnel
<1>. QED
  BY TunnelsAreOwned, <1>1, PTL

-----------------------------------------------------------------------------
(* Operations *)

(* The safety half of KeepsOneOperation: a step of the controller starts   *)
(* one operation when none is under way, ends the one that is, or leaves   *)
(* it alone.  That each one ends is left to the run Controller.            *)
LEMMA StepOperation ==
  ASSUME TypeOK, LockInv, [Next]_vars
  PROVE  [Lock!Next]_Operation
<1>. USE DEF LockInv, OneJob, SpinnerHasJob
<1>. USE DEF Operation, Connecting, Disconnecting, Saving
<1>. USE DEF Lock!Next, Lock!Start, Lock!Finish, Lock!Operations
<1>1. CASE OnConnect
  BY <1>1 DEF OnConnect, Startable, Begin, callVars, jobVars
<1>2. CASE OnCancel
  BY <1>2 DEF OnCancel, CancelCall, uiVars, jobVars
<1>3. CASE OnDisconnect
  BY <1>3 DEF OnDisconnect, callVars
<1>4. CASE OnSave
  BY <1>4 DEF OnSave, Startable, callVars
<1>5. CASE CallDials
  BY <1>5 DEF CallDials, Dialled, uiVars, jobVars
<1>6. CASE CallReturns
  BY <1>6 DEF CallReturns, Returns, Return, uiVars, jobVars
<1>7. CASE ConnectDone
  BY <1>7 DEF ConnectDone, Consume
<1>8. CASE DiscHangUp
  BY <1>8 DEF DiscHangUp, uiVars, TypeOK, Discs
<1>9. CASE DiscDone
  BY <1>9 DEF DiscDone, callVars, TypeOK, Discs
<1>10. CASE SaveDone
  BY <1>10 DEF SaveDone, callVars
<1>11. CASE Probe
  BY <1>11 DEF Probe, ProbeStart, ProbeQuery, ProbeShow, callVars, uiVars
<1>12. ASSUME NEW s \in Slots, CleanUp(s) PROVE UNCHANGED Operation
  BY <1>12 DEF CleanUp, CleanHangUp, CleanQuery, CleanShow, callVars, uiVars
<1>13. ASSUME NEW p \in Profiles, CallSweeps(p) PROVE UNCHANGED Operation
  BY <1>13 DEF CallSweeps, SweepOther, uiVars, jobVars
<1>14. ASSUME NEW p \in Profiles, OnProfileChanged(p) PROVE UNCHANGED Operation
  BY <1>14 DEF OnProfileChanged, Startable, callVars, jobVars
<1>15. ASSUME NEW p \in Profiles, LinkDrops(p) \/ OthersDial(p) PROVE UNCHANGED Operation
  BY <1>15 DEF LinkDrops, Drop, OthersDial, DialOutside, uiVars, jobVars
<1>16. CASE UNCHANGED vars
  BY <1>16 DEF vars, callVars, uiVars, jobVars
<1>. QED
  BY <1>1, <1>2, <1>3, <1>4, <1>5, <1>6, <1>7, <1>8, <1>9, <1>10, <1>11, <1>12,
     <1>13, <1>14, <1>15, <1>16
  DEF Next, Call

(* Saves, connects and disconnects take turns.                             *)
THEOREM OperationsTakeTurns == Spec => Lock!Init /\ [][Lock!Next]_Operation
<1>1. Init => Lock!Init
  BY DEF Init, CallInit, Lock!Init, Operation, Connecting, Disconnecting, Saving
<1>2. TypeOK /\ LockInv /\ [Next]_vars => [Lock!Next]_Operation
  BY StepOperation
<1>. QED
  BY InitTypes, InitLock, StepTypes, StepLock, <1>1, <1>2, PTL DEF Spec

-----------------------------------------------------------------------------
(* The session *)

(* What waiting for reports buys: the state shows which operation runs,    *)
(* nothing runs beside a pending report, and there is one of those.        *)
OneAtATime ==
  /\ Connecting => state = "Connecting" /\ Settled
  /\ Disconnecting => state = "Disconnecting" /\ Settled
  /\ Saving =>
       /\ state \in {"Disconnected", "Error"} /\ save.keep # "Connected"
       /\ Settled

OneReport ==
  /\ ~Settled => state = "Disconnected"
  /\ probe.pc # "done" => \A s \in Slots : clean[s].pc = "free"
  /\ \A s, t \in Slots : clean[s].pc # "free" /\ clean[t].pc # "free" => s = t

TickersMatch == ticking # {} => state \in {"Connected", "Disconnecting"}

PatientInv == Patient => OneAtATime /\ OneReport /\ TickersMatch

LEMMA InitPatient == Init => PatientInv
BY DEF Init, CallInit, PatientInv, OneAtATime, OneReport, TickersMatch, Connecting,
       Disconnecting, Saving

LEMMA StepPatient ==
  ASSUME TypeOK, LockInv, PatientInv, [Next]_vars
  PROVE  PatientInv'
<1>. SUFFICES ASSUME Patient PROVE PatientInv'
  BY SameWorld DEF PatientInv, Patient
<1>. USE DEF PatientInv, OneAtATime, OneReport, TickersMatch
<1>. USE DEF LockInv, OneJob, SpinnerHasJob, Connecting, Disconnecting, Saving
<1>0. /\ UserActs => Settled
      /\ OneAtATime /\ OneReport /\ TickersMatch
      /\ busy \in BOOLEAN
  BY DEF UserActs, TypeOK
<1>1. CASE OnConnect
  BY <1>0, <1>1 DEF OnConnect, Startable, Begin, callVars, jobVars, Settled
<1>2. CASE OnCancel
  BY <1>0, <1>2 DEF OnCancel, CancelCall, uiVars, jobVars, Settled
<1>3. CASE OnDisconnect
  BY <1>0, <1>3 DEF OnDisconnect, callVars, Settled
<1>4. CASE OnSave
  BY <1>0, <1>4 DEF OnSave, Startable, callVars, Settled
<1>5. CASE CallDials
  BY <1>0, <1>5 DEF CallDials, Dialled, uiVars, jobVars, Settled
<1>6. CASE CallReturns
  BY <1>0, <1>6 DEF CallReturns, Returns, Return, uiVars, jobVars, Settled
<1>7. CASE ConnectDone
  BY <1>0, <1>7 DEF ConnectDone, Consume, Settled, TypeOK
<1>8. CASE DiscHangUp
  BY <1>0, <1>8 DEF DiscHangUp, uiVars, Settled, TypeOK, Discs
<1>9. CASE DiscDone
  BY <1>0, <1>9 DEF DiscDone, callVars, Settled, TypeOK, Discs
<1>10. CASE SaveDone
  BY <1>0, <1>10 DEF SaveDone, callVars, Settled
<1>11. CASE Probe
  BY <1>0, <1>11 DEF Probe, ProbeStart, ProbeQuery, ProbeShow, callVars, uiVars, Settled,
     TypeOK, Probes
<1>12. ASSUME NEW s \in Slots, CleanUp(s) PROVE PatientInv'
  BY <1>0, <1>12 DEF CleanUp, CleanHangUp, CleanQuery, CleanShow, callVars, uiVars,
     Settled, TypeOK, Cleans
<1>13. ASSUME NEW p \in Profiles, CallSweeps(p) PROVE PatientInv'
  BY <1>0, <1>13 DEF CallSweeps, SweepOther, uiVars, jobVars, Settled
<1>14. ASSUME NEW p \in Profiles, OnProfileChanged(p) PROVE PatientInv'
  BY <1>0, <1>14 DEF OnProfileChanged, Startable, callVars, jobVars, Settled
<1>15. ASSUME NEW p \in Profiles, LinkDrops(p) \/ OthersDial(p) PROVE PatientInv'
  BY <1>0, <1>15 DEF LinkDrops, Drop, OthersDial, DialOutside, uiVars, jobVars, Settled
<1>16. CASE UNCHANGED vars
  BY <1>0, <1>16 DEF vars, callVars, uiVars, jobVars, Settled
<1>. QED
  BY <1>1, <1>2, <1>3, <1>4, <1>5, <1>6, <1>7, <1>8, <1>9, <1>10, <1>11, <1>12,
     <1>13, <1>14, <1>15, <1>16
  DEF Next, Call

LEMMA AskingMeans ==
  /\ Settled <=> Asking = "no"
  /\ probe.pc # "done" <=> Asking = "start-up"
BY DEF Asking, Settled

(* Nothing that only moves an operation on concerns the session.           *)
LEMMA SameSession ==
  ASSUME UNCHANGED <<state, ticking, probe, clean>>
  PROVE  UNCHANGED Seen!sessionVars
BY DEF Seen!sessionVars, Asking

LEMMA StepSession ==
  ASSUME TypeOK, LockInv, PatientInv, [Next]_vars
  PROVE  [Patient => Seen!SessionNext]_(Seen!sessionVars)
<1>. SUFFICES ASSUME Patient PROVE [Seen!SessionNext]_(Seen!sessionVars)
  OBVIOUS
<1>. USE DEF LockInv, OneJob, SpinnerHasJob, Connecting, Disconnecting, Saving
<1>. USE DEF Seen!SessionNext, Seen!Idle
<1>0. /\ UserActs => Settled
      /\ OneAtATime /\ OneReport /\ TickersMatch
  BY DEF UserActs, PatientInv
<1>1. CASE OnConnect
  <2>1. Asking = "no" /\ Asking' = "no" /\ ticking' = ticking
    BY <1>0, <1>1, AskingMeans DEF OnConnect, jobVars, Asking
  <2>. QED
    BY <1>1, <2>1 DEF OnConnect, Startable, Seen!Connects, Seen!Remarks
<1>2. CASE OnDisconnect
  <2>1. Asking' = Asking /\ ticking' = ticking
    BY <1>2 DEF OnDisconnect, Asking
  <2>. QED
    BY <1>2, <2>1 DEF OnDisconnect, Seen!Disconnects
<1>3. CASE OnSave
  <2>1. Asking = "no" /\ Asking' = "no" /\ ticking' = ticking
    BY <1>0, <1>3, AskingMeans DEF OnSave, Asking
  <2>. QED
    BY <1>3, <2>1 DEF OnSave, Startable, Seen!sessionVars, Seen!Remarks
<1>4. CASE SaveDone
  <2>1. Asking = "no" /\ Asking' = "no" /\ ticking' = ticking
    BY <1>0, <1>4, AskingMeans DEF SaveDone, Asking, OneAtATime
  <2>. QED
    BY <1>0, <1>4, <2>1 DEF SaveDone, OneAtATime, Seen!Remarks
<1>5. CASE ConnectDone
  <2>1. state = "Connecting" /\ Asking = "no" /\ probe.pc = "done"
    BY <1>0, <1>5, AskingMeans DEF ConnectDone, Consume, OneAtATime, Settled
  <2>2. CASE result = "canceled"
    <3>1. PICK s \in Slots :
            clean' = [clean EXCEPT ![s] = [pc |-> "hangup", p |-> target, st |-> "Unknown"]]
      BY <1>5, <2>2 DEF ConnectDone
    <3>2. clean'[s].pc = "hangup" /\ probe' = probe
      BY <1>5, <3>1 DEF ConnectDone, TypeOK
    <3>3. Asking' = "clean-up"
      BY <2>1, <3>2 DEF Asking
    <3>. QED
      BY <1>5, <2>1, <2>2, <3>3 DEF ConnectDone, Seen!IsCancelled
  <2>3. CASE result \in {"ok", "already"}
    <3>1. Asking' = Asking
      BY <1>5, <2>3 DEF ConnectDone, Asking
    <3>2. (ticking # {})' = TRUE
      BY <1>5, <2>3 DEF ConnectDone
    <3>. QED
      BY <1>5, <2>1, <2>3, <3>1, <3>2 DEF ConnectDone, Seen!GoesUp
  <2>4. CASE result \notin {"ok", "already", "canceled"}
    <3>1. Asking' = Asking /\ ticking' = ticking
      BY <1>5, <2>4 DEF ConnectDone, Asking
    <3>. QED
      BY <1>5, <2>1, <2>4, <3>1 DEF ConnectDone, Seen!Fails
  <2>. QED
    BY <2>2, <2>3, <2>4
<1>6. CASE DiscDone
  <2>1. state = "Disconnecting" /\ Asking' = Asking
    BY <1>0, <1>6 DEF DiscDone, Asking, OneAtATime
  <2>2. (disc.pc = "ok") => (ticking # {})' = FALSE
    BY <1>6 DEF DiscDone
  <2>. QED
    BY <1>6, <2>1, <2>2 DEF DiscDone, Seen!Closes, Seen!StaysUp
<1>7. CASE ProbeShow
  <2>1. /\ Asking = "start-up" /\ probe'.pc = "done"
        /\ \A s \in Slots : clean'[s].pc = "free"
    BY <1>0, <1>7 DEF ProbeShow, OneReport, Asking, TypeOK, Probes
  <2>2. Asking' = "no"
    BY <2>1 DEF Asking
  <2>. QED
    BY <1>7, <2>1, <2>2 DEF ProbeShow, Seen!Reports
<1>8. CASE ProbeStart \/ ProbeQuery
  <2>1. probe.pc # "done" /\ probe'.pc # "done" /\ UNCHANGED <<state, ticking>>
    BY <1>8 DEF ProbeStart, ProbeQuery, uiVars, TypeOK, Probes
  <2>2. Asking' = Asking
    BY <2>1 DEF Asking
  <2>. QED
    BY <2>1, <2>2 DEF Seen!sessionVars
<1>9. ASSUME NEW s \in Slots, CleanShow(s)
      PROVE  Seen!SessionNext
  <2>1. Asking = "clean-up" /\ state = "Disconnected" /\ probe.pc = "done"
    BY <1>0, <1>9 DEF CleanShow, OneReport, Asking, Settled
  <2>2. clean' \in [Slots -> Cleans] /\ \A t \in Slots : clean'[t].pc = "free"
    BY <1>0, <1>9 DEF CleanShow, OneReport, TypeOK, Cleans, Statuses
  <2>3. Asking' = "no" /\ ticking' = ticking
    BY <1>9, <2>1, <2>2 DEF CleanShow, Asking
  <2>. QED
    BY <1>9, <2>1, <2>3 DEF CleanShow, Seen!Reports
<1>10. ASSUME NEW s \in Slots, CleanHangUp(s) \/ CleanQuery(s)
       PROVE  UNCHANGED Seen!sessionVars
  <2>1. /\ clean[s].pc # "free" /\ clean'[s].pc # "free"
        /\ UNCHANGED <<state, ticking, probe>>
    BY <1>10 DEF CleanHangUp, CleanQuery, uiVars, TypeOK, Cleans
  <2>2. Asking' = Asking
    BY <2>1 DEF Asking
  <2>. QED
    BY <2>1, <2>2 DEF Seen!sessionVars
<1>11. CASE OnCancel \/ Call \/ DiscHangUp
  BY <1>11, SameSession DEF OnCancel, Call, CallDials, CallReturns, DiscHangUp, uiVars, jobVars
<1>12. ASSUME NEW p \in Profiles,
              CallSweeps(p) \/ OnProfileChanged(p) \/ LinkDrops(p) \/ OthersDial(p)
       PROVE  UNCHANGED Seen!sessionVars
  BY <1>12, SameSession DEF CallSweeps, OnProfileChanged, LinkDrops, OthersDial, uiVars, jobVars
<1>13. CASE UNCHANGED vars
  BY <1>13, SameSession DEF vars, uiVars, jobVars
<1>. QED
  BY <1>1, <1>2, <1>3, <1>4, <1>5, <1>6, <1>7, <1>8, <1>9, <1>10, <1>11, <1>12, <1>13
  DEF Next, Probe, CleanUp

(* With a patient user every step of the controller is one of Session, or  *)
(* leaves the state, the pending report and the tickers alone: this is     *)
(* what the modules of the tickers are built on.                           *)
THEOREM ImplementsSession == Spec => KeepsSession
<1>1. Init => (Patient => Seen!SessionInit)
  BY DEF Init, Seen!SessionInit, Asking
<1>2. TypeOK /\ LockInv /\ PatientInv /\ [Next]_vars => PatientInv'
  BY StepPatient
<1>3. TypeOK /\ LockInv /\ PatientInv /\ [Next]_vars
        => [Patient => Seen!SessionNext]_(Seen!sessionVars)
  BY StepSession
<1>. QED
  BY InitTypes, InitLock, InitPatient, StepTypes, StepLock, <1>1, <1>2, <1>3,
     PTL DEF Spec, KeepsSession

=============================================================================
