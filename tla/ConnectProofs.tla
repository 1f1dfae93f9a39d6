---------------------------- MODULE ConnectProofs ----------------------------
(***************************************************************************)
(* What holds of ConnectFull and DarwinCall for every set of profiles,     *)
(* prefixes and domains, and whatever other programs do: the types, what a *)
(* quiet success means for the profile's routes, and that each step of     *)
(* either engine is one the window's contract allows.                      *)
(***************************************************************************)
EXTENDS DarwinCall, TLAPS

-----------------------------------------------------------------------------
(* Types *)

LEMMA InitTypeOK == Init => TypeOK
BY TargetsAssumption
   DEF Init, TypeOK, Steps, Results, Requests, Entries, Warnings

LEMMA RoutesAtDialType ==
  ASSUME TypeOK, NEW p \in Profiles, NEW routes \in RoutesAtDial(p)
  PROVE  routes \in SUBSET (Prefixes \union {DefaultRoute})
<1>1. profileRoutes[p] \in SUBSET Prefixes
  BY DEF TypeOK
<1> QED
  BY <1>1 DEF RoutesAtDial

(* The fields of a request that its steps use.                             *)
LEMMA RequestFields ==
  ASSUME TypeOK
  PROVE  /\ req.name \in Targets /\ req.name \in Profiles
         /\ req.entries \in SUBSET Entries
         /\ req.all \in BOOLEAN /\ req.malformed \in BOOLEAN
BY TargetsAssumption DEF TypeOK, Requests

LEMMA StepTypeOK == TypeOK /\ Step => TypeOK'
<1> SUFFICES ASSUME TypeOK, Step PROVE TypeOK'
  OBVIOUS
<1>f. req.name \in Profiles
  BY RequestFields
<1> USE DEF TypeOK, GoTo, Finish, CheckThen, Warn, Steps, Results, Warnings
<1>1. CASE NatCheck
  BY <1>1 DEF NatCheck
<1>2. CASE Parse
  BY <1>2 DEF Parse, osVars
<1>3. CASE ResolveOK
  <2>1. want' \in SUBSET Prefixes
    BY <1>3 DEF ResolveOK
  <2> QED
    BY <1>3, <2>1 DEF ResolveOK, osVars
<1>4. CASE ResolveError
  BY <1>4 DEF ResolveError, osVars
<1>5. CASE ListOthers
  BY <1>5 DEF ListOthers, osVars
<1>6. ASSUME NEW p \in Profiles, HangUpOther(p) PROVE TypeOK'
  BY <1>6 DEF HangUpOther
<1>7. CASE SweepDone
  BY <1>7 DEF SweepDone, osVars
<1>8. CASE SetFlag
  <2>1. split' \in [Profiles -> BOOLEAN]
    BY <1>8, RequestFields DEF SetFlag
  <2> QED
    BY <1>8, <2>1 DEF SetFlag
<1>9. CASE ListRoutes
  <2>1. PICK stored \in {profileRoutes[req.name], {}} :
          /\ stale' = stored \ want
          /\ missing' = want \ stored
          /\ blind' = (blind \/ stored # profileRoutes[req.name])
    BY <1>9 DEF ListRoutes
  <2>2. stale' \in SUBSET Prefixes /\ missing' \in SUBSET Prefixes /\ blind' \in BOOLEAN
    BY <1>f, <2>1
  <2> QED
    BY <1>9, <2>2 DEF ListRoutes, osVars
<1>10. CASE SyncError
  BY <1>10 DEF SyncError, osVars
<1>11. CASE SyncDone
  BY <1>11 DEF SyncDone, osVars
<1>12. ASSUME NEW p \in Prefixes, RemoveStale(p) \/ AddMissing(p) PROVE TypeOK'
  <2>1. profileRoutes' \in [Profiles -> SUBSET Prefixes]
    BY <1>12, <1>f DEF RemoveStale, AddMissing
  <2> QED
    BY <1>12, <2>1 DEF RemoveStale, AddMissing
<1>13. CASE CheckBeforeDial
  BY <1>13 DEF CheckBeforeDial, osVars
<1>14. CASE DialOK
  <2>1. up' \in SUBSET Profiles
    BY <1>14, <1>f DEF DialOK
  <2>2. liveRoutes' \in [Profiles -> SUBSET (Prefixes \union {DefaultRoute})]
    BY <1>14, <1>f, RoutesAtDialType DEF DialOK
  <2> QED
    BY <1>14, <2>1, <2>2 DEF DialOK
<1>15. CASE DialError
  BY <1>15 DEF DialError, osVars
<1>16. CASE CheckAfterDial
  BY <1>16 DEF CheckAfterDial, osVars
<1>17. CASE Enforce
  <2>1. \A routes \in AfterEnforce(liveRoutes[req.name]) :
          routes \in SUBSET (Prefixes \union {DefaultRoute})
    BY <1>f DEF AfterEnforce
  <2>2. liveRoutes' \in [Profiles -> SUBSET (Prefixes \union {DefaultRoute})]
    BY <1>17, <2>1 DEF Enforce
  <2>3. warned' \in SUBSET Warnings
    BY <1>17 DEF Enforce
  <2> QED
    BY <1>17, <2>2, <2>3 DEF Enforce
<1> QED
  BY <1>1, <1>2, <1>3, <1>4, <1>5, <1>6, <1>7, <1>8, <1>9, <1>10, <1>11, <1>12,
     <1>13, <1>14, <1>15, <1>16, <1>17 DEF Step

(* What the window and the world do.                                       *)
Around ==
  \/ \E r \in Requests : Call(r)
  \/ Cancel \/ Take
  \/ \E p \in Profiles : Drop(p) \/ DialOutside(p)

LEMMA NextIs == Next <=> Step \/ Around
BY DEF Next, Around

LEMMA AroundTypeOK == TypeOK /\ Around => TypeOK'
<1> SUFFICES ASSUME TypeOK, Around PROVE TypeOK'
  OBVIOUS
<1> USE DEF TypeOK, GoTo, Steps, Results, Warnings
<1>1. ASSUME NEW r \in Requests, Call(r) PROVE TypeOK'
  BY <1>1 DEF Call, osVars
<1>2. CASE Cancel \/ Take
  BY <1>2 DEF Cancel, Take, osVars
<1>3. ASSUME NEW p \in Profiles, Drop(p) PROVE TypeOK'
  BY <1>3 DEF Drop, callVars
<1>4. ASSUME NEW p \in Profiles, DialOutside(p) PROVE TypeOK'
  <2>1. liveRoutes' \in [Profiles -> SUBSET (Prefixes \union {DefaultRoute})]
    BY <1>4, RoutesAtDialType DEF DialOutside
  <2> QED
    BY <1>4, <2>1 DEF DialOutside, callVars
<1> QED
  BY <1>1, <1>2, <1>3, <1>4 DEF Around

(* The locals of a call and the settings of the system have their types    *)
(* throughout; a result is one of the codes the window compares with.      *)
THEOREM ConnectTypes == Spec => []TypeOK
<1>1. TypeOK /\ [Next]_vars => TypeOK'
  <2>1. CASE Next
    BY <2>1, NextIs, StepTypeOK, AroundTypeOK
  <2>2. CASE UNCHANGED vars
    BY <2>2 DEF vars, callVars, osVars, TypeOK
  <2> QED
    BY <2>1, <2>2
<1> QED
  BY <1>1, InitTypeOK, PTL DEF Spec

-----------------------------------------------------------------------------
(* The routes of the profile                                               *)

(* The steps from which the profile's routes are as SyncRoutes left them,  *)
(* and those from which its flag is as it was set.                         *)
Synchronised == pc \in {"check", "dial", "connected", "enforce"}
Succeeded == pc \in {"done", "idle"} /\ result = "ok"

(* While SyncRoutes edits, what it has yet to do is what differs from the  *)
(* destinations; it takes no listed route for stale.                       *)
EditsPending ==
  pc = "sync" =>
    /\ ~req.all
    /\ stale \intersect want = {} /\ missing \subseteq want
    /\ want \ missing \subseteq profileRoutes[req.name]
    /\ ~blind => profileRoutes[req.name] = (want \ missing) \union stale

(* Afterwards the routes are the destinations, unless it gave up; a query  *)
(* that came back empty can only have left too many.                       *)
RoutesAsAsked ==
  (Synchronised \/ Succeeded) /\ ~req.all /\ "sync" \notin warned =>
    /\ want \subseteq profileRoutes[req.name]
    /\ ~blind => profileRoutes[req.name] = want

FlagAsAsked ==
  (pc \in {"routes", "sync"} \/ Synchronised \/ Succeeded) /\ ~blind /\ "split" \notin warned
    => split[req.name] = ~req.all

(* Only split mode gets to the steps that edit routes.                     *)
EditsInSplitMode == pc \in {"routes", "sync"} => ~req.all

RoutesInv == TypeOK /\ EditsInSplitMode /\ EditsPending /\ RoutesAsAsked /\ FlagAsAsked

(* A step that neither edits the profile nor changes what was asked keeps  *)
(* the three facts when it goes from one of their steps to the next.       *)
LEMMA StepKeepsRoutes == RoutesInv /\ Step => RoutesInv'
<1> SUFFICES ASSUME RoutesInv, Step PROVE RoutesInv'
  OBVIOUS
<1>t. TypeOK'
  BY StepTypeOK DEF RoutesInv
<1>f. req.name \in Profiles /\ req.all \in BOOLEAN
  BY RequestFields DEF RoutesInv
<1>u. pc \notin {"idle", "done"} /\ req' = req
  BY DEF Step, NatCheck, Parse, ResolveOK, ResolveError, ListOthers, HangUpOther, SweepDone,
         SetFlag, ListRoutes, SyncError, SyncDone, RemoveStale, AddMissing, CheckBeforeDial,
         DialOK, DialError, CheckAfterDial, Enforce
<1> USE DEF EditsInSplitMode, EditsPending, RoutesAsAsked, FlagAsAsked, Synchronised, Succeeded,
            GoTo, Finish, CheckThen, Warn
<1> DEFINE Goal == EditsInSplitMode' /\ EditsPending' /\ RoutesAsAsked' /\ FlagAsAsked'
<1> SUFFICES Goal
  BY <1>t DEF RoutesInv
<1>1. CASE NatCheck
  BY <1>1 DEF NatCheck, RoutesInv
<1>2. CASE Parse
  BY <1>2 DEF Parse, RoutesInv, osVars
<1>3. CASE ResolveOK \/ ResolveError
  BY <1>3 DEF ResolveOK, ResolveError, RoutesInv, osVars
<1>4. CASE ListOthers \/ SweepDone
  BY <1>4 DEF ListOthers, SweepDone, RoutesInv, osVars
<1>5. ASSUME NEW p \in Profiles, HangUpOther(p) PROVE Goal
  BY <1>5 DEF HangUpOther, RoutesInv
<1>6. CASE SetFlag
  BY <1>6, <1>f DEF SetFlag, RoutesInv, TypeOK
<1>7. CASE ListRoutes
  <2>1. PICK stored \in {profileRoutes[req.name], {}} :
          /\ stale' = stored \ want
          /\ missing' = want \ stored
          /\ blind' = (blind \/ stored # profileRoutes[req.name])
    BY <1>7 DEF ListRoutes
  <2> QED
    BY <1>7, <2>1 DEF ListRoutes, RoutesInv, osVars
<1>8. CASE SyncError
  BY <1>8 DEF SyncError, RoutesInv, osVars
<1>9. CASE SyncDone
  BY <1>9 DEF SyncDone, RoutesInv, osVars
<1>10. ASSUME NEW p \in Prefixes, RemoveStale(p) PROVE Goal
  <2>1. profileRoutes'[req.name] = profileRoutes[req.name] \ {p}
    BY <1>10, <1>f DEF RemoveStale, RoutesInv, TypeOK
  <2> QED
    BY <1>10, <2>1 DEF RemoveStale, RoutesInv
<1>11. ASSUME NEW p \in Prefixes, AddMissing(p) PROVE Goal
  <2>1. profileRoutes'[req.name] = profileRoutes[req.name] \union {p}
    BY <1>11, <1>f DEF AddMissing, RoutesInv, TypeOK
  <2> QED
    BY <1>11, <2>1 DEF AddMissing, RoutesInv
<1>12. CASE CheckBeforeDial
  BY <1>12 DEF CheckBeforeDial, RoutesInv, osVars
<1>13. CASE DialOK
  BY <1>13 DEF DialOK, RoutesInv
<1>14. CASE DialError
  BY <1>14 DEF DialError, RoutesInv, osVars
<1>15. CASE CheckAfterDial
  BY <1>15 DEF CheckAfterDial, RoutesInv, osVars
<1>16. CASE Enforce
  BY <1>16 DEF Enforce, RoutesInv
<1> QED
  BY <1>1, <1>2, <1>3, <1>4, <1>5, <1>6, <1>7, <1>8, <1>9, <1>10, <1>11, <1>12,
     <1>13, <1>14, <1>15, <1>16 DEF Step

LEMMA AroundKeepsRoutes == RoutesInv /\ Around => RoutesInv'
<1> SUFFICES ASSUME RoutesInv, Around PROVE RoutesInv'
  OBVIOUS
<1>t. TypeOK'
  BY AroundTypeOK DEF RoutesInv
<1> USE DEF EditsInSplitMode, EditsPending, RoutesAsAsked, FlagAsAsked, Synchronised, Succeeded,
            GoTo
<1>1. ASSUME NEW r \in Requests, Call(r) PROVE RoutesInv'
  BY <1>1, <1>t DEF Call, RoutesInv
<1>2. CASE Cancel \/ Take
  BY <1>2, <1>t DEF Cancel, Take, RoutesInv, osVars
<1>3. ASSUME NEW p \in Profiles, Drop(p) \/ DialOutside(p) PROVE RoutesInv'
  BY <1>3, <1>t DEF Drop, DialOutside, RoutesInv, callVars
<1> QED
  BY <1>1, <1>2, <1>3 DEF Around

LEMMA RoutesKept == Spec => []RoutesInv
<1>1. Init => RoutesInv
  BY InitTypeOK DEF Init, RoutesInv, EditsInSplitMode, EditsPending, RoutesAsAsked,
                    FlagAsAsked, Synchronised, Succeeded
<1>2. RoutesInv /\ [Next]_vars => RoutesInv'
  <2>1. CASE Next
    BY <2>1, NextIs, StepKeepsRoutes, AroundKeepsRoutes
  <2>2. CASE UNCHANGED vars
    BY <2>2 DEF vars, callVars, osVars, RoutesInv, TypeOK, EditsInSplitMode, EditsPending,
                RoutesAsAsked, FlagAsAsked, Synchronised, Succeeded
  <2> QED
    BY <2>1, <2>2
<1> QED
  BY <1>1, <1>2, PTL DEF Spec

(* A call that succeeds without a warning leaves the profile as the        *)
(* request asked: for any number of stored, wanted and resolved routes.    *)
THEOREM SuccessIsAsAsked == Spec => []QuietSuccess
<1>1. RoutesInv => QuietSuccess
  BY DEF RoutesInv, RoutesAsAsked, FlagAsAsked, Succeeded, QuietSuccess
<1> QED
  BY <1>1, RoutesKept, PTL

(* SyncRoutes removes no listed destination and adds no unlisted one, not  *)
(* even for a moment, and touches no other profile.                        *)
THEOREM EditsOnlyWhatDiffers == Spec => RouteEditsAreNeeded
<1> DEFINE Needed ==
      \A p \in Profiles : profileRoutes'[p] # profileRoutes[p] =>
        /\ p = req.name /\ ~req.all
        /\ (profileRoutes[p] \ profileRoutes'[p]) \intersect want = {}
        /\ profileRoutes'[p] \ profileRoutes[p] \subseteq want
<1>1. RoutesInv /\ [Next]_vars => [Needed]_profileRoutes
  <2> SUFFICES ASSUME RoutesInv, Next, profileRoutes' # profileRoutes
               PROVE  Needed
    BY DEF vars, osVars
  <2>1. PICK q \in Prefixes : RemoveStale(q) \/ AddMissing(q)
    BY DEF Next, Step, NatCheck, Parse, ResolveOK, ResolveError, ListOthers, HangUpOther,
           SweepDone, SetFlag, ListRoutes, SyncError, SyncDone, CheckBeforeDial, DialOK,
           DialError, CheckAfterDial, Enforce, Call, Cancel, Take, Drop, DialOutside, osVars
  <2>2. pc = "sync" /\ (q \in stale \/ q \in missing)
    BY <2>1 DEF RemoveStale, AddMissing
  <2>3. \/ q \in stale /\ profileRoutes' = [profileRoutes EXCEPT ![req.name] = @ \ {q}]
        \/ q \in missing /\ profileRoutes' = [profileRoutes EXCEPT ![req.name] = @ \union {q}]
    BY <2>1 DEF RemoveStale, AddMissing
  <2> QED
    BY <2>2, <2>3 DEF RoutesInv, EditsPending, TypeOK
<1> QED
  BY <1>1, RoutesKept, PTL DEF Spec, RouteEditsAreNeeded

(* A tunnel the call brings up carries every listed destination from its   *)
(* first moment, when the synchronisation before the dial worked.          *)
THEOREM StartsRouted == Spec => TunnelStartsRouted
<1> DEFINE Routed ==
      pc = "dial" /\ pc' = "connected" /\ req.name \notin up
      /\ ~req.all /\ "sync" \notin warned
        => want \subseteq liveRoutes'[req.name]
<1>1. RoutesInv /\ [Next]_vars => [Routed]_vars
  <2> SUFFICES ASSUME RoutesInv, Next, pc = "dial", pc' = "connected",
                      req.name \notin up, ~req.all, "sync" \notin warned
               PROVE  want \subseteq liveRoutes'[req.name]
    OBVIOUS
  <2>1. DialOK
    BY DEF Next, Step, NatCheck, Parse, ResolveOK, ResolveError, ListOthers, HangUpOther,
           SweepDone, SetFlag, ListRoutes, SyncError, SyncDone, RemoveStale, AddMissing,
           CheckBeforeDial, DialError, CheckAfterDial, Enforce, Call, Cancel, Take, Drop,
           DialOutside, callVars, GoTo, Finish
  <2>2. want \subseteq profileRoutes[req.name]
    BY DEF RoutesInv, RoutesAsAsked, Synchronised
  <2>3. PICK routes \in RoutesAtDial(req.name) :
          liveRoutes' = [liveRoutes EXCEPT ![req.name] = routes]
    BY <2>1 DEF DialOK
  <2>4. profileRoutes[req.name] \subseteq routes
    BY <2>3 DEF RoutesAtDial
  <2>5. liveRoutes'[req.name] = routes
    BY <2>3, RequestFields DEF RoutesInv, TypeOK
  <2> QED
    BY <2>2, <2>4, <2>5
<1> QED
  BY <1>1, RoutesKept, PTL DEF Spec, TunnelStartsRouted

-----------------------------------------------------------------------------
(* Either engine                                                           *)

(* The types of everything but pc, which has two more steps on macOS.      *)
LocalsTyped ==
  /\ req \in Requests
  /\ cancelled \in BOOLEAN
  /\ result \in Results \union {"none"}
  /\ up \in SUBSET Profiles
  /\ sweep \in SUBSET Profiles
  /\ starting \in SUBSET Profiles

(* The call never takes its own tunnel for another one.                    *)
SweepSparesOwn == req.name \notin sweep

EngineInv == LocalsTyped /\ SweepSparesOwn

LEMMA EngineName ==
  ASSUME LocalsTyped
  PROVE  req.name \in Profiles /\ req.all \in BOOLEAN
BY TargetsAssumption DEF LocalsTyped, Requests

LEMMA ManagerStepIsStep == ManagerStep => Step
BY DEF ManagerStep, Step

(* The steps of the call that ConnectFull has too.                         *)
LEMMA StepKeepsEngine ==
  ASSUME EngineInv, Step
  PROVE  req' = req /\ cancelled' = cancelled /\ result' \in Results \union {"none"}
         /\ up' \in SUBSET Profiles /\ sweep' \in SUBSET Profiles /\ req.name \notin sweep'
<1>f. req.name \in Profiles
  BY EngineName DEF EngineInv
<1> USE DEF EngineInv, LocalsTyped, SweepSparesOwn, GoTo, Finish, CheckThen, Results
<1>1. CASE NatCheck \/ Parse \/ ResolveOK \/ ResolveError \/ SweepDone
  BY <1>1 DEF NatCheck, Parse, ResolveOK, ResolveError, SweepDone, osVars
<1>2. CASE ListOthers
  BY <1>2 DEF ListOthers, osVars
<1>3. ASSUME NEW p \in Profiles, HangUpOther(p)
      PROVE  /\ req' = req /\ cancelled' = cancelled /\ result' = result
             /\ up' \in SUBSET Profiles /\ sweep' = sweep \ {p}
  BY <1>3 DEF HangUpOther
<1>4. CASE SetFlag \/ ListRoutes \/ SyncError \/ SyncDone
  BY <1>4 DEF SetFlag, ListRoutes, SyncError, SyncDone, osVars
<1>5. ASSUME NEW p \in Prefixes, RemoveStale(p) \/ AddMissing(p)
      PROVE  UNCHANGED <<req, cancelled, result, up, sweep>>
  BY <1>5 DEF RemoveStale, AddMissing
<1>6. CASE CheckBeforeDial \/ DialError \/ CheckAfterDial \/ Enforce
  BY <1>6 DEF CheckBeforeDial, DialError, CheckAfterDial, Enforce, osVars
<1>7. CASE DialOK
  BY <1>7, <1>f DEF DialOK
<1> QED
  BY <1>1, <1>2, <1>3, <1>4, <1>5, <1>6, <1>7 DEF Step

LEMMA EngineStepKeeps == EngineInv /\ [EngineNext]_engineVars => EngineInv'
<1> SUFFICES ASSUME EngineInv, [EngineNext]_engineVars PROVE EngineInv'
  OBVIOUS
<1>f. req.name \in Profiles
  BY EngineName DEF EngineInv
<1> USE DEF EngineInv, LocalsTyped, SweepSparesOwn
<1>1. ASSUME Step, starting' \in SUBSET Profiles PROVE EngineInv'
  BY <1>1, StepKeepsEngine
<1>2. CASE EngineStep
  <2>1. CASE ~mac
    BY <1>1, <1>2, <2>1 DEF EngineStep, macVars
  <2>2. CASE (ManagerStep /\ UNCHANGED macVars) \/ MacStartError
    BY <1>1, <2>2, ManagerStepIsStep DEF MacStartError, Step, macVars
  <2>3. CASE MacList
    BY <1>1, <2>3 DEF MacList, Step
  <2>4. ASSUME NEW p \in Profiles, MacHangUp(p) PROVE EngineInv'
    BY <1>1, <2>4 DEF MacHangUp, Step
  <2>5. CASE MacSkip \/ MacPollUp
    BY <2>5 DEF MacSkip, MacPollUp, GoTo, osVars, macVars
  <2>6. CASE MacStart
    BY <1>f, <2>6 DEF MacStart, GoTo, osVars
  <2>7. CASE MacPollFails \/ MacEnforce \/ MacPrompt
    BY <2>7 DEF MacPollFails, MacEnforce, MacPrompt, GoTo, Finish, osVars, Results
  <2> QED
    BY <1>2, <2>1, <2>2, <2>3, <2>4, <2>5, <2>6, <2>7 DEF EngineStep, MacStep
<1>3. ASSUME NEW r \in Requests, Call(r), UNCHANGED macVars PROVE EngineInv'
  BY <1>3 DEF Call, osVars, macVars
<1>4. CASE (Cancel \/ Take) /\ UNCHANGED macVars
  BY <1>4 DEF Cancel, Take, GoTo, osVars, macVars
<1>5. ASSUME NEW p \in Profiles, Drop(p) \/ DialOutside(p), starting' \in SUBSET Profiles
      PROVE  EngineInv'
  BY <1>5 DEF Drop, DialOutside, callVars
<1>6. ASSUME NEW p \in Profiles, MacComesUp(p) \/ MacStaysDown(p) PROVE EngineInv'
  BY <1>6 DEF MacComesUp, MacStaysDown, callVars, osVars
<1>7. ASSUME NEW p \in Profiles, MacDialOutside(p) PROVE EngineInv'
  BY <1>5, <1>7 DEF MacDialOutside
<1>8. CASE UNCHANGED engineVars
  BY <1>8 DEF engineVars, vars, callVars, osVars, macVars
<1> QED
  BY <1>2, <1>3, <1>4, <1>5, <1>6, <1>7, <1>8 DEF EngineNext, macVars

LEMMA EngineInitTyped == EngineInit => EngineInv
BY TargetsAssumption DEF EngineInit, Init, EngineInv, LocalsTyped, SweepSparesOwn, Requests, Results,
                         Entries

LEMMA EngineKept == EngineSpec => []EngineInv
BY EngineInitTyped, EngineStepKeeps, PTL DEF EngineSpec

-----------------------------------------------------------------------------
(* The contract                                                            *)

InSetup(step) ==
  step \in {"nat", "parse", "resolve", "list", "hangup", "flag", "routes", "sync", "check",
            "dial", "poll"}

LEMMA PhaseOfStep ==
  /\ EnginePhase = "idle" <=> pc = "idle"
  /\ pc = "done" => EnginePhase = "returned"
  /\ pc \in {"connected", "enforce", "prompt"} => EnginePhase = "up"
  /\ InSetup(pc) => EnginePhase = "setup"
BY DEF EnginePhase, Phase, InSetup

LEMMA PhaseOfStepPrimed ==
  /\ pc' = "idle" => EnginePhase' = "idle"
  /\ pc' = "done" => EnginePhase' = "returned"
  /\ pc' \in {"connected", "enforce", "prompt"} => EnginePhase' = "up"
  /\ InSetup(pc') => EnginePhase' = "setup"
  /\ pc' = pc => EnginePhase' = EnginePhase
BY DEF EnginePhase, Phase, InSetup

ContractStep == [EngineContract!CallNext]_(EngineContract!callVars)

(* The ways in which a step of an engine is one of the contract's.         *)
LEMMA SilentStep ==
  ASSUME \/ InSetup(pc) /\ InSetup(pc')
         \/ pc \in {"connected", "enforce", "prompt"} /\ pc' \in {"connected", "enforce", "prompt"}
         \/ pc' = pc,
         UNCHANGED <<req, cancelled, result, up>>
  PROVE  ContractStep
<1>1. EnginePhase' = EnginePhase
  BY PhaseOfStep, PhaseOfStepPrimed
<1> QED
  BY <1>1 DEF ContractStep, EngineContract!callVars

LEMMA ReturnStep ==
  ASSUME \/ InSetup(pc) /\ result' \in {"validation", "failed", "already"}
         \/ InSetup(pc) /\ cancelled /\ result' = "canceled"
         \/ /\ pc \in {"connected", "enforce", "prompt"}
            /\ result' = IF cancelled THEN "canceled" ELSE "ok",
         pc' = "done", UNCHANGED <<req, cancelled, up>>
  PROVE  ContractStep
<1>1. EngineContract!Return(result')
  BY PhaseOfStep, PhaseOfStepPrimed DEF EngineContract!Return
<1>2. result' \in EngineContract!Results
  BY DEF EngineContract!Results
<1> QED
  BY <1>1, <1>2 DEF ContractStep, EngineContract!CallNext

LEMMA TunnelStep ==
  ASSUME EngineInv, NEW p \in Profiles, UNCHANGED <<pc, req, cancelled, result>>,
         \/ up' = up \union {p}
         \/ up' = up \ {p}
  PROVE  ContractStep
<1>1. EnginePhase' = EnginePhase
  BY PhaseOfStepPrimed
<1>2. CASE up' = up
  BY <1>1, <1>2 DEF ContractStep, EngineContract!callVars
<1>3. CASE p \notin up /\ up' = up \union {p}
  <2>1. EngineContract!DialOutside(p)
    BY <1>1, <1>3 DEF EngineContract!DialOutside
  <2> QED
    BY <2>1 DEF ContractStep, EngineContract!CallNext
<1>4. CASE p \in up /\ up' = up \ {p}
  <2>1. EngineContract!Drop(p)
    BY <1>1, <1>4 DEF EngineContract!Drop
  <2> QED
    BY <2>1 DEF ContractStep, EngineContract!CallNext
<1> QED
  BY <1>2, <1>3, <1>4

LEMMA UpStep ==
  ASSUME EngineInv, InSetup(pc), pc' = "connected", up' = up \union {req.name},
         UNCHANGED <<req, cancelled, result>>
  PROVE  ContractStep
<1>1. EngineContract!Dialled
  BY PhaseOfStep, PhaseOfStepPrimed DEF EngineContract!Dialled
<1> QED
  BY <1>1 DEF ContractStep, EngineContract!CallNext

LEMMA StepInContract == EngineInv /\ Step => ContractStep
<1> SUFFICES ASSUME EngineInv, Step PROVE ContractStep
  OBVIOUS
<1> USE DEF GoTo, Finish, CheckThen
<1>1. CASE NatCheck
  BY <1>1, SilentStep DEF NatCheck, InSetup
<1>2. CASE Parse
  <2>1. CASE pc' = "done"
    BY <1>2, <2>1, ReturnStep DEF Parse, InSetup, osVars
  <2>2. CASE pc' # "done"
    BY <1>2, <2>2, SilentStep DEF Parse, InSetup, osVars
  <2> QED
    BY <2>1, <2>2
<1>3. CASE ResolveOK
  <2>1. CASE cancelled
    BY <1>3, <2>1, ReturnStep DEF ResolveOK, InSetup, osVars
  <2>2. CASE ~cancelled
    BY <1>3, <2>2, SilentStep DEF ResolveOK, InSetup, osVars
  <2> QED
    BY <2>1, <2>2
<1>4. CASE ResolveError
  BY <1>4, ReturnStep DEF ResolveError, InSetup, osVars
<1>5. CASE ListOthers \/ SweepDone
  BY <1>5, SilentStep DEF ListOthers, SweepDone, InSetup, osVars
<1>6. ASSUME NEW p \in Profiles, HangUpOther(p) PROVE ContractStep
  <2>1. UNCHANGED <<pc, req, cancelled, result>> /\ (up' = up \ {p} \/ up' = up)
    BY <1>6 DEF HangUpOther
  <2> QED
    BY <2>1, TunnelStep, SilentStep
<1>7. CASE SetFlag \/ ListRoutes \/ SyncError \/ SyncDone
  BY <1>7, SilentStep DEF SetFlag, ListRoutes, SyncError, SyncDone, InSetup, osVars
<1>8. ASSUME NEW p \in Prefixes, RemoveStale(p) \/ AddMissing(p) PROVE ContractStep
  BY <1>8, SilentStep DEF RemoveStale, AddMissing
<1>9. CASE CheckBeforeDial
  <2>1. CASE cancelled
    BY <1>9, <2>1, ReturnStep DEF CheckBeforeDial, InSetup, osVars
  <2>2. CASE ~cancelled
    BY <1>9, <2>2, SilentStep DEF CheckBeforeDial, InSetup, osVars
  <2> QED
    BY <2>1, <2>2
<1>10. CASE DialOK
  BY <1>10, UpStep DEF DialOK, InSetup
<1>11. CASE DialError
  BY <1>11, ReturnStep DEF DialError, InSetup, osVars
<1>12. CASE CheckAfterDial
  <2>1. CASE cancelled \/ req.all
    BY <1>12, <2>1, ReturnStep DEF CheckAfterDial, osVars
  <2>2. CASE ~cancelled /\ ~req.all
    BY <1>12, <2>2, SilentStep DEF CheckAfterDial, osVars
  <2> QED
    BY <2>1, <2>2
<1>13. CASE Enforce
  BY <1>13, ReturnStep DEF Enforce
<1> QED
  BY <1>1, <1>2, <1>3, <1>4, <1>5, <1>6, <1>7, <1>8, <1>9, <1>10, <1>11, <1>12, <1>13
  DEF Step

LEMMA MacInContract == EngineInv /\ MacStep => ContractStep
<1> SUFFICES ASSUME EngineInv, MacStep PROVE ContractStep
  OBVIOUS
<1> USE DEF GoTo, Finish
<1>1. CASE ManagerStep \/ MacList \/ MacStartError
  BY <1>1, StepInContract, ManagerStepIsStep DEF MacList, MacStartError, Step
<1>2. ASSUME NEW p \in Profiles, MacHangUp(p) PROVE ContractStep
  BY <1>2, StepInContract DEF MacHangUp, Step
<1>3. CASE MacSkip \/ MacStart
  BY <1>3, SilentStep DEF MacSkip, MacStart, InSetup, osVars
<1>4. CASE MacPollUp
  <2>1. up' = up \union {req.name}
    BY <1>4 DEF MacPollUp, osVars
  <2> QED
    BY <1>4, <2>1, UpStep DEF MacPollUp, InSetup
<1>5. CASE MacPollFails
  BY <1>5, ReturnStep DEF MacPollFails, InSetup, osVars
<1>6. CASE MacEnforce
  <2>1. CASE pc' = "done"
    BY <1>6, <2>1, ReturnStep DEF MacEnforce, osVars
  <2>2. CASE pc' # "done"
    BY <1>6, <2>2, SilentStep DEF MacEnforce, osVars
  <2> QED
    BY <2>1, <2>2
<1>7. CASE MacPrompt
  BY <1>7, ReturnStep DEF MacPrompt
<1> QED
  BY <1>1, <1>2, <1>3, <1>4, <1>5, <1>6, <1>7 DEF MacStep

LEMMA EngineInContract == EngineInv /\ [EngineNext]_engineVars => ContractStep
<1> SUFFICES ASSUME EngineInv, [EngineNext]_engineVars PROVE ContractStep
  OBVIOUS
<1>1. CASE EngineStep
  BY <1>1, StepInContract, MacInContract DEF EngineStep
<1>2. ASSUME NEW r \in Requests, Call(r) PROVE ContractStep
  <2>1. r.name \in Profiles
    BY TargetsAssumption DEF Requests
  <2>2. EngineContract!Begin(r.name)
    BY <1>2, PhaseOfStep, PhaseOfStepPrimed DEF Call, EngineContract!Begin, InSetup, osVars
  <2> QED
    BY <2>1, <2>2 DEF ContractStep, EngineContract!CallNext
<1>3. CASE Cancel
  <2>1. EngineContract!CancelCall
    BY <1>3, PhaseOfStep, PhaseOfStepPrimed DEF Cancel, EngineContract!CancelCall, osVars
  <2> QED
    BY <2>1 DEF ContractStep, EngineContract!CallNext
<1>4. CASE Take
  <2>1. EngineContract!Consume
    BY <1>4, PhaseOfStep, PhaseOfStepPrimed DEF Take, GoTo, EngineContract!Consume, osVars
  <2> QED
    BY <2>1 DEF ContractStep, EngineContract!CallNext
<1>5. ASSUME NEW p \in Profiles, Drop(p) \/ DialOutside(p) \/ MacComesUp(p) \/ MacDialOutside(p)
      PROVE  ContractStep
  <2>1. UNCHANGED <<pc, req, cancelled, result>> /\ (up' = up \ {p} \/ up' = up \union {p})
    BY <1>5 DEF Drop, DialOutside, MacComesUp, MacDialOutside, callVars
  <2> QED
    BY <2>1, TunnelStep
<1>6. ASSUME NEW p \in Profiles, MacStaysDown(p) PROVE ContractStep
  BY <1>6, SilentStep DEF MacStaysDown, callVars, osVars
<1>7. CASE UNCHANGED engineVars
  BY <1>7, SilentStep DEF engineVars, vars, callVars, osVars
<1> QED
  BY <1>1, <1>2, <1>3, <1>4, <1>5, <1>6, <1>7 DEF EngineNext

(* Every step of a call, over either engine and whatever fails, is a step  *)
(* that ConnectCall allows: what Controller and Quit assume of the call.   *)
THEOREM EnginesKeepContract ==
  EngineSpec => EngineContract!CallInit
                  /\ [][EngineContract!CallNext]_(EngineContract!callVars)
<1>1. EngineInit => EngineContract!CallInit
  BY TargetsAssumption, PhaseOfStep DEF EngineInit, Init, EngineContract!CallInit
<1>2. EngineInv /\ [EngineNext]_engineVars
        => [EngineContract!CallNext]_(EngineContract!callVars)
  BY EngineInContract DEF ContractStep
<1> QED
  BY <1>1, <1>2, EngineKept, PTL DEF EngineSpec

-----------------------------------------------------------------------------
(* Services that come up late                                              *)

(* The steps after the sweep of the other tunnels, on macOS.               *)
Swept == pc \in {"flag", "routes", "check", "dial", "poll", "connected", "enforce", "prompt"}

(* While nobody interferes, the sweep lists what is left to hang up, and   *)
(* from then on the call's own tunnel is the only one.                     *)
Alone ==
  mac /\ tidy =>
    /\ starting \subseteq IF pc = "poll" THEN {req.name} ELSE {}
    /\ starting \intersect up = {}
    /\ pc = "hangup" => up \subseteq sweep \union {req.name}
    /\ Swept => up \subseteq {req.name}
    /\ pc = "prompt" => iface = req.name

LEMMA EngineKeepsAlone == EngineInv /\ Alone /\ [EngineNext]_engineVars => Alone'
<1> SUFFICES ASSUME EngineInv, Alone, [EngineNext]_engineVars PROVE Alone'
  OBVIOUS
<1> SUFFICES ASSUME mac', tidy' PROVE Alone'
  BY DEF Alone
<1>m. mac
  BY DEF EngineNext, EngineStep, engineVars
<1> USE DEF Alone, Swept, GoTo, Finish, CheckThen
<1>1. CASE EngineStep
  <2>0. MacStep
    BY <1>1, <1>m DEF EngineStep
  <2>1. CASE ManagerStep /\ UNCHANGED macVars
    BY <1>m, <2>1 DEF ManagerStep, Parse, ResolveOK, ResolveError, SweepDone, CheckBeforeDial,
                      CheckAfterDial, osVars, macVars
  <2>2. CASE MacSkip \/ MacStartError \/ MacPollUp
    BY <1>m, <2>2 DEF MacSkip, MacStartError, MacPollUp, DialError, osVars, macVars
  <2>3. CASE MacList
    BY <1>m, <2>3 DEF MacList, ListOthers, osVars
  <2>4. ASSUME NEW p \in Profiles, MacHangUp(p) PROVE Alone'
    BY <1>m, <2>4 DEF MacHangUp, HangUpOther
  <2>5. CASE MacStart
    BY <1>m, <2>5 DEF MacStart, osVars
  <2>6. CASE MacPollFails
    BY <1>m, <2>6 DEF MacPollFails, osVars
  <2>7. CASE MacEnforce
    BY <1>m, <2>7 DEF MacEnforce, osVars
  <2>8. CASE MacPrompt
    BY <1>m, <2>8 DEF MacPrompt
  <2> QED
    BY <2>0, <2>1, <2>2, <2>3, <2>4, <2>5, <2>6, <2>7, <2>8 DEF MacStep
<1>2. ASSUME NEW r \in Requests, Call(r), UNCHANGED macVars PROVE Alone'
  BY <1>m, <1>2 DEF Call, osVars, macVars
<1>3. CASE (Cancel \/ Take) /\ UNCHANGED macVars
  BY <1>m, <1>3 DEF Cancel, Take, osVars, macVars
<1>4. ASSUME NEW p \in Profiles, Drop(p), UNCHANGED macVars PROVE Alone'
  BY <1>m, <1>4 DEF Drop, callVars, macVars
<1>5. ASSUME NEW p \in Profiles, MacComesUp(p) PROVE Alone'
  BY <1>m, <1>5 DEF MacComesUp, callVars
<1>6. ASSUME NEW p \in Profiles, MacStaysDown(p) PROVE Alone'
  BY <1>m, <1>6 DEF MacStaysDown, callVars, osVars
<1>7. ASSUME NEW p \in Profiles, MacDialOutside(p) PROVE FALSE
  BY <1>7 DEF MacDialOutside, Untidy
<1>8. CASE UNCHANGED engineVars
  BY <1>m, <1>8 DEF engineVars, vars, callVars, osVars, macVars
<1> QED
  BY <1>m, <1>1, <1>2, <1>3, <1>4, <1>5, <1>6, <1>7, <1>8 DEF EngineNext

(* On macOS, as long as nobody else dials and every other service was      *)
(* found and stopped, none comes up after its call, and the routes go to   *)
(* the call's own interface although it is picked without a name.          *)
THEOREM NothingLate == EngineSpec => []NothingComesLate
<1>1. EngineInit => Alone
  BY DEF EngineInit, Init, Alone, Swept
<1>2. Alone => NothingComesLate
  BY DEF Alone, NothingComesLate
<1> QED
  BY <1>1, <1>2, EngineKept, EngineKeepsAlone, PTL DEF EngineSpec

=============================================================================
