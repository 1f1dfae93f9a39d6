----------------------------- MODULE DarwinCall ------------------------------
(***************************************************************************)
(* ConnectFull over either of the engines the program is built with.  The  *)
(* manager is the same; the macOS engine (internal/vpn/darwin.go,          *)
(* internal/route/sync_darwin.go) edits nothing before the dial, starts a  *)
(* service that comes up by itself, polls its status for half a minute,    *)
(* and adds the routes afterwards behind an administrator prompt, to the   *)
(* first tunnel interface it finds.                                        *)
(***************************************************************************)
EXTENDS ConnectFull

CONSTANT NoIface

ASSUME NoIfaceAssumption == NoIface \notin Profiles

VARIABLES
  mac,       \* the build
  starting,  \* services the system is bringing up
  iface,     \* the tunnel interface the call has picked for its routes
  tidy       \* history: see Untidy

macVars == <<starting, iface, tidy>>
engineVars == <<vars, mac, macVars>>

EngineInit ==
  /\ Init
  /\ mac \in BOOLEAN
  /\ mac => ~natOK /\ profileRoutes = [p \in Profiles |-> {}]
  /\ starting = {}
  /\ iface = NoIface
  /\ tidy = TRUE

(* Something happened that the call does not see: another program dialled, *)
(* or a tunnel was not listed or not hung up, or a start was given up on.  *)
Untidy == tidy' = FALSE

-----------------------------------------------------------------------------
(* EnsureNATRegistry, the split-tunnelling switch and SyncRoutes do        *)
(* nothing.                                                                *)
MacSkip ==
  /\ \/ pc = "nat" /\ GoTo("parse")
     \/ pc = "flag" /\ GoTo(IF req.all THEN "dial" ELSE "routes")
     \/ pc = "routes" /\ GoTo("check")
  /\ UNCHANGED <<req, cancelled, warned, want, sweep, stale, missing, blind, osVars, macVars>>

(* DisconnectAllExcept lists and stops the services that are up; one that  *)
(* is still coming up is not.                                              *)
MacList ==
  /\ ListOthers
  /\ tidy' = (tidy /\ sweep' = up \ {req.name})
  /\ UNCHANGED <<starting, iface>>

MacHangUp(p) ==
  /\ HangUpOther(p)
  /\ tidy' = (tidy /\ p \notin up')
  /\ UNCHANGED <<starting, iface>>

(* networksetup -connectpppoeservice returns before the service is up.     *)
MacStart ==
  /\ pc = "dial"
  /\ starting' = starting \union ({req.name} \ up)
  /\ GoTo("poll")
  /\ UNCHANGED <<req, cancelled, warned, want, sweep, stale, missing, blind, osVars,
                 iface, tidy>>

MacStartError == DialError /\ UNCHANGED macVars

(* The poll of Connect sees the service up ...                             *)
MacPollUp ==
  /\ pc = "poll"
  /\ req.name \in up
  /\ GoTo("connected")
  /\ UNCHANGED <<req, cancelled, warned, want, sweep, stale, missing, blind, osVars, macVars>>

MacPollCancellable ==   \* slip: the poll ends when the context does
  /\ pc = "poll"
  /\ Finish(IF cancelled THEN "canceled" ELSE "failed")
  /\ tidy' = (tidy /\ (cancelled \/ req.name \notin starting \union up))
  /\ UNCHANGED <<req, cancelled, warned, want, sweep, stale, missing, blind, osVars,
                 starting, iface>>

(* ... or not up and not coming up, or it is given up on after 30 seconds  *)
(* of statuses that say neither.  Nothing stops the service then.          *)
MacPollFails ==
  /\ pc = "poll"
  /\ Finish("failed")
  /\ tidy' = (tidy /\ req.name \notin starting \union up)
  /\ UNCHANGED <<req, cancelled, warned, want, sweep, stale, missing, blind, osVars,
                 starting, iface>>

(* ApplySplitTunnel picks the first tunnel interface that has an address,  *)
(* whoever's it is, or finds none for five seconds.                        *)
MacEnforce ==
  /\ pc = "enforce"
  /\ \/ /\ iface' \in up
        /\ GoTo("prompt")
        /\ UNCHANGED warned
     \/ /\ Warn("enforce")
        /\ Finish(IF cancelled THEN "canceled" ELSE "ok")
        /\ UNCHANGED iface
  /\ UNCHANGED <<req, cancelled, want, sweep, stale, missing, blind, osVars, starting, tidy>>

(* The administrator prompt is answered: the routes are added to that      *)
(* interface, each failure ignored ("|| true"), or the prompt was denied.  *)
(* Either way there is a message.  Then the last look at the context.      *)
MacPrompt ==
  /\ pc = "prompt"
  /\ \/ /\ iface \in up
        /\ \E added \in SUBSET want :
             liveRoutes' = [liveRoutes EXCEPT ![iface] = @ \union added]
     \/ UNCHANGED liveRoutes
  /\ Warn("enforce")
  /\ iface' = NoIface
  /\ Finish(IF cancelled THEN "canceled" ELSE "ok")
  /\ UNCHANGED <<req, cancelled, want, sweep, stale, missing, blind,
                 up, natOK, split, profileRoutes, starting, tidy>>

(* The system: a service comes up, or fails to.                            *)
MacComesUp(p) ==
  /\ p \in starting
  /\ starting' = starting \ {p}
  /\ up' = up \union {p}
  /\ \E routes \in RoutesAtDial(p) : liveRoutes' = [liveRoutes EXCEPT ![p] = routes]
  /\ UNCHANGED <<callVars, natOK, split, profileRoutes, iface, tidy>>

MacStaysDown(p) ==
  /\ p \in starting
  /\ starting' = starting \ {p}
  /\ UNCHANGED <<callVars, osVars, iface, tidy>>

(* Another program brings a service up.                                    *)
MacDialOutside(p) ==
  /\ DialOutside(p)
  /\ starting' = starting \ {p}
  /\ Untidy
  /\ UNCHANGED iface

-----------------------------------------------------------------------------
(* The steps the manager takes whatever the engine.                        *)
ManagerStep ==
  \/ Parse \/ ResolveOK \/ ResolveError \/ SweepDone
  \/ CheckBeforeDial \/ CheckAfterDial

MacStep ==
  \/ ManagerStep /\ UNCHANGED macVars
  \/ MacSkip \/ MacList \/ (\E p \in Profiles : MacHangUp(p))
  \/ MacStart \/ MacStartError \/ MacPollUp \/ MacPollFails
  \/ MacEnforce \/ MacPrompt

EngineStep ==
  /\ IF mac THEN MacStep ELSE Step /\ UNCHANGED macVars
  /\ UNCHANGED mac

EngineNext ==
  \/ EngineStep
  \/ /\ \/ (\E r \in Requests : Call(r)) \/ Cancel \/ Take
        \/ \E p \in Profiles : Drop(p)
     /\ UNCHANGED <<mac, macVars>>
  \/ /\ \E p \in Profiles :
          IF mac
          THEN MacComesUp(p) \/ MacStaysDown(p) \/ MacDialOutside(p)
          ELSE DialOutside(p) /\ UNCHANGED macVars
     /\ UNCHANGED mac

(* As in ConnectFull; the poll has its deadline, the wait for an interface *)
(* too, and the administrator answers.                                     *)
EngineSpec == EngineInit /\ [][EngineNext]_engineVars /\ WF_engineVars(EngineStep)

-----------------------------------------------------------------------------
(* Either engine keeps the contract the window relies on.  A service that  *)
(* comes up is, for it, a tunnel dialled from outside until the call       *)
(* reports it.                                                             *)
EnginePhase == IF pc = "prompt" THEN "up" ELSE Phase

EngineContract == INSTANCE ConnectCall WITH phase <- EnginePhase, target <- req.name

EngineKeepsContract == EngineContract!CallSpec

(* As long as every other tunnel was found and hung up, nobody else dials  *)
(* and no start was given up on, no service comes up behind the window's   *)
(* back: a call that is over, cancelled or not, leaves none on its way, so *)
(* that the clean-up's hang-up is final; and the routes of a call go to    *)
(* its own tunnel, although the interface is picked without its name.      *)
NothingComesLate ==
  mac /\ tidy =>
    /\ starting \subseteq IF pc = "poll" THEN {req.name} ELSE {}
    /\ pc = "prompt" => iface = req.name

=============================================================================
