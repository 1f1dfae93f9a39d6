----------------------------- MODULE ConnectFull -----------------------------
(***************************************************************************)
(* Manager.ConnectFull of internal/vpn/manager.go with the Windows tools   *)
(* it runs (internal/vpn/win, internal/route): the NAT-T registry check,   *)
(* the parsing and resolving of destinations, the hang-up of every other   *)
(* tunnel, the split-tunnelling flag, the synchronisation of the profile's *)
(* routes, rasdial, and the live routes of the connected adapter.  Every   *)
(* external command may fail.  The context is examined only where the code *)
(* examines it.                                                            *)
(***************************************************************************)
EXTENDS FiniteSets

CONSTANTS
  Profiles,      \* VPN profiles of the operating system
  Targets,       \* those the window's user connects to
  Prefixes,      \* IPv4 prefixes a destination can be or resolve to
  Domains,       \* destinations that are domain names
  DefaultRoute,  \* 0.0.0.0/0
  Outsiders      \* whether other programs dial profiles too

ASSUME TargetsAssumption == Targets \subseteq Profiles
ASSUME DefaultAssumption == DefaultRoute \notin Prefixes
ASSUME OutsidersAssumption == Outsiders \in BOOLEAN

(* What a destination may be, to the resolver: an address or a name.       *)
Entries == Prefixes \union Domains

(* A ConnectRequest.  A malformed list is one ParseLines rejects; it then  *)
(* yields no entries at all.                                               *)
Requests ==
  {r \in [name : Targets, entries : SUBSET Entries,
          all : BOOLEAN, malformed : BOOLEAN] :
     r.malformed => r.entries = {}}

(* The warnings of the steps that edit the profile and the adapter; the    *)
(* notes about resolved domains and about NAT-T are left out.              *)
Warnings == {"split", "sync", "enforce"}

VARIABLES
  pc,            \* the step the call is about to take
  req,           \* its request
  cancelled,     \* ctx.Err() # nil
  result,        \* how the last call ended
  warned,        \* the warnings it has collected
  want,          \* allPrefixes: the destinations after resolution
  sweep,         \* other tunnels still to hang up
  stale,         \* profile routes SyncRoutes has yet to remove
  missing,       \* profile routes SyncRoutes has yet to add
  up,            \* tunnels that are up
  natOK,         \* the NAT-T registry value is set
  split,         \* SplitTunneling flag of each profile
  profileRoutes, \* routes stored in each profile
  liveRoutes,    \* routes of each connected adapter
  blind          \* history: a Get-VpnConnection of this call came back empty

callVars == <<pc, req, cancelled, result, warned, want, sweep, stale, missing, blind>>
osVars == <<up, natOK, split, profileRoutes, liveRoutes>>
vars == <<callVars, osVars>>

Steps == {"idle", "nat", "parse", "resolve", "list", "hangup", "flag", "routes",
          "sync", "check", "dial", "connected", "enforce", "done"}

Results == {"ok", "canceled", "validation", "failed", "already"}

(* Every local and every setting of the system has its type; in particular *)
(* a result is one of the codes the window compares with.                  *)
TypeOK ==
  /\ pc \in Steps
  /\ req \in Requests
  /\ cancelled \in BOOLEAN
  /\ result \in Results \union {"none"}
  /\ warned \in SUBSET Warnings
  /\ want \in SUBSET Prefixes
  /\ sweep \in SUBSET Profiles
  /\ stale \in SUBSET Prefixes
  /\ missing \in SUBSET Prefixes
  /\ blind \in BOOLEAN
  /\ up \in SUBSET Profiles
  /\ natOK \in BOOLEAN
  /\ split \in [Profiles -> BOOLEAN]
  /\ profileRoutes \in [Profiles -> SUBSET Prefixes]
  /\ liveRoutes \in [Profiles -> SUBSET (Prefixes \union {DefaultRoute})]

Init ==
  /\ pc = "idle"
  /\ req \in [name : Targets, entries : {{}}, all : {FALSE}, malformed : {FALSE}]
  /\ cancelled = FALSE
  /\ result = "none"
  /\ warned = {} /\ want = {} /\ sweep = {} /\ stale = {} /\ missing = {}
  /\ up = {}
  /\ natOK \in BOOLEAN
  /\ split \in [Profiles -> BOOLEAN]
  /\ profileRoutes \in [Profiles -> SUBSET Prefixes]
  /\ liveRoutes = [p \in Profiles |-> {}]
  /\ blind = FALSE

-----------------------------------------------------------------------------
GoTo(step) == pc' = step /\ UNCHANGED result

FinishMisspelt(r) ==   \* slip: another code than the one the window compares with
  pc' = "done" /\ result' = IF r = "canceled" THEN "cancelled" ELSE r

Finish(r) == pc' = "done" /\ result' = r

(* if ctx.Err() != nil { return canceled }                                 *)
CheckThen(step) == IF cancelled THEN Finish("canceled") ELSE GoTo(step)

Warn(w) == warned' = warned \union {w}

(* The window calls ConnectFull.                                           *)
Call(r) ==
  /\ pc = "idle"
  /\ pc' = "nat"
  /\ req' = r
  /\ cancelled' = FALSE
  /\ result' = "none"
  /\ warned' = {} /\ want' = {} /\ sweep' = {} /\ stale' = {} /\ missing' = {}
  /\ blind' = FALSE
  /\ UNCHANGED osVars

(* The window cancels the context.                                         *)
Cancel ==
  /\ pc # "idle"
  /\ cancelled' = TRUE
  /\ UNCHANGED <<pc, req, result, warned, want, sweep, stale, missing, blind, osVars>>

(* The window's completion handler takes the result.                       *)
Take ==
  /\ pc = "done"
  /\ GoTo("idle")
  /\ UNCHANGED <<req, cancelled, warned, want, sweep, stale, missing, blind, osVars>>

(* EnsureNATRegistry sets the value when it may; either way the call goes  *)
(* on, so its outcome only shows in the registry and in the log.           *)
NatCheck ==
  /\ pc = "nat"
  /\ GoTo("parse")
  /\ natOK' \in {natOK, TRUE}
  /\ UNCHANGED <<req, cancelled, warned, want, sweep, stale, missing, blind,
                 up, split, profileRoutes, liveRoutes>>

(* A list that does not parse, or an empty one in split mode, is refused.  *)
(* Route-all mode skips the resolver and its look at the context.          *)
Usable(r) == ~r.malformed /\ (r.all \/ r.entries # {})

Parse ==
  /\ pc = "parse"
  /\ \/ ~Usable(req) /\ Finish("validation")
     \/ Usable(req) /\ GoTo(IF req.all THEN "list" ELSE "resolve")
  /\ UNCHANGED <<req, cancelled, warned, want, sweep, stale, missing, blind, osVars>>

(* ResolveRoutesDetail: a domain becomes its IPv4 addresses.               *)
ResolveOK ==
  /\ pc = "resolve"
  /\ \E found \in [req.entries \intersect Domains -> SUBSET Prefixes \ {{}}] :
       want' = (req.entries \intersect Prefixes)
                 \union UNION {found[d] : d \in DOMAIN found}
  /\ CheckThen("list")
  /\ UNCHANGED <<req, cancelled, warned, sweep, stale, missing, blind, osVars>>

(* A domain that does not resolve, that has no IPv4 address, or whose      *)
(* lookup ran out of time or was cancelled: the same error in every case.  *)
ResolveError ==
  /\ pc = "resolve"
  /\ req.entries \intersect Domains # {}
  /\ Finish("validation")
  /\ UNCHANGED <<req, cancelled, warned, want, sweep, stale, missing, blind, osVars>>

(* DisconnectAllExcept lists the connected profiles, or fails to.          *)
ListOthers ==
  /\ pc = "list"
  /\ sweep' \in {{}, up \ {req.name}}
  /\ GoTo("hangup")
  /\ UNCHANGED <<req, cancelled, warned, want, stale, missing, blind, osVars>>

(* ... and hangs them up one by one; a failure is skipped.                 *)
HangUpOther(p) ==
  /\ pc = "hangup"
  /\ p \in sweep
  /\ sweep' = sweep \ {p}
  /\ \/ /\ up' = up \ {p}
        /\ liveRoutes' = [liveRoutes EXCEPT ![p] = {}]
     \/ UNCHANGED <<up, liveRoutes>>
  /\ UNCHANGED <<pc, req, cancelled, result, warned, want, stale, missing, blind,
                 natOK, split, profileRoutes>>

SweepUntilAlone ==   \* slip: list and hang up again until no other tunnel is up
  /\ pc = "hangup"
  /\ sweep = {}
  /\ GoTo(IF up \subseteq {req.name} THEN "flag" ELSE "list")
  /\ UNCHANGED <<req, cancelled, warned, want, sweep, stale, missing, blind, osVars>>

SweepDone ==
  /\ pc = "hangup"
  /\ sweep = {}
  /\ GoTo("flag")
  /\ UNCHANGED <<req, cancelled, warned, want, sweep, stale, missing, blind, osVars>>

SetFlagThenDial ==   \* slip: the profile's routes are left to the next connect
  /\ pc = "flag"
  /\ \/ /\ split' = [split EXCEPT ![req.name] = ~req.all]
        /\ UNCHANGED warned
     \/ /\ Warn("split")
        /\ UNCHANGED split
  /\ GoTo("dial")
  /\ UNCHANGED <<req, cancelled, want, sweep, stale, missing, blind,
                 up, natOK, profileRoutes, liveRoutes>>

(* EnsureSplitTunneling or DisableSplitTunneling: the flag is set, or an   *)
(* error becomes a warning, or the query (SilentlyContinue) finds no       *)
(* profile, which is no error.  Route-all mode goes straight to the dial.  *)
SetFlag ==
  /\ pc = "flag"
  /\ \/ /\ split' = [split EXCEPT ![req.name] = ~req.all]
        /\ UNCHANGED <<warned, blind>>
     \/ /\ Warn("split")
        /\ UNCHANGED <<split, blind>>
     \/ /\ blind' = TRUE
        /\ UNCHANGED <<split, warned>>
  /\ GoTo(IF req.all THEN "dial" ELSE "routes")
  /\ UNCHANGED <<req, cancelled, want, sweep, stale, missing,
                 up, natOK, profileRoutes, liveRoutes>>

ListRoutesReplacing ==   \* slip: every stored route is removed, then all are added
  /\ pc = "routes"
  /\ stale' = profileRoutes[req.name]
  /\ missing' = want
  /\ GoTo("sync")
  /\ UNCHANGED <<req, cancelled, warned, want, sweep, blind, osVars>>

(* SyncRoutes reads the profile's routes and computes both differences; a  *)
(* query that finds no profile reads as no routes.                         *)
ListRoutes ==
  /\ pc = "routes"
  /\ \E stored \in {profileRoutes[req.name], {}} :
       /\ stale' = stored \ want
       /\ missing' = want \ stored
       /\ blind' = (blind \/ stored # profileRoutes[req.name])
  /\ GoTo("sync")
  /\ UNCHANGED <<req, cancelled, warned, want, sweep, osVars>>

(* Any command of SyncRoutes may fail; the rest of the edits is dropped.   *)
SyncError ==
  /\ \/ pc = "routes"
     \/ pc = "sync" /\ stale \union missing # {}
  /\ Warn("sync")
  /\ stale' = {} /\ missing' = {}
  /\ GoTo("check")
  /\ UNCHANGED <<req, cancelled, want, sweep, blind, osVars>>

RemoveStale(p) ==
  /\ pc = "sync"
  /\ p \in stale
  /\ stale' = stale \ {p}
  /\ profileRoutes' = [profileRoutes EXCEPT ![req.name] = @ \ {p}]
  /\ UNCHANGED <<pc, req, cancelled, result, warned, want, sweep, missing, blind,
                 up, natOK, split, liveRoutes>>

AddFirstMissing(p) ==   \* slip: the loop returns after the first route it added
  /\ pc = "sync"
  /\ stale = {}
  /\ p \in missing
  /\ missing' = {}
  /\ profileRoutes' = [profileRoutes EXCEPT ![req.name] = @ \union {p}]
  /\ UNCHANGED <<pc, req, cancelled, result, warned, want, sweep, stale, blind,
                 up, natOK, split, liveRoutes>>

AddMissing(p) ==
  /\ pc = "sync"
  /\ stale = {}
  /\ p \in missing
  /\ missing' = missing \ {p}
  /\ profileRoutes' = [profileRoutes EXCEPT ![req.name] = @ \union {p}]
  /\ UNCHANGED <<pc, req, cancelled, result, warned, want, sweep, stale, blind,
                 up, natOK, split, liveRoutes>>

SyncDone ==
  /\ pc = "sync"
  /\ stale = {} /\ missing = {}
  /\ GoTo("check")
  /\ UNCHANGED <<req, cancelled, warned, want, sweep, stale, missing, blind, osVars>>

(* The last look at the context before dialling, in split mode only.       *)
CheckBeforeDial ==
  /\ pc = "check"
  /\ CheckThen("dial")
  /\ UNCHANGED <<req, cancelled, warned, want, sweep, stale, missing, blind, osVars>>

(* The routes a new tunnel starts with: the profile's, the default route   *)
(* without split tunnelling, and a default route the server may push.      *)
RoutesAtDial(p) ==
  {profileRoutes[p] \union {DefaultRoute}}
    \union (IF split[p] THEN {profileRoutes[p]} ELSE {})

(* rasdial succeeds; on a tunnel that is already up it changes nothing.    *)
(* It also counts as success when it fails and its text says "connected":  *)
(* to the model such a tunnel came up, and may drop before the next step.  *)
DialOK ==
  /\ pc = "dial"
  /\ up' = up \union {req.name}
  /\ IF req.name \in up
     THEN UNCHANGED liveRoutes
     ELSE \E routes \in RoutesAtDial(req.name) :
            liveRoutes' = [liveRoutes EXCEPT ![req.name] = routes]
  /\ GoTo("connected")
  /\ UNCHANGED <<req, cancelled, warned, want, sweep, stale, missing, blind,
                 natOK, split, profileRoutes>>

(* rasdial fails; its error is returned as it is, even when cancelled.     *)
DialError ==
  /\ pc = "dial"
  /\ \E r \in {"failed", "already"} : Finish(r)
  /\ UNCHANGED <<req, cancelled, warned, want, sweep, stale, missing, blind, osVars>>

CheckAfterDialOnlySplit ==   \* slip: the look after the dial moved into the split branch
  /\ pc = "connected"
  /\ IF req.all THEN Finish("ok") ELSE CheckThen("enforce")
  /\ UNCHANGED <<req, cancelled, warned, want, sweep, stale, missing, blind, osVars>>

CheckAfterDial ==
  /\ pc = "connected"
  /\ IF ~cancelled /\ req.all THEN Finish("ok") ELSE CheckThen("enforce")
  /\ UNCHANGED <<req, cancelled, warned, want, sweep, stale, missing, blind, osVars>>

(* The live routes after the enforce script: it removes the default route  *)
(* and adds what is missing, and stays silent about a cmdlet that failed.  *)
AfterEnforce(routes) ==
  {(routes \ removed) \union added :
     added \in SUBSET (want \ routes), removed \in {{}, {DefaultRoute}}}

(* EnforceSplitTunnel on a tunnel that is up: the script runs through and  *)
(* prints (so the call warns of) every route it adds; or it fails or finds *)
(* no interface, and warns of that.  Then the last look at the context.    *)
Enforce ==
  /\ pc = "enforce"
  /\ \/ /\ req.name \in up
        /\ \E routes \in AfterEnforce(liveRoutes[req.name]) :
             /\ liveRoutes' = [liveRoutes EXCEPT ![req.name] = routes]
             /\ IF routes \subseteq liveRoutes[req.name]
                THEN UNCHANGED warned
                ELSE Warn("enforce")
     \/ Warn("enforce") /\ UNCHANGED liveRoutes
  /\ Finish(IF cancelled THEN "canceled" ELSE "ok")
  /\ UNCHANGED <<req, cancelled, want, sweep, stale, missing, blind,
                 up, natOK, split, profileRoutes>>

(* A tunnel drops or is hung up from elsewhere.                            *)
Drop(p) ==
  /\ p \in up
  /\ up' = up \ {p}
  /\ liveRoutes' = [liveRoutes EXCEPT ![p] = {}]
  /\ UNCHANGED <<callVars, natOK, split, profileRoutes>>

(* Another program dials a profile.                                        *)
DialOutside(p) ==
  /\ Outsiders
  /\ p \notin up
  /\ up' = up \union {p}
  /\ \E routes \in RoutesAtDial(p) :
       liveRoutes' = [liveRoutes EXCEPT ![p] = routes]
  /\ UNCHANGED <<callVars, natOK, split, profileRoutes>>

-----------------------------------------------------------------------------
(* A step of the running call.                                             *)
Step ==
  \/ NatCheck \/ Parse \/ ResolveOK \/ ResolveError
  \/ ListOthers \/ (\E p \in Profiles : HangUpOther(p)) \/ SweepDone
  \/ SetFlag
  \/ ListRoutes \/ SyncError \/ SyncDone
  \/ \E p \in Prefixes : RemoveStale(p) \/ AddMissing(p)
  \/ CheckBeforeDial \/ DialOK \/ DialError \/ CheckAfterDial \/ Enforce

Next ==
  \/ \E r \in Requests : Call(r)
  \/ Cancel \/ Take
  \/ Step
  \/ \E p \in Profiles : Drop(p) \/ DialOutside(p)

(* Every external command returns: the resolver has a time limit of ten    *)
(* seconds, rasdial and PowerShell end by themselves.                      *)
Spec == Init /\ [][Next]_vars /\ WF_vars(Step)

-----------------------------------------------------------------------------
(* A call that succeeds without a warning has left the profile the way the *)
(* request asked: in split mode every resolved destination is one of its   *)
(* routes, whatever was stored before and however the edits of SyncRoutes  *)
(* interleave with drops and cancellation; and unless a query of the       *)
(* profile came back empty, it has no other routes and the right flag.     *)
QuietSuccess ==
  pc \in {"done", "idle"} /\ result = "ok" =>
    /\ ~req.all /\ "sync" \notin warned => want \subseteq profileRoutes[req.name]
    /\ ~blind =>
         /\ "split" \notin warned => split[req.name] = ~req.all
         /\ ~req.all /\ "sync" \notin warned => profileRoutes[req.name] = want

(* SyncRoutes edits only what differs: it touches no other profile, never  *)
(* removes a listed destination (not even for a moment, not even when it   *)
(* is interrupted by an error) and never adds an unlisted one.             *)
RouteEditsAreNeeded ==
  [][\A p \in Profiles : profileRoutes'[p] # profileRoutes[p] =>
       /\ p = req.name /\ ~req.all
       /\ (profileRoutes[p] \ profileRoutes'[p]) \intersect want = {}
       /\ profileRoutes'[p] \ profileRoutes[p] \subseteq want]_profileRoutes

(* A tunnel that this call brings up carries every listed destination from *)
(* its first moment, when the synchronisation before the dial worked.      *)
TunnelStartsRouted ==
  [][pc = "dial" /\ pc' = "connected" /\ req.name \notin up
     /\ ~req.all /\ "sync" \notin warned
       => want \subseteq liveRoutes'[req.name]]_vars

(* Every call returns, whatever fails on the way.                          *)
CallReturns == pc \notin {"idle", "done"} ~> pc = "done"

(* What the call is for the window (see DarwinCall, EngineKeepsContract).  *)
Phase == CASE pc = "idle" -> "idle"
           [] pc = "done" -> "returned"
           [] pc \in {"connected", "enforce"} -> "up"
           [] OTHER -> "setup"

Contract == INSTANCE ConnectCall WITH phase <- Phase, target <- req.name

=============================================================================
