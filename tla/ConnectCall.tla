----------------------------- MODULE ConnectCall -----------------------------
(***************************************************************************)
(* What one call of Manager.ConnectFull promises to the window that makes  *)
(* it (internal/vpn/manager.go).  The call first prepares (checks, DNS,    *)
(* hanging up the other tunnels, editing the profile), then dials, then    *)
(* finishes the routes; it ends with one of five results.  Cancelling is a *)
(* request the call looks at between its steps, not an interruption.       *)
(*                                                                         *)
(* ConnectFull implements this module; Controller is built on it.          *)
(***************************************************************************)
CONSTANT Profiles        \* VPN profiles that exist in the operating system

VARIABLES
  phase,      \* "idle", "setup" (before the tunnel is up), "up", "returned"
  target,     \* the profile of the current or last call
  cancelled,  \* ctx.Err() # nil
  result,     \* how the last call ended ("none" while it runs)
  up          \* the profiles whose tunnel is up in the operating system

callVars == <<phase, target, cancelled, result, up>>

Results == {"ok", "canceled", "validation", "failed", "already"}

CallTypeOK ==
  /\ phase \in {"idle", "setup", "up", "returned"}
  /\ target \in Profiles
  /\ cancelled \in BOOLEAN
  /\ result \in Results \union {"none"}
  /\ up \in SUBSET Profiles

CallInit ==
  /\ phase = "idle"
  /\ target \in Profiles
  /\ cancelled = FALSE
  /\ result = "none"
  /\ up \in SUBSET Profiles

-----------------------------------------------------------------------------
(* The window starts a call for profile p with a fresh context.            *)
Begin(p) ==
  /\ phase = "idle"
  /\ phase' = "setup"
  /\ target' = p
  /\ cancelled' = FALSE
  /\ result' = "none"
  /\ UNCHANGED up

(* The window calls the context's cancel function.                         *)
CancelCall ==
  /\ phase # "idle"
  /\ cancelled' = TRUE
  /\ UNCHANGED <<phase, target, result, up>>

(* Before dialling, the call hangs up a tunnel other than its own.         *)
SweepOther(p) ==
  /\ phase = "setup"
  /\ p # target
  /\ up' = up \ {p}
  /\ UNCHANGED <<phase, target, cancelled, result>>

(* The dial command reports success.                                       *)
Dialled ==
  /\ phase = "setup"
  /\ phase' = "up"
  /\ up' = up \union {target}
  /\ UNCHANGED <<target, cancelled, result>>

(* The call returns.  A failure can be reported any time before the tunnel *)
(* is up, whether or not the call was cancelled; once it is up the result  *)
(* is decided by the last look at the context.                             *)
Return(r) ==
  /\ \/ /\ phase = "setup"
        /\ r \in {"validation", "failed", "already"}
     \/ /\ phase = "setup"
        /\ cancelled
        /\ r = "canceled"
     \/ /\ phase = "up"
        /\ r = IF cancelled THEN "canceled" ELSE "ok"
  /\ phase' = "returned"
  /\ result' = r
  /\ UNCHANGED <<target, cancelled, up>>

(* The completion handler takes the result.                                *)
Consume ==
  /\ phase = "returned"
  /\ phase' = "idle"
  /\ UNCHANGED <<target, cancelled, result, up>>

(* Tunnels also change by themselves: the link drops or is hung up, or     *)
(* another program dials.                                                  *)
Drop(p) ==
  /\ p \in up
  /\ up' = up \ {p}
  /\ UNCHANGED <<phase, target, cancelled, result>>

DialOutside(p) ==
  /\ p \notin up
  /\ up' = up \union {p}
  /\ UNCHANGED <<phase, target, cancelled, result>>

-----------------------------------------------------------------------------
CallNext ==
  \/ \E p \in Profiles : Begin(p) \/ SweepOther(p) \/ Drop(p) \/ DialOutside(p)
  \/ CancelCall
  \/ Dialled
  \/ \E r \in Results : Return(r)
  \/ Consume

Returns == \E r \in Results : Return(r)

CallSpec == CallInit /\ [][CallNext]_callVars /\ WF_callVars(Returns)

=============================================================================
