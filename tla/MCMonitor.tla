----------------------------- MODULE MCMonitor -----------------------------
(***************************************************************************)
(* Small instances of Monitor.                                             *)
(***************************************************************************)
EXTENDS Monitor

=============================================================================
