----------------------------- MODULE MCTraffic -----------------------------
(***************************************************************************)
(* Small instances of Traffic.                                             *)
(***************************************************************************)
EXTENDS Traffic

=============================================================================
