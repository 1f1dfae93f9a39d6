---------------------------- MODULE MCConnectFull ----------------------------
(***************************************************************************)
(* Small instances of ConnectFull.                                         *)
(***************************************************************************)
EXTENDS ConnectFull, TLC

Symmetry == Permutations(Prefixes)

=============================================================================
