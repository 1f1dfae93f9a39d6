-------------------------- MODULE MCSingleInstance ---------------------------
(***************************************************************************)
(* Small instances of SingleInstance.                                      *)
(***************************************************************************)
EXTENDS SingleInstance, TLC

Symmetry == Permutations(Launches)

=============================================================================
