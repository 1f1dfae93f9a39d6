---------------------------- MODULE MCController ----------------------------
(***************************************************************************)
(* Small instances of Controller.                                          *)
(***************************************************************************)
EXTENDS Controller, TLC

Symmetry == Permutations(Profiles) \union Permutations(Slots)

=============================================================================
