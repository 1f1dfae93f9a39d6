------------------------------- MODULE MCQuit -------------------------------
(***************************************************************************)
(* Small instances of Quit.                                                *)
(***************************************************************************)
EXTENDS Quit, TLC

Symmetry == Permutations(Profiles)

=============================================================================
