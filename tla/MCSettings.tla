----------------------------- MODULE MCSettings -----------------------------
(***************************************************************************)
(* Small instances of Settings.                                            *)
(***************************************************************************)
EXTENDS Settings, TLC

Symmetry == Permutations(Profiles) \union Permutations(AutoSaves)

=============================================================================
