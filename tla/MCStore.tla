------------------------------ MODULE MCStore -------------------------------
(***************************************************************************)
(* Small instances of Store.                                               *)
(***************************************************************************)
EXTENDS Store, TLC

Symmetry ==
  Permutations(Inodes) \union Permutations(Writers)
    \union Permutations(Values) \union Permutations(Keys)

=============================================================================
