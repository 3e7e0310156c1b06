--------------------------- MODULE MCShareGrants ----------------------------
(* Instances of ShareGrants for TLC.                                       *)
EXTENDS ShareGrants

Symmetry == Permutations(Names) \union Permutations(DirIds)
=============================================================================
