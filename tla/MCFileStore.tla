---------------------------- MODULE MCFileStore ----------------------------
(* Instances of FileStore for TLC.                                         *)
EXTENDS FileStoreRefinement, TLC

Symmetry == Permutations(Requests) \cup Permutations(Keys)
              \cup Permutations(Contents) \cup Permutations(Ids)
=============================================================================
