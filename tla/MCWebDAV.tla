------------------------------ MODULE MCWebDAV ------------------------------
(* Instances of WebDAV for TLC.                                            *)
EXTENDS WebDAV, TLC

Symmetry == Permutations(Names) \cup Permutations(DirIds) \cup Permutations(FileIds)
=============================================================================
