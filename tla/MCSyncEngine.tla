---------------------------- MODULE MCSyncEngine ----------------------------
(* Instances of SyncEngine for TLC.                                        *)
EXTENDS SyncEngine, TLC

Symmetry == Permutations(Keys) \cup Permutations(Contents)
=============================================================================
