------------------------------ MODULE MCBackup ------------------------------
(* Instances of Backup for TLC.  The files lie in one pool, so that they    *)
(* may be exchanged for each other.                                        *)
EXTENDS Backup, TLC

CONSTANTS p1, k1

OnePool == [f \in Files |-> p1]

Plain == [dest |-> "local", pools |-> Pools, incremental |-> FALSE, key |-> None,
          keep |-> 0, days |-> FALSE]
KeepOne == [Plain EXCEPT !.incremental = TRUE, !.keep = 1]
ByDays == {[Plain EXCEPT !.days = TRUE]}
SealedOrRemote ==
  {[Plain EXCEPT !.key = k1], [Plain EXCEPT !.dest = "remote", !.days = TRUE]}

Symmetry == Permutations(Runners) \cup Permutations(Blobs) \cup Permutations(Files)
=============================================================================
