--------------------------- MODULE MC_WorkerLock ---------------------------
(* Instances of WorkerLock for TLC.                                        *)
EXTENDS WorkerLock, TLC

CONSTANTS i1, i2, i3, t1, t2

Symmetry == Permutations(Instances) \cup Permutations(Tasks)
=============================================================================
