--------------------------- MODULE MCCheckpointLock ---------------------------
(* Values of CheckpointLock's constants for TLC.                           *)
EXTENDS CheckpointLock, TLC

CONSTANTS p1, p2, p3, p4

TwoMachines == [p \in Process |-> IF p = p4 THEN "there" ELSE "here"]

Alike == Permutations(Process \ {p4})
=============================================================================
