------------------------ MODULE MCPartitionAssignment ------------------------
(* A small instance of PartitionAssignment for TLC. *)
EXTENDS PartitionAssignment, TLC

CONSTANTS a, b

TwoManagers == {a, b}
TwoWorkers == 1..2
FourWorkers == 1..4
Symmetry == Permutations(TwoManagers)
=============================================================================
