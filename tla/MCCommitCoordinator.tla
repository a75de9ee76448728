-------------------------- MODULE MCCommitCoordinator --------------------------
EXTENDS CommitCoordinator, FiniteSetsExt, TLC

CONSTANTS p1, p2

\* The partitions are interchangeable: no action or property orders them.
Symmetry == Permutations(Partitions)

\* Bound: offsets completed over all partitions, of the 6 there are.
MaxHandled == 5
HandledBound == MapThenSumSet(LAMBDA p : Cardinality(handled[p]), Partitions) <= MaxHandled
================================================================================
