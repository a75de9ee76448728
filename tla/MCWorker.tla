-------------------------------- MODULE MCWorker -------------------------------
EXTENDS Worker, TLC

CONSTANTS p1, p2, k1, k2

\* The dedupe keys are interchangeable, and so are the partitions.
Symmetry == Permutations(Keys) \union Permutations(Partitions)
================================================================================
