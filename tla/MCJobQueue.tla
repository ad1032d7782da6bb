----------------------------- MODULE MCJobQueue -----------------------------
EXTENDS JobQueue, TLC
Symmetry == Permutations(Worker)
=============================================================================
