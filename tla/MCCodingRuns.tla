---------------------------- MODULE MCCodingRuns ----------------------------
EXTENDS CodingRuns, TLC
Symmetry == Permutations(Calls) \cup Permutations(Runs)
=============================================================================
