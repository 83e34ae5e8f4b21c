--------------------------- MODULE MCStagedHistory --------------------------
EXTENDS StagedHistory, TLC
Symmetry == Permutations(Runs)
=============================================================================
