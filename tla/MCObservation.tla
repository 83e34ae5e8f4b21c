---- MODULE MCObservation ----
EXTENDS Observation, TLC
Symmetric == Permutations(Sessions) \cup Permutations(Readers)
====
