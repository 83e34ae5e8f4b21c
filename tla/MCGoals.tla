-------------------------------- MODULE MCGoals --------------------------------
\* The goals of one session; the configurations say which budgets and bounds.
EXTENDS Goals
=============================================================================
