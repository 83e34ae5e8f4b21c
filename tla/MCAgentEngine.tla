--------------------------- MODULE MCAgentEngine ---------------------------
(* Small instances of AgentEngine for TLC. *)
EXTENDS AgentEngine

Serial(f)   == [mode |-> "serial", print |-> f]
Parallel(f) == [mode |-> "parallel", print |-> f]
Invalid(f)  == [mode |-> "invalid", print |-> f]

\* The fingerprint of an invalid item is never looked at: one stands for all.
AnyCall(prints, broken) ==
  {Serial(f) : f \in prints} \cup {Parallel(f) : f \in prints} \cup {Invalid(broken)}

AllBatches(longest) ==
  UNION {[1..n -> AnyCall(Fingerprints, CHOOSE f \in Fingerprints : TRUE)] : n \in 1..longest}

\* Every batch of up to two calls, and every call there is between two parallel
\* ones: the batches in which a group may end early, or must not.
ShortBatches   == AllBatches(2)
BarrierBatches ==
  {<<Parallel(f), c, Parallel(g)>> : f \in Fingerprints, g \in Fingerprints,
                                     c \in AnyCall(Fingerprints, CHOOSE f \in Fingerprints : TRUE)}
EveryBatch     == ShortBatches \cup BarrierBatches

Enforce(n) == [mode |-> "enforce", threshold |-> n]
Observe(n) == [mode |-> "observe", threshold |-> n]

EnforceAtTwo   == Enforce(2)
EnforceAtThree == Enforce(3)
ObserveAtTwo   == Observe(2)
Off            == [mode |-> "off", threshold |-> 1]
=============================================================================
