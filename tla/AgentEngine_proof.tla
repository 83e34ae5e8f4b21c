------------------------- MODULE AgentEngine_proof -------------------------
(***************************************************************************)
(* Proofs about AgentEngine, for every set of batches, budget and          *)
(* guardrail configuration.                                                *)
(*                                                                         *)
(* The safety invariants are not inductive: whether a completed exchange   *)
(* is truthful depends on what was settled at each position before, and    *)
(* that on what started and reported meanwhile.  IInv says so for every    *)
(* await the engine can be at.                                             *)
(*                                                                         *)
(* The promises of the guardrails and the order of side effects need more: *)
(* what the detectors have seen of the batch.  GInv, at the end, says that *)
(* their streaks are as long as the repetition and the failures they have  *)
(* seen, and that everything started was inspected before.                 *)
(***************************************************************************)
EXTENDS AgentEngine, SequenceFacts, FiniteSetTheorems, SequenceTheorems, TLAPS

\* The awaits at which a batch is being settled.
Working ==
  {"batch", "authorize", "start", "execute", "inspect", "authorizeGroup", "startGroup",
   "executeGroup", "observe", "complete"}

\* Which exchange there is at which await, and which ending leaves one open.
PhaseInv ==
  /\ pc = "done" <=> outcome # "running"
  /\ pc \in Working => exchange = "pending"
  /\ pc = "begin" => exchange = "none" /\ calls # <<>>
  /\ pc \in {"prepare", "count", "window", "model"} => exchange # "pending"
  /\ pc = "done" /\ exchange = "pending" => outcome \in {"record_failed", "internal"}
  /\ outcome = "cancelled" => cancelled
  /\ pc \in Working \ {"complete"} => closing = "settled"
  /\ pc = "complete" /\ closing = "cancelled" => cancelled

\* Running calls and reports belong to started calls.
RunInv ==
  /\ exchange = "none" => started = {}
  /\ running # {} => pc \in {"execute", "executeGroup"}
  /\ running \subseteq started
  /\ \A i \in running : reported[i] = "none"
  /\ \A i \in Positions : reported[i] # "none" => i \in started

\* Where the engine is in the batch, and how many results it has.
PositionInv ==
  /\ pc \in Working \ {"complete"} => index \in 1..(Len(calls) + 1)
  /\ pc \in {"authorize", "start", "execute"} => index \in Positions
  /\ pc \in Working \ {"observe", "complete"} => Len(settled) = index - 1
  /\ pc = "observe" => Len(settled) = GroupEnd(calls, index) - 1
  /\ pc = "complete" => Len(settled) = Len(calls)
  /\ pc = "inspect" => cursor \in index..(GroupEnd(calls, index) - 1)
  /\ pc = "startGroup" => cursor \in index..GroupEnd(calls, index)

\* The answer of a call: its report if it was started, a refusal otherwise.
Answers(i, result) ==
  IF i \in started THEN reported[i] # "none" /\ result = reported[i]
  ELSE result \in Refusals

\* A member of the group that was passed: started and to be reported, or refused.
MemberPassed(i) ==
  IF i \in started THEN group[i] = "none" ELSE group[i] \in Refusals

AnswerInv ==
  /\ pc \in Working => \A i \in 1..Len(settled) : Answers(i, settled[i])
  /\ pc \in Working \ {"execute", "startGroup", "executeGroup"} =>
       started \subseteq 1..Len(settled)
  /\ pc = "execute" =>
       /\ index \in started /\ started \subseteq 1..index
       /\ index \in running \/ reported[index] # "none"
  /\ pc = "startGroup" =>
       /\ group \in [Positions -> Refusals \cup {"none"}]
       /\ started \subseteq 1..(cursor - 1)
       /\ \A i \in index..(cursor - 1) : MemberPassed(i) /\ reported[i] = "none"
       /\ \A i \in cursor..(GroupEnd(calls, index) - 1) : group[i] = "none"
  /\ pc = "executeGroup" =>
       /\ started \subseteq 1..(GroupEnd(calls, index) - 1)
       /\ \A i \in index..(GroupEnd(calls, index) - 1) :
            /\ MemberPassed(i)
            /\ i \in started => i \in running \/ reported[i] # "none"
  /\ exchange = "committed" =>
       /\ Len(recorded) = Len(calls)
       /\ \A i \in Positions : Answers(i, recorded[i])

BudgetInv ==
  /\ steps <= MaxSteps
  /\ pc \in {"count", "window"} => steps < MaxSteps
  /\ dispatched <= MaxToolCalls
  /\ pc = "start" => dispatched < MaxToolCalls
  /\ IsFiniteSet(started) /\ Cardinality(started) <= dispatched

IInv == TypeOK /\ PhaseInv /\ RunInv /\ PositionInv /\ AnswerInv /\ BudgetInv

-----------------------------------------------------------------------------
(* Facts about the operators *)

\* A group lies inside its batch.
LEMMA GroupBounds ==
  ASSUME NEW batch \in Seq(Call), NEW i \in 1..(Len(batch) + 1)
  PROVE  GroupEnd(batch, i) \in i..(Len(batch) + 1)
<1> DEFINE rest == i..Len(batch)
<1>1. Len(batch) \in Int /\ i \in Int /\ i <= Len(batch) + 1
  OBVIOUS
<1>2. /\ IsFiniteSet(rest)
      /\ Cardinality(rest) = IF i > Len(batch) THEN 0 ELSE Len(batch) - i + 1
  BY <1>1, FS_Interval
<1>3. ParallelRun(batch, i) \in SUBSET rest
  BY DEF ParallelRun
<1>4. /\ IsFiniteSet(ParallelRun(batch, i))
      /\ Cardinality(ParallelRun(batch, i)) <= Cardinality(rest)
  BY <1>2, <1>3, FS_Subset
<1>5. Cardinality(ParallelRun(batch, i)) \in Nat
  BY <1>4, FS_CardinalityType
<1> QED
  BY <1>1, <1>2, <1>4, <1>5 DEF GroupEnd

\* Closing a batch keeps the results so far and refuses every other call.
LEMMA FilledFromAnswersAll ==
  ASSUME calls \in Seq(Call), NEW results \in Seq(Results), Len(results) <= Len(calls),
         NEW refusal \in Refusals,
         NEW filled, filled = FilledFrom(results, Len(results) + 1, refusal)
  PROVE  /\ filled \in Seq(Results)
         /\ Len(filled) = Len(calls)
         /\ \A i \in 1..Len(calls) :
              filled[i] = IF i <= Len(results) THEN results[i] ELSE refusal
<1> DEFINE n == Len(calls) - Len(results)
           rest == [k \in 1..n |-> refusal]
<1>1. Len(calls) \in Nat /\ Len(results) \in Nat /\ n \in Nat
  OBVIOUS
<1>2. rest \in [1..n -> Results] /\ \A k \in 1..n : rest[k] = refusal
  BY DEF Results
<1>3. filled = results \o rest
  BY <1>1 DEF FilledFrom
<1> HIDE DEF rest, n
<1>4. rest \in Seq(Results)
  BY <1>1, <1>2, SeqDef
<1>5. Len(rest) = n
  BY <1>1, <1>2, <1>4, LenProperties
<1>6. /\ results \o rest \in Seq(Results)
      /\ Len(results \o rest) = Len(results) + Len(rest)
      /\ \A i \in 1..(Len(results) + Len(rest)) :
           (results \o rest)[i] =
              IF i <= Len(results) THEN results[i] ELSE rest[i - Len(results)]
  BY <1>4, ConcatProperties
<1>7. Len(results) + n = Len(calls)
  BY <1>1 DEF n
<1>8. \A i \in 1..Len(calls) : i <= Len(results) \/ i - Len(results) \in 1..n
  BY <1>1, <1>7
<1>9. \A i \in 1..Len(calls) :
        (results \o rest)[i] = IF i <= Len(results) THEN results[i] ELSE refusal
  BY <1>2, <1>5, <1>6, <1>7, <1>8
<1> QED
  BY <1>3, <1>5, <1>6, <1>7, <1>9

-----------------------------------------------------------------------------
(* IInv is inductive *)

\* Closing a batch whose tools are done, with the right answers so far, is safe.
LEMMA ClosingPreservesIInv ==
  ASSUME IInv, pc \in Working, running = {},
         NEW results \in Seq(Results), Len(results) <= Len(calls),
         NEW refusal \in Refusals, NEW how \in {"cancelled", "budget", "guardrail"},
         how = "cancelled" => cancelled,
         \A i \in 1..Len(results) : Answers(i, results[i]),
         started \subseteq 1..Len(results),
         CloseBatch(results, Len(results) + 1, refusal, how),
         cursor' \in Nat, cutoff' \in Nat,
         UNCHANGED <<outcome, cancelled, turnVars, calls, toolVars, ledgerVars>>
  PROVE  IInv'
<1> USE DEF IInv, Positions, turnVars, toolVars, ledgerVars
<1>1. /\ settled' \in Seq(Results) /\ Len(settled') = Len(calls)
      /\ \A i \in 1..Len(calls) :
           settled'[i] = IF i <= Len(results) THEN results[i] ELSE refusal
  BY FilledFromAnswersAll DEF CloseBatch, TypeOK
<1>2. Len(results) \in Nat /\ Len(calls) \in Nat
  BY DEF TypeOK
<1>3. pc' = "complete" /\ index' = index /\ closing' = how
  BY DEF CloseBatch
<1>4. TypeOK'
  BY <1>1, <1>3 DEF TypeOK
<1>5. PhaseInv' /\ RunInv' /\ BudgetInv'
  BY <1>3 DEF PhaseInv, RunInv, BudgetInv, Working
<1>6. PositionInv'
  BY <1>1, <1>3 DEF PositionInv, Working
<1>7. \A i \in 1..Len(settled') : Answers(i, settled'[i])
  BY <1>1, <1>2 DEF Answers
<1>8. AnswerInv'
  <2>1. exchange' = "pending"
    BY DEF PhaseInv
  <2>2. started' \subseteq 1..Len(settled')
    BY <1>1, <1>2
  <2> QED
    BY <1>3, <1>7, <2>1, <2>2 DEF AnswerInv, Answers
<1> QED
  BY <1>4, <1>5, <1>6, <1>8

\* Settling the position at hand with the right answer is safe, closing the batch or not.
LEMMA SettlingPreservesIInv ==
  ASSUME IInv, pc \in {"batch", "authorize", "start", "execute"}, running = {},
         index \in Positions,
         NEW result \in Results, Answers(index, result), started \subseteq 1..index,
         Settle(result),
         UNCHANGED <<outcome, cancelled, turnVars, calls, groupVars, toolVars, ledgerVars>>
  PROVE  IInv'
<1> DEFINE results == Append(settled, result)
<1> USE DEF IInv, Positions, groupVars
<1>1. /\ pc \in Working /\ pc \notin {"observe", "complete"}
      /\ Len(settled) = index - 1 /\ index \in 1..Len(calls) /\ Len(calls) \in Nat
      /\ settled \in Seq(Results)
  BY DEF Working, PositionInv, TypeOK
<1>2. /\ results \in Seq(Results) /\ Len(results) = index
      /\ \A i \in 1..(index - 1) : results[i] = settled[i]
      /\ results[index] = result
  BY <1>1
<1> HIDE DEF results
<1>3. \A i \in 1..Len(results) : Answers(i, results[i])
  <2>1. \A i \in 1..(index - 1) : Answers(i, settled[i])
    BY <1>1 DEF AnswerInv
  <2> QED
    BY <1>1, <1>2, <2>1
<1>4. CASE ResultTrips(failures, result)
  <2>1. CloseBatch(results, Len(results) + 1, "guardrail", "guardrail")
    BY <1>2, <1>4 DEF Settle, results
  <2>2. "guardrail" \in Refusals
    BY DEF Refusals
  <2>3. cursor' \in Nat /\ cutoff' \in Nat
    BY DEF TypeOK
  <2>4. Len(results) <= Len(calls) /\ started \subseteq 1..Len(results)
    BY <1>1, <1>2
  <2>5. UNCHANGED <<outcome, cancelled, turnVars, calls, toolVars, ledgerVars>>
    OBVIOUS
  <2> HIDE DEF IInv
  <2> QED
    BY <1>1, <1>2, <1>3, <2>1, <2>2, <2>3, <2>4, <2>5, ClosingPreservesIInv
<1>5. CASE ~ResultTrips(failures, result)
  <2>1. settled' = results /\ index' = index + 1 /\ pc' = "batch" /\ closing' = closing
    BY <1>5 DEF Settle, results
  <2> USE DEF turnVars, toolVars, ledgerVars
  <2>2. TypeOK'
    BY <1>2, <2>1 DEF TypeOK
  <2>6. PositionInv'
    BY <1>1, <1>2, <2>1 DEF PositionInv, Working
  <2>3. PhaseInv' /\ RunInv' /\ BudgetInv'
    BY <1>1, <2>1 DEF PhaseInv, RunInv, BudgetInv, Working
  <2>4. exchange' = "pending"
    BY <1>1 DEF PhaseInv
  <2>5. AnswerInv'
    BY <1>2, <1>3, <2>1, <2>4 DEF AnswerInv, Answers, Working
  <2> QED
    BY <2>2, <2>3, <2>5, <2>6
<1> QED
  BY <1>4, <1>5

\* Once its tools are done, the results of a group are the right answers of its members.
LEMMA GroupResultsAnswer ==
  ASSUME IInv, pc = "executeGroup", running = {},
         NEW results, results = settled \o GroupResults
  PROVE  /\ GroupEnd(calls, index) \in index..(Len(calls) + 1)
         /\ results \in Seq(Results) /\ Len(results) = GroupEnd(calls, index) - 1
         /\ \A i \in 1..Len(results) : Answers(i, results[i])
         /\ started \subseteq 1..Len(results)
<1> DEFINE end == GroupEnd(calls, index)
           n   == end - index
<1> USE DEF IInv, Positions
<1>1. /\ calls \in Seq(Call) /\ Len(calls) \in Nat /\ index \in 1..(Len(calls) + 1)
      /\ settled \in Seq(Results) /\ Len(settled) = index - 1
  BY DEF TypeOK, PositionInv, Working
<1>2. end \in index..(Len(calls) + 1)
  BY <1>1, GroupBounds
<1>3. /\ started \subseteq 1..(end - 1)
      /\ \A i \in index..(end - 1) :
           /\ MemberPassed(i)
           /\ i \in started => i \in running \/ reported[i] # "none"
      /\ \A i \in 1..Len(settled) : Answers(i, settled[i])
  BY DEF AnswerInv, Working
<1>4. GroupResults = [k \in 1..n |->
        IF group[index + k - 1] = "none" THEN reported[index + k - 1]
        ELSE group[index + k - 1]]
  BY DEF GroupResults
<1> HIDE DEF end
<1>5. n \in Nat /\ \A k \in 1..n : index + k - 1 \in index..(end - 1) /\ index + k - 1 \in Positions
  BY <1>1, <1>2
<1>6. \A k \in 1..n : Answers(index + k - 1, GroupResults[k]) /\ GroupResults[k] \in Results
  <2> SUFFICES ASSUME NEW k \in 1..n
               PROVE  /\ Answers(index + k - 1, GroupResults[k])
                      /\ GroupResults[k] \in Results
    OBVIOUS
  <2> DEFINE i == index + k - 1
  <2>1. GroupResults[k] = IF group[i] = "none" THEN reported[i] ELSE group[i]
    BY <1>4
  <2>2. i \in index..(end - 1) /\ i \in Positions
    BY <1>5
  <2>3. reported[i] \in Reports \cup {"none"}
    BY <2>2 DEF TypeOK
  <2> HIDE DEF i
  <2>4. MemberPassed(i) /\ (i \in started => reported[i] # "none")
    BY <1>3, <2>2
  <2>5. Answers(i, GroupResults[k]) /\ GroupResults[k] \in Results
    BY <2>1, <2>3, <2>4 DEF MemberPassed, Answers, Results, Refusals
  <2> QED
    BY <2>5 DEF i
<1> HIDE DEF n
<1>7. GroupResults \in [1..n -> Results]
  BY <1>4, <1>6
<1>8. GroupResults \in Seq(Results)
  BY <1>5, <1>7, SeqDef
<1>9. Len(GroupResults) = n
  BY <1>5, <1>7, <1>8, LenProperties
<1>10. /\ results \in Seq(Results)
       /\ Len(results) = Len(settled) + Len(GroupResults)
       /\ \A i \in 1..(Len(settled) + Len(GroupResults)) :
            results[i] = IF i <= Len(settled) THEN settled[i]
                         ELSE GroupResults[i - Len(settled)]
  BY <1>1, <1>8, ConcatProperties
<1>11. Len(results) = end - 1
  BY <1>1, <1>2, <1>9, <1>10 DEF n
<1>12. \A i \in 1..Len(results) : Answers(i, results[i])
  <2> SUFFICES ASSUME NEW i \in 1..Len(results), i > Len(settled)
               PROVE  Answers(i, results[i])
    BY <1>1, <1>3, <1>10
  <2>1. i - Len(settled) \in 1..n /\ index + (i - Len(settled)) - 1 = i
    BY <1>1, <1>2, <1>11 DEF n
  <2> QED
    BY <1>1, <1>6, <1>9, <1>10, <2>1
<1> QED
  BY <1>2, <1>3, <1>10, <1>11, <1>12 DEF end

\* A token cancelled by its owner disturbs nothing.
LEMMA CancelPreservesIInv ==
  ASSUME IInv, Cancel
  PROVE  IInv'
<1> USE DEF Cancel, Positions, turnVars, groupVars, batchVars, toolVars, ledgerVars
<1>1. TypeOK' /\ PhaseInv' /\ RunInv' /\ BudgetInv'
  BY DEF IInv, TypeOK, PhaseInv, RunInv, BudgetInv
<1>2. PositionInv'
  BY DEF IInv, PositionInv
<1>3. AnswerInv'
  BY DEF IInv, AnswerInv, Answers, MemberPassed
<1> QED
  BY <1>1, <1>2, <1>3 DEF IInv

LEMMA PreparePreservesIInv ==
  ASSUME IInv, Prepare
  PROVE  IInv'
<1> USE DEF IInv, TypeOK, PhaseInv, RunInv, PositionInv, AnswerInv, BudgetInv, Answers,
            Working, Outcomes, Finish, Positions, turnVars, groupVars, batchVars, toolVars,
            ledgerVars
<1>1. CASE StepBudgetExhausted
  BY <1>1 DEF StepBudgetExhausted
<1>2. CASE PrepareTurn
  BY <1>2 DEF PrepareTurn
<1>3. CASE PreparationFails
  BY <1>3 DEF PreparationFails
<1>4. CASE TokensCounted
  BY <1>4 DEF TokensCounted
<1>5. CASE CountCancelled
  BY <1>5 DEF CountCancelled
<1>6. ASSUME NEW size, CheckWindow(size)
      PROVE  IInv'
  <2>1. steps' \in Nat /\ steps' <= MaxSteps
    BY <1>6, BudgetAssumption DEF CheckWindow
  <2>2. /\ pc = "window" /\ grace' = FALSE
        /\ UNCHANGED <<cancelled, dispatched, guardVars, batchVars, toolVars, ledgerVars>>
        /\ \/ pc' = "done" /\ outcome' = "compaction_required"
           \/ pc' = "model" /\ outcome' = outcome
    BY <1>6 DEF CheckWindow
  <2> QED
    BY <2>1, <2>2
<1> QED
  BY <1>1, <1>2, <1>3, <1>4, <1>5, <1>6 DEF Prepare

LEMMA ModelAnswersPreservesIInv ==
  ASSUME IInv, ModelAnswers
  PROVE  IInv'
<1> USE DEF IInv, TypeOK, PhaseInv, RunInv, PositionInv, AnswerInv, BudgetInv, Answers,
            Working, Outcomes, Finish, Positions, turnVars, groupVars, batchVars, toolVars,
            ledgerVars
<1>1. ASSUME NEW o \in {"cancelled", "compaction_required", "failed"}, ModelFails(o)
      PROVE  IInv'
  BY <1>1 DEF ModelFails
<1>2. CASE ResponseRejected
  BY <1>2 DEF ResponseRejected
<1>3. CASE ModelCompletes
  BY <1>3 DEF ModelCompletes
<1>4. ASSUME NEW batch \in Batches, ModelProposes(batch)
      PROVE  IInv'
  <2>1. batch \in Seq(Call) /\ batch # <<>>
    BY BatchesAssumption
  <2>2. IsFiniteSet({}) /\ Cardinality({}) = 0
    BY FS_EmptySet
  <2>3. started' = {} /\ running = {} /\ running' = {}
    BY <1>4 DEF ModelProposes
  <2>4. reported' \in [DOMAIN calls' -> {"none"}]
    BY <1>4 DEF ModelProposes
  <2>5. TypeOK'
    BY <1>4, <2>1, <2>3, <2>4 DEF ModelProposes, Results
  <2>6. PhaseInv' /\ PositionInv' /\ AnswerInv'
    BY <1>4, <2>1 DEF ModelProposes
  <2>7. RunInv'
    BY <1>4, <2>3, <2>4 DEF ModelProposes
  <2>8. BudgetInv'
    BY <1>4, <2>2, <2>3 DEF ModelProposes
  <2> QED
    BY <2>5, <2>6, <2>7, <2>8
<1> QED
  BY <1>1, <1>2, <1>3, <1>4 DEF ModelAnswers

\* The serial positions of a batch, and its two ends.
LEMMA SerialPreservesIInv ==
  ASSUME IInv,
         \/ BatchSettled \/ ConvergeCancelled \/ SettleInvalid \/ InspectSerial
         \/ Denied \/ Allowed \/ StartUnrecorded \/ StartTool \/ SettleSerial
  PROVE  IInv'
<1> USE DEF Positions
<1>1. /\ calls \in Seq(Call) /\ Len(calls) \in Nat /\ settled \in Seq(Results)
      /\ cursor \in Nat /\ cutoff \in Nat
      /\ pc \in {"batch", "authorize", "authorizeGroup", "start", "execute"} =>
           /\ pc \in Working /\ index \in 1..(Len(calls) + 1) /\ Len(settled) = index - 1
           /\ exchange = "pending"
           /\ \A i \in 1..Len(settled) : Answers(i, settled[i])
      /\ pc \in {"batch", "authorize", "authorizeGroup", "start"} =>
           running = {} /\ started \subseteq 1..Len(settled)
      /\ pc \in {"authorize", "start", "execute"} => index \in Positions
  BY DEF IInv, TypeOK, PositionInv, AnswerInv, RunInv, PhaseInv, Working
\* A position that was not started may get any refusal.
<1>2. ASSUME pc \in {"batch", "authorize", "start"}, index \in Positions,
             NEW refusal \in Refusals
      PROVE  /\ Answers(index, refusal) /\ refusal \in Results
             /\ started \subseteq 1..index
  <2>1. index \notin started /\ started \subseteq 1..index
    BY <1>1, <1>2
  <2> QED
    BY <2>1 DEF Answers, Results
<1>3. CASE BatchSettled
  BY <1>1, <1>3 DEF BatchSettled, IInv, TypeOK, PhaseInv, RunInv, PositionInv, AnswerInv,
     BudgetInv, Answers, Working, turnVars, groupVars, batchVars, toolVars, ledgerVars
\* Closing at the position at hand.
<1>4. ASSUME pc \in {"batch", "authorize", "authorizeGroup"}, index <= Len(calls) + 1,
             NEW refusal \in Refusals, NEW how \in {"cancelled", "budget", "guardrail"},
             how = "cancelled" => cancelled,
             CloseBatch(settled, index, refusal, how),
             UNCHANGED <<outcome, cancelled, turnVars, calls, toolVars, ledgerVars>>,
             cursor' \in Nat, cutoff' \in Nat
      PROVE  IInv'
  <2>1. CloseBatch(settled, Len(settled) + 1, refusal, how) /\ Len(settled) <= Len(calls)
    BY <1>1, <1>4
  <2> QED
    BY <1>1, <1>4, <2>1, ClosingPreservesIInv
<1>5. CASE ConvergeCancelled
  <2>1. /\ pc \in {"batch", "authorize", "authorizeGroup"} /\ cancelled
        /\ CloseBatch(settled, index, "interrupted", "cancelled")
        /\ UNCHANGED <<outcome, cancelled, turnVars, calls, groupVars, toolVars, ledgerVars>>
    BY <1>5 DEF ConvergeCancelled
  <2>2. "interrupted" \in Refusals /\ cursor' \in Nat /\ cutoff' \in Nat
    BY <1>1, <2>1 DEF Refusals, groupVars
  <2> QED
    BY <1>1, <1>4, <2>1, <2>2
<1>6. CASE SettleInvalid
  <2>1. "invalid" \in Refusals
    BY DEF Refusals
  <2> QED
    BY <1>1, <1>2, <1>6, <2>1, SettlingPreservesIInv DEF SettleInvalid
<1>7. CASE InspectSerial
  <2>1. CASE InvocationTrips(repeat, calls[index].print)
    <3>1. "guardrail" \in Refusals /\ cursor' \in Nat /\ cutoff' \in Nat
      BY <1>1, <1>7 DEF Refusals, groupVars, InspectSerial
    <3> QED
      BY <1>1, <1>4, <1>7, <2>1, <3>1 DEF InspectSerial
  <2>2. CASE ~InvocationTrips(repeat, calls[index].print)
    BY <1>1, <1>7, <2>2 DEF InspectSerial, IInv, TypeOK, PhaseInv, RunInv, PositionInv,
       AnswerInv, BudgetInv, Answers, Working, turnVars, groupVars, toolVars, ledgerVars
  <2> QED
    BY <2>1, <2>2
<1>8. CASE Denied
  <2>1. "denied" \in Refusals
    BY DEF Refusals
  <2> QED
    BY <1>1, <1>2, <1>8, <2>1, SettlingPreservesIInv DEF Denied
<1>9. CASE Allowed
  <2>1. CASE dispatched >= MaxToolCalls
    <3>1. "budget" \in Refusals /\ cursor' \in Nat /\ cutoff' \in Nat
      BY <1>1, <1>9 DEF Refusals, groupVars, Allowed
    <3> QED
      BY <1>1, <1>4, <1>9, <2>1, <3>1 DEF Allowed
  <2>2. CASE ~(dispatched >= MaxToolCalls)
    <3>1. dispatched < MaxToolCalls
      BY <2>2, BudgetAssumption DEF IInv, TypeOK
    <3> QED
      BY <1>1, <1>9, <2>2, <3>1 DEF Allowed, IInv, TypeOK, PhaseInv, RunInv, PositionInv,
         AnswerInv, BudgetInv, Answers, Working, turnVars, groupVars, toolVars, ledgerVars
  <2> QED
    BY <2>1, <2>2
<1>10. CASE StartUnrecorded
  <2>1. "unrecorded" \in Refusals
    BY DEF Refusals
  <2> QED
    BY <1>1, <1>2, <1>10, <2>1, SettlingPreservesIInv DEF StartUnrecorded
<1>11. CASE StartTool
  <2>1. /\ pc = "start" /\ pc' = "execute" /\ running' = {index} /\ index \in Positions
        /\ started' = started \cup {index} /\ dispatched' = dispatched + 1
        /\ UNCHANGED <<outcome, cancelled, steps, grace, guardVars, batchVars, reported,
                       exchange, recorded>>
    BY <1>1, <1>11 DEF StartTool
  <2>2. index \notin started /\ reported[index] = "none"
    BY <1>1, <2>1 DEF IInv, RunInv
  <2>3. TypeOK' /\ PhaseInv' /\ PositionInv'
    BY <1>1, <2>1 DEF IInv, TypeOK, PhaseInv, PositionInv, Working, batchVars, groupVars
  <2>4. RunInv'
    BY <1>1, <2>1, <2>2 DEF IInv, RunInv, PhaseInv, batchVars, Working
  <2>5. AnswerInv'
    BY <1>1, <2>1, <2>2 DEF IInv, AnswerInv, Answers, batchVars, Working
  <2>6. BudgetInv'
    <3>1. IsFiniteSet(started) /\ Cardinality(started) \in Nat
      BY FS_CardinalityType DEF IInv, BudgetInv
    <3>2. /\ IsFiniteSet(started \cup {index})
          /\ Cardinality(started \cup {index}) =
               IF index \in started THEN Cardinality(started) ELSE Cardinality(started) + 1
      BY <3>1, FS_AddElement
    <3> QED
      BY <2>1, <3>1, <3>2, BudgetAssumption DEF IInv, TypeOK, BudgetInv
  <2> QED
    BY <2>3, <2>4, <2>5, <2>6 DEF IInv
<1>12. CASE SettleSerial
  <2>1. /\ pc = "execute" /\ running = {} /\ index \in Positions
        /\ UNCHANGED <<outcome, cancelled, turnVars, calls, groupVars, toolVars, ledgerVars>>
    BY <1>1, <1>12 DEF SettleSerial
  <2>2. /\ started \subseteq 1..index /\ index \in started
        /\ reported[index] \in Reports /\ reported[index] \in Results
    BY <2>1 DEF IInv, TypeOK, AnswerInv, Results
  <2>3. Answers(index, reported[index])
    BY <2>2 DEF Answers, Reports
  <2>4. CASE cancelled
    <3> DEFINE results == Append(settled, reported[index])
    <3>1. /\ results \in Seq(Results) /\ Len(results) = index
          /\ \A i \in 1..(index - 1) : results[i] = settled[i]
          /\ results[index] = reported[index]
      BY <1>1, <2>1, <2>2
    <3>2. CloseBatch(results, index + 1, "interrupted", "cancelled")
      BY <1>12, <2>4 DEF SettleSerial
    <3> HIDE DEF results
    <3>3. \A i \in 1..Len(results) : Answers(i, results[i])
      BY <1>1, <2>1, <2>3, <3>1
    <3>4. /\ "interrupted" \in Refusals /\ cursor' \in Nat /\ cutoff' \in Nat
          /\ CloseBatch(results, Len(results) + 1, "interrupted", "cancelled")
          /\ Len(results) <= Len(calls) /\ started \subseteq 1..Len(results)
          /\ pc \in Working
      BY <1>1, <2>1, <2>2, <3>1, <3>2 DEF Refusals, groupVars
    <3> QED
      BY <2>1, <2>4, <3>1, <3>3, <3>4, ClosingPreservesIInv
  <2>5. CASE ~cancelled
    <3>1. Settle(reported[index])
      BY <1>12, <2>5 DEF SettleSerial
    <3> QED
      BY <2>1, <2>2, <2>3, <3>1, SettlingPreservesIInv
  <2> QED
    BY <2>4, <2>5
<1> QED
  BY <1>3, <1>5, <1>6, <1>7, <1>8, <1>9, <1>10, <1>11, <1>12

\* The steps of a parallel group before its tools are polled.
LEMMA GroupStartPreservesIInv ==
  ASSUME IInv,
         \/ EnterGroup \/ InspectMember \/ AuthorizeGroup
         \/ MemberDenied \/ MemberOverBudget \/ MemberUnrecorded \/ MemberStarted \/ RunGroup
  PROVE  IInv'
<1> DEFINE end == GroupEnd(calls, index)
<1> USE DEF Positions
<1>1. /\ calls \in Seq(Call) /\ Len(calls) \in Nat /\ settled \in Seq(Results)
      /\ cursor \in Nat /\ cutoff \in Nat
  BY DEF IInv, TypeOK
<1>2. pc \in Working \ {"complete"} =>
        /\ index \in 1..(Len(calls) + 1) /\ end \in index..(Len(calls) + 1)
        /\ exchange = "pending" /\ closing = "settled"
        /\ \A i \in 1..Len(settled) : Answers(i, settled[i])
  BY <1>1, GroupBounds DEF IInv, PositionInv, AnswerInv, PhaseInv
<1>3. pc \in {"batch", "inspect", "authorizeGroup", "startGroup"} =>
        running = {} /\ Len(settled) = index - 1
  BY DEF IInv, RunInv, PositionInv, Working
<1>4. pc \in {"batch", "inspect", "authorizeGroup"} => started \subseteq 1..(index - 1)
  BY <1>1, <1>2, <1>3 DEF IInv, AnswerInv, Working
<1> HIDE DEF end
<1>5. CASE EnterGroup
  <2>1. /\ pc = "batch" /\ pc' = "inspect" /\ cursor' = index /\ end >= index + 2
        /\ UNCHANGED <<outcome, cancelled, turnVars, guardVars, calls, index, grants, group,
                       cutoff, settled, closing, toolVars, ledgerVars>>
    BY <1>5 DEF EnterGroup, InGroup, end
  <2>2. TypeOK' /\ PhaseInv' /\ RunInv' /\ BudgetInv'
    BY <1>1, <1>2, <1>3, <2>1 DEF IInv, TypeOK, PhaseInv, RunInv, BudgetInv, Working, turnVars,
       toolVars, ledgerVars
  <2>3. PositionInv'
    BY <1>1, <1>2, <1>3, <2>1 DEF PositionInv, Working, end
  <2>4. AnswerInv'
    BY <1>2, <1>3, <1>4, <2>1 DEF AnswerInv, Answers, Working, toolVars, ledgerVars
  <2> QED
    BY <2>2, <2>3, <2>4 DEF IInv
<1>6. CASE InspectMember
  <2>1. /\ pc = "inspect" /\ cursor' = cursor + 1 /\ cursor \in index..(end - 1)
        /\ UNCHANGED <<outcome, cancelled, turnVars, failures, calls, grants, group, cutoff,
                       toolVars, ledgerVars>>
    BY <1>6 DEF InspectMember, IInv, PositionInv, end
  <2>2. CASE InvocationTrips(repeat, calls[cursor].print)
    <3>1. /\ CloseBatch(settled, Len(settled) + 1, "guardrail", "guardrail")
          /\ Len(settled) <= Len(calls) /\ started \subseteq 1..Len(settled)
          /\ pc \in Working /\ "guardrail" \in Refusals
          /\ cursor' \in Nat /\ cutoff' \in Nat
      BY <1>1, <1>2, <1>3, <1>4, <1>6, <2>1, <2>2 DEF InspectMember, Refusals, Working
    <3> QED
      BY <1>1, <1>2, <1>3, <2>1, <3>1, ClosingPreservesIInv DEF Working
  <2>3. CASE ~InvocationTrips(repeat, calls[cursor].print)
    <3>1. /\ UNCHANGED <<index, settled, closing>>
          /\ \/ pc' = "authorizeGroup"
             \/ pc' = "inspect" /\ cursor + 1 # end
      BY <1>6, <2>3 DEF InspectMember, end
    <3>2. TypeOK' /\ PhaseInv' /\ RunInv' /\ BudgetInv'
      BY <1>1, <1>2, <1>3, <2>1, <3>1 DEF IInv, TypeOK, PhaseInv, RunInv, BudgetInv, Working,
         turnVars, toolVars, ledgerVars
    <3>3. PositionInv'
      BY <1>1, <1>2, <1>3, <2>1, <3>1 DEF PositionInv, Working, end
    <3>4. AnswerInv'
      BY <1>2, <1>3, <1>4, <2>1, <3>1 DEF AnswerInv, Answers, Working, toolVars, ledgerVars
    <3> QED
      BY <3>2, <3>3, <3>4 DEF IInv
  <2> QED
    BY <2>2, <2>3
<1>7. CASE AuthorizeGroup
  <2>1. /\ pc = "authorizeGroup" /\ pc' = "startGroup" /\ cursor' = index /\ cutoff' = 0
        /\ group' = [i \in Positions |-> "none"]
        /\ UNCHANGED <<outcome, cancelled, turnVars, guardVars, calls, index, settled, closing,
                       toolVars, ledgerVars>>
    BY <1>7 DEF AuthorizeGroup
  <2>2. TypeOK' /\ PhaseInv' /\ RunInv' /\ BudgetInv'
    BY <1>1, <1>2, <1>3, <2>1 DEF IInv, TypeOK, PhaseInv, RunInv, BudgetInv, Working, turnVars,
       toolVars, ledgerVars
  <2>3. PositionInv'
    BY <1>1, <1>2, <1>3, <2>1 DEF PositionInv, Working, end
  <2>4. /\ group' \in [Positions -> Refusals \cup {"none"}]
        /\ \A i \in index..(end - 1) : group'[i] = "none"
    BY <1>1, <1>2, <2>1 DEF Working
  <2>5. AnswerInv'
    BY <1>1, <1>2, <1>3, <1>4, <2>1, <2>4
       DEF AnswerInv, Answers, MemberPassed, Working, toolVars, ledgerVars, end
  <2> QED
    BY <2>2, <2>3, <2>5 DEF IInv
\* What is known while the members are passed one by one.
<1>8. pc = "startGroup" =>
        /\ cursor \in index..end
        /\ group \in [Positions -> Refusals \cup {"none"}]
        /\ started \subseteq 1..(cursor - 1)
        /\ \A i \in index..(cursor - 1) : MemberPassed(i) /\ reported[i] = "none"
        /\ \A i \in cursor..(end - 1) : group[i] = "none"
  BY DEF IInv, PositionInv, AnswerInv, end
<1>9. ASSUME AtMember, NEW refusal \in Refusals, RefuseMember(refusal), cutoff' \in Nat
      PROVE  IInv'
  <2>1. /\ pc = "startGroup" /\ pc' = pc /\ cursor' = cursor + 1 /\ cursor \in index..(end - 1)
        /\ group' = [group EXCEPT ![cursor] = refusal]
        /\ UNCHANGED <<outcome, cancelled, turnVars, guardVars, calls, index, grants, settled,
                       closing, toolVars, ledgerVars>>
    BY <1>1, <1>2, <1>8, <1>9 DEF AtMember, RefuseMember, end, Working
  <2>2. TypeOK' /\ PhaseInv' /\ RunInv' /\ BudgetInv'
    BY <1>1, <1>2, <1>3, <1>9, <2>1 DEF IInv, TypeOK, PhaseInv, RunInv, BudgetInv, Working,
       turnVars, toolVars, ledgerVars
  <2>3. PositionInv'
    BY <1>1, <1>2, <1>3, <2>1 DEF PositionInv, Working, end
  <2>4. cursor \in Positions /\ cursor \notin started
    <3>1. pc = "startGroup" /\ cursor \in index..(end - 1)
      BY <2>1
    <3> QED
      BY <1>1, <1>2, <1>8, <3>1 DEF Working
  <2>5. reported[cursor] = "none"
    BY <2>4 DEF IInv, RunInv
  <2>6. /\ group' \in [Positions -> Refusals \cup {"none"}]
        /\ \A i \in index..cursor : MemberPassed(i)' /\ reported[i] = "none"
        /\ \A i \in (cursor + 1)..(end - 1) : group'[i] = "none"
        /\ started \subseteq 1..cursor
    BY <1>1, <1>2, <1>8, <1>9, <2>1, <2>4, <2>5 DEF MemberPassed, Working, ledgerVars
  <2>7. AnswerInv'
    BY <1>1, <1>2, <1>3, <2>1, <2>6
       DEF AnswerInv, Answers, Working, toolVars, ledgerVars, end
  <2> QED
    BY <2>2, <2>3, <2>7 DEF IInv
<1>10. CASE MemberDenied
  BY <1>1, <1>9, <1>10 DEF MemberDenied, Refusals
<1>11. CASE MemberOverBudget
  <2>1. cutoff' \in Nat
    BY <1>1, <1>11 DEF MemberOverBudget
  <2> QED
    BY <1>9, <1>11, <2>1 DEF MemberOverBudget, Refusals
<1>12. CASE MemberUnrecorded
  BY <1>1, <1>9, <1>12 DEF MemberUnrecorded, Refusals
<1>13. CASE MemberStarted
  <2>1. /\ pc = "startGroup" /\ cursor' = cursor + 1 /\ cursor \in index..(end - 1)
        /\ started' = started \cup {cursor} /\ dispatched' = dispatched + 1
        /\ dispatched < MaxToolCalls
        /\ UNCHANGED <<pc, outcome, cancelled, steps, grace, guardVars, calls, index, grants,
                       group, cutoff, settled, closing, toolVars, exchange, recorded>>
    BY <1>1, <1>2, <1>8, <1>13 DEF MemberStarted, AtMember, end, Working
  <2>2. cursor \in Positions /\ cursor \notin started
    BY <1>1, <1>2, <1>8, <2>1 DEF Working
  <2>3. reported[cursor] = "none"
    BY <2>2 DEF IInv, RunInv
  <2>4. TypeOK' /\ PhaseInv'
    BY <1>1, <2>1, <2>2 DEF IInv, TypeOK, PhaseInv, Working, toolVars
  <2>5. RunInv'
    BY <1>2, <1>3, <2>1 DEF IInv, RunInv, Working, toolVars
  <2>6. PositionInv'
    BY <1>1, <1>2, <1>3, <2>1 DEF PositionInv, Working, end
  <2>7. /\ \A i \in index..cursor : MemberPassed(i)' /\ reported[i] = "none"
        /\ started' \subseteq 1..cursor
        /\ \A i \in 1..Len(settled) : i # cursor
    BY <1>1, <1>2, <1>3, <1>8, <2>1, <2>2, <2>3 DEF MemberPassed, Working
  <2>8. AnswerInv'
    BY <1>1, <1>2, <1>3, <1>8, <2>1, <2>7 DEF AnswerInv, Answers, Working, toolVars, end
  <2>9. BudgetInv'
    <3>1. IsFiniteSet(started) /\ Cardinality(started) \in Nat
      BY FS_CardinalityType DEF IInv, BudgetInv
    <3>2. /\ IsFiniteSet(started \cup {cursor})
          /\ Cardinality(started \cup {cursor}) =
               IF cursor \in started THEN Cardinality(started) ELSE Cardinality(started) + 1
      BY <3>1, FS_AddElement
    <3> QED
      BY <2>1, <3>1, <3>2, BudgetAssumption DEF IInv, TypeOK, BudgetInv
  <2> QED
    BY <2>4, <2>5, <2>6, <2>8, <2>9 DEF IInv
<1>14. CASE RunGroup
  <2>1. /\ pc = "startGroup" /\ pc' = "executeGroup" /\ cursor = end
        /\ running' = {i \in index..(end - 1) : group[i] = "none"}
        /\ UNCHANGED <<outcome, cancelled, turnVars, guardVars, batchVars, reported, ledgerVars>>
    BY <1>14 DEF RunGroup, end
  <2>2. /\ index..(end - 1) \subseteq Positions
        /\ \A i \in index..(end - 1) : MemberPassed(i) /\ reported[i] = "none"
        /\ started \subseteq 1..(end - 1)
    BY <1>1, <1>2, <1>8, <2>1 DEF Working
  <2>3. running' \subseteq started
    BY <2>1, <2>2 DEF MemberPassed, Refusals
  <2>4. TypeOK' /\ PhaseInv' /\ BudgetInv'
    BY <1>1, <1>2, <2>1, <2>2 DEF IInv, TypeOK, PhaseInv, BudgetInv, Working, turnVars,
       batchVars, groupVars, ledgerVars
  <2>5. RunInv'
    BY <2>1, <2>2, <2>3 DEF IInv, RunInv, batchVars, ledgerVars
  <2>6. PositionInv'
    BY <1>1, <1>2, <1>3, <2>1 DEF PositionInv, Working, batchVars, groupVars
  <2>7. \A i \in index..(end - 1) :
          MemberPassed(i)' /\ (i \in started => i \in running')
    BY <2>1, <2>2 DEF MemberPassed, batchVars, groupVars, ledgerVars
  <2>8. AnswerInv'
    BY <1>1, <1>2, <2>1, <2>2, <2>7
       DEF AnswerInv, Answers, Working, batchVars, groupVars, ledgerVars, end
  <2> QED
    BY <2>4, <2>5, <2>6, <2>8 DEF IInv
<1> QED
  BY <1>5, <1>6, <1>7, <1>10, <1>11, <1>12, <1>13, <1>14

\* The results of a group are collected and shown to the failure detector.
LEMMA GroupEndPreservesIInv ==
  ASSUME IInv, SettleGroup \/ ObserveMember \/ GroupObserved
  PROVE  IInv'
<1> DEFINE end == GroupEnd(calls, index)
<1> USE DEF Positions
<1>1. /\ calls \in Seq(Call) /\ Len(calls) \in Nat /\ settled \in Seq(Results)
      /\ index \in Nat /\ cursor \in Nat /\ cutoff \in Nat
  BY DEF IInv, TypeOK
<1>2. pc = "observe" =>
        /\ index \in 1..(Len(calls) + 1) /\ end \in index..(Len(calls) + 1)
        /\ exchange = "pending" /\ closing = "settled" /\ running = {}
        /\ \A i \in 1..Len(settled) : Answers(i, settled[i])
        /\ Len(settled) = end - 1 /\ started \subseteq 1..Len(settled)
  BY <1>1, GroupBounds DEF IInv, PositionInv, AnswerInv, PhaseInv, RunInv, Working
<1>3. CASE SettleGroup
  <2> DEFINE results == settled \o GroupResults
  <2>1. /\ pc = "executeGroup" /\ running = {} /\ cursor' = index
        /\ UNCHANGED <<outcome, cancelled, turnVars, guardVars, calls, grants, group, cutoff,
                       toolVars, ledgerVars>>
    BY <1>3 DEF SettleGroup
  <2>2. /\ end \in index..(Len(calls) + 1)
        /\ results \in Seq(Results) /\ Len(results) = end - 1
        /\ \A i \in 1..Len(results) : Answers(i, results[i])
        /\ started \subseteq 1..Len(results)
    BY <2>1, GroupResultsAnswer
  <2>3. CASE cancelled
    <3>1. CloseBatch(results, end, "interrupted", "cancelled")
      BY <1>3, <2>3 DEF SettleGroup
    <3> HIDE DEF results, end
    <3>2. /\ CloseBatch(results, Len(results) + 1, "interrupted", "cancelled")
          /\ Len(results) <= Len(calls)
      BY <1>1, <2>2, <3>1
    <3>3. /\ "interrupted" \in Refusals /\ pc \in Working
          /\ cursor' \in Nat /\ cutoff' \in Nat
      BY <1>1, <2>1 DEF Refusals, Working
    <3> QED
      BY <2>1, <2>2, <2>3, <3>2, <3>3, ClosingPreservesIInv
  <2>4. CASE ~cancelled
    <3>1. settled' = results /\ pc' = "observe" /\ UNCHANGED <<index, closing>>
      BY <1>3, <2>4 DEF SettleGroup
    <3> HIDE DEF results
    <3>2. TypeOK' /\ PhaseInv' /\ RunInv' /\ BudgetInv'
      BY <1>1, <2>1, <2>2, <3>1 DEF IInv, TypeOK, PhaseInv, RunInv, BudgetInv, Working,
         turnVars, toolVars, ledgerVars
    <3>3. PositionInv'
      BY <1>1, <2>1, <2>2, <3>1 DEF IInv, PositionInv, Working
    <3>4. AnswerInv'
      BY <2>1, <2>2, <3>1 DEF IInv, PhaseInv, AnswerInv, Answers, Working, toolVars, ledgerVars
    <3> QED
      BY <3>2, <3>3, <3>4 DEF IInv
  <2> QED
    BY <2>3, <2>4
\* Closing the batch after the group.
<1>4. ASSUME pc = "observe", NEW refusal \in {"guardrail", "budget"},
             CloseBatch(settled, end, refusal, refusal),
             UNCHANGED <<outcome, cancelled, turnVars, calls, toolVars, ledgerVars>>,
             cursor' \in Nat, cutoff' \in Nat
      PROVE  IInv'
  <2> HIDE DEF end
  <2>1. /\ CloseBatch(settled, Len(settled) + 1, refusal, refusal)
        /\ Len(settled) <= Len(calls)
        /\ refusal \in Refusals /\ pc \in Working
    BY <1>1, <1>2, <1>4 DEF Refusals, Working
  <2> QED
    BY <1>1, <1>2, <1>4, <2>1, ClosingPreservesIInv
<1>5. CASE ObserveMember
  <2>1. /\ pc = "observe" /\ cursor' = cursor + 1
        /\ UNCHANGED <<outcome, cancelled, turnVars, repeat, calls, grants, group, cutoff,
                       toolVars, ledgerVars>>
    BY <1>5 DEF ObserveMember
  <2>2. CASE ResultTrips(failures, settled[cursor])
    <3>1. CloseBatch(settled, end, "guardrail", "guardrail")
      BY <1>5, <2>2 DEF ObserveMember
    <3> QED
      BY <1>1, <1>4, <2>1, <3>1
  <2>3. CASE ~ResultTrips(failures, settled[cursor])
    <3>1. UNCHANGED <<pc, index, settled, closing>>
      BY <1>5, <2>3 DEF ObserveMember
    <3> QED
      BY <1>1, <1>2, <2>1, <3>1 DEF IInv, TypeOK, PhaseInv, RunInv, PositionInv, AnswerInv,
         BudgetInv, Answers, Working, turnVars, toolVars, ledgerVars
  <2> QED
    BY <2>2, <2>3
<1>6. CASE GroupObserved
  <2>1. /\ pc = "observe"
        /\ UNCHANGED <<outcome, cancelled, turnVars, guardVars, calls, groupVars, toolVars,
                       ledgerVars>>
    BY <1>6 DEF GroupObserved
  <2>2. CASE cutoff = 0
    <3>1. index' = end /\ pc' = "batch" /\ UNCHANGED <<settled, closing>>
      BY <1>6, <2>2 DEF GroupObserved
    <3> HIDE DEF end
    <3>2. TypeOK' /\ PhaseInv' /\ RunInv' /\ BudgetInv'
      BY <1>1, <1>2, <2>1, <3>1 DEF IInv, TypeOK, PhaseInv, RunInv, BudgetInv, Working,
         turnVars, groupVars, toolVars, ledgerVars
    <3>3. PositionInv'
      BY <1>1, <1>2, <2>1, <3>1 DEF PositionInv, Working
    <3>4. AnswerInv'
      BY <1>1, <1>2, <2>1, <3>1 DEF AnswerInv, Answers, Working, toolVars, ledgerVars
    <3> QED
      BY <3>2, <3>3, <3>4 DEF IInv
  <2>3. CASE cutoff # 0
    <3>1. CloseBatch(settled, end, "budget", "budget") /\ cursor' \in Nat /\ cutoff' \in Nat
      BY <1>1, <1>6, <2>1, <2>3 DEF GroupObserved, groupVars
    <3> QED
      BY <1>4, <2>1, <3>1
  <2> QED
    BY <2>2, <2>3
<1> QED
  BY <1>3, <1>5, <1>6

\* The exchange is opened and completed, or the recorder or the task fails; tools report.
LEMMA ExchangePreservesIInv ==
  ASSUME IInv,
         \/ BeginFails \/ BeginExchange \/ CompleteFails \/ Panics \/ ToolAnswers
         \/ \E handoff \in BOOLEAN : CompleteExchange(handoff)
  PROVE  IInv'
<1> USE DEF IInv, TypeOK, PhaseInv, RunInv, PositionInv, AnswerInv, BudgetInv, Answers,
            Working, Outcomes, Finish, Positions, turnVars, groupVars, batchVars, toolVars,
            ledgerVars
<1>1. CASE BeginFails
  BY <1>1 DEF BeginFails
<1>2. CASE BeginExchange
  BY <1>2 DEF BeginExchange
<1>3. CASE CompleteFails
  BY <1>3 DEF CompleteFails
<1>4. CASE Panics
  BY <1>4 DEF Panics
<1>5. ASSUME NEW i \in running, NEW report \in Reports, ToolReturns(i, report)
      PROVE  IInv'
  <2>1. /\ i \in started /\ i \in Positions /\ reported[i] = "none" /\ report # "none"
        /\ running' = running \ {i} /\ reported' = [reported EXCEPT ![i] = report]
        /\ pc \in {"execute", "executeGroup"}
        /\ UNCHANGED <<pc, outcome, cancelled, turnVars, guardVars, batchVars, ledgerVars>>
    BY <1>5 DEF ToolReturns, Reports
  <2>2. \A k \in Positions : k # i => reported'[k] = reported[k]
    BY <2>1
  <2>3. reported' \in [Positions -> Reports \cup {"none"}] /\ reported'[i] = report
    BY <2>1
  <2>4. TypeOK' /\ PhaseInv' /\ PositionInv' /\ BudgetInv'
    BY <2>1, <2>3
  <2>5. RunInv'
    BY <2>1, <2>2, <2>3
  <2>6. AnswerInv'
    BY <2>1, <2>2, <2>3 DEF MemberPassed
  <2> QED
    BY <2>4, <2>5, <2>6
<1>6. ASSUME NEW handoff \in BOOLEAN, CompleteExchange(handoff)
      PROVE  IInv'
  <2>1. /\ pc = "complete" /\ exchange' = "committed" /\ recorded' = settled
        /\ UNCHANGED <<cancelled, turnVars, guardVars, batchVars, toolVars, started>>
        /\ \/ pc' = "prepare" /\ outcome' = outcome
           \/ pc' = "done" /\ outcome' \in Outcomes \ {"running", "cancelled"}
           \/ pc' = "done" /\ outcome' = "cancelled" /\ cancelled
    BY <1>6 DEF CompleteExchange
  <2> QED
    BY <2>1
<1> QED
  BY <1>1, <1>2, <1>3, <1>4, <1>5, <1>6 DEF ToolAnswers

LEMMA InitIInv == Init => IInv
<1> SUFFICES ASSUME Init PROVE IInv
  OBVIOUS
<1>1. IsFiniteSet({}) /\ Cardinality({}) = 0
  BY FS_EmptySet
<1> QED
  BY <1>1, BudgetAssumption DEF Init, IInv, TypeOK, PhaseInv, RunInv, PositionInv, AnswerInv,
     BudgetInv, Working, Outcomes, Positions

LEMMA NextIInv == IInv /\ [Next]_vars => IInv'
<1> SUFFICES ASSUME IInv, [Next]_vars PROVE IInv'
  OBVIOUS
<1>1. CASE UNCHANGED vars
  BY <1>1 DEF vars, IInv, TypeOK, PhaseInv, RunInv, PositionInv, AnswerInv, BudgetInv, Answers,
     MemberPassed, Positions, turnVars, groupVars, toolVars, ledgerVars
<1>2. CASE Terminated
  BY <1>1, <1>2 DEF Terminated
<1>3. CASE RecorderAnswers
  BY <1>3, ExchangePreservesIInv, SerialPreservesIInv, GroupStartPreservesIInv
     DEF RecorderAnswers
<1>4. CASE AuthorizerAnswers
  BY <1>4, SerialPreservesIInv, GroupStartPreservesIInv DEF AuthorizerAnswers
<1>5. CASE Advance
  BY <1>5, SerialPreservesIInv, GroupStartPreservesIInv, GroupEndPreservesIInv DEF Advance
<1> QED
  BY <1>1, <1>2, <1>3, <1>4, <1>5, CancelPreservesIInv, PreparePreservesIInv,
     ModelAnswersPreservesIInv, ExchangePreservesIInv DEF Next

\* IInv holds in every state of every execution.
THEOREM IInvInvariant == Spec => []IInv
BY InitIInv, NextIInv, PTL DEF Spec

-----------------------------------------------------------------------------
(* The safety properties *)

\* Every variable keeps its type, whatever the batches and the budget.
THEOREM TypeCorrectness == Spec => []TypeOK
<1>1. IInv => TypeOK
  BY DEF IInv
<1> QED
  BY <1>1, IInvInvariant, PTL

\* No tool has an effect before its exchange and its start are on record.
THEOREM SideEffectsAreFenced == Spec => []FencedSideEffects
<1>1. IInv => FencedSideEffects
  BY DEF IInv, TypeOK, RunInv, FencedSideEffects
<1> QED
  BY <1>1, IInvInvariant, PTL

\* The completed exchange tells of every call what happened to it.
THEOREM LedgerIsTruthful == Spec => []TruthfulLedger
<1>1. IInv => TruthfulLedger
  <2> SUFFICES ASSUME IInv, exchange = "committed" PROVE TruthfulLedger
    BY DEF TruthfulLedger
  <2>1. /\ Len(recorded) = Len(calls)
        /\ \A i \in Positions : Answers(i, recorded[i])
    BY DEF IInv, AnswerInv
  <2>2. \A i \in Positions : /\ reported[i] \in Reports \cup {"none"}
                             /\ reported[i] # "none" => i \in started
    BY DEF IInv, TypeOK, RunInv
  <2> QED
    BY <2>1, <2>2 DEF TruthfulLedger, Answers, Reports, Refusals
<1> QED
  BY <1>1, IInvInvariant, PTL

\* An ended execution leaves no tool running and no exchange open without a cause.
THEOREM TerminationIsClean == Spec => []CleanTermination
<1>1. IInv => CleanTermination
  BY DEF IInv, PhaseInv, RunInv, CleanTermination
<1> QED
  BY <1>1, IInvInvariant, PTL

\* Neither budget is ever exceeded.
THEOREM BudgetsAreHard == Spec => []HardBudgets
<1>1. IInv => HardBudgets
  BY DEF IInv, BudgetInv, HardBudgets
<1> QED
  BY <1>1, IInvInvariant, PTL

-----------------------------------------------------------------------------
(* Refinement of ToolExchange *)

\* Every execution, seen through its exchanges, is one ToolExchange allows.
LEMMA InitExchange == Init => Exchange!Init
BY DEF Init, Exchange!Init

LEMMA CommitExchange ==
  ASSUME IInv, NEW handoff \in BOOLEAN, CompleteExchange(handoff)
  PROVE  Exchange!Commit
<1>1. /\ pc = "complete" /\ exchange' = "committed" /\ recorded' = settled
      /\ UNCHANGED <<calls, started, reported>>
      /\ (outcome' # "running") \in BOOLEAN
  BY DEF CompleteExchange, batchVars, toolVars
<1>2. /\ exchange = "pending" /\ outcome = "running" /\ running = {}
      /\ settled \in Seq(Results) /\ Len(settled) = Len(calls) /\ Positions = 1..Len(calls)
      /\ \A i \in 1..Len(calls) : Answers(i, settled[i])
      /\ started \subseteq Positions
  BY <1>1 DEF IInv, TypeOK, PhaseInv, RunInv, PositionInv, AnswerInv, Working, Positions
<1>3. settled \in [1..Len(calls) -> Exchange!Reports \cup Exchange!Refusals]
  BY <1>2, LenProperties DEF Results, Reports, Refusals, Exchange!Reports, Exchange!Refusals
<1>4. \A i \in 1..Len(calls) :
        IF i \in started THEN settled[i] = reported[i] ELSE settled[i] \in Exchange!Refusals
  BY <1>2 DEF Answers, Refusals, Exchange!Refusals
<1>5. \A i \in started : reported[i] # "none"
  BY <1>2 DEF Answers
<1> QED
  BY <1>1, <1>2, <1>3, <1>4, <1>5 DEF Exchange!Commit

LEMMA NextExchange == IInv /\ [Next]_vars => [Exchange!Next]_(Exchange!vars)
<1> SUFFICES ASSUME IInv, [Next]_vars
             PROVE  Exchange!Next \/ UNCHANGED Exchange!vars
  OBVIOUS
<1> USE DEF Exchange!vars, turnVars, guardVars, groupVars, toolVars, ledgerVars, batchVars
\* Steps the ledger and the tools do not see.
<1>1. ASSUME UNCHANGED <<calls, outcome, exchange, started, reported, recorded>>
      PROVE  UNCHANGED Exchange!vars
  BY <1>1
<1>2. ASSUME outcome = "running", outcome' # "running",
             UNCHANGED <<calls, exchange, started, reported, recorded>>
      PROVE  Exchange!Next
  BY <1>2 DEF Exchange!End, Exchange!Next
<1>3. pc # "done" => outcome = "running"
  BY DEF IInv, PhaseInv
<1>4. CASE UNCHANGED vars
  BY <1>1, <1>4 DEF vars
<1>5. CASE Cancel \/ Terminated
  BY <1>1, <1>5 DEF Cancel, Terminated, vars
<1>6. CASE Prepare
  <2>1. ASSUME NEW size, CheckWindow(size)
        PROVE  Exchange!Next \/ UNCHANGED Exchange!vars
    BY <1>1, <1>2, <1>3, <2>1 DEF CheckWindow, Finish
  <2> QED
    BY <1>1, <1>2, <1>3, <1>6, <2>1
       DEF Prepare, StepBudgetExhausted, PrepareTurn, PreparationFails, TokensCounted,
           CountCancelled, Finish
<1>7. CASE ModelAnswers
  <2>1. ASSUME NEW o \in {"cancelled", "compaction_required", "failed"}, ModelFails(o)
        PROVE  Exchange!Next
    BY <1>2, <1>3, <2>1 DEF ModelFails, Finish
  <2>2. ASSUME ResponseRejected \/ ModelCompletes
        PROVE  Exchange!Next
    BY <1>2, <1>3, <2>2 DEF ResponseRejected, ModelCompletes, Finish
  <2>3. ASSUME NEW batch \in Batches, ModelProposes(batch)
        PROVE  Exchange!Next
    <3>1. batch \in Seq(Call) /\ Len(batch) \in {Len(b) : b \in Batches}
      BY BatchesAssumption
    <3>2. DOMAIN batch = 1..Len(batch)
      BY <3>1
    <3>3. /\ outcome = "running" /\ exchange # "pending"
          /\ Len(calls') = Len(batch) /\ outcome' = outcome
          /\ exchange' = "none" /\ started' = {} /\ recorded' = <<>>
          /\ reported' = [i \in 1..Len(batch) |-> "none"]
      BY <1>3, <2>3, <3>2 DEF ModelProposes, IInv, PhaseInv
    <3>4. Exchange!Offer(Len(batch))
      BY <3>3 DEF Exchange!Offer
    <3> QED
      BY <3>1, <3>4 DEF Exchange!Next
  <2> QED
    BY <1>7, <2>1, <2>2, <2>3 DEF ModelAnswers
<1>8. CASE RecorderAnswers
  <2>1. CASE BeginFails \/ CompleteFails
    BY <1>2, <1>3, <2>1 DEF BeginFails, CompleteFails, Finish
  <2>2. CASE BeginExchange
    <3>1. Len(calls) > 0 /\ exchange = "none" /\ outcome = "running"
      BY <1>3, <2>2 DEF BeginExchange, IInv, TypeOK, PhaseInv
    <3> QED
      BY <2>2, <3>1 DEF BeginExchange, Exchange!Begin, Exchange!Next
  <2>3. CASE StartUnrecorded \/ MemberUnrecorded
    BY <1>1, <2>3 DEF StartUnrecorded, MemberUnrecorded, RefuseMember
  <2>4. ASSUME NEW i \in Positions, started' = started \cup {i}, i \notin started,
               pc \in {"start", "startGroup"},
               UNCHANGED <<calls, outcome, exchange, reported, recorded>>
        PROVE  Exchange!Next
    <3>1. exchange = "pending" /\ outcome = "running" /\ Positions = 1..Len(calls)
      BY <1>3, <2>4 DEF IInv, TypeOK, PhaseInv, Working, Positions
    <3>2. Exchange!Start(i)
      BY <2>4, <3>1 DEF Exchange!Start
    <3> QED
      BY <3>1, <3>2 DEF Exchange!Next
  <2>5. CASE StartTool
    <3>1. index \in Positions /\ index \notin started
      BY <2>5 DEF StartTool, IInv, TypeOK, PositionInv, AnswerInv, Working, Positions
    <3> QED
      BY <2>4, <2>5, <3>1 DEF StartTool
  <2>6. CASE MemberStarted
    <3>1. /\ calls \in Seq(Call) /\ index \in 1..(Len(calls) + 1)
          /\ cursor \in index..(GroupEnd(calls, index) - 1) /\ cursor \notin started
      <4>1. /\ calls \in Seq(Call) /\ index \in 1..(Len(calls) + 1) /\ cursor \in Nat
            /\ cursor \in index..GroupEnd(calls, index) /\ started \subseteq 1..(cursor - 1)
        BY <2>6 DEF MemberStarted, AtMember, IInv, TypeOK, PositionInv, AnswerInv, Working
      <4>2. GroupEnd(calls, index) \in index..(Len(calls) + 1)
        BY <4>1, GroupBounds
      <4> QED
        BY <2>6, <4>1, <4>2 DEF MemberStarted, AtMember
    <3>2. GroupEnd(calls, index) \in index..(Len(calls) + 1)
      BY <3>1, GroupBounds
    <3>3. cursor \in Positions
      BY <3>1, <3>2 DEF Positions
    <3> QED
      BY <2>4, <2>6, <3>1, <3>3 DEF MemberStarted, AtMember
  <2>7. ASSUME NEW handoff \in BOOLEAN, CompleteExchange(handoff)
        PROVE  Exchange!Next
    BY <2>7, CommitExchange DEF Exchange!Next
  <2> QED
    BY <1>8, <2>1, <2>2, <2>3, <2>5, <2>6, <2>7 DEF RecorderAnswers
<1>9. CASE AuthorizerAnswers
  BY <1>1, <1>9 DEF AuthorizerAnswers, Denied, Allowed, AuthorizeGroup
<1>10. CASE ToolAnswers
  <2>1. PICK i \in running, report \in Reports : ToolReturns(i, report)
    BY <1>10 DEF ToolAnswers
  <2>2. /\ i \in started /\ reported[i] = "none" /\ i \in 1..Len(calls)
        /\ exchange = "pending" /\ outcome = "running"
    BY <1>3 DEF IInv, TypeOK, RunInv, PhaseInv, Working, Positions
  <2>3. Exchange!Return(i, report)
    BY <2>1, <2>2 DEF ToolReturns, Exchange!Return
  <2> QED
    BY <2>2, <2>3 DEF Exchange!Next, Reports, Exchange!Reports
<1>11. CASE Advance
  BY <1>1, <1>11 DEF Advance, BatchSettled, ConvergeCancelled, SettleInvalid, InspectSerial,
     SettleSerial, EnterGroup, InspectMember, MemberDenied, MemberOverBudget, RefuseMember,
     RunGroup, SettleGroup, ObserveMember, GroupObserved
<1>12. CASE Panics
  BY <1>2, <1>3, <1>12 DEF Panics, Finish
<1> QED
  BY <1>4, <1>5, <1>6, <1>7, <1>8, <1>9, <1>10, <1>11, <1>12 DEF Next

\* The engine implements the contract of the recorder and the tools.
THEOREM EngineImplementsToolExchange == Spec => ImplementsToolExchange
BY InitExchange, NextExchange, IInvInvariant, PTL DEF Spec, ImplementsToolExchange, Exchange!Spec

-----------------------------------------------------------------------------
(* Guardrails and the order of side effects *)

AtWork == Working \ {"complete"}

GroupAhead == {"authorizeGroup", "startGroup", "executeGroup", "observe"}

\* Nothing has ended the batch early, nor the execution.
Unbroken == pc # "done" /\ (pc = "complete" => closing = "settled")

\* How many calls of the batch the repetition detector has seen.
Inspected ==
  IF pc \in GroupAhead THEN GroupEnd(calls, index) - 1
  ELSE IF pc = "inspect" THEN cursor - 1
  ELSE IF pc = "batch" THEN index - 1
  ELSE index

\* How many results of the batch the failure detector has seen.
Observed == IF pc = "observe" THEN cursor - 1 ELSE index - 1

GuardTypes ==
  /\ repeat \in [last : SUBSET Fingerprints, streak : Nat, told : BOOLEAN]
  /\ failures \in [streak : Nat, told : BOOLEAN]

\* The last n calls up to position i are valid and all have this fingerprint.
Repeats(i, n, print) ==
  \A k \in (i - n + 1)..i : calls[k].mode # "invalid" /\ calls[k].print = print

\* The last n results up to position j are failures.
Failed(j, n) == \A k \in (j - n + 1)..j : settled[k] # "success"

Harmless(i) ==
  i >= RepeatGuard.threshold =>
    \A print \in Fingerprints : ~Repeats(i, RepeatGuard.threshold, print)

\* The streak of the detector is as long as the repetition it has seen, and still short.
RepeatInv ==
  RepeatGuard.mode = "enforce" =>
    /\ Unbroken => ~repeat.told /\ repeat.streak < RepeatGuard.threshold
    /\ pc \in AtWork =>
         /\ \A n \in 1..Inspected, print \in Fingerprints :
              Repeats(Inspected, n, print) => repeat.last = {print} /\ repeat.streak >= n
         /\ \A i \in 1..Inspected : Harmless(i)
    /\ \A i \in started : Harmless(i)

FailureInv ==
  FailureGuard.mode = "enforce" =>
    /\ Unbroken => ~failures.told /\ failures.streak < FailureGuard.threshold
    /\ pc \in AtWork =>
         /\ \A n \in 1..Observed : Failed(Observed, n) => failures.streak >= n
         /\ \A j \in FailureGuard.threshold..Observed : ~Failed(j, FailureGuard.threshold)
    /\ pc \notin AtWork => FailureStreakStops

OrderInv ==
  /\ pc = "observe" => cursor >= index
  /\ pc = "done" /\ exchange = "pending" => SerialOrder

GInv == GuardTypes /\ RepeatInv /\ FailureInv /\ OrderInv

-----------------------------------------------------------------------------
\* A group is the run of parallel calls from where it starts.
LEMMA GroupIsParallel ==
  ASSUME NEW batch \in Seq(Call), NEW i \in 1..(Len(batch) + 1)
  PROVE  \A k \in i..(GroupEnd(batch, i) - 1) : batch[k].mode = "parallel"
<1> DEFINE n == Len(batch)
           P == ParallelRun(batch, i)
           M == {e \in i..(n + 1) : e \notin P}
<1>1. n \in Nat /\ i \in Nat /\ i <= n + 1
  OBVIOUS
<1>2. P = {e \in i..n : \A k \in i..e : batch[k].mode = "parallel"}
  BY DEF ParallelRun
<1>3. n + 1 \in M /\ M \in SUBSET Nat
  BY <1>1, <1>2
<1> HIDE DEF n, P
<1>4. PICK m \in M : \A e \in M : m <= e
  BY <1>3, LeastElement
<1>5. m \in i..(n + 1) /\ m \notin P /\ m \in Nat
  BY <1>1, <1>4
<1>6. ASSUME NEW e \in i..(m - 1) PROVE e \in P
  <2>1. e \in i..(n + 1) /\ ~(m <= e)
    BY <1>1, <1>5
  <2> QED BY <1>4, <2>1
<1> HIDE DEF M
<1>7. ASSUME NEW e \in P PROVE e \in i..(m - 1)
  <2>1. e \in i..n /\ \A k \in i..e : batch[k].mode = "parallel"
    BY <1>2
  <2>2. CASE m <= e
    <3>1. m \in i..n /\ \A k \in i..m : batch[k].mode = "parallel"
      BY <1>1, <1>5, <2>1, <2>2
    <3> QED BY <1>2, <1>5, <3>1
  <2> QED BY <1>1, <1>5, <2>1, <2>2
<1>8. P = i..(m - 1)
  BY <1>6, <1>7
<1>9. Cardinality(i..(m - 1)) = IF i > m - 1 THEN 0 ELSE (m - 1) - i + 1
  BY <1>1, <1>5, FS_Interval
<1>10. GroupEnd(batch, i) = i + Cardinality(P)
  BY DEF GroupEnd, P
<1>11. GroupEnd(batch, i) = m
  BY <1>1, <1>5, <1>8, <1>9, <1>10
<1> QED BY <1>2, <1>6, <1>11

\* What a streak is after one more result.
LEMMA ResultSeen ==
  ASSUME GuardTypes, NEW result
  PROVE  /\ SeenResult(failures, result) \in [streak : Nat, told : BOOLEAN]
         /\ FailureGuard.mode = "enforce" /\ ~failures.told =>
              LET s == SeenResult(failures, result)
              IN  /\ result # "success" => s.streak = failures.streak + 1
                  /\ s.told <=> ResultTrips(failures, result)
                  /\ ~s.told /\ failures.streak < FailureGuard.threshold =>
                       s.streak < FailureGuard.threshold
<1>1. FailureGuard.mode \in {"off", "observe", "enforce"} /\ FailureGuard.threshold \in Nat \ {0}
  BY GuardAssumption DEF GuardConfig
<1>2. failures.streak \in Nat /\ failures.told \in BOOLEAN /\ failures \in [streak : Nat, told : BOOLEAN]
  BY DEF GuardTypes
<1> DEFINE s == SeenResult(failures, result)
<1>3. CASE FailureGuard.mode = "off"
  BY <1>2, <1>3 DEF SeenResult
<1>4. CASE FailureGuard.mode # "off" /\ result = "success"
  <2>1. s = [streak |-> 0, told |-> FALSE]
    BY <1>4 DEF SeenResult
  <2>2. s.streak = 0 /\ s.told = FALSE /\ s \in [streak : Nat, told : BOOLEAN]
    BY <2>1
  <2>3. ~ResultTrips(failures, result)
    BY <2>2 DEF ResultTrips
  <2> HIDE DEF s
  <2>4. s.streak < FailureGuard.threshold
    BY <1>1, <2>2
  <2> QED BY <1>4, <2>2, <2>3, <2>4 DEF s
<1>5. CASE FailureGuard.mode # "off" /\ result # "success"
  <2>1. s = [streak |-> failures.streak + 1,
             told |-> failures.told \/ failures.streak + 1 >= FailureGuard.threshold]
    BY <1>5 DEF SeenResult
  <2>2. /\ s.streak = failures.streak + 1
        /\ s.told <=> (failures.told \/ failures.streak + 1 >= FailureGuard.threshold)
    <3> DEFINE b == failures.told \/ failures.streak + 1 >= FailureGuard.threshold
    <3>1. b \in BOOLEAN /\ s = [streak |-> failures.streak + 1, told |-> b]
      BY <2>1
    <3> HIDE DEF b, s
    <3>2. s.streak = failures.streak + 1 /\ s.told = b
      BY <3>1
    <3>3. s.told <=> b
      BY <3>1, <3>2
    <3> QED BY <3>2, <3>3 DEF b
  <2>3. s \in [streak : Nat, told : BOOLEAN]
    BY <1>2, <2>1
  <2> HIDE DEF s
  <2>4. ~s.told => s.streak < FailureGuard.threshold
    BY <1>1, <1>2, <2>2
  <2> QED BY <1>5, <2>2, <2>3, <2>4 DEF ResultTrips, s
<1> QED BY <1>3, <1>4, <1>5

\* What a streak is after one more invocation.
LEMMA InvocationSeen ==
  ASSUME GuardTypes, NEW print \in Fingerprints
  PROVE  /\ SeenInvocation(repeat, print) \in [last : SUBSET Fingerprints, streak : Nat, told : BOOLEAN]
         /\ RepeatGuard.mode = "enforce" /\ ~repeat.told =>
              LET s == SeenInvocation(repeat, print)
              IN  /\ s.last = {print} /\ s.streak >= 1
                  /\ repeat.last = {print} => s.streak = repeat.streak + 1
                  /\ s.told <=> InvocationTrips(repeat, print)
                  /\ ~s.told => s.streak < RepeatGuard.threshold
<1>1. RepeatGuard.mode \in {"off", "observe", "enforce"} /\ RepeatGuard.threshold \in Nat \ {0}
  BY GuardAssumption DEF GuardConfig
<1>2. PICK r \in [last : SUBSET Fingerprints, streak : Nat, told : BOOLEAN] : r = repeat
  BY DEF GuardTypes
<1> DEFINE s == SeenInvocation(repeat, print)
<1>3. CASE RepeatGuard.mode = "off"
  BY <1>2, <1>3 DEF SeenInvocation
<1>4. CASE RepeatGuard.mode # "off"
  <2> DEFINE t == IF r.last = {print} THEN [r EXCEPT !.streak = @ + 1]
                  ELSE [last |-> {print}, streak |-> 1, told |-> FALSE]
  <2>1. s = [t EXCEPT !.told = @ \/ t.streak >= RepeatGuard.threshold]
    BY <1>2, <1>4 DEF SeenInvocation
  <2>2. /\ t \in [last : SUBSET Fingerprints, streak : Nat, told : BOOLEAN]
        /\ t.last = {print} /\ t.streak >= 1
        /\ r.last = {print} => t.streak = r.streak + 1
        /\ ~r.told => ~t.told
    BY <1>2
  <2> HIDE DEF t, s
  <2>3. /\ s \in [last : SUBSET Fingerprints, streak : Nat, told : BOOLEAN]
        /\ s.last = t.last /\ s.streak = t.streak
        /\ s.told = (t.told \/ t.streak >= RepeatGuard.threshold)
    BY <1>1, <2>1, <2>2
  <2>4. ~s.told => s.streak < RepeatGuard.threshold
    BY <1>1, <2>2, <2>3
  <2> QED BY <1>2, <2>2, <2>3, <2>4 DEF InvocationTrips, s
<1> QED BY <1>3, <1>4

\* Where the engine is in a batch, from the invariant.
LEMMA PlaceInBatch ==
  ASSUME IInv, pc \in AtWork
  PROVE  /\ calls \in Seq(Call) /\ Len(calls) \in Nat /\ Positions = 1..Len(calls)
         /\ settled \in Seq(Results) /\ index \in 1..(Len(calls) + 1) /\ index \in Nat /\ cursor \in Nat
         /\ GroupEnd(calls, index) \in index..(Len(calls) + 1)
         /\ pc # "observe" => Len(settled) = index - 1
         /\ pc = "observe" => Len(settled) = GroupEnd(calls, index) - 1
         /\ \A k \in index..(GroupEnd(calls, index) - 1) : calls[k].mode = "parallel"
<1>1. /\ calls \in Seq(Call) /\ Len(calls) \in Nat /\ Positions = 1..Len(calls)
      /\ settled \in Seq(Results) /\ index \in 1..(Len(calls) + 1) /\ index \in Nat /\ cursor \in Nat
      /\ pc # "observe" => Len(settled) = index - 1
      /\ pc = "observe" => Len(settled) = GroupEnd(calls, index) - 1
  BY DEF IInv, TypeOK, PositionInv, AtWork, Working, Positions
<1> QED BY <1>1, GroupBounds, GroupIsParallel

\* Settled calls that were started have reported, and a group is parallel: the order holds.
LEMMA OrderHolds ==
  ASSUME IInv, OrderInv
  PROVE  SerialOrder
<1> SUFFICES ASSUME NEW i \in started, NEW j \in started, i < j
             PROVE  reported[i] # "none" \/ \A k \in i..j : calls[k].mode = "parallel"
  BY DEF SerialOrder
<1>1. i \in Positions /\ j \in Positions /\ Positions = 1..Len(calls) /\ Len(calls) \in Nat
  BY DEF IInv, TypeOK, Positions
<1>2. CASE exchange = "committed"
  BY <1>1, <1>2 DEF IInv, AnswerInv, Answers
<1>3. CASE exchange = "none"
  BY <1>3 DEF IInv, RunInv
<1>4. CASE exchange = "pending" /\ pc = "done"
  BY <1>4 DEF OrderInv, SerialOrder
<1>5. CASE exchange = "pending" /\ pc # "done"
  <2>1. pc \in Working
    BY <1>5 DEF IInv, TypeOK, PhaseInv, Working
  <2>2. \A k \in 1..Len(settled) : Answers(k, settled[k])
    BY <2>1 DEF IInv, AnswerInv
  <2>3. settled \in Seq(Results) /\ Len(settled) \in Nat
    BY DEF IInv, TypeOK
  <2>4. CASE i <= Len(settled)
    <3>1. i \in 1..Len(settled)
      BY <1>1, <2>3, <2>4
    <3> QED BY <2>2, <3>1 DEF Answers
  <2>5. CASE i > Len(settled)
    <3>1. pc \in {"execute", "startGroup", "executeGroup"}
      <4>1. ~(started \subseteq 1..Len(settled))
        BY <2>3, <2>5, <1>1
      <4> QED BY <4>1, <2>1 DEF IInv, AnswerInv
    <3>2. pc \in AtWork /\ pc # "observe"
      BY <3>1 DEF AtWork, Working
    <3>3. Len(settled) = index - 1 /\ index \in Nat /\ i >= index
      BY <3>2, <2>5, <1>1, PlaceInBatch
    <3>4. CASE pc = "execute"
      <4>1. j \in 1..index
        BY <3>4 DEF IInv, AnswerInv
      <4> QED BY <4>1, <3>3, <1>1
    <3>5. CASE pc \in {"startGroup", "executeGroup"}
      <4>1. j \in 1..(GroupEnd(calls, index) - 1)
        <5>1. pc = "startGroup" => j \in 1..(cursor - 1) /\ cursor \in index..GroupEnd(calls, index)
          BY DEF IInv, AnswerInv, PositionInv
        <5>2. pc = "executeGroup" => j \in 1..(GroupEnd(calls, index) - 1)
          BY DEF IInv, AnswerInv
        <5>3. GroupEnd(calls, index) \in Int /\ index \in Int /\ cursor \in Int
          BY <3>2, PlaceInBatch
        <5> QED BY <3>5, <5>1, <5>2, <5>3
      <4>2. \A k \in index..(GroupEnd(calls, index) - 1) : calls[k].mode = "parallel"
        BY <3>2, PlaceInBatch
      <4>3. GroupEnd(calls, index) \in Int /\ index \in Int
        BY <3>2, PlaceInBatch
      <4> QED BY <4>1, <4>2, <4>3, <3>3, <1>1
    <3> QED BY <3>1, <3>4, <3>5
  <2> QED BY <1>1, <2>3, <2>4, <2>5
<1> QED BY <1>2, <1>3, <1>4, <1>5 DEF IInv, TypeOK

\* While a batch is settled, what the failure detector has not seen belongs to one group.
LEMMA WorkingStops ==
  ASSUME IInv, FailureInv, OrderInv
  PROVE  FailureStreakStops
<1> SUFFICES ASSUME FailureGuard.mode = "enforce", pc \in AtWork,
                    NEW i \in started, NEW j \in FailureGuard.threshold..Len(settled), j < i,
                    \A k \in (j - FailureGuard.threshold + 1)..j : settled[k] # "success"
             PROVE  \A k \in j..i : calls[k].mode = "parallel"
  BY DEF FailureStreakStops, FailureInv
<1>1. FailureGuard.threshold \in Nat /\ j \in Int /\ Len(settled) \in Nat
  BY GuardAssumption, PlaceInBatch DEF GuardConfig
<1>2. ~(j \in FailureGuard.threshold..Observed)
  BY DEF FailureInv, Failed
<1>3. pc = "observe" /\ j >= index
  <2>1. CASE pc # "observe"
    <3>1. Observed = Len(settled)
      BY <2>1, PlaceInBatch DEF Observed
    <3> QED BY <3>1, <1>2
  <2>2. CASE pc = "observe"
    <3>1. Observed = cursor - 1 /\ cursor >= index /\ cursor \in Nat /\ index \in Nat
      BY <2>2, PlaceInBatch DEF Observed, OrderInv
    <3> QED BY <3>1, <1>1, <1>2, <2>2
  <2> QED BY <2>1, <2>2
<1>4. i \in 1..Len(settled) /\ Len(settled) = GroupEnd(calls, index) - 1
  BY <1>3, PlaceInBatch DEF IInv, AnswerInv, Working
<1>5. \A k \in index..(GroupEnd(calls, index) - 1) : calls[k].mode = "parallel"
  BY PlaceInBatch
<1>6. GroupEnd(calls, index) \in Int /\ index \in Int
  BY PlaceInBatch
<1> QED BY <1>1, <1>3, <1>4, <1>5, <1>6

\* The detectors' promises hold in every state of the invariant.
LEMMA GInvGuards ==
  ASSUME IInv, GInv
  PROVE  GuardrailsStop /\ SerialOrder
<1>1. FailureStreakStops /\ SerialOrder
  BY WorkingStops, OrderHolds DEF GInv
<1>2. RepeatedCallNeverRuns
  BY DEF GInv, RepeatInv, RepeatedCallNeverRuns, Harmless, Repeats
<1> QED BY <1>1, <1>2 DEF GuardrailsStop

-----------------------------------------------------------------------------
(* What the steps do to the detectors *)

\* Steps that show the detectors nothing, and stay where they are or leave the batch.
LEMMA QuietStep ==
  ASSUME IInv, GInv, UNCHANGED <<guardVars, calls, started, settled>>,
         pc' \notin AtWork \/ UNCHANGED <<pc, index, cursor, closing>>,
         Unbroken' => Unbroken,
         pc' = "done" => UNCHANGED <<reported, exchange>> \/ exchange' = "committed"
  PROVE  GInv'
<1> USE DEF guardVars
<1>1. FailureStreakStops /\ SerialOrder
  BY WorkingStops, OrderHolds DEF GInv
<1>2. FailureStreakStops'
  BY <1>1 DEF FailureStreakStops
<1>3. GuardTypes'
  BY DEF GInv, GuardTypes
<1>4. \A i \in Int : Harmless(i)' <=> Harmless(i)
  BY DEF Harmless, Repeats
<1>5. pc' \in AtWork => /\ Inspected' = Inspected /\ Observed' = Observed /\ pc \in AtWork
                        /\ UNCHANGED <<pc, index, cursor, closing>>
  BY DEF Inspected, Observed
<1>6. started \subseteq Int
  BY DEF IInv, TypeOK, Positions
<1>7. RepeatInv'
  BY <1>4, <1>5, <1>6 DEF GInv, RepeatInv, Harmless, Repeats
<1>8. FailureInv'
  BY <1>2, <1>5 DEF GInv, FailureInv, Failed
<1>9. OrderInv'
  <2>1. pc' = "observe" => cursor' >= index'
    BY DEF GInv, OrderInv, AtWork, Working
  <2>2. pc' = "done" /\ exchange' = "pending" => SerialOrder'
    BY <1>1 DEF SerialOrder
  <2> QED BY <2>1, <2>2 DEF OrderInv
<1> QED BY <1>3, <1>7, <1>8, <1>9 DEF GInv

\* Steps that go on with what the detectors have seen already.
LEMMA OnwardStep ==
  ASSUME IInv, GInv, UNCHANGED <<guardVars, calls, settled, index, closing>>,
         pc \in AtWork \ {"observe"}, pc' \in AtWork \ {"observe"},
         Inspected' = Inspected, started' \subseteq started \cup 1..Inspected
  PROVE  GInv'
<1> USE DEF guardVars
<1>1. GuardTypes'
  BY DEF GInv, GuardTypes
<1>2. Observed' = Observed /\ Unbroken /\ Unbroken'
  BY DEF Observed, Unbroken, AtWork, Working
<1>3. \A i : Harmless(i)' <=> Harmless(i)
  BY DEF Harmless, Repeats
<1>4. RepeatInv'
  <2>1. ASSUME RepeatGuard.mode = "enforce"
        PROVE  /\ ~repeat.told /\ repeat.streak < RepeatGuard.threshold
               /\ \A n \in 1..Inspected, print \in Fingerprints :
                    Repeats(Inspected, n, print) => repeat.last = {print} /\ repeat.streak >= n
               /\ \A i \in 1..Inspected : Harmless(i)
               /\ \A i \in started : Harmless(i)
    BY <1>2, <2>1 DEF GInv, RepeatInv
  <2>2. ASSUME RepeatGuard.mode = "enforce" PROVE \A i \in started' : Harmless(i)'
    BY <1>3, <2>1, <2>2
  <2>3. \A n, print : Repeats(Inspected, n, print)' <=> Repeats(Inspected, n, print)
    BY DEF Repeats
  <2> QED BY <2>1, <2>2, <2>3, <1>3 DEF RepeatInv
<1>5. FailureInv'
  BY <1>2 DEF GInv, FailureInv, Failed
<1>6. OrderInv'
  BY DEF OrderInv, AtWork, Working
<1> QED BY <1>1, <1>4, <1>5, <1>6 DEF GInv

\* A batch that ends early: the results so far were seen, or belong to the group at hand.
LEMMA ClosedStep ==
  ASSUME IInv, GInv, GuardTypes', pc \in AtWork, UNCHANGED <<calls, started>>,
         NEW results \in Seq(Results), Len(results) <= Len(calls), started \subseteq 1..Len(results),
         \A k \in 1..(index - 1) : k \in 1..Len(results) => results[k] = settled[k],
         Len(results) <= index \/ \A k \in index..Len(results) : calls[k].mode = "parallel",
         NEW refusal \in Refusals, NEW how \in {"cancelled", "budget", "guardrail"},
         CloseBatch(results, Len(results) + 1, refusal, how)
  PROVE  GInv'
<1>1. pc' = "complete" /\ closing' = how
  BY DEF CloseBatch
<1>2. /\ settled' \in Seq(Results) /\ Len(settled') = Len(calls)
      /\ \A i \in 1..Len(calls) :
           settled'[i] = IF i <= Len(results) THEN results[i] ELSE refusal
  BY FilledFromAnswersAll DEF CloseBatch, IInv, TypeOK
<1>3. FailureStreakStops'
  <2> SUFFICES ASSUME FailureGuard.mode = "enforce",
                      NEW i \in started, NEW j \in FailureGuard.threshold..Len(settled'), j < i,
                      \A k \in (j - FailureGuard.threshold + 1)..j : settled'[k] # "success"
               PROVE  \A k \in j..i : calls[k].mode = "parallel"
    BY DEF FailureStreakStops
  <2>1. FailureGuard.threshold \in Nat \ {0} /\ Len(results) \in Nat /\ Len(calls) \in Nat
        /\ index \in Nat /\ i \in 1..Len(results) /\ j \in Int
    BY GuardAssumption, PlaceInBatch DEF GuardConfig
  <2>2. CASE j <= index - 1
    <3>1. \A k \in (j - FailureGuard.threshold + 1)..j : settled[k] # "success"
      <4> SUFFICES ASSUME NEW k \in (j - FailureGuard.threshold + 1)..j PROVE settled[k] # "success"
        OBVIOUS
      <4>1. k \in 1..(index - 1) /\ k \in 1..Len(results) /\ k \in 1..Len(calls) /\ k <= Len(results)
        BY <2>1, <2>2
      <4>2. settled'[k] = results[k] /\ results[k] = settled[k]
        BY <1>2, <4>1
      <4> QED BY <4>2
    <3>2. j <= Observed
      <4>1. pc = "observe" => cursor >= index /\ cursor \in Nat
        BY PlaceInBatch DEF GInv, OrderInv
      <4> QED BY <4>1, <2>1, <2>2 DEF Observed
    <3>3. Observed \in Int
      BY PlaceInBatch DEF Observed
    <3>4. j \in FailureGuard.threshold..Observed
      BY <2>1, <3>2, <3>3
    <3> QED BY <3>1, <3>4 DEF GInv, FailureInv, Failed
  <2>3. CASE j > index - 1
    <3>1. Len(results) > index
      BY <2>1, <2>3
    <3> QED BY <2>1, <2>3, <3>1
  <2> QED BY <2>1, <2>2, <2>3
<1>4. ~Unbroken' /\ pc' \notin AtWork
  BY <1>1 DEF Unbroken, AtWork
<1>5. RepeatInv'
  <2>1. \A i : Harmless(i)' <=> Harmless(i)
    BY DEF Harmless, Repeats
  <2> QED BY <1>4, <2>1 DEF GInv, RepeatInv
<1>6. FailureInv' /\ OrderInv'
  BY <1>1, <1>3, <1>4 DEF FailureInv, OrderInv
<1> QED BY <1>5, <1>6 DEF GInv

\* One more result is shown to the failure detector, which does not trip.
LEMMA ObservedStep ==
  ASSUME IInv, GInv, pc \in AtWork, pc' \in AtWork, Observed' = Observed + 1,
         failures' = SeenResult(failures, settled'[Observed']),
         ~ResultTrips(failures, settled'[Observed']),
         \A k \in 1..Observed : settled'[k] = settled[k]
  PROVE  FailureInv' /\ failures' \in [streak : Nat, told : BOOLEAN]
<1>1. Observed \in Nat
  BY PlaceInBatch DEF GInv, OrderInv, Observed
<1>2. GuardTypes /\ FailureInv /\ Unbroken
  BY DEF GInv, Unbroken, AtWork, Working
<1> DEFINE o == Observed
           result == settled'[Observed']
           t == FailureGuard.threshold
<1>3. t \in Nat \ {0}
  BY GuardAssumption DEF GuardConfig
<1>4. /\ SeenResult(failures, result) \in [streak : Nat, told : BOOLEAN]
      /\ FailureGuard.mode = "enforce" /\ ~failures.told =>
           LET s == SeenResult(failures, result)
           IN  /\ result # "success" => s.streak = failures.streak + 1
               /\ s.told <=> ResultTrips(failures, result)
               /\ ~s.told /\ failures.streak < t => s.streak < t
  BY <1>2, ResultSeen
<1>5. failures' = SeenResult(failures, result) /\ ~ResultTrips(failures, result)
      /\ result = settled'[o + 1] /\ Observed' = o + 1
  OBVIOUS
<1>6. \A k \in 1..o : settled'[k] = settled[k]
  OBVIOUS
<1>7. failures.streak \in Nat
  BY <1>2 DEF GuardTypes
<1> HIDE DEF o, result, t
<1>8. ASSUME FailureGuard.mode = "enforce"
      PROVE  /\ ~failures'.told /\ failures'.streak < t /\ failures'.streak \in Nat
             /\ result # "success" => failures'.streak = failures.streak + 1
  BY <1>2, <1>4, <1>5, <1>8 DEF FailureInv, t
<1>9. ASSUME FailureGuard.mode = "enforce", NEW n \in 1..(o + 1),
             \A k \in (o + 1 - n + 1)..(o + 1) : settled'[k] # "success"
      PROVE  failures'.streak >= n
  <2>1. o \in Nat /\ result # "success"
    BY <1>1, <1>5, <1>9 DEF o
  <2>2. CASE n = 1
    BY <1>7, <1>8, <1>9, <2>1, <2>2
  <2>3. CASE n # 1
    <3>1. n - 1 \in 1..o
      BY <2>1, <2>3
    <3>2. ASSUME NEW k \in (o - (n - 1) + 1)..o PROVE settled[k] # "success"
      <4>1. k \in 1..o /\ k \in (o + 1 - n + 1)..(o + 1)
        BY <2>1, <3>1
      <4> QED BY <1>6, <1>9, <4>1
    <3>3. Failed(o, n - 1)
      BY <3>2 DEF Failed
    <3>4. failures.streak >= n - 1
      BY <1>2, <1>9, <3>1, <3>3 DEF FailureInv, o
    <3> QED BY <1>7, <1>8, <1>9, <2>1, <3>4
  <2> QED BY <2>2, <2>3
<1>10. ASSUME FailureGuard.mode = "enforce", NEW j \in t..(o + 1),
              \A k \in (j - t + 1)..j : settled'[k] # "success"
       PROVE  FALSE
  <2>1. o \in Nat
    BY <1>1 DEF o
  <2>2. CASE j = o + 1
    <3>1. t \in 1..(o + 1)
      BY <1>3, <2>1
    <3>2. \A k \in (o + 1 - t + 1)..(o + 1) : settled'[k] # "success"
      BY <1>3, <1>10, <2>1, <2>2
    <3>3. failures'.streak >= t
      BY <1>9, <1>10, <3>1, <3>2
    <3> QED BY <1>3, <1>8, <1>10, <3>3
  <2>3. CASE j # o + 1
    <3>1. j \in t..o
      BY <1>3, <2>1, <2>3
    <3>2. ASSUME NEW k \in (j - t + 1)..j PROVE settled[k] # "success"
      <4>1. k \in 1..o
        BY <1>3, <2>1, <3>1
      <4> QED BY <1>6, <1>10, <4>1
    <3>3. Failed(j, t)
      BY <3>2 DEF Failed
    <3> QED BY <1>2, <1>10, <3>1, <3>3 DEF FailureInv, o, t
  <2> QED BY <2>2, <2>3
<1>11. FailureInv'
  <2>1. ASSUME FailureGuard.mode = "enforce", NEW n \in 1..Observed', Failed(Observed, n)'
        PROVE  failures'.streak >= n
    <3>1. n \in 1..(o + 1) /\ \A k \in (o + 1 - n + 1)..(o + 1) : settled'[k] # "success"
      <4>1. o \in Nat
        BY <1>1 DEF o
      <4>2. n \in 1..(o + 1)
        BY <1>5, <2>1
      <4> QED BY <1>5, <2>1, <4>1, <4>2 DEF Failed
    <3> QED BY <1>9, <2>1, <3>1
  <2>2. ASSUME FailureGuard.mode = "enforce", NEW j \in t..Observed', Failed(j, t)'
        PROVE  FALSE
    <3>1. j \in t..(o + 1) /\ \A k \in (j - t + 1)..j : settled'[k] # "success"
      BY <1>5, <2>2 DEF Failed, t
    <3> QED BY <1>10, <2>2, <3>1
  <2> QED BY <1>8, <2>1, <2>2 DEF FailureInv, t
<1> QED BY <1>4, <1>5, <1>11

\* One position is settled: its result is seen, and the batch goes on or ends.
LEMMA SettledStep ==
  ASSUME IInv, GInv, pc \in {"batch", "authorize", "start", "execute"}, index \in Positions,
         NEW result \in Results, Settle(result), started \subseteq 1..index,
         UNCHANGED <<calls, started>>,
         \/ pc # "batch" /\ UNCHANGED repeat
         \/ pc = "batch" /\ calls[index].mode = "invalid" /\ repeat' = ForgottenInvocations
  PROVE  GInv'
<1>1. /\ pc \in AtWork /\ pc \notin GroupAhead /\ pc # "inspect"
      /\ settled \in Seq(Results) /\ Len(settled) = index - 1 /\ index \in 1..Len(calls)
      /\ Len(calls) \in Nat
  BY PlaceInBatch DEF AtWork, Working, GroupAhead
<1>2. Unbroken /\ Observed = index - 1 /\ Inspected = IF pc = "batch" THEN index - 1 ELSE index
  BY <1>1 DEF Unbroken, Observed, Inspected, AtWork
<1> DEFINE results == Append(settled, result)
<1>3. /\ results \in Seq(Results) /\ Len(results) = index
      /\ \A k \in 1..(index - 1) : results[k] = settled[k]
      /\ results[index] = result
  BY <1>1
<1> HIDE DEF results
<1>4. failures' = SeenResult(failures, result)
  BY DEF Settle
<1>5. GuardTypes'
  <2>1. failures' \in [streak : Nat, told : BOOLEAN]
    BY <1>4, ResultSeen DEF GInv
  <2>2. repeat' \in [last : SUBSET Fingerprints, streak : Nat, told : BOOLEAN]
    <3>1. repeat \in [last : SUBSET Fingerprints, streak : Nat, told : BOOLEAN]
      BY DEF GInv, GuardTypes
    <3>2. ForgottenInvocations \in [last : SUBSET Fingerprints, streak : Nat, told : BOOLEAN]
      BY DEF ForgottenInvocations
    <3> QED BY <3>1, <3>2
  <2> QED BY <2>1, <2>2 DEF GuardTypes
<1>6. CASE ResultTrips(failures, result)
  <2>1. CloseBatch(results, Len(results) + 1, "guardrail", "guardrail")
    BY <1>3, <1>6 DEF Settle, results
  <2>2. "guardrail" \in Refusals /\ Len(results) <= Len(calls) /\ Len(results) <= index
        /\ started \subseteq 1..Len(results)
    BY <1>1, <1>3 DEF Refusals
  <2> QED BY <1>1, <1>3, <1>5, <2>1, <2>2, ClosedStep
<1>7. CASE ~ResultTrips(failures, result)
  <2>1. settled' = results /\ index' = index + 1 /\ pc' = "batch" /\ closing' = closing
    BY <1>7 DEF Settle, results
  <2>2. Unbroken' /\ pc' \in AtWork /\ Observed' = index /\ Inspected' = index
    BY <1>1, <2>1 DEF Unbroken, Observed, Inspected, AtWork, Working, GroupAhead
  <2>3. FailureInv'
    <3>1. Observed' = Observed + 1 /\ settled'[Observed'] = result
          /\ \A k \in 1..Observed : settled'[k] = settled[k]
      BY <1>1, <1>2, <1>3, <2>1, <2>2
    <3> QED BY <1>1, <1>4, <1>7, <2>2, <3>1, ObservedStep
  <2>4. OrderInv'
    BY <2>1 DEF OrderInv
  <2>5. RepeatInv'
    <3> SUFFICES ASSUME RepeatGuard.mode = "enforce" PROVE RepeatInv'
      BY DEF RepeatInv
    <3>1. RepeatGuard.threshold \in Nat \ {0}
      BY GuardAssumption DEF GuardConfig
    <3>2. /\ \A i : Harmless(i)' <=> Harmless(i)
      BY DEF Harmless, Repeats
    <3>3. /\ ~repeat.told /\ repeat.streak < RepeatGuard.threshold
          /\ \A n \in 1..Inspected, print \in Fingerprints :
               Repeats(Inspected, n, print) => repeat.last = {print} /\ repeat.streak >= n
          /\ \A i \in 1..Inspected : Harmless(i)
          /\ \A i \in started : Harmless(i)
      BY <1>1, <1>2 DEF GInv, RepeatInv
    <3>4. ~repeat'.told /\ repeat'.streak < RepeatGuard.threshold
      BY <3>1, <3>3 DEF ForgottenInvocations
    <3>5. ASSUME NEW n \in 1..index, NEW print \in Fingerprints,
                 \A k \in (index - n + 1)..index : calls[k].mode # "invalid" /\ calls[k].print = print
          PROVE  repeat'.last = {print} /\ repeat'.streak >= n
      <4>1. CASE pc = "batch"
        BY <1>1, <3>5, <4>1
      <4>2. CASE pc # "batch"
        <5>1. Repeats(Inspected, n, print) /\ Inspected = index
          BY <1>2, <3>5, <4>2 DEF Repeats
        <5> QED BY <3>3, <4>2, <5>1
      <4> QED BY <4>1, <4>2
    <3>6. ASSUME NEW i \in 1..index PROVE Harmless(i)
      <4>1. CASE i \in 1..Inspected
        BY <3>3, <4>1
      <4>2. CASE i \notin 1..Inspected
        <5>1. i = index /\ calls[index].mode = "invalid"
          BY <1>1, <1>2, <4>2
        <5>2. i >= RepeatGuard.threshold =>
                index \in (index - RepeatGuard.threshold + 1)..index
          BY <1>1, <3>1
        <5> QED BY <5>1, <5>2 DEF Harmless, Repeats
      <4> QED BY <4>1, <4>2
    <3> QED BY <2>2, <3>2, <3>3, <3>4, <3>5, <3>6 DEF RepeatInv, Repeats
  <2> QED BY <1>5, <2>3, <2>4, <2>5 DEF GInv
<1> QED BY <1>6, <1>7

\* One call is shown to the repetition detector, which does not trip.
LEMMA InspectedStep ==
  ASSUME IInv, GInv, UNCHANGED <<failures, calls, started, settled, index, closing>>,
         pc \in AtWork \ {"observe"}, pc' \in AtWork \ {"observe"},
         Inspected \in Nat, Inspected' = Inspected + 1, Inspected' \in Positions,
         calls[Inspected'].mode # "invalid",
         repeat' = SeenInvocation(repeat, calls[Inspected'].print),
         ~InvocationTrips(repeat, calls[Inspected'].print)
  PROVE  GInv'
<1> DEFINE p == Inspected
           print == calls[Inspected'].print
           t == RepeatGuard.threshold
<1>1. print \in Fingerprints /\ GuardTypes
  <2>1. calls \in Seq(Call) /\ Inspected' \in DOMAIN calls
    BY DEF IInv, TypeOK, Positions
  <2>2. PICK c \in Call : c = calls[Inspected']
    BY <2>1
  <2>3. c.print \in Fingerprints
    BY <2>2 DEF Call
  <2> QED BY <2>2, <2>3 DEF GInv
<1>2. t \in Nat \ {0}
  BY GuardAssumption DEF GuardConfig
<1>3. /\ SeenInvocation(repeat, print) \in [last : SUBSET Fingerprints, streak : Nat, told : BOOLEAN]
      /\ RepeatGuard.mode = "enforce" /\ ~repeat.told =>
           LET s == SeenInvocation(repeat, print)
           IN  /\ s.last = {print} /\ s.streak >= 1
               /\ repeat.last = {print} => s.streak = repeat.streak + 1
               /\ s.told <=> InvocationTrips(repeat, print)
               /\ ~s.told => s.streak < t
  BY <1>1, InvocationSeen
<1>4. /\ repeat' = SeenInvocation(repeat, print) /\ ~InvocationTrips(repeat, print)
      /\ p \in Nat /\ Inspected' = p + 1 /\ calls[p + 1].mode # "invalid"
      /\ calls[p + 1].print = print
  OBVIOUS
<1>5. Unbroken /\ Unbroken' /\ Observed' = Observed
  BY DEF Unbroken, Observed, AtWork, Working
<1>6. GuardTypes'
  BY <1>1, <1>3, <1>4 DEF GuardTypes
<1>7. FailureInv' /\ OrderInv'
  BY <1>5 DEF GInv, FailureInv, Failed, OrderInv, AtWork, Working
<1>8. repeat.streak \in Nat
  BY <1>1 DEF GuardTypes
<1>9. \A i : Harmless(i)' <=> Harmless(i)
  BY DEF Harmless, Repeats
<1> HIDE DEF p, print, t
<1>10. ASSUME RepeatGuard.mode = "enforce" PROVE RepeatInv'
  <2>1. /\ ~repeat.told
        /\ \A n \in 1..p, q \in Fingerprints :
             Repeats(p, n, q) => repeat.last = {q} /\ repeat.streak >= n
        /\ \A i \in 1..p : Harmless(i)
        /\ \A i \in started : Harmless(i)
    BY <1>5, <1>10 DEF GInv, RepeatInv, p
  <2>2. /\ repeat'.last = {print} /\ repeat'.streak >= 1
        /\ repeat.last = {print} => repeat'.streak = repeat.streak + 1
        /\ ~repeat'.told /\ repeat'.streak < t
    BY <1>3, <1>4, <1>10, <2>1
  <2>3. ASSUME NEW n \in 1..(p + 1), NEW q \in Fingerprints,
               \A k \in (p + 1 - n + 1)..(p + 1) : calls[k].mode # "invalid" /\ calls[k].print = q
        PROVE  repeat'.last = {q} /\ repeat'.streak >= n
    <3>1. q = print
      BY <1>4, <2>3
    <3>2. CASE n = 1
      BY <2>2, <3>1, <3>2
    <3>3. CASE n # 1
      <4>1. n - 1 \in 1..p
        BY <1>4, <3>3
      <4>2. Repeats(p, n - 1, q)
        BY <1>4, <2>3, <4>1 DEF Repeats
      <4> QED BY <1>4, <1>8, <2>1, <2>2, <3>1, <4>1, <4>2
    <3> QED BY <3>2, <3>3
  <2>4. Harmless(p + 1)
    <3> SUFFICES ASSUME p + 1 >= t, NEW q \in Fingerprints, Repeats(p + 1, t, q) PROVE FALSE
      BY DEF Harmless, t
    <3>1. t \in 1..(p + 1)
      BY <1>2, <1>4
    <3>2. \A k \in (p + 1 - t + 1)..(p + 1) : calls[k].mode # "invalid" /\ calls[k].print = q
      BY <1>2, <1>4 DEF Repeats
    <3>3. repeat'.streak >= t /\ repeat'.last = {q}
      BY <2>3, <3>1, <3>2
    <3>4. repeat'.streak \in Nat
      BY <1>3, <1>4
    <3> QED BY <1>2, <2>2, <3>3, <3>4
  <2>5. \A i \in 1..(p + 1) : Harmless(i)
    BY <1>4, <2>1, <2>4
  <2> QED BY <1>4, <1>9, <2>1, <2>2, <2>3, <2>5 DEF RepeatInv, Repeats, t
<1> QED BY <1>6, <1>7, <1>10 DEF GInv, RepeatInv

-----------------------------------------------------------------------------
(* GInv is inductive relative to IInv *)

\* Outside a batch, and where the token is cancelled or a tool reports, nothing is seen.
LEMMA QuietActions ==
  ASSUME IInv, GInv,
         \/ Cancel \/ Prepare \/ ToolAnswers \/ BeginFails \/ CompleteFails \/ BatchSettled
         \/ ResponseRejected \/ ModelCompletes
         \/ \E o \in {"cancelled", "compaction_required", "failed"} : ModelFails(o)
         \/ \E handoff \in BOOLEAN : CompleteExchange(handoff)
         \/ Panics \/ Terminated
  PROVE  GInv'
<1> USE DEF Unbroken, AtWork, Working, Finish, groupVars, batchVars, ledgerVars, toolVars
<1>1. CASE Cancel
  BY <1>1, QuietStep DEF Cancel
<1>2. CASE Prepare
  <2>1. ASSUME NEW size, CheckWindow(size) PROVE GInv'
    <3>1. /\ pc = "window" /\ (pc' = "done" \/ pc' = "model")
          /\ UNCHANGED <<guardVars, batchVars, toolVars, ledgerVars>>
      BY <2>1 DEF CheckWindow
    <3> QED BY <3>1, QuietStep
  <2>2. CASE StepBudgetExhausted \/ PreparationFails \/ CountCancelled
    BY <2>2, QuietStep DEF StepBudgetExhausted, PreparationFails, CountCancelled
  <2>3. CASE PrepareTurn \/ TokensCounted
    <3>1. /\ pc \in {"prepare", "count"} /\ pc' \in {"count", "window"}
          /\ UNCHANGED <<guardVars, batchVars, toolVars, ledgerVars>>
      BY <2>3 DEF PrepareTurn, TokensCounted
    <3> QED BY <3>1, QuietStep
  <2> QED BY <1>2, <2>1, <2>2, <2>3 DEF Prepare
<1>3. CASE ToolAnswers
  <2>1. PICK i \in running, report \in Reports : ToolReturns(i, report)
    BY <1>3 DEF ToolAnswers
  <2>2. pc # "done"
    BY DEF IInv, RunInv
  <2> QED BY <2>1, <2>2, QuietStep DEF ToolReturns
<1>4. CASE BeginFails \/ CompleteFails \/ ResponseRejected \/ ModelCompletes
  BY <1>4, QuietStep DEF BeginFails, CompleteFails, ResponseRejected, ModelCompletes
<1>5. CASE BatchSettled
  BY <1>5, QuietStep DEF BatchSettled
<1>6. ASSUME NEW o, ModelFails(o) PROVE GInv'
  BY <1>6, QuietStep DEF ModelFails
<1>7. ASSUME NEW handoff \in BOOLEAN, CompleteExchange(handoff) PROVE GInv'
  <2>1. /\ pc = "complete" /\ exchange' = "committed"
        /\ UNCHANGED <<guardVars, batchVars, toolVars, started>>
        /\ pc' = "done" \/ (pc' = "prepare" /\ closing \notin {"cancelled", "budget", "guardrail"})
    BY <1>7 DEF CompleteExchange
  <2>2. closing \in {"settled", "cancelled", "budget", "guardrail"}
    BY DEF IInv, TypeOK
  <2> QED BY <2>1, <2>2, QuietStep
<1>8. CASE Panics
  BY <1>8, QuietStep DEF Panics
<1>9. CASE Terminated
  BY <1>9, QuietStep DEF Terminated, vars
<1> QED BY <1>1, <1>2, <1>3, <1>4, <1>5, <1>6, <1>7, <1>8, <1>9

\* A new batch starts with nothing inspected, observed or started.
LEMMA BatchBegins ==
  ASSUME IInv, GInv, BeginExchange \/ \E batch \in Batches : ModelProposes(batch)
  PROVE  GInv'
<1> USE DEF guardVars, groupVars, batchVars, toolVars
<1>1. CASE BeginExchange
  <2>1. /\ pc = "begin" /\ pc' = "batch" /\ index' = 1 /\ closing' = "settled"
        /\ UNCHANGED <<repeat, failures, calls, started>> /\ started = {}
    BY <1>1 DEF BeginExchange, IInv, PhaseInv, RunInv
  <2>2. Unbroken /\ Inspected' = 0 /\ Observed' = 0
    BY <2>1 DEF Unbroken, Inspected, Observed, GroupAhead
  <2>3. 1..0 = {} /\ FailureGuard.threshold..0 = {}
    BY GuardAssumption DEF GuardConfig
  <2>4. GuardTypes' /\ OrderInv'
    BY <2>1 DEF GInv, GuardTypes, OrderInv
  <2>5. RepeatInv'
    BY <2>1, <2>2, <2>3 DEF GInv, RepeatInv, Unbroken
  <2>6. FailureInv'
    BY <2>1, <2>2, <2>3 DEF GInv, FailureInv, Unbroken, AtWork, Working
  <2> QED BY <2>4, <2>5, <2>6 DEF GInv
<1>2. ASSUME NEW batch \in Batches, ModelProposes(batch) PROVE GInv'
  <2>1. /\ pc = "model" /\ pc' = "begin" /\ started' = {}
        /\ UNCHANGED <<repeat, failures>>
    BY <1>2 DEF ModelProposes
  <2>2. Unbroken
    BY <2>1 DEF Unbroken
  <2> QED BY <2>1, <2>2 DEF GInv, GuardTypes, RepeatInv, FailureInv, OrderInv, Unbroken, AtWork,
          Working, FailureStreakStops
<1> QED BY <1>1, <1>2

\* The serial positions of a batch.
LEMMA SerialActions ==
  ASSUME IInv, GInv,
         \/ SettleInvalid \/ InspectSerial \/ Denied \/ Allowed \/ StartUnrecorded
         \/ StartTool \/ SettleSerial
  PROVE  GInv'
<1> USE DEF guardVars, groupVars, toolVars, ledgerVars, batchVars
<1>1. pc \in {"batch", "authorize", "start", "execute"} /\ pc \in AtWork /\ pc \notin GroupAhead
      /\ pc # "inspect" /\ pc # "observe"
  BY DEF SettleInvalid, InspectSerial, Denied, Allowed, StartUnrecorded, StartTool, SettleSerial,
     AtWork, Working, GroupAhead
<1>2. /\ index \in Positions /\ Positions = 1..Len(calls) /\ Len(calls) \in Nat /\ index \in Nat
      /\ settled \in Seq(Results) /\ Len(settled) = index - 1
      /\ Inspected = IF pc = "batch" THEN index - 1 ELSE index
  <2>1. index \in Positions
    BY <1>1 DEF IInv, PositionInv, SettleInvalid, InspectSerial, Denied, Allowed, StartUnrecorded,
       StartTool, SettleSerial
  <2>2. Inspected = IF pc = "batch" THEN index - 1 ELSE index
    BY <1>1 DEF Inspected
  <2> QED BY <1>1, <2>1, <2>2, PlaceInBatch
<1>3. started \subseteq 1..index
  BY <1>1, <1>2 DEF IInv, AnswerInv, Working
<1>4. pc # "execute" => started \subseteq 1..(index - 1)
  BY <1>1, <1>2 DEF IInv, AnswerInv, Working
<1>5. GuardTypes
  BY DEF GInv
<1>6. CASE SettleInvalid
  <2>1. "invalid" \in Results
    BY DEF Results, Refusals
  <2> QED BY <1>1, <1>2, <1>3, <1>6, <2>1, SettledStep DEF SettleInvalid
<1>7. CASE Denied
  <2>1. "denied" \in Results
    BY DEF Results, Refusals
  <2> QED BY <1>1, <1>2, <1>3, <1>7, <2>1, SettledStep DEF Denied
<1>8. CASE StartUnrecorded
  <2>1. "unrecorded" \in Results
    BY DEF Results, Refusals
  <2> QED BY <1>1, <1>2, <1>3, <1>8, <2>1, SettledStep DEF StartUnrecorded
\* Closing the batch at this position.
<1>9. ASSUME NEW refusal \in {"guardrail", "budget"}, CloseBatch(settled, index, refusal, refusal),
             pc # "execute", GuardTypes', UNCHANGED <<calls, started>>
      PROVE  GInv'
  <2>1. CloseBatch(settled, Len(settled) + 1, refusal, refusal)
    BY <1>2, <1>9
  <2>2. refusal \in Refusals /\ Len(settled) <= Len(calls) /\ Len(settled) <= index
        /\ started \subseteq 1..Len(settled)
    BY <1>2, <1>4, <1>9 DEF Refusals
  <2> QED BY <1>1, <1>2, <1>9, <2>1, <2>2, ClosedStep
<1>10. CASE InspectSerial
  <2> DEFINE print == calls[index].print
  <2>1. /\ pc = "batch" /\ calls[index].mode # "invalid" /\ repeat' = SeenInvocation(repeat, print)
        /\ UNCHANGED <<failures, calls, started>>
        /\ IF InvocationTrips(repeat, print)
           THEN CloseBatch(settled, index, "guardrail", "guardrail")
           ELSE pc' = "authorize" /\ UNCHANGED <<index, settled, closing>>
    BY <1>10 DEF InspectSerial
  <2>2. GuardTypes'
    <3>1. calls \in Seq(Call) /\ index \in DOMAIN calls
      BY <1>2 DEF IInv, TypeOK, Positions
    <3>2. PICK c \in Call : c = calls[index]
      BY <3>1
    <3>3. print \in Fingerprints
      BY <3>2 DEF Call
    <3>4. repeat' \in [last : SUBSET Fingerprints, streak : Nat, told : BOOLEAN]
      BY <1>5, <2>1, <3>3, InvocationSeen
    <3> QED BY <1>5, <2>1, <3>4 DEF GuardTypes
  <2>3. CASE InvocationTrips(repeat, print)
    BY <1>9, <2>1, <2>2, <2>3
  <2>4. CASE ~InvocationTrips(repeat, print)
    <3>1. /\ Inspected \in Nat /\ Inspected' = index /\ Inspected + 1 = index
          /\ pc \in AtWork \ {"observe"} /\ pc' \in AtWork \ {"observe"}
      BY <1>1, <1>2, <2>1, <2>4 DEF Inspected, GroupAhead, AtWork, Working
    <3> QED BY <1>2, <2>1, <2>4, <3>1, InspectedStep
  <2> QED BY <2>3, <2>4
<1>11. CASE Allowed
  <2>1. /\ pc = "authorize" /\ UNCHANGED <<repeat, failures, calls, started>>
        /\ \/ CloseBatch(settled, index, "budget", "budget")
           \/ pc' = "start" /\ UNCHANGED <<index, settled, closing>>
    BY <1>11 DEF Allowed
  <2>2. GuardTypes'
    BY <1>5, <2>1 DEF GuardTypes
  <2>3. CASE CloseBatch(settled, index, "budget", "budget")
    BY <1>9, <2>1, <2>2, <2>3
  <2>4. CASE pc' = "start" /\ UNCHANGED <<index, settled, closing>>
    <3>1. Inspected' = Inspected /\ pc' \in AtWork \ {"observe"}
      BY <1>2, <2>1, <2>4 DEF Inspected, GroupAhead, AtWork, Working
    <3> QED BY <1>1, <2>1, <2>4, <3>1, OnwardStep
  <2> QED BY <2>1, <2>3, <2>4
<1>12. CASE StartTool
  <2>1. /\ pc = "start" /\ pc' = "execute" /\ started' = started \cup {index}
        /\ UNCHANGED <<guardVars, calls, settled, index, closing>>
    BY <1>12 DEF StartTool
  <2>2. Inspected' = Inspected /\ pc' \in AtWork \ {"observe"} /\ index \in 1..Inspected
    BY <1>2, <2>1 DEF Inspected, GroupAhead, AtWork, Working
  <2> QED BY <1>1, <2>1, <2>2, OnwardStep
<1>13. CASE SettleSerial
  <2>1. reported[index] \in Reports /\ reported[index] \in Results
    <3>1. reported[index] \in Reports \cup {"none"} /\ reported[index] # "none"
      BY <1>2, <1>13 DEF SettleSerial, IInv, TypeOK, AnswerInv
    <3> QED BY <3>1 DEF Results
  <2>2. CASE cancelled
    <3> DEFINE results == Append(settled, reported[index])
    <3>1. /\ CloseBatch(results, index + 1, "interrupted", "cancelled")
          /\ UNCHANGED <<repeat, failures, calls, started>>
      BY <1>13, <2>2 DEF SettleSerial
    <3>2. /\ results \in Seq(Results) /\ Len(results) = index
          /\ \A k \in 1..(index - 1) : results[k] = settled[k]
      BY <1>2, <2>1
    <3> HIDE DEF results
    <3>3. GuardTypes'
      BY <1>5, <3>1 DEF GuardTypes
    <3>4. CloseBatch(results, Len(results) + 1, "interrupted", "cancelled")
          /\ "interrupted" \in Refusals /\ Len(results) <= Len(calls) /\ Len(results) <= index
          /\ started \subseteq 1..Len(results)
      BY <1>2, <1>3, <3>1, <3>2 DEF Refusals
    <3> QED BY <1>1, <3>1, <3>2, <3>3, <3>4, ClosedStep
  <2>3. CASE ~cancelled
    BY <1>1, <1>2, <1>3, <1>13, <2>1, <2>3, SettledStep DEF SettleSerial
  <2> QED BY <2>2, <2>3
<1> QED BY <1>6, <1>7, <1>8, <1>10, <1>11, <1>12, <1>13

\* A group is inspected, authorized and started, member by member.
LEMMA GroupStartActions ==
  ASSUME IInv, GInv,
         \/ EnterGroup \/ InspectMember \/ AuthorizeGroup \/ MemberDenied \/ MemberOverBudget
         \/ MemberUnrecorded \/ MemberStarted \/ RunGroup
  PROVE  GInv'
<1> USE DEF guardVars, groupVars, toolVars, ledgerVars, batchVars, AtMember, RefuseMember
<1>1. pc \in {"batch", "inspect", "authorizeGroup", "startGroup"} /\ pc \in AtWork \ {"observe"}
  BY DEF EnterGroup, InspectMember, AuthorizeGroup, MemberDenied, MemberOverBudget,
     MemberUnrecorded, MemberStarted, RunGroup, AtWork, Working
<1>2. /\ Positions = 1..Len(calls) /\ Len(calls) \in Nat /\ cursor \in Nat
      /\ index \in 1..(Len(calls) + 1) /\ index \in Nat
      /\ settled \in Seq(Results) /\ Len(settled) = index - 1
      /\ GroupEnd(calls, index) \in index..(Len(calls) + 1)
      /\ \A k \in index..(GroupEnd(calls, index) - 1) : calls[k].mode = "parallel"
  BY <1>1, PlaceInBatch
<1>3. CASE EnterGroup
  <2>1. /\ pc = "batch" /\ pc' = "inspect" /\ cursor' = index
        /\ UNCHANGED <<guardVars, calls, settled, index, closing, started>>
    BY <1>3 DEF EnterGroup
  <2>2. Inspected' = Inspected /\ pc' \in AtWork \ {"observe"}
    BY <2>1 DEF Inspected, GroupAhead, AtWork, Working
  <2> QED BY <1>1, <2>1, <2>2, OnwardStep
<1>4. CASE AuthorizeGroup \/ MemberDenied \/ MemberOverBudget \/ MemberUnrecorded \/ RunGroup
  <2>1. /\ pc \in {"authorizeGroup", "startGroup"} /\ pc' \in {"startGroup", "executeGroup"}
        /\ UNCHANGED <<guardVars, calls, settled, index, closing, started>>
    BY <1>4 DEF AuthorizeGroup, MemberDenied, MemberOverBudget, MemberUnrecorded, RunGroup
  <2>2. Inspected' = Inspected /\ pc' \in AtWork \ {"observe"}
    BY <2>1 DEF Inspected, GroupAhead, AtWork, Working
  <2> QED BY <1>1, <2>1, <2>2, OnwardStep
<1>5. CASE MemberStarted
  <2>1. /\ pc = "startGroup" /\ pc' = "startGroup" /\ started' = started \cup {cursor}
        /\ cursor < GroupEnd(calls, index)
        /\ UNCHANGED <<guardVars, calls, settled, index, closing>>
    BY <1>5 DEF MemberStarted
  <2>2. Inspected' = Inspected /\ pc' \in AtWork \ {"observe"}
        /\ Inspected = GroupEnd(calls, index) - 1
    BY <1>1, <2>1 DEF Inspected, GroupAhead
  <2>3. cursor \in index..GroupEnd(calls, index)
    BY <2>1 DEF IInv, PositionInv
  <2>4. cursor \in 1..Inspected
    BY <1>2, <2>1, <2>2, <2>3
  <2> QED BY <1>1, <2>1, <2>2, <2>4, OnwardStep
<1>6. CASE InspectMember
  <2> DEFINE print == calls[cursor].print
             end == GroupEnd(calls, index)
  <2>1. /\ pc = "inspect" /\ repeat' = SeenInvocation(repeat, print) /\ cursor' = cursor + 1
        /\ UNCHANGED <<failures, calls, started>>
        /\ IF InvocationTrips(repeat, print)
           THEN CloseBatch(settled, index, "guardrail", "guardrail")
           ELSE /\ pc' = IF cursor + 1 = end THEN "authorizeGroup" ELSE "inspect"
                /\ UNCHANGED <<index, settled, closing>>
    BY <1>6 DEF InspectMember
  <2>2. cursor \in index..(end - 1) /\ end \in index..(Len(calls) + 1)
        /\ calls[cursor].mode = "parallel"
    BY <1>2, <2>1 DEF IInv, PositionInv
  <2>3. cursor \in Positions /\ cursor \in Nat /\ cursor \in 1..Len(calls) /\ end \in Nat
    BY <1>2, <2>2
  <2>4. Inspected = cursor - 1
    BY <2>1 DEF Inspected, GroupAhead
  <2>5. GuardTypes'
    <3>1. calls \in Seq(Call) /\ cursor \in DOMAIN calls
      BY <2>3 DEF IInv, TypeOK, Positions
    <3>2. PICK c \in Call : c = calls[cursor]
      BY <3>1
    <3>3. print \in Fingerprints
      BY <3>2 DEF Call
    <3>4. repeat' \in [last : SUBSET Fingerprints, streak : Nat, told : BOOLEAN]
      BY <2>1, <3>3, InvocationSeen DEF GInv
    <3> QED BY <2>1, <3>4 DEF GInv, GuardTypes
  <2>6. CASE InvocationTrips(repeat, print)
    <3>1. CloseBatch(settled, Len(settled) + 1, "guardrail", "guardrail")
          /\ "guardrail" \in Refusals /\ Len(settled) <= Len(calls) /\ Len(settled) <= index
          /\ started \subseteq 1..Len(settled)
      BY <1>2, <2>1, <2>6 DEF Refusals, IInv, AnswerInv, Working
    <3> QED BY <1>1, <1>2, <2>1, <2>5, <3>1, ClosedStep
  <2>7. CASE ~InvocationTrips(repeat, print)
    <3>1. /\ pc' = IF cursor + 1 = end THEN "authorizeGroup" ELSE "inspect"
          /\ UNCHANGED <<index, settled, closing>>
      BY <2>1, <2>7
    <3>2. /\ pc' \in AtWork \ {"observe"} /\ pc' \in {"authorizeGroup", "inspect"}
          /\ pc' = "authorizeGroup" => cursor + 1 = end
      BY <3>1 DEF AtWork, Working
    <3>3. GroupEnd(calls, index)' = end
      BY <2>1, <3>1
    <3>4. Inspected' = cursor
      <4>1. CASE pc' = "authorizeGroup"
        <5>1. Inspected' = end - 1
          BY <3>3, <4>1 DEF Inspected, GroupAhead
        <5> QED BY <2>3, <3>2, <4>1, <5>1
      <4>2. CASE pc' = "inspect"
        <5>1. Inspected' = cursor' - 1
          BY <4>2 DEF Inspected, GroupAhead
        <5> QED BY <2>1, <2>3, <5>1
      <4> QED BY <3>2, <4>1, <4>2
    <3>5. Inspected \in Nat /\ Inspected + 1 = cursor /\ Inspected' = Inspected + 1
      BY <2>3, <2>4, <3>4
    <3> QED BY <1>1, <2>1, <2>2, <2>3, <2>7, <3>1, <3>2, <3>4, <3>5, InspectedStep
  <2> QED BY <2>6, <2>7
<1> QED BY <1>3, <1>4, <1>5, <1>6

\* The results of a group are observed; or a batch converges on cancellation.
LEMMA GroupEndActions ==
  ASSUME IInv, GInv, ConvergeCancelled \/ SettleGroup \/ ObserveMember \/ GroupObserved
  PROVE  GInv'
<1> DEFINE end == GroupEnd(calls, index)
<1> USE DEF guardVars, groupVars, toolVars, ledgerVars, batchVars
<1>1. pc \in {"batch", "authorize", "authorizeGroup", "executeGroup", "observe"} /\ pc \in AtWork
  BY DEF ConvergeCancelled, SettleGroup, ObserveMember, GroupObserved, AtWork, Working
<1>2. /\ Positions = 1..Len(calls) /\ Len(calls) \in Nat /\ cursor \in Nat
      /\ index \in 1..(Len(calls) + 1) /\ index \in Nat
      /\ settled \in Seq(Results)
      /\ pc # "observe" => Len(settled) = index - 1
      /\ pc = "observe" => Len(settled) = end - 1
      /\ end \in index..(Len(calls) + 1) /\ end \in Nat
      /\ \A k \in index..(end - 1) : calls[k].mode = "parallel"
  BY <1>1, PlaceInBatch
<1>3. GuardTypes /\ Unbroken
  BY <1>1 DEF GInv, Unbroken
<1> HIDE DEF end
<1>4. end = GroupEnd(calls, index)
  BY DEF end
<1>5. CASE ConvergeCancelled
  <2>1. /\ pc \in {"batch", "authorize", "authorizeGroup"}
        /\ CloseBatch(settled, index, "interrupted", "cancelled")
        /\ UNCHANGED <<repeat, failures, calls, started>>
    BY <1>5 DEF ConvergeCancelled
  <2>2. CloseBatch(settled, Len(settled) + 1, "interrupted", "cancelled")
        /\ "interrupted" \in Refusals /\ Len(settled) <= Len(calls) /\ Len(settled) <= index
        /\ started \subseteq 1..Len(settled)
    <3>1. Len(settled) = index - 1
      BY <1>2, <2>1
    <3>2. Len(settled) <= Len(calls) /\ Len(settled) <= index /\ Len(settled) + 1 = index
      BY <1>2, <3>1
    <3>3. started \subseteq 1..Len(settled)
      BY <2>1 DEF IInv, AnswerInv, Working
    <3> QED BY <2>1, <3>2, <3>3 DEF Refusals
  <2>3. GuardTypes'
    BY <1>3, <2>1 DEF GuardTypes
  <2> QED BY <1>1, <1>2, <2>1, <2>2, <2>3, ClosedStep
<1>6. CASE SettleGroup
  <2> DEFINE results == settled \o GroupResults
  <2>1. /\ pc = "executeGroup" /\ running = {} /\ cursor' = index
        /\ UNCHANGED <<repeat, failures, calls, started>>
        /\ IF cancelled
           THEN CloseBatch(results, end, "interrupted", "cancelled")
           ELSE /\ settled' = results /\ pc' = "observe" /\ UNCHANGED <<index, closing>>
    BY <1>4, <1>6 DEF SettleGroup
  <2>2. /\ results \in Seq(Results) /\ Len(results) = end - 1
        /\ started \subseteq 1..Len(results)
    BY <1>4, <2>1, GroupResultsAnswer
  <2>3. \A k \in 1..(index - 1) : results[k] = settled[k]
    <3>1. Len(settled) = index - 1
      BY <1>2, <2>1
    <3>2. GroupResults = [k \in 1..(end - index) |-> GroupResults[k]] /\ end - index \in Nat
      BY <1>2, <1>4 DEF GroupResults
    <3> DEFINE more == GroupResults
    <3> HIDE DEF more
    <3>3. Len(more) = end - index
      BY <3>2 DEF more
    <3>4. \A k \in 1..(Len(settled) + Len(more)) :
            (settled \o more)[k] = IF k <= Len(settled) THEN settled[k] ELSE more[k - Len(settled)]
      BY <3>2, <3>3 DEF more
    <3> QED BY <1>2, <3>1, <3>2, <3>3, <3>4 DEF more
  <2> HIDE DEF results
  <2>4. GuardTypes'
    BY <1>3, <2>1 DEF GuardTypes
  <2>5. CASE cancelled
    <3>1. CloseBatch(results, Len(results) + 1, "interrupted", "cancelled")
          /\ "interrupted" \in Refusals /\ Len(results) <= Len(calls)
      BY <1>2, <2>1, <2>2, <2>5 DEF Refusals
    <3>2. \A k \in index..Len(results) : calls[k].mode = "parallel"
      BY <1>2, <2>2
    <3> QED BY <1>1, <2>1, <2>2, <2>3, <2>4, <3>1, <3>2, ClosedStep
  <2>6. CASE ~cancelled
    <3>1. /\ settled' = results /\ pc' = "observe" /\ UNCHANGED <<index, closing>>
      BY <2>1, <2>6
    <3>2. /\ Inspected' = Inspected /\ Observed' = index - 1 /\ Observed = index - 1
          /\ Unbroken' /\ pc' \in AtWork
      BY <2>1, <3>1 DEF Inspected, Observed, GroupAhead, Unbroken, AtWork, Working
    <3>3. RepeatInv'
      BY <1>1, <1>3, <2>1, <3>2 DEF GInv, RepeatInv, Harmless, Repeats
    <3>4. FailureInv'
      <4> SUFFICES ASSUME FailureGuard.mode = "enforce" PROVE FailureInv'
        BY DEF FailureInv
      <4>1. FailureGuard.threshold \in Nat \ {0}
        BY GuardAssumption DEF GuardConfig
      <4>2. ASSUME NEW j \in 1..(index - 1), NEW n \in 1..j
            PROVE  Failed(j, n)' <=> Failed(j, n)
        <5>1. \A k \in (j - n + 1)..j : k \in 1..(index - 1)
          BY <1>2
        <5>2. \A k \in (j - n + 1)..j : settled'[k] = settled[k]
          BY <2>3, <3>1, <5>1
        <5> QED BY <5>2 DEF Failed
      <4>3. /\ ~failures.told /\ failures.streak < FailureGuard.threshold
            /\ \A n \in 1..(index - 1) : Failed(index - 1, n) => failures.streak >= n
            /\ \A j \in FailureGuard.threshold..(index - 1) : ~Failed(j, FailureGuard.threshold)
        BY <1>1, <1>3, <3>2 DEF GInv, FailureInv
      <4>4. ASSUME NEW n \in 1..Observed', Failed(Observed, n)' PROVE failures'.streak >= n
        <5>1. n \in 1..(index - 1) /\ index - 1 \in 1..(index - 1)
          BY <1>2, <3>2
        <5>2. Failed(index - 1, n)
          <6>1. \A k \in (index - 1 - n + 1)..(index - 1) : settled'[k] # "success"
            BY <3>2, <4>4 DEF Failed
          <6>2. \A k \in (index - 1 - n + 1)..(index - 1) : k \in 1..(index - 1)
            BY <1>2, <5>1
          <6> QED BY <2>3, <3>1, <6>1, <6>2 DEF Failed
        <5> QED BY <2>1, <4>3, <5>1, <5>2
      <4>5. ASSUME NEW j \in FailureGuard.threshold..Observed', Failed(j, FailureGuard.threshold)'
            PROVE  FALSE
        <5>1. j \in 1..(index - 1) /\ FailureGuard.threshold \in 1..j
              /\ j \in FailureGuard.threshold..(index - 1)
          BY <1>2, <3>2, <4>1
        <5> QED BY <4>2, <4>3, <4>5, <5>1
      <4> QED BY <2>1, <3>2, <4>3, <4>4, <4>5 DEF FailureInv
    <3>5. OrderInv'
      BY <1>2, <2>1, <3>1 DEF OrderInv
    <3> QED BY <2>4, <3>3, <3>4, <3>5 DEF GInv
  <2> QED BY <2>5, <2>6
\* Closing the batch after its group.
<1>7. ASSUME pc = "observe", NEW refusal \in {"guardrail", "budget"},
             CloseBatch(settled, end, refusal, refusal), GuardTypes', UNCHANGED <<calls, started>>
      PROVE  GInv'
  <2>1. CloseBatch(settled, Len(settled) + 1, refusal, refusal)
        /\ refusal \in Refusals /\ Len(settled) <= Len(calls)
    BY <1>2, <1>7 DEF Refusals
  <2>2. started \subseteq 1..Len(settled)
    BY <1>7 DEF IInv, AnswerInv, Working
  <2>3. \A k \in index..Len(settled) : calls[k].mode = "parallel"
    BY <1>2, <1>7
  <2> QED BY <1>1, <1>2, <1>7, <2>1, <2>2, <2>3, ClosedStep
<1>8. CASE ObserveMember
  <2> DEFINE result == settled[cursor]
  <2>1. /\ pc = "observe" /\ cursor' = cursor + 1 /\ failures' = SeenResult(failures, result)
        /\ UNCHANGED <<repeat, calls, started>>
        /\ IF ResultTrips(failures, result)
           THEN CloseBatch(settled, end, "guardrail", "guardrail")
           ELSE UNCHANGED <<pc, index, settled, closing>>
    BY <1>4, <1>8 DEF ObserveMember
  <2>2. GuardTypes'
    BY <1>3, <2>1, ResultSeen DEF GuardTypes
  <2>3. CASE ResultTrips(failures, result)
    BY <1>7, <2>1, <2>2, <2>3
  <2>4. CASE ~ResultTrips(failures, result)
    <3>1. UNCHANGED <<pc, index, settled, closing>>
      BY <2>1, <2>4
    <3>2. Inspected' = Inspected /\ Observed' = cursor /\ Observed = cursor - 1 /\ Unbroken'
      BY <1>2, <1>3, <2>1, <3>1 DEF Inspected, Observed, GroupAhead, Unbroken
    <3>3. RepeatInv'
      BY <1>1, <1>3, <2>1, <3>1, <3>2 DEF GInv, RepeatInv, Harmless, Repeats
    <3>4. FailureInv'
      <4>1. Observed' = Observed + 1
        BY <1>2, <3>2
      <4> QED BY <1>1, <2>1, <2>4, <3>1, <3>2, <4>1, ObservedStep
    <3>5. OrderInv'
      <4>1. cursor >= index
        BY <2>1 DEF GInv, OrderInv
      <4> QED BY <1>2, <2>1, <3>1, <4>1 DEF OrderInv
    <3> QED BY <2>2, <3>3, <3>4, <3>5 DEF GInv
  <2> QED BY <2>3, <2>4
<1>9. CASE GroupObserved
  <2>1. /\ pc = "observe" /\ cursor = ObservedEnd
        /\ UNCHANGED <<repeat, failures, calls, started, cursor>>
        /\ IF cutoff = 0
           THEN index' = end /\ pc' = "batch" /\ UNCHANGED <<settled, closing>>
           ELSE CloseBatch(settled, end, "budget", "budget")
    BY <1>4, <1>9 DEF GroupObserved
  <2>2. GuardTypes'
    BY <1>3, <2>1 DEF GuardTypes
  <2>3. CASE cutoff = 0
    <3>1. index' = end /\ pc' = "batch" /\ UNCHANGED <<settled, closing>> /\ cursor = end
      BY <1>4, <2>1, <2>3 DEF ObservedEnd
    <3>2. /\ Inspected' = end - 1 /\ Inspected = end - 1 /\ Observed' = end - 1
          /\ Observed = end - 1 /\ Unbroken' /\ pc' \in AtWork
      BY <1>4, <2>1, <3>1 DEF Inspected, Observed, GroupAhead, Unbroken, AtWork, Working
    <3>3. RepeatInv'
      BY <1>1, <1>3, <2>1, <3>1, <3>2 DEF GInv, RepeatInv, Harmless, Repeats
    <3>4. FailureInv'
      BY <1>1, <1>3, <2>1, <3>1, <3>2 DEF GInv, FailureInv, Failed
    <3>5. OrderInv'
      BY <3>1 DEF OrderInv
    <3> QED BY <2>2, <3>3, <3>4, <3>5 DEF GInv
  <2>4. CASE cutoff # 0
    BY <1>7, <2>1, <2>2, <2>4
  <2> QED BY <2>3, <2>4
<1> QED BY <1>5, <1>6, <1>8, <1>9

LEMMA InitGInv == Init => GInv
<1> SUFFICES ASSUME Init PROVE GInv
  OBVIOUS
<1>1. /\ pc = "prepare" /\ started = {}
      /\ repeat = [last |-> {}, streak |-> 0, told |-> FALSE]
      /\ failures = [streak |-> 0, told |-> FALSE]
  BY DEF Init, ForgottenInvocations
<1>2. RepeatGuard.threshold \in Nat \ {0} /\ FailureGuard.threshold \in Nat \ {0}
  BY GuardAssumption DEF GuardConfig
<1> QED BY <1>1, <1>2 DEF GInv, GuardTypes, RepeatInv, FailureInv, OrderInv, AtWork, Working,
        FailureStreakStops

LEMMA NextGInv == IInv /\ GInv /\ [Next]_vars => GInv'
<1> SUFFICES ASSUME IInv, GInv, [Next]_vars PROVE GInv'
  OBVIOUS
<1>1. CASE UNCHANGED vars
  BY <1>1, QuietStep DEF vars, toolVars, ledgerVars, groupVars, Unbroken
<1>2. CASE ModelAnswers
  BY <1>2, QuietActions, BatchBegins DEF ModelAnswers
<1>3. CASE RecorderAnswers
  BY <1>3, QuietActions, BatchBegins, SerialActions, GroupStartActions DEF RecorderAnswers
<1>4. CASE AuthorizerAnswers
  BY <1>4, SerialActions, GroupStartActions DEF AuthorizerAnswers
<1>5. CASE Advance
  BY <1>5, QuietActions, SerialActions, GroupStartActions, GroupEndActions DEF Advance
<1> QED BY <1>1, <1>2, <1>3, <1>4, <1>5, QuietActions DEF Next

LEMMA GInvInvariant == Spec => [](IInv /\ GInv)
BY InitIInv, NextIInv, InitGInv, NextGInv, PTL DEF Spec

\* An enforced detector stops the tools before the streak it warns of goes on, serial or
\* parallel, whatever else the batch holds.
THEOREM GuardrailsHold == Spec => []GuardrailsStop
BY GInvInvariant, GInvGuards, PTL

\* Calls overlap only inside one parallel group; every other call waits for its turn.
THEOREM OrderIsKept == Spec => []SerialOrder
BY GInvInvariant, GInvGuards, PTL

=============================================================================
