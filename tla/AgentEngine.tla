---------------------------- MODULE AgentEngine ----------------------------
(***************************************************************************)
(* The loop of one AgentExecution (crates/agent-core): bounded model       *)
(* turns, and for every proposed batch of tool calls the order             *)
(*                                                                         *)
(*    begin exchange -> guardrail -> authorize -> mark started -> execute  *)
(*    -> complete exchange                                                 *)
(*                                                                         *)
(* with cancellation arriving at any moment.  A step is the code between   *)
(* two awaits (or one iteration of a loop that reads nothing shared), so   *)
(* the token may be cancelled between any two steps.                       *)
(***************************************************************************)
EXTENDS Integers, Sequences, FiniteSets

CONSTANTS
  Fingerprints,  \* fingerprints of resolved invocations
  Batches,       \* the batches of tool calls the model may propose
  MaxSteps,      \* ExecutionBudget.max_steps (no limit: more than a run takes)
  MaxToolCalls,  \* ExecutionBudget.max_tool_calls (no limit: likewise)
  RepeatGuard,   \* GuardrailConfig.repeated_invocation
  FailureGuard   \* GuardrailConfig.consecutive_failures

\* A position of a resolved batch: Invalid, or Valid and serial or ParallelEligible.
Call == [mode: {"serial", "parallel", "invalid"}, print: Fingerprints]

GuardConfig == [mode: {"off", "observe", "enforce"}, threshold: Nat \ {0}]

ASSUME BatchesAssumption == Batches \subseteq Seq(Call) \ {<<>>}
ASSUME BudgetAssumption  == MaxSteps \in Nat /\ MaxToolCalls \in Nat
ASSUME GuardAssumption   == RepeatGuard \in GuardConfig /\ FailureGuard \in GuardConfig

VARIABLES
  pc,         \* which await the engine is at
  outcome,    \* ExecutionOutcome with its error kind, "running" until the terminal one
  cancelled,  \* the execution's CancellationToken
  steps,      \* model turns started
  dispatched, \* tool calls dispatched
  grace,      \* compaction_grace
  repeat,     \* RepeatedInvocationState (last: at most one fingerprint)
  failures,   \* ConsecutiveFailuresState
  calls,      \* the batch being settled
  index,      \* position execute_batch is at: serial, or first of its group
  cursor,     \* position inside the group a loop over it is at
  grants,     \* answers of the authorizer for the group
  group,      \* results of group members that were refused before execution
  cutoff,     \* first member of the group refused by the budget, 0 if none
  settled,    \* results collected so far, in call order
  closing,    \* how the batch ends: settled, cancelled, budget or guardrail
  running,    \* calls whose tool future is being polled
  reported,   \* what each executed tool reported
  exchange,   \* recorder: exchange of this batch (none, pending, committed)
  started,    \* recorder: calls marked as started in the exchange
  recorded    \* recorder: results of the committed exchange

turnVars   == <<steps, dispatched, grace>>
guardVars  == <<repeat, failures>>
groupVars  == <<cursor, grants, group, cutoff>>
toolVars   == <<running, reported>>
ledgerVars == <<exchange, started, recorded>>
vars == <<pc, outcome, cancelled, turnVars, guardVars, calls, index, groupVars,
          settled, closing, toolVars, ledgerVars>>

Reports  == {"success", "error"}
Refusals == {"invalid", "denied", "unrecorded", "budget", "guardrail", "interrupted"}
Results  == Reports \cup Refusals

Positions == DOMAIN calls

-----------------------------------------------------------------------------
(* Guardrails *)

\* Mutant of SeenInvocation: the detector trips one invocation late.
LateInvocation(r, print) ==
  LET s == IF r.last = {print} THEN [r EXCEPT !.streak = @ + 1]
           ELSE [last |-> {print}, streak |-> 1, told |-> FALSE]
  IN  [s EXCEPT !.told = @ \/ s.streak > RepeatGuard.threshold]

\* RepeatedInvocationState::observe: the streak after a valid invocation.
SeenInvocation(r, print) ==
  IF RepeatGuard.mode = "off" THEN r
  ELSE LET s == IF r.last = {print} THEN [r EXCEPT !.streak = @ + 1]
                ELSE [last |-> {print}, streak |-> 1, told |-> FALSE]
       IN  [s EXCEPT !.told = @ \/ s.streak >= RepeatGuard.threshold]

\* The invocation trips an enforced detector (once per streak).
InvocationTrips(r, print) ==
  /\ RepeatGuard.mode = "enforce"
  /\ SeenInvocation(r, print).told
  /\ ~(r.told /\ r.last = {print})

ForgottenInvocations == [last |-> {}, streak |-> 0, told |-> FALSE]

\* ConsecutiveFailuresState::observe: only a success ends the streak.
SeenResult(f, result) ==
  IF FailureGuard.mode = "off" THEN f
  ELSE IF result = "success" THEN [streak |-> 0, told |-> FALSE]
  ELSE [streak |-> f.streak + 1,
        told |-> f.told \/ f.streak + 1 >= FailureGuard.threshold]

ResultTrips(f, result) ==
  FailureGuard.mode = "enforce" /\ SeenResult(f, result).told /\ ~f.told

-----------------------------------------------------------------------------
(* The parallel group that starts at a position: the longest run of        *)
(* parallel calls, exclusive end.                                          *)

\* Mutant of ParallelRun: an invalid item is no barrier.
RunAcrossInvalid(batch, i) ==
  {e \in i..Len(batch) : \A k \in i..e : batch[k].mode # "serial"}

ParallelRun(batch, i) ==
  {e \in i..Len(batch) : \A k \in i..e : batch[k].mode = "parallel"}

GroupEnd(batch, i) == i + Cardinality(ParallelRun(batch, i))

InGroup == GroupEnd(calls, index) >= index + 2

\* Mutant of FilledFrom: the calls that were not reached get no result.
NothingFilled(results, from, result) == results

\* One result per call from position "from" on.
FilledFrom(results, from, result) ==
  results \o [k \in 1..(Len(calls) + 1 - from) |-> result]

Finish(o) == outcome' = o /\ pc' = "done"

\* The batch ends early: calls from "from" on get a refusal, the exchange is completed.
CloseBatch(results, from, refusal, how) ==
  /\ settled' = FilledFrom(results, from, refusal)
  /\ closing' = how
  /\ pc' = "complete"
  /\ index' = index

\* settle_result: append, observe, and close the batch if the detector trips.
Settle(result) ==
  /\ failures' = SeenResult(failures, result)
  /\ IF ResultTrips(failures, result)
     THEN CloseBatch(Append(settled, result), index + 1, "guardrail", "guardrail")
     ELSE /\ settled' = Append(settled, result)
          /\ index' = index + 1
          /\ pc' = "batch"
          /\ closing' = closing

-----------------------------------------------------------------------------
(* Preparing a model turn *)

Init ==
  /\ pc = "prepare" /\ outcome = "running"
  /\ cancelled \in BOOLEAN     \* the parent token may be cancelled already
  /\ steps = 0 /\ dispatched = 0
  /\ grace \in BOOLEAN         \* start or start_after_compaction
  /\ repeat = ForgottenInvocations
  /\ failures = [streak |-> 0, told |-> FALSE]
  /\ calls = <<>> /\ index = 1
  /\ cursor = 1 /\ grants = <<>> /\ group = <<>> /\ cutoff = 0
  /\ settled = <<>> /\ closing = "settled"
  /\ running = {} /\ reported = <<>>
  /\ exchange = "none" /\ started = {} /\ recorded = <<>>

batchVars == <<calls, index, groupVars, settled, closing>>

\* The token is cancelled by its owner at any moment.
Cancel ==
  /\ outcome = "running" /\ ~cancelled
  /\ cancelled' = TRUE
  /\ UNCHANGED <<pc, outcome, turnVars, guardVars, batchVars, toolVars, ledgerVars>>

\* max_steps precheck, before anything is asked of the model.
StepBudgetExhausted ==
  /\ pc = "prepare" /\ steps >= MaxSteps
  /\ Finish("steps_exceeded")
  /\ UNCHANGED <<cancelled, turnVars, guardVars, batchVars, toolVars, ledgerVars>>

\* Projection and window evaluation succeed; only the first turn counts tokens remotely.
PrepareTurn ==
  /\ pc = "prepare" /\ steps < MaxSteps
  /\ pc' = IF steps = 0 /\ ~cancelled THEN "count" ELSE "window"
  /\ UNCHANGED <<outcome, cancelled, turnVars, guardVars, batchVars, toolVars, ledgerVars>>

\* Projection, window evaluation or the evaluation of the counted tokens fails.
PreparationFails ==
  /\ (pc = "prepare" /\ steps < MaxSteps) \/ pc = "count"
  /\ Finish("failed")
  /\ UNCHANGED <<cancelled, turnVars, guardVars, batchVars, toolVars, ledgerVars>>

\* count_input_tokens answers; any error but Cancelled falls back to the estimate.
TokensCounted ==
  /\ pc = "count"
  /\ pc' = "window"
  /\ UNCHANGED <<outcome, cancelled, turnVars, guardVars, batchVars, toolVars, ledgerVars>>

CountCancelled ==
  /\ pc = "count" /\ cancelled
  /\ Finish("cancelled")
  /\ UNCHANGED <<cancelled, turnVars, guardVars, batchVars, toolVars, ledgerVars>>

\* The context fits, is over the threshold but below the hard limit, or is above it.
CheckWindow(size) ==
  /\ pc = "window"
  /\ grace' = FALSE
  /\ IF size = "hard" \/ (size = "soft" /\ ~grace)
     THEN Finish("compaction_required") /\ steps' = steps
     ELSE outcome' = outcome /\ pc' = "model" /\ steps' = steps + 1
  /\ UNCHANGED <<cancelled, dispatched, guardVars, batchVars, toolVars, ledgerVars>>

-----------------------------------------------------------------------------
(* The model turn.  The service ends its stream after a cancellation; it   *)
(* may still have answered before noticing it.                             *)

ModelFails(o) ==
  /\ pc = "model"
  /\ o \in IF cancelled THEN {"cancelled"} ELSE {"compaction_required", "failed"}
  /\ Finish(o)
  /\ UNCHANGED <<cancelled, turnVars, guardVars, batchVars, toolVars, ledgerVars>>

\* A compaction operation instead of a response, or a duplicate tool call id.
ResponseRejected ==
  /\ pc = "model"
  /\ Finish("failed")
  /\ UNCHANGED <<cancelled, turnVars, guardVars, batchVars, toolVars, ledgerVars>>

\* No tool calls: the final message goes to the host, even if the token was cancelled.
ModelCompletes ==
  /\ pc = "model"
  /\ Finish("completed")
  /\ UNCHANGED <<cancelled, turnVars, guardVars, batchVars, toolVars, ledgerVars>>

ModelProposes(batch) ==
  /\ pc = "model"
  /\ calls' = batch
  /\ pc' = "begin"
  /\ exchange' = "none" /\ started' = {} /\ recorded' = <<>>
  /\ reported' = [i \in DOMAIN batch |-> "none"]
  /\ UNCHANGED <<outcome, cancelled, turnVars, guardVars, index, groupVars, settled,
                 closing, running>>

\* Without a pending exchange nothing is authorized or executed.
BeginFails ==
  /\ pc = "begin"
  /\ Finish("record_failed")
  /\ UNCHANGED <<cancelled, turnVars, guardVars, batchVars, toolVars, ledgerVars>>

BeginExchange ==
  /\ pc = "begin"
  /\ exchange' = "pending"
  /\ index' = 1 /\ settled' = <<>> /\ closing' = "settled"
  /\ pc' = "batch"
  /\ UNCHANGED <<outcome, cancelled, turnVars, guardVars, calls, groupVars, toolVars,
                 started, recorded>>

-----------------------------------------------------------------------------
(* execute_batch *)

BatchSettled ==
  /\ pc = "batch" /\ index = Len(calls) + 1
  /\ pc' = "complete"
  /\ UNCHANGED <<outcome, cancelled, turnVars, guardVars, batchVars, toolVars, ledgerVars>>

\* Mutant of ConvergeCancelled: the execution ends without completing the exchange.
AbandonBatch ==
  /\ pc = "batch" /\ index \in Positions /\ cancelled
  /\ Finish("cancelled")
  /\ UNCHANGED <<cancelled, turnVars, guardVars, batchVars, toolVars, ledgerVars>>

\* Mutant of ConvergeCancelled: the token is not raced with the authorizer.
ConvergeBetweenCalls ==
  /\ pc = "batch" /\ index \in Positions /\ cancelled
  /\ CloseBatch(settled, index, "interrupted", "cancelled")
  /\ UNCHANGED <<outcome, cancelled, turnVars, guardVars, calls, groupVars, toolVars,
                 ledgerVars>>

\* Cancellation is checked before every position, and wins the race with the authorizer.
ConvergeCancelled ==
  /\ \/ pc = "batch" /\ index \in Positions
     \/ pc \in {"authorize", "authorizeGroup"}
  /\ cancelled
  /\ CloseBatch(settled, index, "interrupted", "cancelled")
  /\ UNCHANGED <<outcome, cancelled, turnVars, guardVars, calls, groupVars, toolVars,
                 ledgerVars>>

\* An invalid item is answered without authorization and breaks the repetition streak.
SettleInvalid ==
  /\ pc = "batch" /\ ~cancelled /\ index \in Positions
  /\ calls[index].mode = "invalid"
  /\ repeat' = ForgottenInvocations
  /\ Settle("invalid")
  /\ UNCHANGED <<outcome, cancelled, turnVars, calls, groupVars, toolVars, ledgerVars>>

InspectSerial ==
  /\ pc = "batch" /\ ~cancelled /\ index \in Positions
  /\ calls[index].mode # "invalid" /\ ~InGroup
  /\ repeat' = SeenInvocation(repeat, calls[index].print)
  /\ IF InvocationTrips(repeat, calls[index].print)
     THEN CloseBatch(settled, index, "guardrail", "guardrail")
     ELSE pc' = "authorize" /\ UNCHANGED <<index, settled, closing>>
  /\ UNCHANGED <<outcome, cancelled, turnVars, failures, calls, groupVars, toolVars,
                 ledgerVars>>

Denied ==
  /\ pc = "authorize" /\ ~cancelled
  /\ Settle("denied")
  /\ UNCHANGED <<outcome, cancelled, turnVars, repeat, calls, groupVars, toolVars,
                 ledgerVars>>

\* The budget is checked after the authorization, just before the dispatch.
Allowed ==
  /\ pc = "authorize" /\ ~cancelled
  /\ IF dispatched >= MaxToolCalls
     THEN CloseBatch(settled, index, "budget", "budget")
     ELSE pc' = "start" /\ UNCHANGED <<index, settled, closing>>
  /\ UNCHANGED <<outcome, cancelled, turnVars, guardVars, calls, groupVars, toolVars,
                 ledgerVars>>

\* Mutant of StartUnrecorded: the recorder's error is ignored.
StartAnyway ==
  /\ pc = "start"
  /\ dispatched' = dispatched + 1 /\ running' = {index} /\ pc' = "execute"
  /\ UNCHANGED <<outcome, cancelled, steps, grace, guardVars, batchVars, reported,
                 ledgerVars>>

\* The start could not be recorded: the tool is not executed, the batch goes on.
StartUnrecorded ==
  /\ pc = "start"
  /\ Settle("unrecorded")
  /\ UNCHANGED <<outcome, cancelled, turnVars, repeat, calls, groupVars, toolVars,
                 ledgerVars>>

StartTool ==
  /\ pc = "start"
  /\ started' = started \cup {index}
  /\ dispatched' = dispatched + 1
  /\ running' = {index}
  /\ pc' = "execute"
  /\ UNCHANGED <<outcome, cancelled, steps, grace, guardVars, batchVars, reported,
                 exchange, recorded>>

\* A tool resolves its future; after a cancellation only once it has cleaned up.
ToolReturns(i, report) ==
  /\ i \in running
  /\ running' = running \ {i}
  /\ reported' = [reported EXCEPT ![i] = report]
  /\ UNCHANGED <<pc, outcome, cancelled, turnVars, guardVars, batchVars, ledgerVars>>

\* Mutant of SettleSerial: the call is converged like those that never ran.
SettleInterrupted ==
  /\ pc = "execute" /\ running = {}
  /\ IF cancelled
     THEN CloseBatch(settled, index, "interrupted", "cancelled") /\ UNCHANGED failures
     ELSE Settle(reported[index])
  /\ UNCHANGED <<outcome, cancelled, turnVars, repeat, calls, groupVars, toolVars,
                 ledgerVars>>

\* The tool's own result is kept, also when the token was cancelled meanwhile.
SettleSerial ==
  /\ pc = "execute" /\ running = {}
  /\ IF cancelled
     THEN /\ CloseBatch(Append(settled, reported[index]), index + 1, "interrupted", "cancelled")
          /\ UNCHANGED failures
     ELSE Settle(reported[index])
  /\ UNCHANGED <<outcome, cancelled, turnVars, repeat, calls, groupVars, toolVars,
                 ledgerVars>>

-----------------------------------------------------------------------------
(* execute_parallel_group *)

EnterGroup ==
  /\ pc = "batch" /\ ~cancelled /\ index \in Positions /\ InGroup
  /\ cursor' = index
  /\ pc' = "inspect"
  /\ UNCHANGED <<outcome, cancelled, turnVars, guardVars, calls, index, grants, group,
                 cutoff, settled, closing, toolVars, ledgerVars>>

\* The whole group passes the repetition detector before any of it is authorized.
InspectMember ==
  /\ pc = "inspect"
  /\ repeat' = SeenInvocation(repeat, calls[cursor].print)
  /\ cursor' = cursor + 1
  /\ IF InvocationTrips(repeat, calls[cursor].print)
     THEN CloseBatch(settled, index, "guardrail", "guardrail")
     ELSE /\ pc' = IF cursor + 1 = GroupEnd(calls, index) THEN "authorizeGroup" ELSE "inspect"
          /\ UNCHANGED <<index, settled, closing>>
  /\ UNCHANGED <<outcome, cancelled, turnVars, failures, calls, grants, group, cutoff,
                 toolVars, ledgerVars>>

AuthorizeGroup ==
  /\ pc = "authorizeGroup" /\ ~cancelled
  /\ grants' \in [index..(GroupEnd(calls, index) - 1) -> BOOLEAN]
  /\ group' = [i \in Positions |-> "none"]
  /\ cutoff' = 0 /\ cursor' = index
  /\ pc' = "startGroup"
  /\ UNCHANGED <<outcome, cancelled, turnVars, guardVars, calls, index, settled, closing,
                 toolVars, ledgerVars>>

RefuseMember(result) ==
  /\ group' = [group EXCEPT ![cursor] = result]
  /\ cursor' = cursor + 1
  /\ UNCHANGED <<pc, outcome, cancelled, turnVars, guardVars, calls, index, grants,
                 settled, closing, toolVars, ledgerVars>>

AtMember == pc = "startGroup" /\ cursor < GroupEnd(calls, index)

MemberDenied ==
  /\ AtMember /\ ~grants[cursor]
  /\ RefuseMember("denied")
  /\ UNCHANGED cutoff

MemberOverBudget ==
  /\ AtMember /\ grants[cursor] /\ dispatched >= MaxToolCalls
  /\ RefuseMember("budget")
  /\ cutoff' = IF cutoff = 0 THEN cursor ELSE cutoff

MemberUnrecorded ==
  /\ AtMember /\ grants[cursor] /\ dispatched < MaxToolCalls
  /\ RefuseMember("unrecorded")
  /\ UNCHANGED cutoff

\* Mutant of MemberStarted: the budget is checked once for the group.
MemberStartedUnchecked ==
  /\ AtMember /\ grants[cursor] /\ (cursor = index => dispatched < MaxToolCalls)
  /\ started' = started \cup {cursor}
  /\ dispatched' = dispatched + 1
  /\ cursor' = cursor + 1
  /\ UNCHANGED <<pc, outcome, cancelled, steps, grace, guardVars, calls, index, grants,
                 group, cutoff, settled, closing, toolVars, exchange, recorded>>

\* The future is only built here; it is polled once the whole group is recorded.
MemberStarted ==
  /\ AtMember /\ grants[cursor] /\ dispatched < MaxToolCalls
  /\ started' = started \cup {cursor}
  /\ dispatched' = dispatched + 1
  /\ cursor' = cursor + 1
  /\ UNCHANGED <<pc, outcome, cancelled, steps, grace, guardVars, calls, index, grants,
                 group, cutoff, settled, closing, toolVars, exchange, recorded>>

RunGroup ==
  /\ pc = "startGroup" /\ cursor = GroupEnd(calls, index)
  /\ running' = {i \in index..(cursor - 1) : group[i] = "none"}
  /\ pc' = "executeGroup"
  /\ UNCHANGED <<outcome, cancelled, turnVars, guardVars, batchVars, reported, ledgerVars>>

\* The group's results in call order: refusals of the group, reports of the tools.
GroupResults ==
  [k \in 1..(GroupEnd(calls, index) - index) |->
     LET i == index + k - 1 IN IF group[i] = "none" THEN reported[i] ELSE group[i]]

\* All futures are done.  Cancellation comes before budget and guardrail.
SettleGroup ==
  /\ pc = "executeGroup" /\ running = {}
  /\ IF cancelled
     THEN CloseBatch(settled \o GroupResults, GroupEnd(calls, index), "interrupted", "cancelled")
     ELSE /\ settled' = settled \o GroupResults
          /\ pc' = "observe"
          /\ UNCHANGED <<index, closing>>
  /\ cursor' = index
  /\ UNCHANGED <<outcome, cancelled, turnVars, guardVars, calls, grants, group, cutoff,
                 toolVars, ledgerVars>>

\* Results before the first member over budget are shown to the failure detector.
ObservedEnd == IF cutoff = 0 THEN GroupEnd(calls, index) ELSE cutoff

ObserveMember ==
  /\ pc = "observe" /\ cursor < ObservedEnd
  /\ failures' = SeenResult(failures, settled[cursor])
  /\ cursor' = cursor + 1
  /\ IF ResultTrips(failures, settled[cursor])
     THEN CloseBatch(settled, GroupEnd(calls, index), "guardrail", "guardrail")
     ELSE UNCHANGED <<pc, index, settled, closing>>
  /\ UNCHANGED <<outcome, cancelled, turnVars, repeat, calls, grants, group, cutoff,
                 toolVars, ledgerVars>>

GroupObserved ==
  /\ pc = "observe" /\ cursor = ObservedEnd
  /\ IF cutoff = 0
     THEN index' = GroupEnd(calls, index) /\ pc' = "batch" /\ UNCHANGED <<settled, closing>>
     ELSE CloseBatch(settled, GroupEnd(calls, index), "budget", "budget")
  /\ UNCHANGED <<outcome, cancelled, turnVars, guardVars, calls, groupVars, toolVars,
                 ledgerVars>>

-----------------------------------------------------------------------------
(* complete_tool_results *)

\* The recorder keeps the pending exchange; the execution ends without its facts.
CompleteFails ==
  /\ pc = "complete"
  /\ Finish("record_failed")
  /\ UNCHANGED <<cancelled, turnVars, guardVars, batchVars, toolVars, ledgerVars>>

\* The host may take the execution back, but only a settled batch asks it.
CompleteExchange(handoff) ==
  /\ pc = "complete"
  /\ exchange' = "committed"
  /\ recorded' = settled
  /\ CASE closing = "cancelled" -> Finish("cancelled")
       [] closing = "budget"    -> Finish("tool_calls_exceeded")
       [] closing = "guardrail" -> Finish("guardrail_tripped")
       [] OTHER -> IF handoff THEN Finish("continuation_required")
                   ELSE pc' = "prepare" /\ outcome' = outcome
  /\ UNCHANGED <<cancelled, turnVars, guardVars, batchVars, toolVars, started>>

\* A foreign future panics: the engine task is gone, its futures are dropped, and the
\* watching task answers Internal.
Panics ==
  /\ pc \in {"count", "model", "begin", "authorize", "start", "execute",
             "authorizeGroup", "startGroup", "executeGroup", "complete"}
  /\ Finish("internal")
  /\ running' = {}
  /\ UNCHANGED <<cancelled, turnVars, guardVars, batchVars, reported, ledgerVars>>

Terminated == pc = "done" /\ UNCHANGED vars

-----------------------------------------------------------------------------
Prepare ==
  \/ StepBudgetExhausted \/ PrepareTurn \/ PreparationFails
  \/ TokensCounted \/ CountCancelled
  \/ \E size \in {"fits", "soft", "hard"} : CheckWindow(size)

ModelAnswers ==
  \/ \E o \in {"cancelled", "compaction_required", "failed"} : ModelFails(o)
  \/ ResponseRejected \/ ModelCompletes
  \/ \E batch \in Batches : ModelProposes(batch)

RecorderAnswers ==
  \/ BeginFails \/ BeginExchange
  \/ StartUnrecorded \/ StartTool \/ MemberUnrecorded \/ MemberStarted
  \/ CompleteFails
  \/ \E handoff \in BOOLEAN : CompleteExchange(handoff)

AuthorizerAnswers == Denied \/ Allowed \/ AuthorizeGroup

ToolAnswers == \E i \in running, report \in Reports : ToolReturns(i, report)

Advance ==
  \/ BatchSettled \/ ConvergeCancelled \/ SettleInvalid \/ InspectSerial \/ SettleSerial
  \/ EnterGroup \/ InspectMember \/ MemberDenied \/ MemberOverBudget \/ RunGroup
  \/ SettleGroup \/ ObserveMember \/ GroupObserved

Next ==
  \/ Cancel \/ Prepare \/ ModelAnswers \/ RecorderAnswers \/ AuthorizerAnswers
  \/ ToolAnswers \/ Advance \/ Panics \/ Terminated

\* The engine's task is polled; model streams, recorder calls and tools end (their
\* contracts say so).  The authorizer may wait for a person forever.
Fairness ==
  /\ WF_vars(Prepare) /\ WF_vars(ModelAnswers) /\ WF_vars(RecorderAnswers)
  /\ WF_vars(ToolAnswers) /\ WF_vars(Advance)

Spec == Init /\ [][Next]_vars /\ Fairness

-----------------------------------------------------------------------------
(* Correctness *)

Outcomes ==
  {"running", "completed", "cancelled", "compaction_required", "continuation_required",
   "steps_exceeded", "tool_calls_exceeded", "guardrail_tripped", "record_failed",
   "failed", "internal"}

TypeOK ==
  /\ pc \in {"prepare", "count", "window", "model", "begin", "batch", "authorize",
             "start", "execute", "inspect", "authorizeGroup", "startGroup",
             "executeGroup", "observe", "complete", "done"}
  /\ outcome \in Outcomes
  /\ cancelled \in BOOLEAN /\ grace \in BOOLEAN
  /\ steps \in Nat /\ dispatched \in Nat
  /\ calls \in Seq(Call) /\ settled \in Seq(Results)
  /\ index \in Nat /\ cursor \in Nat /\ cutoff \in Nat
  /\ closing \in {"settled", "cancelled", "budget", "guardrail"}
  /\ exchange \in {"none", "pending", "committed"}
  /\ running \subseteq Positions /\ started \subseteq Positions
  /\ reported \in [Positions -> Reports \cup {"none"}]
  /\ recorded \in Seq(Results)

\* No tool runs, and none has reported anything, unless its exchange was persisted and
\* the call was marked as started in it: what recovery relies on to tell "unknown
\* outcome" from "never started" (recorder.rs, the two-phase SPI).
FencedSideEffects ==
  \A i \in Positions :
    i \in running \/ reported[i] # "none" => exchange # "none" /\ i \in started

\* A completed exchange answers every call of the batch, in call order; the answer is
\* the tool's own report exactly when the tool ran.  Neither cancellation nor a budget
\* or guardrail refusal overwrites what a tool did (tool_batch.rs, converge_*).
TruthfulLedger ==
  exchange = "committed" =>
    /\ Len(recorded) = Len(calls)
    /\ \A i \in Positions :
         /\ recorded[i] \in Reports <=> reported[i] # "none"
         /\ recorded[i] \in Reports => recorded[i] = reported[i]

\* Whatever ends the execution, no tool is still running; the exchange stays open only
\* for the host's recovery to close (the recorder failed, or the engine task died); and
\* the outcome Cancelled is never made up.
CleanTermination ==
  outcome # "running" =>
    /\ running = {}
    /\ exchange = "pending" => outcome \in {"record_failed", "internal"}
    /\ outcome = "cancelled" => cancelled

\* Budgets are hard limits before the side effect, also for a group whose members were
\* all authorized before the first of them was counted.
HardBudgets ==
  /\ steps <= MaxSteps
  /\ dispatched <= MaxToolCalls
  /\ Cardinality(started) <= dispatched

\* An enforced repetition detector stops a streak of equal invocations before the call
\* that reaches the threshold runs, also inside a parallel group, and an invalid item
\* between two of them is not part of the streak.
RepeatedCallNeverRuns ==
  RepeatGuard.mode = "enforce" =>
    \A i \in started :
      ~ \E print \in Fingerprints :
          /\ i >= RepeatGuard.threshold
          /\ \A k \in (i - RepeatGuard.threshold + 1)..i :
               calls[k].mode # "invalid" /\ calls[k].print = print

\* Under an enforced failure detector nothing starts after a streak of failed results
\* reached the threshold, except the other members of the same parallel group.
FailureStreakStops ==
  FailureGuard.mode = "enforce" =>
    \A i \in started, j \in FailureGuard.threshold..Len(settled) :
      j < i /\ (\A k \in (j - FailureGuard.threshold + 1)..j : settled[k] # "success")
      => \A k \in j..i : calls[k].mode = "parallel"

\* Both guardrails stop the tools before they do what the streak warns of.
GuardrailsStop == RepeatedCallNeverRuns /\ FailureStreakStops

\* Side effects keep the order of the calls: two calls overlap only when everything
\* between them is parallel; serial and invalid items are barriers
\* (docs/modules/agent-core.md:95-98).
SerialOrder ==
  \A i, j \in started :
    i < j => reported[i] # "none" \/ \A k \in i..j : calls[k].mode = "parallel"

\* A cancelled execution ends, wherever the token finds it, also when the authorizer
\* never answers.
CancelConverges == cancelled ~> outcome # "running"

\* The exchange the engine keeps with the recorder and the tools is the abstract one.
Exchange == INSTANCE ToolExchange WITH
  Widths   <- {Len(batch) : batch \in Batches},
  width    <- Len(calls),
  over     <- outcome # "running"

ImplementsToolExchange == Exchange!Spec
=============================================================================
