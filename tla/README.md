# Verification of the ez-assistant runtime

TLA+ models of the parts of ez-assistant that decide *what runs, when, how often, and what is
remembered of it*, checked with TLC on small instances, and proved with TLAPS where a theorem for
every instance is within reach. Paths are relative to the repository; `RT` stands for
`crates/assistant-runtime/src`. `PROJECT.json` maps every definition to its lines.

## 1. The system

ez-assistant is a local-first assistant. A Rust workspace holds the product core (`crates/`), a
host process with SQLite storage and network access (`apps/runtime-host`), and several front ends
(`apps/desktop` is the main one).

| Part | State it keeps | Operations | Talks to |
|---|---|---|---|
| AgentExecution (`agent-core`: engine, tool_batch, guardrail) | projection, counters, streaks, the batch under way | run one execution: model turns, tool batches; cancel | model, authorizer, recorder, tools |
| Recorder (`agent-core/recorder.rs`, `RT/run/recorder`) | one pending tool exchange | begin, mark started, complete | store, journal |
| Session queue (`RT/runtime/input`, `session.rs`) | queue of inputs, active run, executing command, switches (paused, resume required), revision | submit, answer, cancel, prioritize, resume, retry, interrupt; the queue driver | store, engine, clients |
| Goal (`RT/goal`, `RT/runtime/goal`) | goal with generation and budgets, lane of bound inputs, signal latch of the run | start, resume (three ways), stop, clear; decide after a turn | queue driver, settlement, store |
| Questions (`RT/feedback`, `RT/runtime/feedback.rs`) | requests with their status | ask (inside a turn or ending it), answer, dismiss | run, queue, goal |
| Settlement (`RT/run/settlement.rs`) | run record, journal | settle, continue with a further turn | store, controller, goal |
| Loading and recovery (`session_loading.rs`, `recovery.rs`) | cached sessions | load for a reader, prepare for a command | store |
| Approvals (`RT/permission/approval.rs`, `RT/runtime/approval.rs`) | pending approvals, rule file, installed rules | register, decide, drain, stop, cancel | waiting authorizers, users |
| Observation (`RT/observation.rs`) | event sequence, watermarks, watched scopes | number events, composite reads | every part, clients |
| Desktop client (`apps/desktop/src/stores`) | view of one session, stream position, buffers | connect, read, apply, refresh | host's HTTP and SSE |
| Store: rows (`runtime-host/storage`) | inputs, runs, sessions, goals, questions | claim, attempt, commit, settle, accept, prioritize, cancel: one transaction each | SQLite |
| Store: conversation files (`recovery.rs`, `tool_exchange.rs`, `session_history.rs`, ...) | files by generation, staged appends, exchanges, children, clears | append, replace, clear, recover | SQLite and the file system |
| Controller (`RT/runtime/controller`) | proxy of hosted sessions | deliver, report, take over | two sessions' queues |
| Delegation, compaction, shutdown | child tasks, segments, lifecycle | see section 8 | sessions, clients |

How they interact. A handler of the runtime takes the session's *mutation gate*, changes the store
in one transaction, then the memory under the state lock, publishes events, and wakes the queue
driver. The driver prepares the first input *without* the gate, claims it and commits its message
*with* the gate, runs the engine without it and settles with it. The engine calls back through the
recorder and waits for approvals and questions. A change of the store becomes visible to readers
before its event has a number; a client puts snapshots and events together again. After a restart
a session is shown to readers from the store as it is, and the first command prepares it:
unfinished appends, exchanges, children and runs are brought to their end and the goal is paused.

What is hard here: the gate is given up between reading and claiming; memory and store hold the
same queue in two forms; the history lives in a file and a database that cannot be written
together; failures leave some of several steps done; cancellation meets tools that have already
acted; a goal is judged twice with the user free in between; reads are composed without a lock.
`PROJECT.json` lists the hazards at their lines with the properties that watch them.

## 2. Modules

| Module | Role |
|---|---|
| `ToolExchange` | abstract: what a recorder and the tools see of one execution |
| `AgentEngine`, `AgentEngine_proof` | the engine loop, refines `ToolExchange`; invariant, safety and refinement for all constants |
| `QueueOrder` | the order of one queue, in memory and in the store |
| `SessionQueue`, `SessionQueue_proof` | driver, handlers, failures, restarts of one session; invariants and safety for all constants |
| `Retain` | how an input leaves a queue from wherever it stands (`VecDeque::retain`) |
| `SequenceFacts` | lemmas about sequences, `Minus` of `Retain`, recursion along a sequence, induction over numbers and sequences |
| `Goals`, `Goals_proof` | goal, lane, questions and the driver's choice; invariant and safety for all constants |
| `Approvals`, `Approvals_proof` | the approvals of one session and the permission file behind them; invariant and safety for all constants |
| `Snapshots` | abstract: what an answer with a watermark promises |
| `Observation`, `Observation_proof` | how composite reads keep that promise; refines `Snapshots`; invariant, safety and refinement for all constants |
| `ClientSync`, `ClientSync_proof` | a client that relies on it, over a stream that breaks; invariant and safety for all constants |
| `DurableHistory` | abstract: a history accepts and publishes facts |
| `StagedHistory` | file, database and recovery; refines `DurableHistory` |
| `Store_proof` | the two models of the store, `QueueOrder` and `StagedHistory`: invariants, safety and the refinement for all constants |
| `MC*` | TLC instances |

**AgentEngine.** A step is the code between two awaits, so `Cancel` may fall between any two; `pc`
names the await. A call is its mode (what `resolve_batch` made of it) and the fingerprint the
guardrail compares. `exchange`, `started`, `recorded` are the recorder's facts; `reported` is what
tools really did, which the code cannot see and the properties compare with. Model, recorder,
authorizer and tools answer as their contracts allow, errors and panics included.

**QueueOrder.** `rows` is the table `inputs` in the order of `queue_order`, `queue` is
`queue_item_ids`, `Recovered(rows)` what a restart would build. A report is stored under the gate
of another session, hence the two steps `StoreReport` and `ProjectReport`. `current` is what
clients hold with the current revision: it is emptied exactly where the code increments
`queue_revision`.

**SessionQueue.** `drivers` are the tasks `wake_queue_with` spawned: at the `top` of the loop, in
`prepare` (no gate), in `commit` (holding the gate from claim to commit), in `run`, or executing a
`command`; a task that could not prepare an input is `stopped`, its flag cleared and nobody woken
(`fail_before_start`); a task that panics goes through its supervisor's recovery (`panicked`, `recovered`,
`orphan`) while its engine may still be at work. `Failures` switches on what may fail (`store`,
`start`, `journal`, `panic`); `LateReports` lets reports reach a session nobody has prepared.

**Goals.** `storedGoal`, `rows`, `open`, `question` are SQLite; `goal`, `lane`, `queue`, `resume`,
`paused`, `run` the session's memory. A row carries the binding (goal, generation) it was accepted
with. `driver` holds the input it prepares and the binding it read *before* it gave the gate up.
The end of a turn is two steps, as in the code: the gate of the run's loop (`NextTurn`, `Remind`,
`EndTurn`), and `Settle`, which decides again on the goal as it then is. A turn may also end
without an outcome (`lost`), with the loop's own error (`broken`) or with a question (`returned`).
`Ask` puts a question inside a turn (`wait`) or at its end (`end`). `Load` is a reader's view,
`Prepare` the first command's. Attempts, promotions and failures of the store are left to the two
modules above; an answer that goes before waiting inputs is left to `QueueOrder`.

**Approvals.** Each call has an entry of the registry (`status`), a future of the authorizer
(`waiter`), and the oneshot channel between them (`signal`). A request takes an entry to
`Resolving`, stores the rule, installs it, answers and drains equal rules, each a step that may
fail or be dropped half way. A change of the registry and its event are one step, since both happen
under the observation lock.

**Snapshots, Observation, ClientSync.** `Observation` models the watermarks, the scopes that
watched readers share and the retries of composite reads; `Snapshots` is what they promise, and
what `ClientSync` takes for granted of the runtime. `ClientSync` has the bounded broadcast channel,
the client's connection with its buffer, the reads under way and what arrives meanwhile.

**StagedHistory, DurableHistory.** A file is a sequence of frames, the last of which may be torn or
not yet synchronized; the database has the append rows, exchanges, children, runs, the
authoritative generation and the pending clear. `at` is the step the one storage thread is at.
`Prepare` goes through the phases of `storage/session_loading.rs`.
A failing append stops the engine (`Failed`), unless it is one of a child: `delegate_task` then
returns an error and the parent's engine goes on, may commit its exchange with that error
(`CompleteExchange` asks for no unfinished child, as the code does not) and end its turn. The child
left behind stays in `child`, its append perhaps in `row`, its frame perhaps in its file; recovery
settles it apart (`StageDirectory`: the child's own file is written first, the entry in the parent's
file second, both are finalized together), or installs the session as `faulted`, which only a new
process leaves.
`facts` of `DurableHistory` are the frames a reader of the authoritative generation sees,
`accepted` is the staged one.

## 3. Runs and bounds

| Run | Asks | Bounds, and why they are enough |
|---|---|---|
| `engine` | fencing, truthful ledger, clean termination, hard budgets, guardrails, barriers, the refinement, convergence after cancellation | every batch of up to two calls, and every call between two parallel ones: a group beside, before and after a barrier; two fingerprints let streaks break; a threshold of two is the least streak; a tool budget of three is met inside a group of the second turn; two turns carry counters over |
| `queue_order` | memory and store hold the same queue; FIFO but for promotions; a revision identifies the queue | four rows: two around a promoted one, and a takeover with a delivery in the middle; `MaxPriority` only ends promoting |
| `session` | memory mirrors store, one engine, closed after a failure, liveness | two inputs, two attempts, two restarts, failures of the store and of preparations before the start: a retry behind a waiting input, recovery of a recovery, a driver that gives up with an input waiting |
| `session_attempts` | no attempt runs twice, no outcome is overwritten | the same with every failure and late reports |
| `approvals` | nobody waits for what is gone; answers, rules and events agree; everything ends | two calls of one rule, two requests, two moves: a drain that meets a decision |
| `observation` | the refinement; entries given back; output disturbs nobody | two sessions, two readers, two attempts; one change of each part, two events: a read overtaken in each attempt |
| `client_sync` | nothing forgotten, exact text, rest | channel and buffer of one, one retry, three events, one fault of any kind: every buffer overflows and the stream lags within the three events |
| `history` | file and database agree; the refinement | two runs, two generations, one crash or failed write at any step: one failing append of a child is enough for a child left behind (two faults pass as well, in 4.3 million states) |
| `history_heals` | true history, frozen answers, a restart heals | one run with its child, three generations, three faults of any kind: a child left behind, a crash, and a fault in the recovery of that |
| `goals` | memory mirrors store; nothing of an old generation counts; claims and preparations are current; liveness | two goals, three inputs, one restart: a stop and a resume between any two steps of a run; turns 3, failures 2: the failure budget is met before the turn budget, and each can be |
| `late_cleanup`, `goal_overtaken` | two disagreements (section 7) | the least that shows them |

Deadlock is checked in `engine` only: elsewhere the user's inputs, moves or events are bounded, and
a session whose bounded history is used up is rightly idle; liveness properties take the place of
the deadlock check. `goals` allows a resume only below generation 3: a goal that was resumed and
paused once more goes on to 4, and a second goal starts at 1 again.

## 4. Fairness

*Engine*: the task is polled, and the contracts of the model stream, the recorder and the tools say
that their futures resolve, after a cancellation too; these steps are weakly fair. The authorizer
is not: it may wait for a person for ever. *SessionQueue*: the driver's steps (tokio schedules the
task, the engine ends). *Goals*: `DriverNext`, so that preparations return and turns end; which
outcome a turn has is open, commands, questions and signals are free. *Approvals*: what has been
begun goes on; users and cancellations are free. *ClientSync*: `Progress`, which is the runtime's
projection, the network and the client's promises; faults are not fair. *StagedHistory*: the
storage thread, and the first command of a session that is not prepared, since `RestartHeals` is
about sessions somebody uses. No crash, failure, cancellation or user is ever *required* to act.
`QueueIsServed` and `CurrentInputIsServed` therefore assume that approvals and questions inside a
turn are answered or the run is stopped; otherwise the run rightly stays. `QueueIsServed` also
excepts `Abandoned`, a queue whose driver gave up over an input it could not prepare (section 7,
17): nobody is told, and only the next handler wakes it.

## 5. What only TLC shows

All liveness (out of the prover's reach): `CancelConverges`, `QueueIsServed`, `ResolvingEnds`,
`Settles`, `RestartHeals`, `CurrentInputIsServed`.
Every other property of a passing run is a theorem of section 6; `OneExecution`, `FailClosed` and
`DatabaseMatchesFiles` under the conditions named there. The runs of section 3 keep to bounds, the
theorems do not: any number of runs, inputs, generations, faults, readers or calls the assumptions
allow.

## 6. Proofs

`AgentEngine_proof` assumes only that batches are non-empty sequences of calls, limits natural
numbers and thresholds positive. `IInv` strengthens the type invariant: the position (`index`,
`cursor`, `settled`) is where `pc` says it can be (`Position`), group loops stay inside the group,
started calls are settled or of the current position, and each settled result is the report of a
started tool or a refusal of one that never started. Without that last part the ledger's truth is
not inductive: the answer is written long after the tool ran. From it follow `TypeCorrectness`,
`SideEffectsAreFenced`, `LedgerIsTruthful`, `TerminationIsClean`, `BudgetsAreHard`, and every step
maps to a step or stutter of `ToolExchange` (`EngineImplementsToolExchange`).
What the guardrails and the barriers need is added as `GInv`: how far each detector has looked
(`Inspected`, `Observed`), that a repetition up to there is at most as long as its streak
(`RepeatInv`, `FailureInv`), and that an order once left pending stays a serial one (`OrderInv`).
From it follow `GuardrailsHold` and `OrderIsKept`.

`Store_proof` has, first, `QueueOrder`: it assumes natural bounds and any set of roles. The queue is changed by code that
does not look at the table and the other way round, so the agreement is carried by `IInv`: what waits
in the store is in the queue, or a report on its way there (`SameInputs`), and in a plain session,
where only the user's inputs wait, the queue is sorted by the stored priorities and first-come
inputs are overtaken by promoted ones only (`SameOrder`). That a promotion, which shifts priorities,
and a removal from the middle leave the rest in its order is what `SequenceFacts` is for
(`Retained`). From it follow `RestartsKeepTheQueue`, `ServedInOrder` and `RevisionsIdentify`.

Its second part, `StagedHistory`, assumes that no run has the name of the session or of nobody, a
first generation and a natural number of faults of any kinds. What the history tells was decided
steps, crashes and restarts before it is told, so the invariant says what may be found on the way.
`StoreInv` is `Process` and `Durable`. `Process` is about what a crash takes away: what the storage
thread has done so far, by the step it is at (`Position`), that nothing is staged of a running
session but what the thread is just appending (`Memory`), and what a pending receipt names
(`Receipts`). `Durable` is about what it leaves: how the rows of runs, inputs, exchanges and
children fit together (`Controls`: a child is the open call of its running parent, or it was
answered with an error and left behind), that a staged row is one that may follow the file (`Rows`,
since a row is completed long after it was staged, perhaps by another process; only the settlement
of a child left behind may have nothing left to apply to), that a recorded
fact has happened and cannot happen again (`Recorded`), that nothing has had an effect that is not
marked as begun (`Beginnings`), how far the file of a child says it has come (`ChildFiles`), that
the count is that of the messages (`Counted`), and, with these inductive, `HistoryIsTrue` itself,
whose two parts are about frozen and recorded answers and about the order of the facts.
Most actions are one of a few changes in their effect on the files: a file is cut, created or
written (`FilesChange`), a row is staged, published or freed (`StageKeeps`, `FinalizeSessionKeeps`,
`FinalizeChildKeeps`), or files and rows stay and only the process moves (`RestKeeps`), which each
part survives once for all of them. Failures, which may come at any step, are proved like
that as well. `Faultless` is proved along with it: until something fails there is
nothing to recover and nothing staged for a child but what is just being appended. The truth of
answers needs it, since an error is an answer over a child with a history only when a failure has
caused it. From `StoreInv` follow

- `TellsTheTruth`, `FrozenAnswersStay`, `CountIsExact` and the refinement, whatever fails. A step
  leaves what readers see, accepts a fact, publishes it, adds a summary or clears (`StoryGoesOn`);
  each is a step or a stutter of `DurableHistory` (`StoreKeepsHistory`).
- `DatabaseKeepsUp` (`DatabaseMatchesFiles`) provided that neither a clean-up nor the
  synchronization of a directory fails (`Spared`): each of the two loses a file the database
  names (section 7, 1 and 9), which no invariant can mend. Failures of a child's appends are not
  excluded: what they leave, a child its parent answered with an error, is named in the property
  (`GivenUp`). `CountIsExact` has no condition: it
  speaks of the sessions that still have their file.

`SessionQueue_proof` assumes natural bounds and drivers numbered from 1. `IInv` holds whatever
fails: what an input may be in each state of its run (`AttemptFacts`), what the queue and the active
run may name even in a faulted session (`QueueFacts`, `ActiveFacts`), and that the driver between
claim and commit is the one that holds the gate (`DriverFacts`), for whose input alone memory and
store may differ (`Agreement`). It gives `MemoryAndStoreAgree`, `AttemptsRunOnce`, `OutcomesAreFinal`
and `TypeCorrect` without conditions. `Alone` (engines) and `Single` (drivers) are invariants only
when no task panics and no report reaches an unprepared session, `Single` only when moreover no
journal preparation fails: `EnginesDoNotOverlap`, `DriversDoNotOverlap` and `FaultedIsClosed` state
these as hypotheses, the runs have them as settings, and without them the code breaks the
properties (section 7, 3, 4 and 7).

`Goals_proof` assumes that the budgets are positive. None of its properties is inductive: whether an
old run may touch the goal depends on bindings read long before. `IInv` says what generations are
for. `Numbered`: no binding is ahead of its goal. `OneInputEach`: a generation has one input, so the
run of the current generation is *the* run, and no continuation can wait while it is at work.
`AtWork`: a cancelled run is not the running goal's, unless it was cancelled by dismissing its
question. `Asked`: while a run is at work no question but its own waits. The commands that accept
a bound input share one lemma (`Accepting`, for a binding that is `Fresh`), those that leave a
generation another (`Leaving`), and the two places where a turn is judged a third (`TurnEnds`).
From `IInv` follow `ContinuationsAreCurrent`, `TheGateIsFinal` and, through `NextHandles` (a step
that is no current turn's does nothing a turn may do), `StaleRunsAreInert`.
A second invariant, `MInv`, is about memory and store. That the lane, the queue and the open run are
the rows (`Mirror`) does not suffice: the driver prepares an input outside the gate, so `Reading`
says what may have become of a binding it has read (if the input was bound meanwhile, the input the
goal was started with waits before it, and the driver will not take it), `Newest` that only the last
of a lane can be current, `Alone` that nothing waits for the goal beside the run that works for it,
`RunOfInput` that a run keeps the binding its input had, `Waits` that only the open run waits for an
answer. From it follow `MemoryMirrorsStore`, `RunsAreForTheirGoal` and, through `TakenIsDue` (what
is taken is first in its lane), `ClaimsFollowTheGoal`.

`Approvals_proof` assumes that calls are numbers other than 0, which stands for no call, and that
`MaxMoves` is a natural number. `NobodyIsStranded` is not inductive: whether an entry has one owner
depends on where every request is. `IInv` says of entries and waiters that each has the other, or
the waiter something in its channel (`EveryWaiterAnswerable`), that an entry in `Resolving` belongs
to one request and that nobody holds one its waiter has not registered (`Held`), that what a channel
holds is what clients were told (`Heard`), and that a request has stored and installed the rule it
answers with before it answers (`Requested`, `Ruled`). An action that chooses is split into
branches, each with the frame of its own (`Branches`), and each part is proved for each branch. From
it follow `NobodyStranded`, `AnswersObeyed`, `EventsTell` and `RulesGuard`.

`SequenceFacts` has the induction these proofs need. The library's induction theorems take an
operator, which the provers cannot instantiate; `EveryNat` and `EverySequence` say the same of a
*set* of numbers or sequences and follow from the well-foundedness of `<`. `SelectSeq` is closed to the
provers, so the models remove inputs with `Minus`, a recursive function with the meaning of
`retain`, whose results `Retained` and `MinusTwice` give.

`Observation_proof` assumes finitely many readers and positive `Attempts`. That an answer misses
nothing is decided by a look at numbers long after the parts were collected, so `IInv` says what
those numbers mean: a read has been overtaken, or nothing it holds has been announced anew
(`Fresh`). This holds because a watermark does not go back while a reader is registered with its
scope (`Watched`, by counting), because an event is never numbered below the noted watermarks
(`Numbers`), and, for a body that is committed first and announced later, because the gate keeps it
still while a query of the session is under way (`Gates`). From it follow the refinement
(`SnapshotsKept`: `Capture` is `Answer`, `SnapshotBusy` is `Refuse`, events and changes are
themselves, the rest stutters) and `EntriesGivenBack`; `OwnEventsDisturb` rests on a second
invariant, that the stamp of a query nothing concerned is the one it noted (`NoneDisturbed`).

`ClientSync_proof` assumes natural bounds, a positive channel and a positive buffer. Neither property
is inductive: they speak of a client at rest or on an open stream, and what makes them true then was
decided by buffers, subscriptions and answers long before. `IInv` is `InstanceState`, `RuntimeBounds`,
`Written` (what the log says of a step is what the store and the live run hold) and `Client`, whose
parts are these. `Opening`: a connecting client keeps every event after its subscription until they
are too many. `Following`, `Stands`: an open stream lacks nothing above the client's position. `Covers`,
`Tells`: what an answer of a given number holds. `Owed`: what events announced is shown, or asked for
in a read that will hold it, or an error is shown. `Heard`: a session read has kept every later event
about its session, or knows that it has not. `Sealing`: a recorded step is sealed in the live
projection. A step of the runtime only extends the log (`Grows`), which each part survives
(`ClientStays`); the client's steps are proved through the functions they apply. Those that go through
a list of events are recursive functions, so that what one event keeps all events keep
(`AllAppliedKeep`, `RebasedKeep`, by `Iterated` of `SequenceFacts`). From `IInv` follow `TypeCorrect`,
`NothingIsEverForgotten` and `TextIsAlwaysShownExactly`.

## 7. Where code and documents disagree

Shown by a run:

1. `late_cleanup`: the cleanup of a cleared history is retried by the next process and removes the
   files of children created after the clear (`storage/session_history.rs:686`).
2. `goal_overtaken`: an input of the user's bound to an old generation survives the stop of its
   goal; after the next resume two inputs are bound and the session cannot be opened again
   (`storage/goal.rs:155`, `RT/runtime/recovery.rs:313-341`). Deleting *all* inputs of the
   generation is no cure: a held input may be bound while the driver prepares it, which the mutant
   `AllOfTheGoal` shows to break `PreparedForItsGoal`.

Seen with the models, with the setting that shows them where there is one:

3. Two drivers: a failed journal preparation clears the driver's flag and goes on
   (`RT/runtime/input/mod.rs:630` against `docs/modules/assistant-runtime.md:161`). Check
   `SingleDriver` in `SessionQueue` with `MaxInputs = 2, MaxAttempts = 1, MaxRestarts = 0,
   Failures = {"journal"}, LateReports = FALSE`. A second engine does not start.
4. Late report: `prepare` rebuilds a session in which a report has started a run
   (`session_loading.rs:156`). Check `OneExecution` with `MaxInputs = 2, MaxAttempts = 1,
   MaxRestarts = 1, Failures = {}, LateReports = TRUE`.
5. Reports: a promotion does not shift reports and deliveries, so the others do not keep their order
   in the store (`storage/input_state.rs:254`, comment at 251); `FifoUnlessPromoted` and the stored
   order are stated for sessions whose inputs are the user's.
6. Retry: an accepted retry is not let through while `resume_required` is set, and otherwise queues
   behind older inputs (`RT/runtime/input/commands.rs:369` against
   `docs/modules/assistant-runtime.md:166-167`); it may also take the front from a command under
   way (`commands.rs:329`).
7. Panic: the flag is cleared and the run settled before the session is faulted
   (`RT/runtime/input/mod.rs:260-290` against `docs/modules/assistant-runtime.md:172-174`): an input
   accepted in between starts a second engine. `session` is therefore checked without panics.
8. Early load: a session read begun before the connection had a position joins it without the
   events between (`RuntimeLifecycleCoordinator.ts:192`, `RootStore.ts:689`; comment at
   `LiveExecutionStore.ts:96`). `NothingIsForgotten` and `TextIsExact` name the condition (`InOrder`).
   Two states pass by themselves: between a gap and the reconnection the text may have a hole, and
   after both, before the session is read again, a late piece of a recorded step may be shown beside
   it, since `invalidateForGap` forgets which steps are recorded and `#applyEvent` starts an empty
   run. `TextIsExact` therefore speaks of an open stream on which the session has been read.
9. Stale clear: a clear whose cleanup is still pending, followed by a compaction, leaves a receipt
   of an older generation; the next process refuses the session for it
   (`storage/session_history.rs:632-637`), although the cleanup is promised to converge
   (`RT/storage/contract.rs:306-307`).
   Lost generation: when only the directory's sync fails *after* a switch has been committed
   (`storage/recovery.rs:795-800`, whose comment says that a failure there leaves an orphan file),
   the caller takes the switch for failed and removes the file of the generation that is now
   authoritative (`context_replacement.rs:92-97`). `RestartHeals` excepts both (`Intact`).
10. Goal failures: a resume does not reset `consecutive_failures`; one more failure exceeds the
    maximum, the settled goal cannot be read back (`RT/run/settlement.rs:629`) and the session is
    faulted, and not loadable afterwards (`recovery.rs:479`; comment `goal/mod.rs:317-318`). The
    model has it as `Readable`.
11. Lost turns: a turn that leaves no outcome after an earlier turn is settled with the earlier
    turn's steps and may be found unfinished: "Goal continuation escaped the run gate pipeline"
    (`RT/runtime/input/mod.rs:963-967`, `run/settlement.rs:478-490`). The model has it as `Escape`,
    and `GateIsFinal` excepts it.
12. A start that fails after the claim, or an error of the loop's own, leaves the goal `Running` with
    nothing to run (`fail_before_start`, `Verdict` of a `broken` turn). In plain sessions it strands
    the queue: item 17.
13. Guidance held while a goal runs is consumed without being resumed once the goal has ended,
    since a settlement without a transition answers with `resume_required = false`
    (`storage/run_state.rs:589` against `docs/versions/v0.18.0/技术方案.md:457`).
14. `interrupt_run` pauses the queue and then refuses to stop a goal's run (`RT/runtime.rs:978-1000`).
15. A paused goal can be resumed without a message while a turn-ending question waits: the goal is
    then `Running`, its continuation cannot be taken, the answer is refused ("only a paused Goal can
    be resumed") and dismissing wakes nobody (`RT/runtime/goal/commands.rs:269`,
    `RT/runtime/feedback.rs:118-185`). Stopping the goal helps. `CurrentInputIsServed` excepts the
    time after a dismissal.
16. Child left behind: one I/O error in an append of a child is enough. `delegate_task` returns an
    error (`RT/delegation/controller.rs:373-385`, `681-686`), the session stays healthy and the
    parent commits its exchange with that error (`storage/tool_exchange.rs:299-326`), although "the
    parent exchange is kept from committing while the child's settlement is not durable"
    (`docs/modules/runtime-host.md:1161`, here translated) and a failed completion is promised to be
    finished on reopening (`storage/tool_exchange/delegation.rs:318-320`). Afterwards the staged
    settlement has no receipt to apply to (`tool_exchange/delegation.rs:287-297`), the child's file
    may say "completed" where the committed answer says "error", the parent's run cannot be settled
    ("Run still has unfinished child controls", `storage/append_effect.rs:539-549`), and every
    restart installs the session as unavailable (`storage/session_loading.rs:124-140`,
    `RT/runtime/recovery.rs:61-65`). The same happens when the error exchange is only staged at a
    crash, since the session's appends are resumed before those of its children. A child left
    behind *without* a staged settlement is settled at the next start. Check `DatabaseMatchesFiles`
    without the `GivenUp` disjuncts of `StagedStaysCompletable`, with `Faults = {"io"},
    MaxFaults = 1`; or `RestartHeals` without the last conjunct of `Intact`, with `Faults =
    {"crash", "io"}, MaxFaults = 2` (the crash is the restart). `StagedStaysCompletable`, `Intact` and the error clause of
    `ToldOfTask` except exactly this.
17. Abandoned queue: a start that fails before or after the claim ends the driver with its flag
    cleared and without a pause, a resume flag or a wake (`fail_before_start`,
    `RT/runtime/input/mod.rs:1228-1240` and `1539`). The inputs behind it wait, in plain sessions
    too, until some handler wakes the queue, and nothing tells the user. Check `QueueIsServed` of
    `SessionQueue` without `Abandoned`, with the settings of `session`.

## 8. Plan

Done: everything in section 2. Next, in this order: `RunLoop` (`RT/run/settlement.rs`,
`context_compaction.rs`, `runtime/shutdown.rs`: segments of one run, budgets across them, shutdown
with its timeout and forced settlement), composed with `AgentEngine`'s outcomes; `Delegation`
(`delegation.rs`: registry of child tasks in memory, terminal states, cancellation); two sessions side
by side for the controller. Every safety property of a passing run is proved.

## 9. Not modelled, and why

Model codecs, HTTP, SSE and WebSocket adapters, tool implementations, speech, plugins and MCP
connections are I/O without decisions other parts depend on. Permission matching, token arithmetic,
ranking and rendering are data the properties do not tell apart. SQL is abstracted to atomic
transactions with their admission checks. In `SessionQueue` an operation that fails in the store
before changing anything is no step at all.

`StagedHistory` leaves out the tool exchanges and compactions of a child, retries of a run,
continuation frames, the native compaction boundary, a second exchange of a run, a second clear while another receipt is pending, commits whose outcome is
unknown, materialization, usage and recall. A session that could not be recovered stays unavailable
until the next start, in the code and in the model; `RestartHeals` is about sessions whose files
are intact (`Intact`).

`Goals` leaves out token usage, the pause by a rewrite of the history
(`runtime/session_management.rs`), forks, deliveries of a controller, retries of goal-bound runs
(refused at `commands.rs:308`), failures of the store and a crash between claim and commit, which
`SessionQueue` has.
