----------------------------- MODULE SessionQueue -----------------------------
(***************************************************************************)
(* How the runtime consumes one session's queue: the queue driver task     *)
(* (run_queue) that prepares, claims, commits, executes and settles one    *)
(* input after the other, against the handlers that accept, cancel, retry, *)
(* pause and resume, the store behind both, failures of the store, of the  *)
(* preparation and of the task itself, and restarts of the process.        *)
(*                                                                         *)
(* The session's mutation gate makes a handler one step.  A driver holds   *)
(* it from the claim of an input to the commit of its message (gate), and  *)
(* gives it up while it prepares, runs a command or waits for the engine.  *)
(* The engine itself is AgentEngine, the order of the queue QueueOrder     *)
(* (promotions are left to it); goals, compaction and shutdown are absent. *)
(***************************************************************************)
EXTENDS Integers, Sequences, FiniteSets, SequencesExt

CONSTANTS
  MaxInputs, MaxAttempts, MaxRestarts,  \* bounds on the history of the session
  Drivers,      \* tasks that may exist at once
  Failures,     \* what may fail: store, start, journal, panic
  LateReports   \* reports may reach a session that no operation has prepared

ASSUME BoundsAssumption ==
  MaxInputs \in Nat /\ MaxAttempts \in Nat /\ MaxRestarts \in Nat /\ Drivers \subseteq Nat \ {0}
ASSUME FailuresAssumption ==
  Failures \subseteq {"store", "start", "journal", "panic"} /\ LateReports \in BOOLEAN

VARIABLES
  (* SQLite *)
  rows,         \* inputs in the order of queue_order, each with its latest run
  question,     \* a completed run waits for the user's answer
  (* SessionState *)
  queue,        \* queue_item_ids
  order,        \* queue_order of every input as memory has it
  active,       \* input of active_run, 0 when it is None
  executing,    \* executing_command, 0 when it is None
  faulted,      \* is_faulted
  paused,       \* queue_paused_by_user
  resume,       \* resume_required
  asking,       \* some feedback request is pending
  driving,      \* is_queue_driver_running
  prepared,     \* execution_prepared
  (* tasks *)
  drivers,      \* where each driver stands and which attempt it works on
  gate,         \* driver that holds the mutation gate, 0 when it is free
  (* history *)
  starts,       \* how often an execution of the input was started
  restarts

switches == <<paused, resume, asking, question>>
tasks    == <<driving, drivers>>
history  == <<starts, restarts>>
vars == <<rows, queue, order, active, executing, faulted, switches, prepared, tasks, gate, history>>

Unfinished == {"accepted", "running"}
Terminal   == {"done", "failed", "interrupted"}   \* done: completed or cancelled

Row == [kind: {"message", "command", "report"}, state: {"queued", "committed", "deleted"},
        priority: Nat, run: Unfinished \cup Terminal \cup {"none"}, attempts: Nat]

\* run, panicked, recovered, orphan: the engine of the attempt may be at work.
\* stopped: the task has ended because it could not prepare an input.
Driver == [at: {"off", "stopped", "top", "prepare", "commit", "command",
                "run", "panicked", "recovered", "orphan"},
           input: Nat, attempt: Nat]

NoDriver == [at |-> "off", input |-> 0, attempt |-> 0]
Stopped  == [NoDriver EXCEPT !.at = "stopped"]
Gone     == {"off", "stopped"}

Queued(r)      == {i \in DOMAIN r : r[i].state = "queued"}

\* Mutant of StillAtWork: a run that was only accepted is forgotten.
Running(r) == {i \in DOMAIN r : r[i].run = "running"}

StillAtWork(r) == {i \in DOMAIN r : r[i].run \in Unfinished}

\* COALESCE(priority_order, queue_order): a committed row has no priority of its own.
StoredOrder(r, i) == IF r[i].state = "committed" THEN i ELSE r[i].priority

NextPriority ==
  Max({-1} \cup {StoredOrder(rows, i) : i \in {j \in DOMAIN rows : rows[j].state # "deleted"}}) + 1

\* next_runnable_input of a session without a goal; 0 stands for None.
Runnable == IF asking \/ paused \/ resume \/ queue = <<>> THEN 0 ELSE Head(queue)

\* wake_queue, called with the state lock after the handler's own changes.
Wake ==
  IF faulted' \/ driving \/ Runnable' = 0
  THEN UNCHANGED tasks
  ELSE /\ driving' = TRUE
       /\ LET free == {d \in Drivers : drivers[d].at \in Gone}
          IN  /\ free # {}
              /\ drivers' = [drivers EXCEPT ![Min(free)] = [NoDriver EXCEPT !.at = "top"]]

\* An input is in the queue once at most.
Without(s, i) == RemoveFirst(s, i)

-----------------------------------------------------------------------------
Init ==
  /\ rows = <<>> /\ queue = <<>> /\ order = <<>> /\ starts = <<>>
  /\ question = FALSE /\ asking = FALSE /\ paused = FALSE /\ resume = FALSE
  /\ active = 0 /\ executing = 0 /\ faulted = FALSE
  /\ driving = FALSE /\ prepared = TRUE
  /\ drivers = [d \in Drivers |-> NoDriver]
  /\ gate = 0 /\ restarts = 0

(* Handlers: SessionLoader::prepare, the mutation gate, ensure_healthy *)

Handler == prepared /\ gate = 0 /\ ~faulted

Insert(kind, priority, others) ==
  /\ Len(rows) < MaxInputs
  /\ rows' = Append(others, [kind |-> kind, state |-> "queued", priority |-> priority,
                             run |-> "none", attempts |-> 0])
  /\ order' = Append(order, priority)
  /\ starts' = Append(starts, 0)

AcceptMessage ==
  /\ Handler /\ ~asking
  /\ Insert("message", NextPriority, rows)
  /\ queue' = Append(queue, Len(rows) + 1)
  /\ paused' = FALSE
  /\ UNCHANGED <<resume, asking, question, active, executing, faulted, prepared, gate, restarts>>
  /\ Wake

AcceptCommand ==
  /\ Handler
  /\ Insert("command", NextPriority, rows)
  /\ queue' = Append(queue, Len(rows) + 1)
  /\ UNCHANGED <<switches, active, executing, faulted, prepared, gate, restarts>>
  /\ Wake

\* The answer to a question becomes the first input of the queue.
Answer ==
  /\ Handler /\ asking /\ active = 0
  /\ Insert("message", 0, [i \in DOMAIN rows |->
                             IF i \in Queued(rows) THEN [rows[i] EXCEPT !.priority = @ + 1]
                                                   ELSE rows[i]])
  /\ queue' = <<Len(rows) + 1>> \o queue
  /\ asking' = FALSE /\ question' = FALSE /\ resume' = FALSE /\ paused' = FALSE
  /\ UNCHANGED <<active, executing, faulted, prepared, gate, restarts>>
  /\ Wake

\* Dismissing the question leaves the queue paused.
DismissQuestion ==
  /\ Handler /\ asking
  /\ asking' = FALSE /\ question' = FALSE /\ paused' = TRUE
  /\ UNCHANGED <<rows, queue, order, active, executing, faulted, resume, prepared, tasks, gate, history>>

CancelInput(i) ==
  /\ Handler
  /\ rows[i].kind = "message" /\ rows[i].state = "queued"
  /\ rows' = [rows EXCEPT ![i].state = "deleted"]
  /\ queue' = Without(queue, i)
  /\ resume' = (resume /\ queue' # <<>>) /\ paused' = (paused /\ queue' # <<>>)
  /\ UNCHANGED <<order, active, executing, faulted, asking, question, prepared, gate, history>>
  /\ Wake

\* interrupt_run: the engine converges (AgentEngine!CancelConverges), the queue stays paused.
Interrupt ==
  /\ prepared /\ gate = 0 /\ active # 0
  /\ paused' = TRUE
  /\ UNCHANGED <<rows, queue, order, active, executing, faulted, resume, asking, question, prepared,
                 tasks, gate, history>>

ResumeSession ==
  /\ Handler
  /\ resume' = FALSE /\ paused' = FALSE
  /\ UNCHANGED <<rows, queue, order, active, executing, faulted, asking, question, prepared, gate, history>>
  /\ Wake

\* A new attempt of an input that is already part of the conversation joins the queue
\* before the first item with a greater queue_order.
Retry(i) ==
  /\ Handler /\ active = 0
  /\ rows[i].state = "committed" /\ rows[i].kind # "command"
  /\ rows[i].run \in {"failed", "interrupted"} /\ rows[i].attempts < MaxAttempts
  /\ rows' = [rows EXCEPT ![i].run = "accepted", ![i].attempts = @ + 1]
  /\ LET later == {k \in DOMAIN queue : order[queue[k]] > order[i]}
         place == Min(later \cup {Len(queue) + 1})
     IN  queue' = InsertAt(queue, place, i)
  /\ UNCHANGED <<order, active, executing, faulted, switches, prepared, gate, history>>
  /\ Wake

\* A report of a hosted session reaches this one through SessionLoader::load, which does
\* not prepare it.  Storing and projecting it are one step here (see QueueOrder).
ReportArrives ==
  /\ gate = 0 /\ ~faulted /\ (~LateReports => prepared)
  /\ Insert("report", NextPriority, rows)
  /\ queue' = Append(queue, Len(rows) + 1)
  /\ UNCHANGED <<switches, active, executing, faulted, prepared, gate, restarts>>
  /\ Wake

-----------------------------------------------------------------------------
(* The queue driver *)

At(d, place) == drivers[d].at = place

Move(d, place) == drivers' = [drivers EXCEPT ![d].at = place]

Leave(d) == drivers' = [drivers EXCEPT ![d] = NoDriver]

\* fault_driver: mark_faulted.
Fault == faulted' = TRUE /\ driving' = FALSE /\ executing' = 0

\* Mutant of Owns: settlement does not compare the run with active_run.
AnyRun(d) == TRUE

\* The driver's run is the session's active run.
Owns(d) == active = drivers[d].input /\ rows[active].attempts = drivers[d].attempt

\* Mutant of MayConsume: a faulted session is served.
MayConsumeFaulted == active = 0 /\ Runnable # 0

MayConsume == ~faulted /\ active = 0 /\ Runnable # 0

\* Mutant of Rest: the flag of the task that ends is left set.
RestDriving(d) ==
  /\ At(d, "top") /\ gate = 0 /\ ~MayConsume
  /\ Leave(d)
  /\ UNCHANGED <<rows, queue, order, active, executing, faulted, switches, prepared, driving, gate,
                 history>>

\* The loop finds the session closed, busy, or nothing to consume.
Rest(d) ==
  /\ At(d, "top") /\ gate = 0 /\ ~MayConsume
  /\ driving' = FALSE
  /\ Leave(d)
  /\ UNCHANGED <<rows, queue, order, active, executing, faulted, switches, prepared, gate, history>>

TakeCommand(d) ==
  /\ At(d, "top") /\ gate = 0 /\ MayConsume
  /\ rows[Runnable].kind = "command"
  /\ executing' = Runnable
  /\ drivers' = [drivers EXCEPT ![d] = [at |-> "command", input |-> Runnable, attempt |-> 0]]
  /\ UNCHANGED <<rows, queue, order, active, faulted, switches, prepared, driving, gate, history>>

\* Preparation reads configuration and directories without the gate.
PrepareInput(d) ==
  /\ At(d, "top") /\ gate = 0 /\ MayConsume
  /\ rows[Runnable].kind # "command"
  /\ drivers' = [drivers EXCEPT ![d] = [at |-> "prepare", input |-> Runnable,
                                        attempt |-> rows[Runnable].attempts]]
  /\ UNCHANGED <<rows, queue, order, active, executing, faulted, switches, prepared, driving, gate,
                 history>>

\* The conversation is read from the store at the top of the loop, without the gate.
ReadFails(d) ==
  /\ "store" \in Failures /\ At(d, "top")
  /\ Fault /\ Leave(d)
  /\ UNCHANGED <<rows, queue, order, active, switches, prepared, gate, history>>

\* What was prepared is still what the queue asks for (still_current).
StillCurrent(d) ==
  /\ ~faulted /\ active = 0
  /\ Runnable = drivers[d].input
  /\ rows[Runnable].attempts = drivers[d].attempt

DropPreparation(d) ==
  /\ At(d, "prepare") /\ gate = 0 /\ ~StillCurrent(d)
  /\ Move(d, "top")
  /\ UNCHANGED <<rows, queue, order, active, executing, faulted, switches, prepared, driving, gate,
                 history>>

\* claim_input: the store admits the first run of an input while no run is unfinished.
Claim(d) ==
  /\ At(d, "prepare") /\ gate = 0 /\ StillCurrent(d)
  /\ drivers[d].attempt = 0 /\ StillAtWork(rows) = {}
  /\ rows' = [rows EXCEPT ![drivers[d].input].run = "accepted", ![drivers[d].input].attempts = 1]
  /\ drivers' = [drivers EXCEPT ![d].at = "commit", ![d].attempt = 1]
  /\ gate' = d
  /\ UNCHANGED <<queue, order, active, executing, faulted, switches, prepared, driving, history>>

ClaimFails(d) ==
  /\ At(d, "prepare") /\ gate = 0 /\ StillCurrent(d)
  /\ drivers[d].attempt = 0 /\ ("store" \notin Failures => StillAtWork(rows) # {})
  /\ Fault /\ Leave(d)
  /\ UNCHANGED <<rows, queue, order, active, switches, prepared, gate, history>>

\* The run of a retried input exists already.
TakeRetry(d) ==
  /\ At(d, "prepare") /\ gate = 0 /\ StillCurrent(d)
  /\ drivers[d].attempt > 0
  /\ Move(d, "commit")
  /\ gate' = d
  /\ UNCHANGED <<rows, queue, order, active, executing, faulted, switches, prepared, driving, history>>

\* commit_user_message: message, input and run change together; then memory follows.
Start(d) ==
  /\ At(d, "commit")
  /\ LET i == drivers[d].input
     IN  /\ rows[i].run = "accepted"
         /\ rows' = [rows EXCEPT ![i].state = "committed", ![i].run = "running"]
         /\ queue' = Without(queue, i)
         /\ active' = i
         /\ starts' = [starts EXCEPT ![i] = @ + 1]
  /\ Move(d, "run")
  /\ gate' = 0
  /\ UNCHANGED <<order, executing, faulted, switches, prepared, driving, restarts>>

CommitFails(d) ==
  /\ "store" \in Failures /\ At(d, "commit")
  /\ Fault /\ Leave(d)
  /\ gate' = 0
  /\ UNCHANGED <<rows, queue, order, active, switches, prepared, history>>

\* A retried run is under way when its recovered context cannot be stored: it is not
\* executed, and stays the active run of a faulted session.
ContextFails(d) ==
  /\ "store" \in Failures /\ At(d, "commit")
  /\ LET i == drivers[d].input
     IN  /\ rows[i].state = "committed" /\ rows[i].run = "accepted"
         /\ rows' = [rows EXCEPT ![i].run = "running"]
         /\ queue' = Without(queue, i)
         /\ active' = i
  /\ Fault /\ Leave(d)
  /\ gate' = 0
  /\ UNCHANGED <<order, switches, prepared, history>>

\* fail_before_start: the input is consumed, its run has failed, no driver is running.
FailBeforeStart(d) ==
  /\ At(d, "commit")
  /\ LET i == drivers[d].input
     IN  /\ rows' = [rows EXCEPT ![i].state = "committed", ![i].run = "failed"]
         /\ queue' = Without(queue, i)
  /\ driving' = FALSE
  /\ gate' = 0
  /\ UNCHANGED <<order, active, executing, faulted, switches, prepared, history>>

\* The task returns, with no pause, no resume flag and no successor: whatever else is
\* queued waits for the next handler that wakes the queue.
PreparationFails(d) ==
  /\ "start" \in Failures
  /\ FailBeforeStart(d)
  /\ drivers' = [drivers EXCEPT ![d] = Stopped]

\* Preparing the replacement journal fails: unlike above, the task goes on.
JournalFails(d) ==
  /\ "journal" \in Failures
  /\ FailBeforeStart(d) /\ Move(d, "top")

-----------------------------------------------------------------------------
(* Execution and settlement *)

\* settle_run: the outcome is stored and projected under the gate; a completed run may
\* leave a question to the user, and an exchange left pending takes the session out of
\* service.
Settlement(d, run, asks, pending) ==
  /\ gate = 0 /\ Owns(d)
  /\ run \in {"done", "failed"} /\ (asks => run = "done")
  /\ pending => run = "failed" /\ "panic" \in Failures
  /\ rows' = [rows EXCEPT ![drivers[d].input].run = run]
  /\ active' = 0
  /\ asking' = asks /\ question' = asks
  /\ resume' = FALSE
  /\ faulted' = (faulted \/ pending)
  /\ UNCHANGED <<queue, order, executing, paused, prepared, driving, gate, history>>

Settle(d, run, asks, pending) ==
  At(d, "run") /\ Settlement(d, run, asks, pending) /\ Move(d, "top")

SettleFails(d) ==
  /\ "store" \in Failures /\ At(d, "run") /\ gate = 0 /\ Owns(d)
  /\ active' = 0
  /\ Fault /\ Move(d, "top")
  /\ UNCHANGED <<rows, queue, order, switches, prepared, gate, history>>

\* Settlement finds that the session's active run is not this one.
SettleForeign(d) ==
  /\ At(d, "run") /\ gate = 0 /\ ~Owns(d)
  /\ Fault /\ Move(d, "top")
  /\ UNCHANGED <<rows, queue, order, active, switches, prepared, gate, history>>

EngineOf(d) == drivers[d].at \in {"run", "panicked", "recovered", "orphan"}

\* The recorder of the tool exchanges cannot write, or finds that another run is the
\* active one (is_active_run): the engine goes on to its end.
RecorderFails(d) ==
  /\ EngineOf(d) /\ ("store" \in Failures \/ ~Owns(d))
  /\ faulted' = TRUE
  /\ UNCHANGED <<rows, queue, order, active, executing, switches, prepared, tasks, gate, history>>

\* recover_panicked_queue: the flag is cleared at once, the run is settled under the gate,
\* and only when settle_run has returned (a hosted session's report waits for the gate of
\* the controller) is the session taken out of service.  The engine is cancelled, but its
\* end is not awaited.  A panic outside the run is no different from ReadFails.
DriverPanics(d) ==
  /\ "panic" \in Failures /\ At(d, "run") /\ Owns(d)
  /\ driving' = FALSE
  /\ Move(d, "panicked")
  /\ UNCHANGED <<rows, queue, order, active, executing, faulted, switches, prepared, gate, history>>

RecoverySettles(d, pending) ==
  At(d, "panicked") /\ Settlement(d, "failed", FALSE, pending) /\ Move(d, "recovered")

RecoveryFails(d) ==
  /\ At(d, "panicked") /\ gate = 0 /\ (~Owns(d) \/ "store" \in Failures)
  /\ active' = IF Owns(d) THEN 0 ELSE active
  /\ Fault /\ Move(d, "orphan")
  /\ UNCHANGED <<rows, queue, order, switches, prepared, gate, history>>

RecoveryFaults(d) ==
  /\ At(d, "recovered")
  /\ Fault /\ Move(d, "orphan")
  /\ UNCHANGED <<rows, queue, order, active, switches, prepared, gate, history>>

OrphanEnds(d) ==
  /\ At(d, "orphan")
  /\ Leave(d)
  /\ UNCHANGED <<rows, queue, order, active, executing, faulted, switches, prepared, driving, gate,
                 history>>

\* commit_session_command, and the check that memory still has the command in front.
CommitCommand(d) ==
  /\ At(d, "command") /\ gate = 0
  /\ LET i == drivers[d].input
     IN  /\ rows[i].state = "queued" /\ executing = i /\ queue # <<>> /\ Head(queue) = i
         /\ rows' = [rows EXCEPT ![i].state = "committed"]
  /\ queue' = Tail(queue)
  /\ executing' = 0
  /\ Move(d, "top")
  /\ UNCHANGED <<order, active, faulted, switches, prepared, driving, gate, history>>

\* The result is stored, but it is not the command memory expects.
CommandDisplaced(d) ==
  /\ At(d, "command") /\ gate = 0
  /\ LET i == drivers[d].input
     IN  /\ rows[i].state = "queued" /\ ~(executing = i /\ queue # <<>> /\ Head(queue) = i)
         /\ rows' = [rows EXCEPT ![i].state = "committed"]
  /\ Fault /\ Leave(d)
  /\ UNCHANGED <<queue, order, active, switches, prepared, gate, history>>

CommandFails(d) ==
  /\ At(d, "command")
  /\ "store" \notin Failures => rows[drivers[d].input].state # "queued"
  /\ Fault /\ Leave(d)
  /\ UNCHANGED <<rows, queue, order, active, switches, prepared, gate, history>>

-----------------------------------------------------------------------------
(* The process *)

\* Inputs are recovered by priority; of the same priority a command comes last.
Before(r, a, b) ==
  LET late(n) == IF r[n].kind = "command" THEN 1 ELSE 0
  IN  \/ r[a].priority < r[b].priority
      \/ r[a].priority = r[b].priority /\ late(a) < late(b)
      \/ r[a].priority = r[b].priority /\ late(a) = late(b) /\ a < b

\* SessionController::recovered over the store's rows: only inputs without a run wait.
Recovered(r) ==
  {s \in SetToSeqs({i \in Queued(r) : r[i].run = "none"}) :
     \A j, k \in DOMAIN s : j < k => Before(r, s[j], s[k])}

\* The memory of the session is built anew.
Rebuild(r) ==
  /\ queue' \in Recovered(r)
  /\ order' = [i \in DOMAIN r |-> StoredOrder(r, i)]
  /\ active' = 0 /\ executing' = 0 /\ faulted' = FALSE
  /\ paused' = FALSE /\ resume' = (queue' # <<>>)
  /\ driving' = FALSE

\* The process ends at any moment; a new one loads the session on demand.
Restart ==
  /\ restarts < MaxRestarts
  /\ Rebuild(rows)
  /\ asking' = question /\ prepared' = FALSE
  /\ drivers' = [d \in Drivers |-> NoDriver]
  /\ gate' = 0
  /\ restarts' = restarts + 1
  /\ UNCHANGED <<rows, question, starts>>

\* Mutant of Interrupted: the unfinished run is forgotten and its input queued again.
Requeued(row) == [row EXCEPT !.state = "queued", !.run = "none", !.attempts = 0]

Interrupted(row) == [row EXCEPT !.state = "committed", !.run = "interrupted"]

\* Mutant of Prepare: execution_prepared is not asked.
PrepareAgain ==
  /\ gate = 0
  /\ rows' = [i \in DOMAIN rows |->
                IF i \in StillAtWork(rows) THEN Interrupted(rows[i]) ELSE rows[i]]
  /\ Rebuild(rows')
  /\ asking' = question /\ prepared' = TRUE
  /\ UNCHANGED <<question, drivers, gate, history>>

\* SessionLoader::prepare, the first step of every operation of a user: unfinished runs
\* are settled as interrupted and their inputs are committed.
Prepare ==
  /\ ~prepared /\ gate = 0
  /\ rows' = [i \in DOMAIN rows |->
                IF i \in StillAtWork(rows) THEN Interrupted(rows[i]) ELSE rows[i]]
  /\ Rebuild(rows')
  /\ asking' = question /\ prepared' = TRUE
  /\ UNCHANGED <<question, drivers, gate, history>>

User ==
  \/ AcceptMessage \/ AcceptCommand \/ Answer \/ DismissQuestion \/ Interrupt \/ ResumeSession
  \/ \E i \in DOMAIN rows : CancelInput(i) \/ Retry(i)

Drive(d) ==
  \/ Rest(d) \/ TakeCommand(d) \/ PrepareInput(d) \/ ReadFails(d) \/ DropPreparation(d)
  \/ Claim(d) \/ ClaimFails(d) \/ TakeRetry(d)
  \/ Start(d) \/ CommitFails(d) \/ ContextFails(d) \/ PreparationFails(d) \/ JournalFails(d)
  \/ \E run \in Terminal, asks, pending \in BOOLEAN : Settle(d, run, asks, pending)
  \/ SettleFails(d) \/ SettleForeign(d)
  \/ \E pending \in BOOLEAN : RecoverySettles(d, pending)
  \/ RecoveryFails(d) \/ RecoveryFaults(d) \/ OrphanEnds(d)
  \/ CommitCommand(d) \/ CommandDisplaced(d) \/ CommandFails(d)

Next ==
  \/ User \/ ReportArrives \/ Prepare \/ Restart
  \/ \E d \in Drivers : Drive(d) \/ RecorderFails(d) \/ DriverPanics(d)

\* The tasks are scheduled; users, reports and failures come when they come.
Fairness == \A d \in Drivers : WF_vars(Drive(d))

Spec == Init /\ [][Next]_vars /\ Fairness

-----------------------------------------------------------------------------
(* Correctness *)

TypeOK ==
  /\ rows \in Seq(Row) /\ Len(rows) <= MaxInputs
  /\ order \in [DOMAIN rows -> Nat] /\ starts \in [DOMAIN rows -> Nat]
  /\ queue \in Seq(DOMAIN rows) /\ IsInjective(queue)
  /\ {active, executing} \subseteq {0} \cup DOMAIN rows
  /\ {question, faulted, paused, resume, asking, driving, prepared} \subseteq BOOLEAN
  /\ drivers \in [Drivers -> Driver] /\ gate \in {0} \cup Drivers
  /\ restarts \in 0..MaxRestarts

\* Each session has at most one queue driver (assistant-runtime.md:161-162).  The code breaks it
\* after a failed journal preparation (README, section 7); OneExecution holds all the same.
SingleDriver ==
  Cardinality({d \in Drivers :
                 drivers[d].at \notin Gone \cup {"panicked", "recovered", "orphan"}}) <= 1

\* At most one engine works for the session, an engine whose driver has panicked included
\* (assistant-runtime.md:172-174).
OneExecution == Cardinality({d \in Drivers : EngineOf(d)}) <= 1

\* While the session is in service, memory and store agree: exactly the inputs waiting
\* in the store and the accepted retries are queued, and the run under way is active_run.
MemoryMatchesStore ==
  /\ TypeOK
  /\ prepared /\ ~faulted /\ gate = 0 =>
       /\ ToSet(queue) = Queued(rows) \cup {i \in DOMAIN rows : rows[i].run = "accepted"}
       /\ {active} \ {0} = {i \in DOMAIN rows : rows[i].run = "running"}
       /\ asking = question

\* No attempt of an input is executed twice, across failures and restarts (tools may
\* have had their effect).
AttemptRunsOnce == \A i \in DOMAIN rows : starts[i] <= rows[i].attempts

\* The outcome of an attempt is never overwritten, not even by an engine that outlived it.
OutcomeIsFinal ==
  [][\A i \in DOMAIN rows :
       rows[i].run \in Terminal =>
         rows'[i].run = rows[i].run \/ rows'[i].attempts = rows[i].attempts + 1]_vars

\* A faulted session starts nothing and consumes nothing more: what waits in the store
\* is left for the next process (assistant-runtime.md:771-773).
FailClosed ==
  [][faulted /\ faulted' => starts' = starts /\ Queued(rows) \subseteq Queued(rows')]_vars

\* Whoever must act before the queue moves on is not the queue itself.
WaitsForUser == paused \/ resume \/ asking \/ ~prepared \/ faulted

\* The last task ended over an input it could not prepare, and no handler has woken the
\* queue since: nothing tells the user that it stands still (README, section 7).
Abandoned == ~driving /\ \E d \in Drivers : drivers[d].at = "stopped"

\* Every waiting input is consumed, unless the user withdraws it or has to act first, or
\* the queue was abandoned by a preparation that failed (fail_before_start).
QueueIsServed ==
  \A i \in 1..MaxInputs :
    (i \in Queued(rows)) ~> (i \notin Queued(rows) \/ WaitsForUser \/ Abandoned)
=============================================================================
