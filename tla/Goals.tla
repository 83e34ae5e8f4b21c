--------------------------------- MODULE Goals ---------------------------------
(***************************************************************************)
(* A session's Goal: the runtime keeps one run working towards it, turn    *)
(* after turn, until the agent says it is complete or blocked, a budget is *)
(* spent, or the user stops it.  Every stop, resume, transition and        *)
(* restart moves the goal to a new generation, and whatever was started    *)
(* under an older one must no longer touch it.                             *)
(*                                                                         *)
(* Handlers run under the session's mutation gate and are one step each;   *)
(* the driver gives the gate up while it prepares, while a turn executes,  *)
(* and between the gate that judges a turn and the settlement that judges  *)
(* it again.  Attempts, promotions and failures of the store are           *)
(* SessionQueue's and QueueOrder's subject.                                *)
(***************************************************************************)
EXTENDS Integers, Sequences, Retain

CONSTANTS
  MaxRuns,       \* DEFAULT_MAX_RUNS: turns a goal may take before it pauses
  MaxFailures,   \* DEFAULT_MAX_CONSECUTIVE_FAILURES
  MaxInputs, MaxGoals, MaxGeneration, MaxRestarts   \* bounds on the history of the session

ASSUME BudgetAssumption == MaxRuns \in Nat \ {0} /\ MaxFailures \in Nat \ {0}
ASSUME BoundsAssumption ==
  MaxInputs \in Nat /\ MaxGoals \in Nat /\ MaxGeneration \in Nat /\ MaxRestarts \in Nat

VARIABLES
  (* SQLite *)
  storedGoal,   \* the row of session_goals
  rows,         \* inputs in the order of queue_order
  open,         \* input whose run is not terminal, 0 when there is none
  question,     \* what the agent has asked the user last (session_feedback)
  (* SessionState *)
  session,      \* cold, viewed (load), ready (prepare) or faulted
  goal, lane, queue,   \* goal, goal_inputs, queue_item_ids
  resume,       \* resume_required
  paused,       \* queue_paused_by_user
  run,          \* active_run with its goal_signal_latch
  (* the queue driver *)
  driver,       \* where it stands, and the input it prepares with the binding it read
  (* history *)
  goals, restarts

stored == <<storedGoal, rows, open, question>>
lanes  == <<lane, queue, resume, paused>>
vars == <<stored, session, goal, lanes, run, driver, goals, restarts>>

NoGoal  == [id |-> 0, running |-> FALSE, gen |-> 0, used |-> 0, fails |-> 0]
Unbound == [id |-> 0, gen |-> 0]
NoRun   == [input |-> 0, latch |-> Unbound, signal |-> "none",
            cancelled |-> FALSE, turned |-> FALSE, reminded |-> FALSE, outcome |-> "none"]
NoQuestion == [of |-> 0, mode |-> "none", status |-> "none"]
Off     == [at |-> "off", input |-> 0, latch |-> Unbound]

NewGoal(n) == [id |-> n, running |-> TRUE, gen |-> 1, used |-> 0, fails |-> 0]
Binding(g) == [id |-> g.id, gen |-> g.gen]
Paused(g)  == [g EXCEPT !.running = FALSE, !.gen = @ + 1]
Resumed(g) == [g EXCEPT !.running = TRUE, !.gen = @ + 1]

Waiting(r) == {i \in DOMAIN r : r[i].state = "queued"}
BoundRows(r) == {i \in Waiting(r) : r[i].bind # Unbound}

\* ORDER BY queue_order: the inputs of S, in the order they were accepted.
InOrder(r, S) == Minus([i \in 1..Len(r) |-> i], DOMAIN r \ S)

LaneOf(r)  == InOrder(r, BoundRows(r))
QueueOf(r) == InOrder(r, Waiting(r) \ BoundRows(r))

\* A question waits for the user.
Pending == question.status = "pending"

\* next_runnable_input; 0 stands for None.
Runnable ==
  IF Pending THEN 0
  ELSE IF goal = NoGoal
  THEN IF paused \/ resume \/ queue = <<>> THEN 0 ELSE Head(queue)
  ELSE IF goal.running /\ lane # <<>> /\ rows[Head(lane)].bind = Binding(goal)
       THEN Head(lane) ELSE 0

\* Mutant of Wake: nobody spawns a driver.
Sleep == UNCHANGED driver

Wake == driver' = IF driver.at = "off" /\ Runnable' # 0 THEN [Off EXCEPT !.at = "seek"] ELSE driver

-----------------------------------------------------------------------------
Init ==
  /\ storedGoal = NoGoal /\ rows = <<>> /\ open = 0 /\ question = NoQuestion
  /\ session = "ready"
  /\ goal = NoGoal /\ lane = <<>> /\ queue = <<>>
  /\ resume = FALSE /\ paused = FALSE
  /\ run = NoRun /\ driver = Off
  /\ goals = 0 /\ restarts = 0

Ready == session = "ready"

AcceptRow(origin, bind) ==
  /\ Len(rows) < MaxInputs
  /\ rows' = Append(rows, [origin |-> origin, bind |-> bind, state |-> "queued"])
  /\ UNCHANGED <<open, session, run, restarts>>

(* The user's commands *)

AcceptPlain ==
  /\ AcceptRow("user", Unbound)
  /\ queue' = Append(queue, Len(rows) + 1)
  /\ resume' = (resume \/ goal # NoGoal)
  /\ paused' = FALSE
  /\ UNCHANGED <<storedGoal, goal, lane, goals>>
  /\ Wake

\* A question must be answered or dismissed before the user may say anything else.
Submit == Ready /\ ~Pending /\ UNCHANGED question /\ AcceptPlain

\* Accept an input bound to the goal next, which becomes the session's goal.
AcceptBound(origin, next) ==
  /\ AcceptRow(origin, Binding(next))
  /\ goal' = next /\ storedGoal' = next
  /\ lane' = Append(lane, Len(rows) + 1)
  /\ UNCHANGED <<queue, resume>>
  /\ Wake

StartGoal ==
  /\ Ready /\ ~Pending /\ goal = NoGoal /\ goals < MaxGoals
  /\ goals' = goals + 1 /\ paused' = FALSE /\ UNCHANGED question
  /\ AcceptBound("user", NewGoal(goals + 1))

MayResume == Ready /\ goal # NoGoal /\ ~goal.running /\ goal.gen < MaxGeneration

AcceptResuming ==
  /\ MayResume
  /\ paused' = FALSE /\ UNCHANGED goals
  /\ AcceptBound("user", Resumed(goal))

ResumeWithMessage == ~Pending /\ UNCHANGED question /\ AcceptResuming

\* The hidden continuation is an input of the runtime's own.
ResumeWithoutInput ==
  /\ MayResume
  /\ UNCHANGED <<paused, goals, question>>
  /\ AcceptBound("runtime", Resumed(goal))

\* Guidance of the user's that waits in the queue.
Held(i) ==
  /\ i \in {queue[k] : k \in DOMAIN queue}
  /\ rows[i].state = "queued" /\ rows[i].origin = "user" /\ rows[i].bind = Unbound

ResumeWithHeldInput(i) ==
  /\ MayResume /\ Held(i)
  /\ goal' = Resumed(goal) /\ storedGoal' = goal'
  /\ rows' = [rows EXCEPT ![i].bind = Binding(goal')]
  /\ queue' = Minus(queue, {i}) /\ lane' = Append(lane, i)
  /\ resume' = (queue' # <<>>)
  /\ UNCHANGED <<open, question, session, paused, run, goals, restarts>>
  /\ Wake

Delete(r, gone) ==
  [i \in DOMAIN r |-> IF i \in gone THEN [r[i] EXCEPT !.state = "deleted"] ELSE r[i]]

\* Mutant of Continuations: continuations survive the stop of their goal.
NoContinuations(r, g) == {}

\* Mutant of Continuations: whatever waits for the goal is deleted, the user's input too.
AllOfTheGoal(r, g) == {i \in Waiting(r) : r[i].bind = Binding(g)}

\* DELETE FROM inputs ... origin = 'runtime' AND state = 'queued' of this generation.
Continuations(r, g) ==
  {i \in Waiting(r) : r[i].origin = "runtime" /\ r[i].bind = Binding(g)}

OpenRunOf(g) == open # 0 /\ rows[open].state = "committed" /\ rows[open].bind = Binding(g)

StopGoal ==
  /\ Ready /\ goal.running
  /\ goal' = Paused(goal) /\ storedGoal' = goal'
  /\ rows' = Delete(rows, Continuations(rows, goal))
  /\ lane' = Minus(lane, Continuations(rows, goal))
  /\ run' = [run EXCEPT !.cancelled = @ \/ OpenRunOf(goal)]
  /\ resume' = (queue # <<>>)
  /\ UNCHANGED <<open, question, session, queue, paused, driver, goals, restarts>>

ClearGoal ==
  /\ Ready /\ goal # NoGoal /\ ~goal.running
  /\ ~(open # 0 /\ rows[open].bind.id = goal.id)
  /\ goal' = NoGoal /\ storedGoal' = NoGoal
  /\ lane' = <<>>
  /\ resume' = (queue # <<>>)
  /\ UNCHANGED <<rows, open, question, session, queue, paused, run, driver, goals, restarts>>

\* resume_session, and resume_queued_input but for its promotion.
ResumeQueue ==
  /\ Ready
  /\ resume' = FALSE /\ paused' = FALSE
  /\ UNCHANGED <<stored, session, goal, lane, queue, run, goals, restarts>>
  /\ Wake

CancelQueued(i) ==
  /\ Ready /\ i \in {queue[k] : k \in DOMAIN queue}
  /\ rows' = Delete(rows, {i})
  /\ queue' = Minus(queue, {i})
  /\ resume' = (resume /\ queue' # <<>>)
  /\ paused' = (paused /\ queue' # <<>>)
  /\ UNCHANGED <<storedGoal, open, question, session, goal, lane, run, goals, restarts>>
  /\ Wake

\* The run that works for the goal is only stopped with the goal.
WorksForTheGoal == goal.running /\ rows[run.input].bind = Binding(goal)

CancelRun ==
  /\ Ready /\ run # NoRun /\ ~WorksForTheGoal
  /\ run' = [run EXCEPT !.cancelled = TRUE]
  /\ UNCHANGED <<stored, session, goal, lanes, driver, goals, restarts>>

\* interrupt_run pauses the queue before cancel_run may refuse.
InterruptRun ==
  /\ Ready /\ run # NoRun
  /\ paused' = TRUE
  /\ run' = [run EXCEPT !.cancelled = @ \/ ~WorksForTheGoal]
  /\ UNCHANGED <<stored, session, goal, lane, queue, resume, driver, goals, restarts>>

-----------------------------------------------------------------------------
(* Questions of the agent's: ask_user, answer_feedback and cancel_feedback *)

\* The run at work has asked nothing that is open or was dismissed.
Silent == question.of # run.input

\* wait: the tool waits for the answer; end: the turn ends, the answer is a new input.
Ask(mode) ==
  /\ driver.at = "run" /\ ~run.cancelled /\ Silent
  /\ question' = [of |-> run.input, mode |-> mode, status |-> "pending"]
  /\ UNCHANGED <<storedGoal, rows, open, session, goal, lanes, run, driver, goals, restarts>>

AnswerWait ==
  /\ Ready /\ Pending /\ question.mode = "wait" /\ ~Silent /\ ~run.cancelled
  /\ question' = NoQuestion
  /\ UNCHANGED <<storedGoal, rows, open, session, goal, lanes, run, driver, goals, restarts>>

\* The answer resumes the goal if there is one.  It goes before the inputs that wait, which
\* is QueueOrder's subject: here none does.
AnswerEnd ==
  /\ Ready /\ Pending /\ question.mode = "end" /\ run = NoRun
  /\ question' = NoQuestion
  /\ IF goal = NoGoal THEN queue = <<>> /\ AcceptPlain ELSE AcceptResuming

\* Nobody is woken.
Dismiss ==
  /\ Ready /\ Pending
  /\ question' = [question EXCEPT !.status = "dismissed"]
  /\ paused' = TRUE
  /\ run' = [run EXCEPT !.cancelled = @ \/ question.mode = "wait"]
  /\ UNCHANGED <<storedGoal, rows, open, session, goal, lane, queue, resume, driver>>
  /\ UNCHANGED <<goals, restarts>>

-----------------------------------------------------------------------------
(* The queue driver *)

Seek ==
  /\ driver.at = "seek"
  /\ driver' = IF Ready /\ run = NoRun /\ Runnable # 0
               THEN [at |-> "prepare", input |-> Runnable, latch |-> rows[Runnable].bind]
               ELSE Off
  /\ UNCHANGED <<stored, session, goal, lanes, run, goals, restarts>>

\* Mutant of StillCurrent: only the queue's own moves are noticed.
StillWaiting == run = NoRun /\ driver.input \in Waiting(rows)

StillCurrent == run = NoRun /\ Runnable = driver.input

Stale ==
  /\ driver.at = "prepare" /\ Ready /\ ~StillCurrent
  /\ driver' = [Off EXCEPT !.at = "seek"]
  /\ UNCHANGED <<stored, session, goal, lanes, run, goals, restarts>>

\* claim_input refuses an input that does not wait in the store.
Take ==
  /\ driver.at = "prepare" /\ Ready /\ StillCurrent
  /\ driver.input \in Waiting(rows)
  /\ rows' = [rows EXCEPT ![driver.input].state = "committed"]
  /\ lane' = Minus(lane, {driver.input}) /\ queue' = Minus(queue, {driver.input})
  /\ UNCHANGED <<storedGoal, question, session, goal, resume, paused, goals, restarts>>

\* claim_input and commit_user_message, under one hold of the gate.
Claim ==
  /\ Take
  /\ open' = driver.input
  /\ run' = [NoRun EXCEPT !.input = driver.input, !.latch = driver.latch]
  /\ driver' = [Off EXCEPT !.at = "run"]

\* fail_before_start: the run is settled without a word about the goal.
StartFails ==
  /\ Take
  /\ driver' = Off
  /\ UNCHANGED <<open, run>>

\* update_goal, once per run.
Signal(status) ==
  /\ driver.at = "run" /\ Silent /\ run.latch # Unbound /\ run.signal = "none"
  /\ run' = [run EXCEPT !.signal = status]
  /\ UNCHANGED <<stored, session, goal, lanes, driver, goals, restarts>>

-----------------------------------------------------------------------------
(* The end of a turn: the gate in the run's loop, then the settlement *)

Counted(outcome) ==
  [goal EXCEPT !.used = @ + 1, !.fails = IF outcome = "failed" THEN @ + 1 ELSE 0]

Spent(g) == g.used >= MaxRuns \/ g.fails >= MaxFailures

\* A question of this run's was dismissed.
Dismissed == ~Silent /\ question.status = "dismissed"

\* Mutant of IsInert: the generation is not compared.
IsForeign(outcome) ==
  (outcome = "cancelled" /\ ~Dismissed) \/ ~goal.running \/ rows[run.input].bind.id # goal.id

IsInert(outcome) ==
  (outcome = "cancelled" /\ ~Dismissed) \/ ~goal.running \/ rows[run.input].bind # Binding(goal)

\* prepare_goal_run_decision
Decision(outcome) ==
  IF IsInert(outcome) THEN "inert"
  ELSE IF Dismissed \/ (~Silent /\ Pending /\ question.mode = "end") THEN "asked"
  ELSE IF outcome = "completed" /\ run.signal # "none" /\ run.latch = Binding(goal)
       THEN run.signal
  ELSE IF Spent(Counted(outcome)) THEN "spent" ELSE "continue"

\* The goal its effect stores; a completed goal is deleted.
Effect(decision, outcome) ==
  CASE decision = "inert"    -> goal
    [] decision = "continue" -> Counted(outcome)
    [] decision = "complete" -> NoGoal
    [] decision \in {"asked", "blocked", "spent"} -> Paused(Counted(outcome))

\* resume_required of the store's answer; without a transition it is the default.
HeldAfter(decision) == decision \in {"complete", "asked", "blocked", "spent"} /\ queue # <<>>

Readable(g) == g.fails <= MaxFailures

\* Commit the effect and the next message; the run goes on with a further turn.
GoOn(decision, outcome) ==
  /\ goal' = Effect(decision, outcome) /\ storedGoal' = goal'
  /\ resume' = HeldAfter(decision)
  /\ UNCHANGED <<rows, open, question, session, lane, queue, paused, driver, goals, restarts>>

\* Goals without a signal and below their budgets keep the run.
NextTurn(outcome) ==
  /\ driver.at = "run" /\ Silent
  /\ Decision(outcome) = "continue"
  /\ GoOn("continue", outcome)
  /\ run' = [run EXCEPT !.turned = TRUE]

\* A completed run of the user's that owes speech is reminded, once.
Remind ==
  /\ driver.at = "run" /\ Silent /\ ~run.reminded /\ rows[run.input].origin = "user"
  /\ Decision("completed") # "continue"
  /\ GoOn(Decision("completed"), "completed")
  /\ run' = [run EXCEPT !.turned = TRUE, !.reminded = TRUE]

\* Mutant of EndTurn: the gate takes the signal out of the latch.
EndTurnTakingSignal(outcome) ==
  /\ driver.at = "run"
  /\ outcome \in {"completed", "failed"} => Decision(outcome) # "continue"
  /\ outcome = "cancelled" => run.cancelled
  /\ outcome \in {"completed", "failed", "broken"} => Silent
  /\ outcome = "returned" => ~Silent /\ question.mode = "end"
  /\ driver' = [driver EXCEPT !.at = "settle"]
  /\ run' = [run EXCEPT !.outcome = outcome, !.signal = "none"]
  /\ UNCHANGED <<stored, session, goal, lanes, goals, restarts>>

\* broken: the loop ends with an error of its own; lost: the turn left no outcome;
\* returned: the turn ends with a question, past the gate.
EndTurn(outcome) ==
  /\ driver.at = "run"
  /\ outcome \in {"completed", "failed"} => Decision(outcome) # "continue"
  /\ outcome = "cancelled" => run.cancelled
  /\ outcome \in {"completed", "failed", "broken"} => Silent
  /\ outcome = "returned" => ~Silent /\ question.mode = "end"
  /\ driver' = [driver EXCEPT !.at = "settle"]
  /\ run' = [run EXCEPT !.outcome = outcome]
  /\ UNCHANGED <<stored, session, goal, lanes, goals, restarts>>

\* What settle_run takes a lost turn for.
Ended == CASE run.outcome = "lost" -> "failed"
           [] run.outcome = "returned" -> "completed"
           [] OTHER -> run.outcome

\* settle_run decides again, with the goal as it is now, if it is given the steps of a turn:
\* a lost turn has those of the turn before it, and an error of the loop's has none.
Verdict ==
  IF run.outcome = "broken" \/ (run.outcome = "lost" /\ ~run.turned)
  THEN "inert" ELSE Decision(Ended)

Settle ==
  /\ driver.at = "settle" /\ Verdict # "continue"
  /\ storedGoal' = Effect(Verdict, Ended)
  /\ open' = 0
  /\ question' = IF Silent \/ (Pending /\ question.mode = "end" /\ Ended = "completed")
                 THEN question ELSE NoQuestion
  /\ IF Readable(storedGoal')
     THEN /\ goal' = storedGoal' /\ resume' = HeldAfter(Verdict)
          /\ run' = NoRun
          /\ driver' = [Off EXCEPT !.at = "seek"]
          /\ UNCHANGED session
     ELSE /\ session' = "faulted" /\ driver' = Off
          /\ UNCHANGED <<goal, resume, run>>
  /\ UNCHANGED <<rows, lane, queue, paused, goals, restarts>>

\* "Goal continuation escaped the run gate pipeline".
Escape ==
  /\ driver.at = "settle" /\ Verdict = "continue"
  /\ session' = "faulted" /\ driver' = Off
  /\ UNCHANGED <<stored, goal, lanes, run, goals, restarts>>

-----------------------------------------------------------------------------
(* Restart *)

Crash ==
  /\ session # "cold" /\ restarts < MaxRestarts
  /\ restarts' = restarts + 1
  /\ session' = "cold"
  /\ goal' = NoGoal /\ lane' = <<>> /\ queue' = <<>> /\ resume' = FALSE /\ paused' = FALSE
  /\ run' = NoRun /\ driver' = Off
  /\ UNCHANGED <<stored, goals>>

\* What recover_session_registries demands of the rows.
Recoverable(g, r) ==
  /\ \A i \in BoundRows(r) : r[i].bind.id = g.id /\ r[i].bind.gen <= g.gen
  /\ \A i, j \in BoundRows(r) : i = j
  /\ Readable(g)

\* A goal that ran when the process ended comes back paused, in a new generation.
AfterRestart(g) == IF g.running THEN Paused(g) ELSE g

\* Mutant of Projected: the view shows the generation that still stands in the store.
ProjectedInPlace(g) == [g EXCEPT !.running = FALSE]

\* The same pause, in the view only.
Projected(g) == AfterRestart(g)

Install(g, r) ==
  /\ goal' = g
  /\ lane' = LaneOf(r) /\ queue' = QueueOf(r)
  /\ resume' = (queue' # <<>>) /\ paused' = FALSE
  /\ UNCHANGED <<run, driver, goals, restarts>>

\* SessionLoader::load, for a reader.
Load ==
  /\ session = "cold" /\ Recoverable(storedGoal, rows)
  /\ session' = "viewed"
  /\ Install(Projected(storedGoal), rows)
  /\ UNCHANGED stored

\* Queued continuations of an older generation than the goal's.
Outdated(r, g) ==
  {i \in Waiting(r) : r[i].origin = "runtime" /\ r[i].bind.id = g.id /\ r[i].bind.gen < g.gen}

\* SessionLoader::prepare, before the first command: a refusal leaves the session as it was.
Prepare ==
  /\ session \in {"cold", "viewed"}
  /\ storedGoal' = AfterRestart(storedGoal)
  /\ rows' = Delete(rows, Outdated(rows, storedGoal'))
  /\ open' = 0
  /\ question' = IF Pending /\ question.of # open THEN question ELSE NoQuestion
  /\ IF Recoverable(storedGoal', rows')
     THEN session' = "ready" /\ Install(storedGoal', rows')
     ELSE UNCHANGED <<session, goal, lanes, run, driver, goals, restarts>>

-----------------------------------------------------------------------------
UserNext ==
  \/ Submit \/ StartGoal \/ ResumeWithMessage \/ ResumeWithoutInput \/ StopGoal \/ ClearGoal
  \/ ResumeQueue \/ CancelRun \/ InterruptRun \/ AnswerWait \/ AnswerEnd \/ Dismiss
  \/ \E i \in DOMAIN rows : ResumeWithHeldInput(i) \/ CancelQueued(i)

TurnNext ==
  \/ Remind
  \/ \E outcome \in {"completed", "failed"} : NextTurn(outcome)
  \/ \E outcome \in {"completed", "failed", "cancelled", "broken", "lost", "returned"} :
       EndTurn(outcome)

DriverNext == Seek \/ Stale \/ Claim \/ StartFails \/ TurnNext \/ Settle \/ Escape

Next ==
  \/ UserNext \/ DriverNext
  \/ \E status \in {"complete", "blocked"} : Signal(status)
  \/ \E mode \in {"wait", "end"} : Ask(mode)
  \/ Crash \/ Load \/ Prepare

\* The driver is a task of the runtime, preparations return and turns end.
Spec == Init /\ [][Next]_vars /\ WF_vars(DriverNext)
-----------------------------------------------------------------------------
TypeOK ==
  /\ LET Goal == [id : 0..MaxGoals, running : BOOLEAN, gen : Nat, used : Nat, fails : Nat]
         Bind == [id : 0..MaxGoals, gen : Nat]
         Places == 0..Len(rows)
     IN  /\ storedGoal \in Goal /\ goal \in Goal
         /\ rows \in Seq([origin : {"user", "runtime"}, bind : Bind,
                          state : {"queued", "committed", "deleted"}])
         /\ run \in [input : Places, latch : Bind, signal : {"none", "complete", "blocked"},
                     cancelled : BOOLEAN, turned : BOOLEAN, reminded : BOOLEAN,
                     outcome : {"none", "completed", "failed", "cancelled", "broken", "lost",
                                "returned"}]
         /\ driver \in [at : {"off", "seek", "prepare", "run", "settle"},
                        input : Places, latch : Bind]
         /\ question \in [of : Places, mode : {"none", "wait", "end"},
                          status : {"none", "pending", "dismissed"}]
         /\ open \in Places /\ lane \in Seq(Places \ {0}) /\ queue \in Seq(Places \ {0})
  /\ session \in {"cold", "viewed", "ready", "faulted"}
  /\ resume \in BOOLEAN /\ paused \in BOOLEAN
  /\ Len(rows) \in 0..MaxInputs /\ goals \in 0..MaxGoals /\ restarts \in 0..MaxRestarts

\* What a ready session shows of its goal, its lanes and its run is what the store holds,
\* after whatever commands, turns and restarts: each command and each settlement changes the
\* two in separate places (goal commands, settlement, projection, recovery).  An input that
\* waits for a goal that was cleared is in no lane any more.  A reader who loads the session
\* before the first command is shown the goal, paused, as that command will find it.
MirrorsStore ==
  /\ TypeOK
  /\ session = "viewed" => goal = AfterRestart(storedGoal)
  /\ session = "ready" =>
       /\ goal = storedGoal
       /\ run.input = open
       /\ queue = QueueOf(rows)
       /\ {lane[k] : k \in DOMAIN lane} = {i \in BoundRows(rows) : rows[i].bind.id = goal.id}

\* The runtime's own continuations never outlive the generation they were made for: at most
\* one waits, and it is the running goal's (stop_goal, pause_running_goals_for_recovery).
ContinuationsFollowTheGoal ==
  \A i \in Waiting(rows) : rows[i].origin = "runtime" =>
    /\ storedGoal.running /\ rows[i].bind = Binding(storedGoal)
    /\ \A j \in Waiting(rows) : rows[j].origin = "runtime" => i = j

\* A run was prepared, with its tools and its signal latch, for the binding its input has:
\* the driver reads the binding before it gives the gate up, and a held input may be bound
\* to the goal meanwhile.
PreparedForItsGoal == run # NoRun => run.latch = rows[run.input].bind

\* What the gate found finished the settlement does not find unfinished, although the user
\* may stop and resume the goal between the two; a turn that left no outcome is the exception.
GateIsFinal == driver.at = "settle" /\ run.outcome # "lost" => Verdict # "continue"

\* A turn counts towards the goal, ends it or pauses it only while the run's generation is
\* the goal's: once the user has stopped, resumed or cleared it, or the process has been
\* restarted, nothing that the older run does or signals reaches the goal.  A cancelled run
\* only reaches it when what was cancelled was the run's question.
TurnCounts ==
  \/ storedGoal # NoGoal /\ storedGoal' # NoGoal /\ storedGoal'.used # storedGoal.used
  \/ storedGoal.running /\ storedGoal' = NoGoal

OldRunsAreInert ==
  [][TurnCounts => /\ storedGoal.running /\ (run.cancelled => Dismissed)
                   /\ rows[run.input].bind = Binding(storedGoal)]_vars

\* An input is only taken for what the session is at that moment: one of the goal's while
\* that generation of it runs, a user's only while there is no goal, whatever happened
\* while it was prepared.
ClaimsAreCurrent ==
  [][ \A i \in DOMAIN rows :
        rows[i].state = "queued" /\ rows'[i].state = "committed" =>
          IF rows[i].bind = Unbound THEN storedGoal = NoGoal
          ELSE storedGoal.running /\ rows[i].bind = Binding(storedGoal) ]_vars

\* The goal's next input does not wait for ever: it is taken, unless the user stops the
\* goal or the session fails.  While a question waits nothing is due, and the user who
\* dismisses one has paused what waits (next_runnable_input, cancel_feedback).
CurrentInputIsServed ==
  (session = "ready" /\ goal.running /\ Runnable # 0 /\ question.status # "dismissed")
    ~> (session # "ready" \/ ~goal.running \/ Runnable = 0 \/ question.status = "dismissed")

\* If the process ended now, the session could be opened again (recover_session_registries).
Restartable ==
  LET g == AfterRestart(storedGoal) IN Recoverable(g, Delete(rows, Outdated(rows, g)))
=============================================================================
