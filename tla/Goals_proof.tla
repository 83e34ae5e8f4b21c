------------------------------ MODULE Goals_proof ------------------------------
(***************************************************************************)
(* Proofs about Goals, for all budgets and every bound on the history.     *)
(*                                                                         *)
(* None of the properties is inductive.  They rest on what generations are *)
(* for: a binding is never ahead of its goal, no two inputs are bound to   *)
(* the same generation, a run that was cancelled is not the running goal's *)
(* unless its question was dismissed, and while a run is at work no        *)
(* question but its own waits (IInv).  What memory shows of the store      *)
(* needs more, for which IInv is assumed: the goal's current input is the  *)
(* last of its lane and alone while a run works for the goal, and what the *)
(* driver read before it gave the gate up still holds or is no longer due  *)
(* (MInv).                                                                 *)
(***************************************************************************)
EXTENDS Goals, SequenceFacts

GoalRecord == [id : Nat, running : BOOLEAN, gen : Nat, used : Nat, fails : Nat]
Row == [origin : {"user", "runtime"}, bind : [id : Nat, gen : Nat],
        state : {"queued", "committed", "deleted"}]

\* The latch and the input of run and driver come from rows and lanes, whose contents
\* matter only while a run is at work.
Shape ==
  /\ storedGoal \in GoalRecord /\ goal \in GoalRecord
  /\ rows \in Seq(Row) /\ goals \in Nat
  /\ run = [input |-> run.input, latch |-> run.latch, signal |-> run.signal,
            cancelled |-> run.cancelled, turned |-> run.turned, reminded |-> run.reminded,
            outcome |-> run.outcome]
  /\ run.signal \in {"none", "complete", "blocked"} /\ run.cancelled \in BOOLEAN
  /\ driver = [at |-> driver.at, input |-> driver.input, latch |-> driver.latch]
  /\ driver.at \in {"off", "seek", "prepare", "run", "settle"}
  /\ question = [of |-> question.of, mode |-> question.mode, status |-> question.status]

\* A ready session knows its goal, and only a ready session has a driver.
InService ==
  /\ session = "ready" => goal = storedGoal
  /\ driver.at # "off" => session = "ready"

\* Bindings and goals are numbered from the counter of goals and the goal's generations.
Numbered ==
  /\ storedGoal.id <= goals
  /\ storedGoal.id = 0 => storedGoal = NoGoal
  /\ \A i \in DOMAIN rows :
       /\ rows[i].bind.id <= goals
       /\ rows[i].bind.id = 0 => rows[i].bind = Unbound
       /\ rows[i].bind.id = storedGoal.id => rows[i].bind.gen <= storedGoal.gen

\* A generation of a goal has one input.
OneInputEach ==
  \A i, j \in DOMAIN rows :
    rows[i].bind = rows[j].bind /\ rows[i].bind # Unbound => i = j

\* The input of the run at work has been taken; if the run is cancelled, it is no longer
\* the running goal's, or the user dismissed its question.
AtWork ==
  driver.at \in {"run", "settle"} =>
    /\ run.input \in DOMAIN rows
    /\ rows[run.input].state # "queued"
    /\ run.cancelled =>
         Dismissed \/ ~(storedGoal.running /\ rows[run.input].bind = Binding(storedGoal))

Ending == driver.at = "settle" =>
            run.outcome \in {"completed", "failed", "cancelled", "broken", "lost", "returned"}

\* While a run is at work no question but its own waits, and it did not end its turn over
\* one unless the question ended it.
Asked ==
  /\ question.of # 0 => question.status \in {"pending", "dismissed"}
  /\ driver.at \in {"run", "settle"} => (Pending => ~Silent)
  /\ driver.at = "settle" =>
       /\ run.outcome \in {"completed", "failed"} => Silent
       /\ run.outcome = "returned" => ~Silent /\ question.mode = "end"

\* What waits of the runtime's own is the running goal's.
Follow ==
  \A i \in DOMAIN rows :
    rows[i].state = "queued" /\ rows[i].origin = "runtime" =>
      storedGoal.running /\ rows[i].bind = Binding(storedGoal)

IInv == Shape /\ InService /\ Numbered /\ OneInputEach /\ AtWork /\ Ending /\ Asked /\ Follow
        /\ GateIsFinal

-----------------------------------------------------------------------------
LEMMA DeleteRows ==
  ASSUME NEW r \in Seq(Row), NEW gone
  PROVE  /\ Delete(r, gone) \in Seq(Row)
         /\ DOMAIN Delete(r, gone) = DOMAIN r
         /\ \A i \in DOMAIN r :
              /\ Delete(r, gone)[i].bind = r[i].bind
              /\ Delete(r, gone)[i].origin = r[i].origin
              /\ i \in gone => Delete(r, gone)[i].state = "deleted"
              /\ i \notin gone => Delete(r, gone)[i] = r[i]
<1>1. DOMAIN r = 1..Len(r) /\ \A i \in 1..Len(r) : r[i] \in Row
  OBVIOUS
<1>2. \A i \in 1..Len(r) : [r[i] EXCEPT !.state = "deleted"] \in Row
  BY <1>1 DEF Row
<1>3. Delete(r, gone) \in [1..Len(r) -> Row]
  BY <1>1, <1>2 DEF Delete
<1>4. Delete(r, gone) \in Seq(Row)
  BY <1>3
<1> QED
  BY <1>1, <1>4 DEF Delete, Row

LEMMA AppendRow ==
  ASSUME NEW r \in Seq(Row), NEW x \in Row
  PROVE  /\ Append(r, x) \in Seq(Row)
         /\ DOMAIN r = 1..Len(r) /\ DOMAIN Append(r, x) = 1..(Len(r) + 1) /\ Len(r) \in Nat
         /\ \A i \in 1..Len(r) : Append(r, x)[i] = r[i]
         /\ Append(r, x)[Len(r) + 1] = x
OBVIOUS

LEMMA InitIInv == Init => IInv
BY DEF Init, IInv, Shape, InService, Numbered, OneInputEach, AtWork, Ending, Asked, Follow,
       GateIsFinal, GoalRecord, NoGoal, NoRun, NoQuestion, Off, Unbound, Pending, Silent

LEMMA GoalSteps ==
  ASSUME NEW g \in GoalRecord
  PROVE  /\ Paused(g) \in GoalRecord /\ Resumed(g) \in GoalRecord
         /\ Paused(g).id = g.id /\ Resumed(g).id = g.id
         /\ Paused(g).gen = g.gen + 1 /\ Resumed(g).gen = g.gen + 1
         /\ Paused(g).running = FALSE /\ Resumed(g).running = TRUE
         /\ Paused(g).used = g.used /\ Resumed(g).used = g.used
<1>1. g.gen \in Nat /\ g.gen + 1 \in Nat
  BY DEF GoalRecord
<1>2. Paused(g) \in GoalRecord /\ Resumed(g) \in GoalRecord
  BY <1>1 DEF GoalRecord, Paused, Resumed
<1>3. /\ Paused(g).id = g.id /\ Paused(g).gen = g.gen + 1
      /\ Paused(g).running = FALSE /\ Paused(g).used = g.used
  BY DEF GoalRecord, Paused
<1>4. /\ Resumed(g).id = g.id /\ Resumed(g).gen = g.gen + 1
      /\ Resumed(g).running = TRUE /\ Resumed(g).used = g.used
  BY DEF GoalRecord, Resumed
<1> QED
  BY <1>2, <1>3, <1>4

\* The driver goes on as it was, or is before the start of a run.
Idle ==
  \/ driver' = driver
  \/ /\ driver' = [at |-> driver'.at, input |-> driver'.input, latch |-> driver'.latch]
     /\ driver'.at \in {"off", "seek", "prepare"}
     /\ driver'.at # "off" => session = "ready"

LEMMA WakeIsIdle == ASSUME IInv, Ready, Wake PROVE Idle
BY DEF Wake, Idle, Off, Ready, IInv, Shape

\* A step that leaves the goal and the inputs alone, and the run unless nothing is at work.
LEMMA Aside ==
  ASSUME IInv, Idle, UNCHANGED <<storedGoal, rows, question, goals, run, session, goal>>
  PROVE  IInv'
BY DEF Idle, IInv, Shape, InService, Numbered, OneInputEach, AtWork, Ending, Asked, Follow,
       GateIsFinal, Verdict, Ended, Decision, IsInert, Counted, Spent, Pending, Silent, Dismissed

\* A question goes away, if it does, when no run is at work.
Quiet == question' = question \/ (question' = NoQuestion /\ run = NoRun)

LEMMA NobodyAtWork == ASSUME IInv, run = NoRun PROVE driver.at \notin {"run", "settle"}
<1>1. rows \in Seq(Row) /\ NoRun.input = 0
  BY DEF IInv, Shape, NoRun
<1> QED
  BY <1>1 DEF IInv, AtWork

LEMMA AskedStays ==
  ASSUME IInv, Quiet, run'.input = run.input, run'.outcome = run.outcome,
         driver'.at \in {"run", "settle"} => driver'.at = driver.at
  PROVE  /\ Asked'
         /\ question' = [of |-> question'.of, mode |-> question'.mode, status |-> question'.status]
         /\ driver'.at \in {"run", "settle"} => question' = question
<1>1. CASE question' = question
  BY <1>1 DEF IInv, Shape, Asked, Pending, Silent
<1>2. CASE question' = NoQuestion /\ run = NoRun
  BY <1>2, NobodyAtWork DEF Asked, NoQuestion, Pending, Silent
<1> QED
  BY <1>1, <1>2 DEF Quiet

LEMMA PlainIInv == ASSUME IInv, AcceptPlain, Ready, Quiet, goals' = goals PROVE IInv'
<1> DEFINE row == [origin |-> "user", bind |-> Unbound, state |-> "queued"]
<1>1. rows \in Seq(Row) /\ row \in Row
  BY DEF IInv, Shape, Row, Unbound
<1>2. rows' = Append(rows, row) /\ UNCHANGED <<storedGoal, goals, run, session, goal>> /\ Idle
  BY WakeIsIdle DEF AcceptPlain, AcceptRow
<1> HIDE DEF row
<1>a. /\ Asked' /\ (driver'.at \in {"run", "settle"} => question' = question)
      /\ question' = [of |-> question'.of, mode |-> question'.mode, status |-> question'.status]
  BY <1>2, AskedStays DEF Idle
<1>3. Shape' /\ InService' /\ Ending'
  BY <1>1, <1>2, <1>a, AppendRow DEF IInv, Shape, InService, Ending, Idle
<1>4. Numbered'
  BY <1>1, <1>2, AppendRow DEF IInv, Shape, Numbered, row, Unbound, GoalRecord
<1>5. OneInputEach' /\ Follow'
  BY <1>1, <1>2, AppendRow DEF IInv, OneInputEach, Follow, row
<1>6. AtWork' /\ GateIsFinal'
  BY <1>1, <1>2, <1>a, AppendRow DEF IInv, AtWork, GateIsFinal, Idle, Verdict, Ended, Decision,
     IsInert, Counted, Spent, Pending, Silent, Dismissed
<1> QED
  BY <1>3, <1>4, <1>5, <1>6, <1>a DEF IInv

\* What every goal that is started or resumed needs: its binding is nobody's yet.
Fresh(next) ==
  /\ next \in GoalRecord /\ next.running /\ next.id # 0
  /\ ~storedGoal.running /\ next.id <= goals' /\ goals' \in Nat /\ goals <= goals'
  /\ \/ next.id > goals
     \/ next.id = storedGoal.id /\ next.gen > storedGoal.gen

LEMMA FreshBinding ==
  ASSUME IInv, NEW next, Fresh(next)
  PROVE  /\ Binding(next) # Unbound /\ Binding(next) \in [id : Nat, gen : Nat]
         /\ \A i \in DOMAIN rows :
              /\ rows[i].bind # Binding(next)
              /\ rows[i].bind.id <= goals'
              /\ rows[i].bind.id = next.id => rows[i].bind.gen <= next.gen
<1>1. \A i \in DOMAIN rows : rows[i].bind.id \in Nat /\ rows[i].bind.gen \in Nat
  <2>1. \A i \in DOMAIN rows : rows[i] \in Row
    BY DEF IInv, Shape
  <2> QED
    BY <2>1 DEF Row
<1>2. /\ next.id \in Nat /\ next.gen \in Nat
      /\ storedGoal.id \in Nat /\ storedGoal.gen \in Nat /\ goals \in Nat
  BY DEF IInv, Shape, Fresh, GoalRecord
<1>3. Binding(next).id = next.id /\ Binding(next).gen = next.gen /\ Unbound.id = 0
  BY DEF Binding, Unbound
<1> QED
  BY <1>1, <1>2, <1>3 DEF Fresh, IInv, Numbered, Binding

LEMMA InertSettles ==
  ASSUME driver.at = "settle" => IsInert(Ended) PROVE GateIsFinal
BY DEF GateIsFinal, Verdict, Decision

LEMMA Accepting ==
  ASSUME IInv, Ready, Quiet, NEW origin \in {"user", "runtime"}, NEW next, Fresh(next),
         AcceptBound(origin, next)
  PROVE  IInv'
<1> DEFINE row == [origin |-> origin, bind |-> Binding(next), state |-> "queued"]
<1>1. rows \in Seq(Row) /\ row \in Row
  BY FreshBinding DEF IInv, Shape, Row
<1>2. /\ rows' = Append(rows, row) /\ UNCHANGED <<run, session>> /\ Idle
      /\ goal' = next /\ storedGoal' = next
  BY WakeIsIdle DEF AcceptBound, AcceptRow
<1>3. row.bind = Binding(next) /\ row.origin = origin /\ row.state = "queued"
  OBVIOUS
<1>4. /\ next \in GoalRecord /\ next.id \in Nat /\ next.gen \in Nat /\ next.id # 0
      /\ next.running /\ next.id <= goals' /\ goals' \in Nat /\ ~storedGoal.running
  BY DEF Fresh, GoalRecord
<1>5. Binding(next).id = next.id /\ Binding(next).gen = next.gen
  BY DEF Binding
<1> HIDE DEF row
<1>a. /\ Asked'
      /\ question' = [of |-> question'.of, mode |-> question'.mode, status |-> question'.status]
  BY <1>2, AskedStays DEF Idle
<1>6. Shape' /\ InService' /\ Ending'
  BY <1>1, <1>2, <1>4, <1>a, AppendRow DEF IInv, Shape, InService, Ending, Idle, Ready
<1>7. Numbered'
  BY <1>1, <1>2, <1>3, <1>4, <1>5, AppendRow, FreshBinding DEF IInv, Numbered
<1>8. OneInputEach'
  BY <1>1, <1>2, <1>3, AppendRow, FreshBinding DEF IInv, OneInputEach
<1>9. Follow'
  BY <1>1, <1>2, <1>3, <1>4, AppendRow DEF IInv, Follow
<1>10. AtWork'
  BY <1>1, <1>2, AppendRow, FreshBinding DEF IInv, AtWork, Idle
<1>11. driver'.at = "settle" => IsInert(Ended)'
  <2> SUFFICES ASSUME driver'.at = "settle" PROVE rows'[run'.input].bind # Binding(goal')
    BY DEF IsInert
  <2>1. run'.input = run.input /\ run.input \in DOMAIN rows
    BY <1>2 DEF Idle, IInv, AtWork
  <2>2. rows'[run.input] = rows[run.input]
    BY <2>1, <1>1, <1>2, AppendRow
  <2> QED
    BY <2>1, <2>2, <1>2, FreshBinding
<1>12. GateIsFinal'
  BY <1>11 DEF GateIsFinal, Verdict, Decision
<1> QED
  BY <1>6, <1>7, <1>8, <1>9, <1>10, <1>12, <1>a DEF IInv

LEMMA StartGoalIInv == ASSUME IInv, StartGoal PROVE IInv'
<1> DEFINE next == NewGoal(goals + 1)
<1>1. goals \in Nat
  BY DEF IInv, Shape
<1>2. next = [id |-> goals + 1, running |-> TRUE, gen |-> 1, used |-> 0, fails |-> 0]
  BY DEF NewGoal
<1>3. goals' = goals + 1 /\ ~storedGoal.running
  BY DEF StartGoal, Ready, IInv, InService, NoGoal
<1> HIDE DEF next
<1>4. Fresh(next)
  BY <1>1, <1>2, <1>3 DEF Fresh, GoalRecord
<1>5. AcceptBound("user", next) /\ Ready /\ Quiet
  BY DEF StartGoal, next, Quiet
<1> QED
  BY <1>4, <1>5, Accepting

LEMMA ResumedIsFresh ==
  ASSUME IInv, MayResume, goals' = goals
  PROVE  Fresh(Resumed(goal)) /\ Ready /\ goal = storedGoal
<1>1. Ready /\ goal = storedGoal /\ goal # NoGoal /\ ~goal.running
  BY DEF MayResume, Ready, IInv, InService
<1>2. goal \in GoalRecord /\ goal.gen \in Nat /\ goals \in Nat
  BY DEF IInv, Shape, GoalRecord
<1>3. goal.id # 0 /\ goal.id <= goals
  BY <1>1 DEF IInv, Numbered
<1>4. /\ Resumed(goal) \in GoalRecord /\ Resumed(goal).id = goal.id
      /\ Resumed(goal).gen = goal.gen + 1 /\ Resumed(goal).running
  BY <1>2, GoalSteps
<1> QED
  BY <1>1, <1>2, <1>3, <1>4 DEF Fresh

LEMMA ResumeIInv ==
  ASSUME IInv, ResumeWithMessage \/ ResumeWithoutInput PROVE IInv'
BY ResumedIsFresh, Accepting
   DEF ResumeWithMessage, AcceptResuming, ResumeWithoutInput, MayResume, Quiet

LEMMA SubmitIInv == ASSUME IInv, Submit PROVE IInv'
BY PlainIInv DEF Submit, AcceptPlain, Quiet

LEMMA AnswerEndIInv == ASSUME IInv, AnswerEnd PROVE IInv'
<1>1. Quiet /\ Ready
  BY DEF AnswerEnd, Quiet
<1>2. CASE goal = NoGoal
  BY <1>1, <1>2, PlainIInv DEF AnswerEnd, AcceptPlain
<1>3. CASE goal # NoGoal
  BY <1>1, <1>3, ResumedIsFresh, Accepting DEF AnswerEnd, AcceptResuming
<1> QED
  BY <1>2, <1>3

LEMMA RowOf ==
  ASSUME IInv, NEW i \in DOMAIN rows
  PROVE  /\ rows[i] \in Row
         /\ rows[i].bind \in [id : Nat, gen : Nat]
         /\ rows[i].bind.id \in Nat /\ rows[i].bind.gen \in Nat
         /\ rows[i].origin \in {"user", "runtime"}
         /\ rows[i].state \in {"queued", "committed", "deleted"}
<1>1. rows[i] \in Row
  BY DEF IInv, Shape
<1> QED
  BY <1>1 DEF Row

LEMMA HeldIInv == ASSUME IInv, NEW i \in DOMAIN rows, ResumeWithHeldInput(i) PROVE IInv'
<1> DEFINE next == Resumed(goal)
<1>1. Fresh(next) /\ Ready /\ goal = storedGoal /\ Idle
  BY ResumedIsFresh, WakeIsIdle DEF ResumeWithHeldInput
<1>2. /\ rows' = [rows EXCEPT ![i].bind = Binding(next)]
      /\ goal' = next /\ storedGoal' = next /\ UNCHANGED <<question, run, session, goals>>
      /\ rows[i].origin = "user" /\ rows[i].state = "queued"
  BY DEF ResumeWithHeldInput, Held
<1> HIDE DEF next
<1>3. [rows[i] EXCEPT !.bind = Binding(next)] \in Row
  BY <1>1, RowOf, FreshBinding DEF Row
<1>4. DOMAIN rows = 1..Len(rows) /\ rows \in [1..Len(rows) -> Row]
  BY DEF IInv, Shape
<1>5. rows' \in Seq(Row) /\ DOMAIN rows' = DOMAIN rows
  <2>1. rows' \in [1..Len(rows) -> Row] /\ DOMAIN rows' = DOMAIN rows
    BY <1>2, <1>3, <1>4
  <2> QED
    BY <2>1
<1>6. /\ \A j \in DOMAIN rows : j # i => rows'[j] = rows[j]
      /\ rows'[i] = [rows[i] EXCEPT !.bind = Binding(next)]
  BY <1>2
<1>7. rows'[i].bind = Binding(next) /\ rows'[i].origin = "user" /\ rows'[i].state = "queued"
  BY <1>2, <1>6, RowOf DEF Row
<1>8. /\ next \in GoalRecord /\ next.id \in Nat /\ next.gen \in Nat /\ next.id # 0
      /\ next.running /\ next.id <= goals /\ goals \in Nat /\ ~storedGoal.running
  BY <1>1, <1>2 DEF Fresh, GoalRecord
<1>9. Binding(next).id = next.id /\ Binding(next).gen = next.gen
  BY DEF Binding
<1>a. /\ Asked'
      /\ question' = [of |-> question'.of, mode |-> question'.mode, status |-> question'.status]
  BY <1>1, <1>2, AskedStays DEF Idle, Quiet
<1>10. Shape' /\ InService' /\ Ending'
  BY <1>1, <1>2, <1>5, <1>8, <1>a DEF IInv, Shape, InService, Ending, Idle, Ready
<1>11. Numbered'
  BY <1>1, <1>2, <1>5, <1>6, <1>7, <1>8, <1>9, FreshBinding DEF IInv, Numbered
<1>12. OneInputEach'
  BY <1>1, <1>2, <1>5, <1>6, <1>7, FreshBinding DEF IInv, OneInputEach
<1>13. Follow'
  BY <1>2, <1>5, <1>6, <1>7, <1>8 DEF IInv, Follow
<1>14. AtWork' /\ GateIsFinal'
  <2> SUFFICES ASSUME driver'.at \in {"run", "settle"} PROVE AtWork' /\ GateIsFinal'
    BY DEF AtWork, GateIsFinal
  <2>1. run' = run /\ run.input \in DOMAIN rows /\ rows[run.input].state # "queued"
    BY <1>1, <1>2 DEF Idle, IInv, AtWork
  <2>2. run.input # i /\ rows'[run.input] = rows[run.input]
    BY <2>1, <1>2, <1>6
  <2>3. rows'[run'.input].bind # Binding(goal')
    BY <2>1, <2>2, <1>1, <1>2, FreshBinding
  <2>4. GateIsFinal'
    BY <2>3 DEF GateIsFinal, Verdict, Decision, IsInert
  <2> QED
    BY <2>1, <2>2, <2>3, <2>4, <1>2, <1>5 DEF AtWork
<1> QED
  BY <1>10, <1>11, <1>12, <1>13, <1>14, <1>a DEF IInv

\* A goal that leaves its generation, and rows of which some are deleted.
LEMMA Leaving ==
  ASSUME IInv, NEW gone, rows' = Delete(rows, gone),
         storedGoal' \in GoalRecord, goal' \in GoalRecord, ~storedGoal'.running,
         storedGoal'.id = 0 => storedGoal' = NoGoal,
         storedGoal'.id \in {0, storedGoal.id},
         storedGoal'.id # 0 => storedGoal'.gen >= storedGoal.gen,
         session' = "ready" => goal' = storedGoal',
         goals' = goals, driver' = driver \/ driver' = Off,
         question' = question \/ (question' = NoQuestion /\ driver.at = "off"),
         driver'.at # "off" => session' = "ready",
         run'.input = run.input, run'.signal = run.signal, run'.outcome = run.outcome,
         run'.cancelled \in BOOLEAN,
         run' = [input |-> run'.input, latch |-> run'.latch, signal |-> run'.signal,
                 cancelled |-> run'.cancelled, turned |-> run'.turned,
                 reminded |-> run'.reminded, outcome |-> run'.outcome],
         \A i \in DOMAIN rows :
           rows[i].state = "queued" /\ rows[i].origin = "runtime" => i \in gone
  PROVE  IInv'
<1>1. /\ rows' \in Seq(Row) /\ DOMAIN rows' = DOMAIN rows
      /\ \A i \in DOMAIN rows :
           /\ rows'[i].bind = rows[i].bind
           /\ rows'[i].origin = rows[i].origin
           /\ i \in gone => rows'[i].state = "deleted"
           /\ i \notin gone => rows'[i] = rows[i]
  BY DeleteRows DEF IInv, Shape
<1>a. /\ Asked'
      /\ question' = [of |-> question'.of, mode |-> question'.mode, status |-> question'.status]
  <2>1. CASE question' = question
    BY <2>1 DEF IInv, Shape, Asked, Pending, Silent, Off
  <2>2. CASE question' = NoQuestion /\ driver.at = "off"
    BY <2>2 DEF Asked, NoQuestion, Off
  <2> QED
    BY <2>1, <2>2
<1>2. Shape' /\ InService' /\ Ending'
  BY <1>1, <1>a DEF IInv, Shape, InService, Ending, Off
<1>3. Numbered'
  <2>1. /\ storedGoal.id \in Nat /\ storedGoal.gen \in Nat /\ goals \in Nat
        /\ storedGoal'.gen \in Nat
    BY DEF IInv, Shape, GoalRecord
  <2>2. storedGoal.id <= goals
    BY DEF IInv, Numbered
  <2>3. storedGoal'.id <= goals'
    BY <2>1, <2>2
  <2>4. ASSUME NEW i \in DOMAIN rows, rows[i].bind.id = storedGoal'.id
        PROVE  rows[i].bind.gen <= storedGoal'.gen
    <3>1. CASE storedGoal'.id = 0
      BY <3>1, <2>1, <2>4 DEF IInv, Numbered, Unbound
    <3>2. CASE storedGoal'.id # 0
      <4>1. rows[i].bind.gen \in Nat /\ rows[i].bind.gen <= storedGoal.gen
        BY <3>2, <2>4, RowOf DEF IInv, Numbered
      <4> QED
        BY <4>1, <3>2, <2>1
    <3> QED
      BY <3>1, <3>2
  <2> QED
    BY <1>1, <2>3, <2>4 DEF IInv, Numbered
<1>4. OneInputEach'
  BY <1>1 DEF IInv, OneInputEach
<1>5. Follow'
  BY <1>1 DEF Follow
<1>6. AtWork'
  BY <1>1 DEF IInv, AtWork, Off
<1>7. GateIsFinal'
  BY <1>2 DEF GateIsFinal, Verdict, Decision, IsInert, InService
<1> QED
  BY <1>2, <1>3, <1>4, <1>5, <1>6, <1>7, <1>a DEF IInv

LEMMA StopIInv == ASSUME IInv, StopGoal PROVE IInv'
<1>1. goal = storedGoal /\ goal \in GoalRecord /\ storedGoal.gen \in Nat /\ session = "ready"
  BY DEF StopGoal, Ready, IInv, InService, Shape, GoalRecord
<1>2. /\ storedGoal' = Paused(storedGoal) /\ goal' = storedGoal'
      /\ storedGoal' \in GoalRecord /\ ~storedGoal'.running
      /\ storedGoal'.id = storedGoal.id /\ storedGoal'.gen = storedGoal.gen + 1
  BY <1>1, GoalSteps DEF StopGoal
<1>3. storedGoal.running /\ storedGoal.id # 0 /\ storedGoal.gen + 1 >= storedGoal.gen
  BY <1>1 DEF StopGoal, IInv, Numbered, NoGoal
<1>4. \A i \in DOMAIN rows : rows[i].state = "queued" /\ rows[i].origin = "runtime" =>
        i \in Continuations(rows, goal)
  BY <1>1 DEF IInv, Follow, Continuations, Waiting
<1>5. /\ rows' = Delete(rows, Continuations(rows, goal))
      /\ run' = [run EXCEPT !.cancelled = run.cancelled \/ OpenRunOf(goal)]
      /\ UNCHANGED <<goals, driver, session, question>>
  BY DEF StopGoal
<1>6. /\ run'.input = run.input /\ run'.signal = run.signal /\ run'.outcome = run.outcome
      /\ run'.cancelled \in BOOLEAN
      /\ run' = [input |-> run'.input, latch |-> run'.latch, signal |-> run'.signal,
                 cancelled |-> run'.cancelled, turned |-> run'.turned,
                 reminded |-> run'.reminded, outcome |-> run'.outcome]
  BY <1>5 DEF IInv, Shape, OpenRunOf
<1> QED
  BY <1>1, <1>2, <1>3, <1>4, <1>5, <1>6, Leaving

LEMMA ClearIInv == ASSUME IInv, ClearGoal PROVE IInv'
<1>1. /\ goal = storedGoal /\ ~storedGoal.running /\ goal' = NoGoal /\ storedGoal' = NoGoal
      /\ UNCHANGED <<goals, driver, session, run, rows, question>>
  BY DEF ClearGoal, Ready, IInv, InService
<1>2. NoGoal \in GoalRecord /\ NoGoal.id = 0 /\ NoGoal.gen = 0 /\ ~NoGoal.running
  BY DEF NoGoal, GoalRecord
<1>3. Shape' /\ InService' /\ Ending' /\ Asked' /\ OneInputEach' /\ Follow' /\ AtWork'
  BY <1>1, <1>2 DEF IInv, Shape, InService, Ending, Asked, OneInputEach, Follow, AtWork, Pending,
     Silent
<1>4. Numbered'
  BY <1>1, <1>2 DEF IInv, Shape, Numbered, Unbound, NoGoal
<1>5. GateIsFinal'
  BY <1>1, <1>2 DEF GateIsFinal, Verdict, Decision, IsInert
<1> QED
  BY <1>3, <1>4, <1>5 DEF IInv

LEMMA CancelQueuedIInv == ASSUME IInv, NEW n, CancelQueued(n) PROVE IInv'
<1>1. /\ rows' = Delete(rows, {n}) /\ Idle
      /\ UNCHANGED <<storedGoal, question, session, goal, run, goals>>
  BY WakeIsIdle DEF CancelQueued
<1>2. /\ rows' \in Seq(Row) /\ DOMAIN rows' = DOMAIN rows
      /\ \A i \in DOMAIN rows :
           /\ rows'[i].bind = rows[i].bind /\ rows'[i].origin = rows[i].origin
           /\ rows'[i].state = "queued" => rows[i].state = "queued"
  BY <1>1, DeleteRows DEF IInv, Shape
<1>3. Shape' /\ InService' /\ Ending' /\ Asked'
  <2>1. Asked'
    BY <1>1, AskedStays DEF Idle, Quiet
  <2> QED
    BY <2>1, <1>1, <1>2 DEF IInv, Shape, InService, Ending, Idle
<1>4. Numbered' /\ OneInputEach' /\ Follow'
  <2>1. Numbered'
    BY <1>1, <1>2 DEF IInv, Numbered
  <2>2. OneInputEach'
    <3> SUFFICES ASSUME NEW i \in DOMAIN rows, NEW j \in DOMAIN rows,
                        rows'[i].bind = rows'[j].bind, rows'[i].bind # Unbound
                 PROVE  i = j
      BY <1>2 DEF OneInputEach
    <3>1. rows[i].bind = rows[j].bind /\ rows[i].bind # Unbound
      BY <1>2
    <3>2. OneInputEach
      BY DEF IInv
    <3> QED
      BY <3>1, <3>2 DEF OneInputEach
  <2>3. Follow'
    <3> SUFFICES ASSUME NEW i \in DOMAIN rows, rows'[i].state = "queued",
                        rows'[i].origin = "runtime"
                 PROVE  storedGoal.running /\ rows'[i].bind = Binding(storedGoal)
      BY <1>1, <1>2 DEF Follow
    <3>1. rows[i].state = "queued" /\ rows[i].origin = "runtime" /\ rows'[i].bind = rows[i].bind
      BY <1>2
    <3>2. Follow
      BY DEF IInv
    <3> QED
      BY <3>1, <3>2 DEF Follow
  <2> QED
    BY <2>1, <2>2, <2>3
<1>5. AtWork'
  BY <1>1, <1>2 DEF IInv, AtWork, Idle, Silent, Dismissed
<1>6. GateIsFinal'
  BY <1>1, <1>2 DEF IInv, AtWork, Idle, GateIsFinal, Verdict, Ended, Decision, IsInert, Counted,
     Spent, Pending, Silent, Dismissed
<1> QED
  BY <1>3, <1>4, <1>5, <1>6 DEF IInv

\* A step of the run or about its question that leaves the goal and the inputs alone.
LEMMA RunMoves ==
  ASSUME IInv, UNCHANGED <<storedGoal, rows, goals, session, goal>>,
         run'.input = run.input, run'.signal \in {"none", "complete", "blocked"},
         run'.cancelled \in BOOLEAN,
         run' = [input |-> run'.input, latch |-> run'.latch, signal |-> run'.signal,
                 cancelled |-> run'.cancelled, turned |-> run'.turned,
                 reminded |-> run'.reminded, outcome |-> run'.outcome],
         driver' = [at |-> driver'.at, input |-> driver'.input, latch |-> driver'.latch],
         driver'.at = driver.at \/ (driver.at = "run" /\ driver'.at = "settle"),
         question' = [of |-> question'.of, mode |-> question'.mode, status |-> question'.status],
         driver.at \in {"run", "settle"} /\ run'.cancelled =>
           Dismissed' \/ ~WorksForTheGoal \/ (run.cancelled /\ ~Dismissed),
         Ending', Asked', GateIsFinal'
  PROVE  IInv'
<1>1. Shape' /\ InService'
  BY DEF IInv, Shape, InService
<1>2. Numbered' /\ OneInputEach' /\ Follow'
  BY DEF IInv, Numbered, OneInputEach, Follow
<1>3. AtWork'
  BY DEF IInv, AtWork, WorksForTheGoal, InService
<1> QED
  BY <1>1, <1>2, <1>3 DEF IInv

LEMMA CancelRunIInv == ASSUME IInv, CancelRun \/ InterruptRun PROVE IInv'
<1>1. /\ UNCHANGED <<storedGoal, rows, question, goals, session, goal, driver>>
      /\ \/ run' = [run EXCEPT !.cancelled = TRUE] /\ ~WorksForTheGoal
         \/ run' = [run EXCEPT !.cancelled = run.cancelled \/ ~WorksForTheGoal]
  BY DEF CancelRun, InterruptRun, stored, lanes
<1>2. /\ run'.input = run.input /\ run'.signal = run.signal /\ run'.outcome = run.outcome
      /\ run'.turned = run.turned
      /\ run' = [input |-> run'.input, latch |-> run'.latch, signal |-> run'.signal,
                 cancelled |-> run'.cancelled, turned |-> run'.turned,
                 reminded |-> run'.reminded, outcome |-> run'.outcome]
  BY <1>1 DEF IInv, Shape
<1>3. run'.cancelled \in BOOLEAN /\ (run'.cancelled => run.cancelled \/ ~WorksForTheGoal)
  BY <1>1 DEF IInv, Shape, WorksForTheGoal
<1>4. Ending' /\ Asked' /\ GateIsFinal' /\ Dismissed' = Dismissed
  BY <1>1, <1>2 DEF IInv, Ending, Asked, GateIsFinal, Verdict, Ended, Decision, IsInert, Counted,
     Spent, Pending, Silent, Dismissed
<1> QED
  BY <1>1, <1>2, <1>3, <1>4, RunMoves DEF IInv, Shape

LEMMA SignalIInv == ASSUME IInv, NEW status \in {"complete", "blocked"}, Signal(status) PROVE IInv'
<1>1. /\ UNCHANGED <<storedGoal, rows, question, goals, session, goal, driver>>
      /\ driver.at = "run" /\ run' = [run EXCEPT !.signal = status]
  BY DEF Signal, stored, lanes
<1>2. /\ run'.input = run.input /\ run'.signal = status /\ run'.cancelled = run.cancelled
      /\ run' = [input |-> run'.input, latch |-> run'.latch, signal |-> run'.signal,
                 cancelled |-> run'.cancelled, turned |-> run'.turned,
                 reminded |-> run'.reminded, outcome |-> run'.outcome]
  BY <1>1 DEF IInv, Shape
<1>3. Ending' /\ Asked' /\ GateIsFinal' /\ Dismissed' = Dismissed
  BY <1>1, <1>2 DEF IInv, Ending, Asked, GateIsFinal, Pending, Silent, Dismissed
<1> QED
  BY <1>1, <1>2, <1>3, RunMoves DEF IInv, Shape

LEMMA EndTurnIInv ==
  ASSUME IInv,
         NEW outcome \in {"completed", "failed", "cancelled", "broken", "lost", "returned"},
         EndTurn(outcome)
  PROVE  IInv'
<1>1. /\ UNCHANGED <<storedGoal, rows, question, goals, session, goal>> /\ driver.at = "run"
      /\ driver' = [driver EXCEPT !.at = "settle"] /\ run' = [run EXCEPT !.outcome = outcome]
      /\ outcome \in {"completed", "failed"} => Decision(outcome) # "continue" /\ Silent
      /\ outcome = "returned" => ~Silent /\ question.mode = "end"
  BY DEF EndTurn, stored, lanes
<1>2. /\ run'.input = run.input /\ run'.signal = run.signal /\ run'.cancelled = run.cancelled
      /\ run'.outcome = outcome /\ run'.latch = run.latch
      /\ run' = [input |-> run'.input, latch |-> run'.latch, signal |-> run'.signal,
                 cancelled |-> run'.cancelled, turned |-> run'.turned,
                 reminded |-> run'.reminded, outcome |-> run'.outcome]
      /\ driver' = [at |-> driver'.at, input |-> driver'.input, latch |-> driver'.latch]
      /\ driver'.at = "settle"
  BY <1>1 DEF IInv, Shape
<1>3. Ending' /\ Asked' /\ Dismissed' = Dismissed
  BY <1>1, <1>2 DEF IInv, Ending, Asked, Pending, Silent, Dismissed
<1>4. GateIsFinal'
  <2>1. CASE outcome \in {"completed", "failed"}
    <3>1. (Decision(outcome))' = Decision(outcome)
      BY <1>1, <1>2 DEF Decision, IsInert, Counted, Spent, Pending, Silent, Dismissed
    <3> QED
      BY <2>1, <3>1, <1>1, <1>2 DEF GateIsFinal, Verdict, Ended
  <2>2. CASE outcome \in {"cancelled", "broken", "lost"}
    BY <2>2, <1>2 DEF GateIsFinal, Verdict, Ended, Decision, IsInert
  <2>3. CASE outcome = "returned"
    <3>1. ~Silent /\ question.mode = "end" /\ question.status \in {"pending", "dismissed"}
      <4>1. rows \in Seq(Row) /\ run.input \in DOMAIN rows
        BY <1>1 DEF IInv, Shape, AtWork
      <4> QED
        BY <4>1, <2>3, <1>1 DEF IInv, Asked, Silent
    <3>2. (Decision("completed") # "continue")'
      BY <3>1, <1>1, <1>2 DEF Decision, Pending, Silent, Dismissed
    <3> QED
      BY <3>2, <2>3, <1>2 DEF GateIsFinal, Verdict, Ended
  <2> QED
    BY <2>1, <2>2, <2>3
<1> QED
  BY <1>1, <1>2, <1>3, <1>4, RunMoves DEF IInv, Shape

LEMMA AskIInv == ASSUME IInv, NEW mode \in {"wait", "end"}, Ask(mode) PROVE IInv'
<1>1. /\ UNCHANGED <<storedGoal, rows, goals, session, goal, driver, run>>
      /\ driver.at = "run" /\ ~run.cancelled
      /\ question' = [of |-> run.input, mode |-> mode, status |-> "pending"]
  BY DEF Ask, lanes
<1>2. Ending' /\ Asked' /\ GateIsFinal'
  BY <1>1 DEF Ending, Asked, GateIsFinal, Pending, Silent
<1> QED
  BY <1>1, <1>2, RunMoves DEF IInv, Shape

LEMMA AnswerWaitIInv == ASSUME IInv, AnswerWait PROVE IInv'
<1>1. /\ UNCHANGED <<storedGoal, rows, goals, session, goal, driver, run>>
      /\ question.mode = "wait" /\ ~Silent /\ ~run.cancelled
      /\ question' = [of |-> 0, mode |-> "none", status |-> "none"]
  BY DEF AnswerWait, lanes, NoQuestion
<1>2. driver.at = "settle" => run.outcome \in {"cancelled", "broken", "lost"}
  BY <1>1 DEF IInv, Ending, Asked
<1>3. Ending' /\ Asked' /\ GateIsFinal'
  BY <1>1, <1>2 DEF Ending, Asked, GateIsFinal, Verdict, Ended, Decision, IsInert, Pending
<1> QED
  BY <1>1, <1>3, RunMoves DEF IInv, Shape

LEMMA DismissIInv == ASSUME IInv, Dismiss PROVE IInv'
<1>1. /\ UNCHANGED <<storedGoal, rows, goals, session, goal, driver>> /\ Pending
      /\ question' = [question EXCEPT !.status = "dismissed"]
      /\ run' = [run EXCEPT !.cancelled = run.cancelled \/ question.mode = "wait"]
  BY DEF Dismiss
<1>2. /\ run'.input = run.input /\ run'.signal = run.signal /\ run'.outcome = run.outcome
      /\ run'.turned = run.turned /\ run'.cancelled \in BOOLEAN
      /\ run' = [input |-> run'.input, latch |-> run'.latch, signal |-> run'.signal,
                 cancelled |-> run'.cancelled, turned |-> run'.turned,
                 reminded |-> run'.reminded, outcome |-> run'.outcome]
      /\ question'.of = question.of /\ question'.mode = question.mode
      /\ question'.status = "dismissed"
      /\ question' = [of |-> question'.of, mode |-> question'.mode, status |-> question'.status]
  BY <1>1 DEF IInv, Shape
<1>3. Ending' /\ Asked'
  BY <1>1, <1>2 DEF IInv, Ending, Asked, Pending, Silent
<1>4. driver.at \in {"run", "settle"} => ~Silent /\ Dismissed'
  BY <1>1, <1>2 DEF IInv, Asked, Silent, Dismissed
<1>5. GateIsFinal'
  <2>1. driver.at = "settle" => (Decision(Ended) # "continue")'
    BY <1>1, <1>4 DEF Decision
  <2> QED
    BY <1>1, <2>1 DEF GateIsFinal, Verdict
<1> QED
  BY <1>1, <1>2, <1>3, <1>4, <1>5, RunMoves DEF IInv, Shape

\* The input the driver takes becomes committed, and nothing else changes in the store.
LEMMA Taken ==
  ASSUME IInv, Take
  PROVE  /\ rows' \in Seq(Row) /\ DOMAIN rows' = DOMAIN rows
         /\ driver.input \in DOMAIN rows /\ rows'[driver.input].state = "committed"
         /\ \A i \in DOMAIN rows :
              /\ rows'[i].bind = rows[i].bind /\ rows'[i].origin = rows[i].origin
              /\ rows'[i].state = "queued" => rows[i].state = "queued"
         /\ UNCHANGED <<storedGoal, question, session, goal, goals>> /\ driver.at = "prepare"
         /\ ~Pending
<1> DEFINE n == driver.input
<1>1. /\ rows' = [rows EXCEPT ![n].state = "committed"] /\ n \in DOMAIN rows
      /\ UNCHANGED <<storedGoal, question, session, goal, goals>> /\ driver.at = "prepare"
      /\ Runnable = n
  BY DEF Take, Waiting, StillCurrent
<1> HIDE DEF n
<1>2. /\ [rows[n] EXCEPT !.state = "committed"] \in Row
      /\ [rows[n] EXCEPT !.state = "committed"].bind = rows[n].bind
      /\ [rows[n] EXCEPT !.state = "committed"].origin = rows[n].origin
      /\ [rows[n] EXCEPT !.state = "committed"].state = "committed"
  BY <1>1, RowOf DEF Row
<1>3. DOMAIN rows = 1..Len(rows) /\ rows \in [1..Len(rows) -> Row]
  BY DEF IInv, Shape
<1>4. /\ DOMAIN rows' = DOMAIN rows /\ rows'[n] = [rows[n] EXCEPT !.state = "committed"]
      /\ \A i \in DOMAIN rows : i # n => rows'[i] = rows[i]
  BY <1>1
<1>5. rows' \in Seq(Row)
  <2>1. rows' \in [1..Len(rows) -> Row]
    BY <1>1, <1>2, <1>3
  <2> QED
    BY <2>1
<1>6. ~Pending
  BY <1>1, <1>3 DEF Runnable
<1> QED
  BY <1>1, <1>2, <1>4, <1>5, <1>6 DEF n

LEMMA TakenIInv == ASSUME IInv, Claim \/ StartFails PROVE IInv'
<1>1. Take
  BY DEF Claim, StartFails
<1>2. Numbered' /\ OneInputEach' /\ Follow'
  <2>1. Numbered'
    BY <1>1, Taken DEF IInv, Numbered
  <2>2. OneInputEach'
    <3> SUFFICES ASSUME NEW i \in DOMAIN rows, NEW j \in DOMAIN rows,
                        rows'[i].bind = rows'[j].bind, rows'[i].bind # Unbound
                 PROVE  i = j
      BY <1>1, Taken DEF OneInputEach
    <3> QED
      BY <1>1, Taken DEF IInv, OneInputEach
  <2>3. Follow'
    BY <1>1, Taken DEF IInv, Follow
  <2> QED
    BY <2>1, <2>2, <2>3
<1>3. CASE Claim
  <2>1. /\ run' = [input |-> driver.input, latch |-> driver.latch, signal |-> "none",
                   cancelled |-> FALSE, turned |-> FALSE, reminded |-> FALSE, outcome |-> "none"]
        /\ driver' = [at |-> "run", input |-> 0, latch |-> Unbound]
    BY <1>3 DEF Claim, NoRun, Off
  <2>2. Shape' /\ InService'
    BY <2>1, <1>1, Taken DEF IInv, Shape, InService
  <2>3. AtWork' /\ Ending' /\ Asked' /\ GateIsFinal'
    BY <2>1, <1>1, Taken DEF IInv, AtWork, Ending, Asked, Pending, GateIsFinal
  <2> QED
    BY <1>2, <2>2, <2>3 DEF IInv
<1>4. CASE StartFails
  <2>1. run' = run /\ driver' = [at |-> "off", input |-> 0, latch |-> Unbound]
    BY <1>4 DEF StartFails, Off
  <2>2. Shape' /\ InService'
    BY <2>1, <1>1, Taken DEF IInv, Shape, InService
  <2>3. AtWork' /\ Ending' /\ Asked' /\ GateIsFinal'
    BY <2>1, <1>1, Taken DEF IInv, AtWork, Ending, Asked, GateIsFinal
  <2> QED
    BY <1>2, <2>2, <2>3 DEF IInv
<1> QED
  BY <1>3, <1>4

Decisions == {"inert", "asked", "continue", "complete", "blocked", "spent"}

\* What is decided about a turn, and what a decision does to the goal.
LEMMA DecisionActs ==
  ASSUME IInv, driver.at \in {"run", "settle"}, NEW outcome
  PROVE  /\ Decision(outcome) \in Decisions
         /\ Decision(outcome) # "inert" =>
              /\ storedGoal.running /\ rows[run.input].bind = Binding(storedGoal)
              /\ run.cancelled => Dismissed
              /\ goal = storedGoal
BY DEF IInv, Shape, InService, AtWork, Decision, Decisions, IsInert

LEMMA CountedGoal ==
  ASSUME NEW outcome, goal \in GoalRecord
  PROVE  /\ Counted(outcome) \in GoalRecord
         /\ Counted(outcome).id = goal.id /\ Counted(outcome).gen = goal.gen
         /\ Counted(outcome).running = goal.running
<1>1. /\ goal.used \in Nat /\ goal.used + 1 \in Nat /\ goal.fails \in Nat
      /\ (IF outcome = "failed" THEN goal.fails + 1 ELSE 0) \in Nat
  BY DEF GoalRecord
<1> QED
  BY <1>1 DEF Counted, GoalRecord

LEMMA EffectOnGoal ==
  ASSUME IInv, NEW outcome, NEW decision \in Decisions, goal = storedGoal,
         storedGoal.running \/ decision = "inert"
  PROVE  /\ Effect(decision, outcome) \in GoalRecord
         /\ \/ /\ Effect(decision, outcome).id = storedGoal.id
               /\ Effect(decision, outcome).gen = storedGoal.gen
               /\ Effect(decision, outcome).running = storedGoal.running
               /\ decision \in {"inert", "continue"}
            \/ /\ Effect(decision, outcome).id = storedGoal.id
               /\ Effect(decision, outcome).gen = storedGoal.gen + 1
               /\ ~Effect(decision, outcome).running
               /\ decision \in {"asked", "blocked", "spent"}
            \/ Effect(decision, outcome) = NoGoal /\ decision = "complete"
<1>1. goal \in GoalRecord /\ NoGoal \in GoalRecord
  BY DEF IInv, Shape, NoGoal, GoalRecord
<1>2. CASE decision = "inert"
  BY <1>1, <1>2 DEF Effect
<1>3. CASE decision = "continue"
  BY <1>1, <1>3, CountedGoal DEF Effect
<1>4. CASE decision = "complete"
  BY <1>1, <1>4 DEF Effect
<1>5. CASE decision \in {"asked", "blocked", "spent"}
  <2>1. Effect(decision, outcome) = Paused(Counted(outcome))
    BY <1>5 DEF Effect
  <2>2. /\ Counted(outcome) \in GoalRecord /\ Counted(outcome).id = storedGoal.id
        /\ Counted(outcome).gen = storedGoal.gen
    BY <1>1, CountedGoal
  <2>3. /\ Paused(Counted(outcome)) \in GoalRecord
        /\ Paused(Counted(outcome)).id = Counted(outcome).id
        /\ Paused(Counted(outcome)).gen = Counted(outcome).gen + 1
        /\ Paused(Counted(outcome)).running = FALSE
    BY <2>2, GoalSteps
  <2> QED
    BY <1>5, <2>1, <2>2, <2>3
<1> QED
  BY <1>2, <1>3, <1>4, <1>5 DEF Decisions

\* A turn of the run that goes on, or the settlement of the run.
LEMMA TurnEnds ==
  ASSUME IInv, driver.at \in {"run", "settle"}, NEW outcome, NEW decision,
         decision = Decision(outcome) \/ decision = "inert",
         storedGoal' = Effect(decision, outcome), UNCHANGED <<rows, goals>>,
         goal' \in GoalRecord, session' = "ready" => goal' = storedGoal',
         driver' = [at |-> driver'.at, input |-> driver'.input, latch |-> driver'.latch],
         \/ /\ driver.at = "run" /\ driver'.at = "run"
            /\ run'.input = run.input /\ run'.cancelled = run.cancelled /\ question' = question
         \/ driver'.at \in {"off", "seek"} /\ question' \in {question, NoQuestion},
         driver'.at # "off" => session' = "ready",
         run'.signal \in {"none", "complete", "blocked"}, run'.cancelled \in BOOLEAN,
         run' = [input |-> run'.input, latch |-> run'.latch, signal |-> run'.signal,
                 cancelled |-> run'.cancelled, turned |-> run'.turned,
                 reminded |-> run'.reminded, outcome |-> run'.outcome]
  PROVE  IInv'
<1>1. /\ decision \in Decisions /\ goal = storedGoal
      /\ decision # "inert" =>
           /\ storedGoal.running /\ rows[run.input].bind = Binding(storedGoal)
           /\ run.cancelled => Dismissed
  BY DecisionActs DEF Decisions, IInv, InService
<1>2. /\ storedGoal' \in GoalRecord
      /\ \/ /\ storedGoal'.id = storedGoal.id /\ storedGoal'.gen = storedGoal.gen
            /\ storedGoal'.running = storedGoal.running
            /\ decision \in {"inert", "continue"}
         \/ /\ storedGoal'.id = storedGoal.id /\ storedGoal'.gen = storedGoal.gen + 1
            /\ ~storedGoal'.running /\ decision # "inert"
         \/ storedGoal' = NoGoal /\ decision # "inert"
  BY <1>1, EffectOnGoal
<1>3. /\ storedGoal.id \in Nat /\ storedGoal.gen \in Nat /\ goals \in Nat
      /\ storedGoal.id <= goals /\ NoGoal.id = 0 /\ NoGoal.gen = 0 /\ ~NoGoal.running
  BY DEF IInv, Shape, Numbered, GoalRecord, NoGoal
<1>4. decision = "inert" => storedGoal' = storedGoal
  BY <1>1 DEF Effect
<1>5. storedGoal'.id = 0 => storedGoal' = NoGoal
  BY <1>1, <1>2, <1>3, <1>4 DEF IInv, Numbered
<1>6. Shape' /\ InService' /\ Ending' /\ Asked' /\ GateIsFinal'
  <2>1. NoQuestion = [of |-> 0, mode |-> "none", status |-> "none"]
    BY DEF NoQuestion
  <2>2. question' = [of |-> question'.of, mode |-> question'.mode, status |-> question'.status]
    BY <2>1 DEF IInv, Shape
  <2>3. Asked'
    BY <2>1 DEF IInv, Asked, Pending, Silent
  <2> QED
    BY <1>2, <2>2, <2>3 DEF IInv, Shape, InService, Ending, GateIsFinal
<1>7. OneInputEach'
  BY DEF IInv, OneInputEach
<1>8. Numbered'
  <2>1. storedGoal'.id <= goals'
    BY <1>2, <1>3
  <2>2. ASSUME NEW i \in DOMAIN rows, rows[i].bind.id = storedGoal'.id
        PROVE  rows[i].bind.gen <= storedGoal'.gen
    <3>1. CASE storedGoal' = NoGoal
      BY <3>1, <2>2, <1>3 DEF IInv, Numbered, Unbound
    <3>2. CASE storedGoal' # NoGoal
      <4>1. rows[i].bind.gen \in Nat /\ rows[i].bind.gen <= storedGoal.gen
        BY <3>2, <2>2, <1>2, RowOf DEF IInv, Numbered
      <4> QED
        BY <4>1, <3>2, <1>2, <1>3
    <3> QED
      BY <3>1, <3>2
  <2> QED
    BY <1>5, <2>1, <2>2 DEF IInv, Numbered
<1>9. Binding(storedGoal) # Unbound \/ ~storedGoal.running
  BY <1>3 DEF Binding, Unbound, IInv, Numbered
<1>10. Follow'
  <2>1. CASE storedGoal'.running = storedGoal.running /\ Binding(storedGoal') = Binding(storedGoal)
    BY <2>1 DEF IInv, Follow
  <2>2. CASE decision # "inert"
    <3>1. ASSUME NEW i \in DOMAIN rows, rows[i].state = "queued", rows[i].origin = "runtime",
                 ~storedGoal'.running
          PROVE  FALSE
      <4>1. rows[i].bind = Binding(storedGoal) /\ storedGoal.running
        BY <3>1 DEF IInv, Follow
      <4>2. i = run.input
        BY <4>1, <2>2, <1>1, <1>9 DEF IInv, OneInputEach, AtWork
      <4> QED
        BY <4>2, <3>1 DEF IInv, AtWork
    <3> QED
      BY <3>1, <2>1, <1>2, <1>3 DEF Follow, Binding
  <2> QED
    BY <2>1, <2>2, <1>4
<1>11. AtWork'
  BY <1>1, <1>2, <1>3, <1>4 DEF IInv, AtWork, Binding, Dismissed, Silent
<1> QED
  BY <1>6, <1>7, <1>8, <1>10, <1>11 DEF IInv

LEMMA GoOnIInv ==
  ASSUME IInv, Remind \/ \E outcome \in {"completed", "failed"} : NextTurn(outcome)
  PROVE  IInv'
<1>1. PICK outcome : /\ driver.at = "run" /\ GoOn(Decision(outcome), outcome)
                     /\ \/ run' = [run EXCEPT !.turned = TRUE]
                        \/ run' = [run EXCEPT !.turned = TRUE, !.reminded = TRUE]
  BY DEF Remind, NextTurn
<1>2. /\ goal' = Effect(Decision(outcome), outcome) /\ storedGoal' = goal'
      /\ UNCHANGED <<rows, question, session, driver, goals>>
  BY <1>1 DEF GoOn
<1>3. goal' \in GoalRecord
  BY <1>1, <1>2, DecisionActs, EffectOnGoal DEF IInv, InService
<1>4. /\ run'.input = run.input /\ run'.signal = run.signal /\ run'.cancelled = run.cancelled
      /\ run' = [input |-> run'.input, latch |-> run'.latch, signal |-> run'.signal,
                 cancelled |-> run'.cancelled, turned |-> run'.turned,
                 reminded |-> run'.reminded, outcome |-> run'.outcome]
  BY <1>1 DEF IInv, Shape
<1> QED
  BY <1>1, <1>2, <1>3, <1>4, TurnEnds DEF IInv, Shape, InService

LEMMA SettleIInv == ASSUME IInv, Settle PROVE IInv'
<1>1. /\ driver.at = "settle" /\ storedGoal' = Effect(Verdict, Ended)
      /\ UNCHANGED <<rows, goals>> /\ question' \in {question, NoQuestion}
      /\ \/ goal' = storedGoal' /\ run' = NoRun /\ session' = session
            /\ driver' = [Off EXCEPT !.at = "seek"]
         \/ session' = "faulted" /\ driver' = Off /\ UNCHANGED <<goal, run>>
  BY DEF Settle
<1>2. Verdict = Decision(Ended) \/ Verdict = "inert"
  BY DEF Verdict
<1>3. storedGoal' \in GoalRecord
  <2>1. Verdict \in Decisions /\ (storedGoal.running \/ Verdict = "inert") /\ goal = storedGoal
    BY <1>1, <1>2, DecisionActs DEF Decisions, IInv, InService
  <2> QED
    BY <2>1, <1>1, EffectOnGoal
<1>4. /\ NoRun = [input |-> 0, latch |-> Unbound, signal |-> "none", cancelled |-> FALSE,
                  turned |-> FALSE, reminded |-> FALSE, outcome |-> "none"]
      /\ [Off EXCEPT !.at = "seek"] = [at |-> "seek", input |-> 0, latch |-> Unbound]
      /\ Off = [at |-> "off", input |-> 0, latch |-> Unbound]
  BY DEF NoRun, Off
<1>5. session = "ready" /\ goal \in GoalRecord
  BY <1>1 DEF IInv, InService, Shape
<1>6. CASE /\ goal' = storedGoal' /\ run' = NoRun /\ session' = session
           /\ driver' = [Off EXCEPT !.at = "seek"]
  BY <1>1, <1>2, <1>3, <1>4, <1>5, <1>6, TurnEnds
<1>7. CASE session' = "faulted" /\ driver' = Off /\ UNCHANGED <<goal, run>>
  BY <1>1, <1>2, <1>4, <1>5, <1>7, TurnEnds DEF IInv, Shape
<1> QED
  BY <1>1, <1>6, <1>7

\* The session leaves service with the process or an error, or a reader loads it.
LEMMA LeavesService ==
  ASSUME IInv, UNCHANGED <<storedGoal, rows, question, goals>>, session' # "ready",
         driver' = Off \/ (driver' = driver /\ driver.at = "off"),
         goal' \in GoalRecord, run' = run \/ run' = NoRun
  PROVE  IInv'
<1>1. /\ Off = [at |-> "off", input |-> 0, latch |-> Unbound]
      /\ NoRun = [input |-> 0, latch |-> Unbound, signal |-> "none", cancelled |-> FALSE,
                  turned |-> FALSE, reminded |-> FALSE, outcome |-> "none"]
  BY DEF Off, NoRun
<1>a. /\ driver'.at = "off"
      /\ driver' = [at |-> driver'.at, input |-> driver'.input, latch |-> driver'.latch]
  BY <1>1 DEF IInv, Shape
<1>b. /\ run' = [input |-> run'.input, latch |-> run'.latch, signal |-> run'.signal,
                  cancelled |-> run'.cancelled, turned |-> run'.turned,
                  reminded |-> run'.reminded, outcome |-> run'.outcome]
      /\ run'.signal \in {"none", "complete", "blocked"} /\ run'.cancelled \in BOOLEAN
  <2>1. CASE run' = run
    BY <2>1 DEF IInv, Shape
  <2>2. CASE run' = NoRun
    BY <2>2, <1>1
  <2> QED
    BY <2>1, <2>2
<1>2. Shape' /\ driver'.at = "off"
  BY <1>a, <1>b DEF IInv, Shape
<1>3. InService' /\ AtWork' /\ Ending' /\ Asked' /\ GateIsFinal'
  BY <1>2 DEF IInv, InService, AtWork, Ending, Asked, GateIsFinal
<1>4. Numbered' /\ OneInputEach' /\ Follow'
  BY DEF IInv, Numbered, OneInputEach, Follow
<1> QED
  BY <1>2, <1>3, <1>4 DEF IInv

LEMMA EndIInv == ASSUME IInv, Escape \/ Crash \/ Load PROVE IInv'
<1>1. goal \in GoalRecord /\ storedGoal \in GoalRecord /\ NoGoal \in GoalRecord
  BY DEF IInv, Shape, NoGoal, GoalRecord
<1>2. CASE Escape
  BY <1>1, <1>2, LeavesService DEF Escape, stored
<1>3. CASE Crash
  BY <1>1, <1>3, LeavesService DEF Crash, stored
<1>4. CASE Load
  <2>1. /\ driver.at = "off" /\ session' = "viewed"
        /\ UNCHANGED <<storedGoal, rows, question, goals, run, driver>>
    BY <1>4 DEF Load, Install, stored, IInv, InService, Shape
  <2>2. goal' \in GoalRecord
    BY <1>1, <1>4, GoalSteps DEF Load, Install, Projected, AfterRestart
  <2> QED
    BY <2>1, <2>2, LeavesService
<1> QED
  BY <1>2, <1>3, <1>4

LEMMA PrepareIInv == ASSUME IInv, Prepare PROVE IInv'
<1>1. /\ session \in {"cold", "viewed"} /\ driver.at = "off"
      /\ storedGoal' = AfterRestart(storedGoal)
      /\ rows' = Delete(rows, Outdated(rows, storedGoal'))
      /\ UNCHANGED <<run, driver, goals>> /\ question' \in {question, NoQuestion}
      /\ \/ session' = "ready" /\ goal' = storedGoal'
         \/ UNCHANGED <<session, goal>>
  BY DEF Prepare, Install, IInv, InService, Shape
<1>2. /\ storedGoal \in GoalRecord /\ goal \in GoalRecord
      /\ storedGoal.id \in Nat /\ storedGoal.gen \in Nat
  BY DEF IInv, Shape, GoalRecord
<1>3. /\ storedGoal' \in GoalRecord /\ ~storedGoal'.running /\ storedGoal'.id = storedGoal.id
      /\ storedGoal.running => storedGoal'.gen = storedGoal.gen + 1
      /\ ~storedGoal.running => storedGoal' = storedGoal
  BY <1>1, <1>2, GoalSteps DEF AfterRestart
<1>4. storedGoal'.gen >= storedGoal.gen
  BY <1>2, <1>3
<1>5. storedGoal'.id = 0 => storedGoal' = NoGoal
  BY <1>3 DEF IInv, Numbered, NoGoal
<1>6. \A i \in DOMAIN rows : rows[i].state = "queued" /\ rows[i].origin = "runtime" =>
        i \in Outdated(rows, storedGoal')
  BY <1>2, <1>3 DEF IInv, Follow, Outdated, Waiting, Binding
<1>7. goal' \in GoalRecord /\ (session' = "ready" => goal' = storedGoal')
  BY <1>1, <1>2, <1>3
<1> QED
  BY <1>1, <1>3, <1>4, <1>5, <1>6, <1>7, Leaving DEF IInv, Shape

LEMMA AsideIInv == ASSUME IInv, ResumeQueue \/ Seek \/ Stale PROVE IInv'
<1>1. CASE ResumeQueue
  BY <1>1, WakeIsIdle, Aside DEF ResumeQueue, stored
<1>2. CASE Seek
  <2>1. Idle
    BY <1>2 DEF Seek, Idle, Off, Ready
  <2> QED
    BY <1>2, <2>1, Aside DEF Seek, stored
<1>3. CASE Stale
  <2>1. Idle
    BY <1>3 DEF Stale, Idle, Off, Ready
  <2> QED
    BY <1>3, <2>1, Aside DEF Stale, stored
<1> QED
  BY <1>1, <1>2, <1>3

LEMMA StutterIInv == ASSUME IInv, UNCHANGED vars PROVE IInv'
BY DEF vars, stored, lanes, IInv, Shape, InService, Numbered, OneInputEach, AtWork, Ending, Asked,
   Follow, GateIsFinal, Verdict, Ended, Decision, IsInert, Counted, Spent, Pending, Silent, Dismissed

LEMMA NextIInv == ASSUME IInv, [Next]_vars PROVE IInv'
<1>1. CASE UserNext
  BY <1>1, SubmitIInv, StartGoalIInv, ResumeIInv, StopIInv, ClearIInv, AsideIInv, CancelRunIInv,
     HeldIInv, CancelQueuedIInv, AnswerWaitIInv, AnswerEndIInv, DismissIInv DEF UserNext
<1>2. CASE DriverNext
  BY <1>2, AsideIInv, TakenIInv, GoOnIInv, EndTurnIInv, SettleIInv, EndIInv DEF DriverNext, TurnNext
<1>3. CASE \E status \in {"complete", "blocked"} : Signal(status)
  BY <1>3, SignalIInv
<1>4. CASE Crash \/ Load \/ Prepare
  BY <1>4, EndIInv, PrepareIInv
<1>5. CASE UNCHANGED vars
  BY <1>5, StutterIInv
<1>6. CASE \E mode \in {"wait", "end"} : Ask(mode)
  BY <1>6, AskIInv
<1> QED
  BY <1>1, <1>2, <1>3, <1>4, <1>5, <1>6 DEF Next

\* The inductive invariant: generations number the bindings, one input each, a cancelled run
\* is never the running goal's unless its question was dismissed, and no question outlives
\* its run as one that a tool waits for (goal/mod.rs, runtime/goal/settlement.rs).
THEOREM IInvInvariant == Spec => []IInv
<1> QED
  BY InitIInv, NextIInv, PTL DEF Spec

\* The runtime's own continuations never outlive the generation they were made for
\* (stop_goal and pause_running_goals_for_recovery).
THEOREM ContinuationsAreCurrent == Spec => []ContinuationsFollowTheGoal
<1>1. IInv => ContinuationsFollowTheGoal
  <2> SUFFICES ASSUME IInv, NEW i \in Waiting(rows), rows[i].origin = "runtime"
               PROVE  /\ storedGoal.running /\ rows[i].bind = Binding(storedGoal)
                      /\ \A j \in Waiting(rows) : rows[j].origin = "runtime" => i = j
    BY DEF ContinuationsFollowTheGoal
  <2>1. \A j \in Waiting(rows) : rows[j].origin = "runtime" =>
          j \in DOMAIN rows /\ storedGoal.running /\ rows[j].bind = Binding(storedGoal)
    BY DEF IInv, Follow, Waiting
  <2>2. storedGoal.running => Binding(storedGoal) # Unbound
    BY DEF IInv, Numbered, NoGoal, Binding, Unbound
  <2> QED
    BY <2>1, <2>2 DEF IInv, OneInputEach
<1> QED
  BY <1>1, IInvInvariant, PTL

\* What the gate of the run's loop found finished, its settlement does not find unfinished
\* (continue_run_if_required and settle_run_inner).
THEOREM TheGateIsFinal == Spec => []GateIsFinal
<1>1. IInv => GateIsFinal
  BY DEF IInv
<1> QED
  BY <1>1, IInvInvariant, PTL

-----------------------------------------------------------------------------
\* The run at work works for the running goal.
Current ==
  /\ storedGoal.running /\ rows[run.input].bind = Binding(storedGoal)
  /\ run.cancelled => Dismissed

\* What the steps that are no turn's may do to the goal.
Handled ==
  \/ storedGoal' = storedGoal
  \/ storedGoal' # NoGoal /\ storedGoal'.used = storedGoal.used
  \/ ~storedGoal.running /\ (storedGoal = NoGoal \/ storedGoal' = NoGoal)

LEMMA HandledCountsNothing == ASSUME Handled PROVE ~TurnCounts
BY DEF Handled, TurnCounts, NoGoal

LEMMA UserHandles ==
  ASSUME IInv, UserNext
  PROVE  Handled
<1>1. storedGoal \in GoalRecord /\ goal \in GoalRecord /\ (Ready => goal = storedGoal)
  BY DEF IInv, Shape, InService, Ready
<1>2. CASE StartGoal
  BY <1>1, <1>2 DEF StartGoal, Handled, NoGoal
<1>3. ASSUME Ready, goal # NoGoal, storedGoal' = Resumed(goal) \/ storedGoal' = Paused(goal)
      PROVE  Handled
  <2>1. storedGoal.id # 0
    BY <1>1, <1>3 DEF IInv, Numbered
  <2>2. storedGoal'.id = storedGoal.id /\ storedGoal'.used = storedGoal.used
    BY <1>1, <1>3, GoalSteps
  <2> QED
    BY <2>1, <2>2 DEF Handled, NoGoal
<1>4. CASE ResumeWithMessage \/ ResumeWithoutInput
  BY <1>3, <1>4 DEF ResumeWithMessage, AcceptResuming, ResumeWithoutInput, MayResume, AcceptBound
<1>5. CASE StopGoal
  BY <1>3, <1>5 DEF StopGoal, NoGoal
<1>6. CASE ClearGoal
  BY <1>1, <1>6 DEF ClearGoal, Handled
<1>7. CASE \E i \in DOMAIN rows : ResumeWithHeldInput(i)
  BY <1>3, <1>7 DEF ResumeWithHeldInput, MayResume
<1>8. CASE \E i \in DOMAIN rows : CancelQueued(i)
  BY <1>8 DEF CancelQueued, Handled
<1>9. CASE Submit \/ ResumeQueue \/ CancelRun \/ InterruptRun \/ AnswerWait \/ Dismiss
  BY <1>9 DEF Submit, AcceptPlain, ResumeQueue, CancelRun, InterruptRun, AnswerWait, Dismiss,
     Handled, stored
<1>10. CASE AnswerEnd
  BY <1>3, <1>10 DEF AnswerEnd, AcceptPlain, AcceptResuming, MayResume, AcceptBound, Handled
<1> QED
  BY <1>2, <1>4, <1>5, <1>6, <1>7, <1>8, <1>9, <1>10 DEF UserNext

LEMMA DriverHandles == ASSUME IInv, DriverNext PROVE Handled \/ Current
<1>1. driver.at # "off" => goal = storedGoal
  BY DEF IInv, InService
<1>2. CASE Seek \/ Stale \/ Claim \/ StartFails \/ Escape
  BY <1>2 DEF Seek, Stale, Claim, StartFails, Take, Escape, Handled, stored
<1>3. CASE \E outcome \in {"completed", "failed", "cancelled", "broken", "lost", "returned"} :
             EndTurn(outcome)
  BY <1>3 DEF EndTurn, Handled, stored
<1>4. ASSUME driver.at \in {"run", "settle"}, NEW outcome, NEW decision,
             decision = Decision(outcome) \/ decision = "inert",
             storedGoal' = Effect(decision, outcome)
      PROVE  Handled \/ Current
  BY <1>1, <1>4, DecisionActs DEF Handled, Current, Effect
<1>5. CASE Remind \/ \E outcome \in {"completed", "failed"} : NextTurn(outcome)
  <2>1. PICK outcome : driver.at = "run" /\ storedGoal' = Effect(Decision(outcome), outcome)
    BY <1>5 DEF Remind, NextTurn, GoOn
  <2> QED
    BY <2>1, <1>4
<1>6. CASE Settle
  <2>1. driver.at = "settle" /\ storedGoal' = Effect(Verdict, Ended)
    BY <1>6 DEF Settle
  <2>2. Verdict = Decision(Ended) \/ Verdict = "inert"
    BY DEF Verdict
  <2> QED
    BY <2>1, <2>2, <1>4
<1> QED
  BY <1>2, <1>3, <1>5, <1>6 DEF DriverNext, TurnNext

LEMMA NextHandles == ASSUME IInv, [Next]_vars PROVE Handled \/ Current
<1>1. CASE UserNext
  BY <1>1, UserHandles
<1>2. CASE DriverNext
  BY <1>2, DriverHandles
<1>3. CASE \/ \E status \in {"complete", "blocked"} : Signal(status)
           \/ \E mode \in {"wait", "end"} : Ask(mode)
           \/ Crash \/ Load \/ UNCHANGED vars
  BY <1>3 DEF Signal, Ask, Crash, Load, vars, stored, Handled
<1>4. CASE Prepare
  <2>1. storedGoal \in GoalRecord /\ storedGoal' = AfterRestart(storedGoal)
    BY <1>4 DEF Prepare, IInv, Shape
  <2>2. CASE ~storedGoal.running
    BY <2>1, <2>2 DEF AfterRestart, Handled
  <2>3. CASE storedGoal.running
    <3>1. storedGoal.id # 0
      BY <2>3 DEF IInv, Numbered, NoGoal
    <3>2. storedGoal'.id = storedGoal.id /\ storedGoal'.used = storedGoal.used
      BY <2>1, <2>3, GoalSteps DEF AfterRestart
    <3> QED
      BY <3>1, <3>2 DEF Handled, NoGoal
  <2> QED
    BY <2>2, <2>3
<1> QED
  BY <1>1, <1>2, <1>3, <1>4 DEF Next

\* Nothing that a run of an older generation does or signals reaches the goal
\* (prepare_goal_run_decision's comparison of generations, for every way to get there).
THEOREM StaleRunsAreInert == Spec => OldRunsAreInert
<1>1. IInv /\ [Next]_vars
        => [TurnCounts => /\ storedGoal.running /\ (run.cancelled => Dismissed)
                          /\ rows[run.input].bind = Binding(storedGoal)]_vars
  BY NextHandles, HandledCountsNothing DEF Current
<1> QED
  BY <1>1, IInvInvariant, PTL DEF Spec, OldRunsAreInert
-----------------------------------------------------------------------------
(* Memory and the store *)

Bind == [id : 0..MaxGoals, gen : Nat]

RunRecord(n) ==
  [input : 0..n, latch : Bind, signal : {"none", "complete", "blocked"},
   cancelled : BOOLEAN, turned : BOOLEAN, reminded : BOOLEAN,
   outcome : {"none", "completed", "failed", "cancelled", "broken", "lost", "returned"}]
DriverRecord(n) ==
  [at : {"off", "seek", "prepare", "run", "settle"}, input : 0..n, latch : Bind]
QuestionRecord(n) ==
  [of : 0..n, mode : {"none", "wait", "end"}, status : {"none", "pending", "dismissed"}]

\* The types that Shape leaves open.
Typed ==
  /\ goal.id <= goals /\ goals <= MaxGoals /\ restarts \in 0..MaxRestarts
  /\ Len(rows) <= MaxInputs /\ open \in 0..Len(rows)
  /\ lane \in Seq(DOMAIN rows) /\ queue \in Seq(DOMAIN rows)
  /\ run \in RunRecord(Len(rows))
  /\ driver \in DriverRecord(Len(rows))
  /\ question \in QuestionRecord(Len(rows))
  /\ session \in {"cold", "viewed", "ready", "faulted"} /\ resume \in BOOLEAN /\ paused \in BOOLEAN

USE DEF RunRecord, DriverRecord, QuestionRecord

\* What a reader who loads the session is shown; nothing runs in it before the first command.
Viewed ==
  /\ session = "viewed" => goal = AfterRestart(storedGoal)
  /\ session \in {"cold", "viewed"} => run = NoRun

\* The rows that wait for the goal g.
OfGoal(r, g) == {i \in BoundRows(r) : r[i].bind.id = g.id}

Mirror ==
  session = "ready" =>
    run.input = open /\ queue = QueueOf(rows) /\ ToSet(lane) = OfGoal(rows, goal)

\* The goal's current input is the last of the lane: what is before it blocks it.
Newest ==
  session = "ready" =>
    \A k \in DOMAIN lane : rows[lane[k]].bind = Binding(goal) => k = Len(lane)

\* While the run at work is the running goal's, nothing else waits for the goal.
Alone ==
  driver.at \in {"run", "settle"} /\ storedGoal.running
    /\ rows[run.input].bind = Binding(storedGoal) => lane = <<>>

\* A run keeps the binding its input had when it was taken, which no longer changes.
RunOfInput ==
  run # NoRun =>
    /\ run.input \in DOMAIN rows /\ rows[run.input].state # "queued"
    /\ run.latch = rows[run.input].bind

\* The driver may have read that its input is unbound, and the user bound it meanwhile: then
\* an input of the user's, with which the goal was started, waits before it.
Reading ==
  driver.at = "prepare" =>
    /\ driver.input \in DOMAIN rows
    /\ driver.latch # Unbound => rows[driver.input].bind = driver.latch
    /\ driver.latch = Unbound /\ goal # NoGoal =>
         lane # <<>> /\ Head(lane) # driver.input /\ rows[Head(lane)].origin = "user"

\* A tool only waits for an answer in the run that is open.
Waits == Pending /\ question.mode = "wait" => question.of = open /\ open # 0

MInv ==
  /\ Typed /\ Viewed /\ Mirror /\ Newest /\ Alone /\ RunOfInput /\ Reading /\ Waits

\* ORDER BY queue_order lists the chosen rows, each once.
LEMMA RowsInOrder ==
  ASSUME NEW r \in Seq(Row), NEW S \in SUBSET DOMAIN r
  PROVE  /\ InOrder(r, S) \in Seq(DOMAIN r) /\ ToSet(InOrder(r, S)) = S
         /\ IsInjective(InOrder(r, S))
<1> DEFINE ids == [i \in 1..Len(r) |-> i]
           gone == DOMAIN r \ S
<1>1. DOMAIN r = 1..Len(r) /\ Len(r) \in Nat
  OBVIOUS
<1>2. ids \in Seq(DOMAIN r) /\ IsInjective(ids) /\ ToSet(ids) = DOMAIN r
  <2>1. ids \in [1..Len(r) -> DOMAIN r]
    BY <1>1
  <2>2. ids \in Seq(DOMAIN r)
    BY <1>1, <2>1, FunctionIsSequence
  <2> QED BY <1>1, <2>2 DEF IsInjective, ToSet
<1> HIDE DEF ids, gone
<1>3. /\ Minus(ids, gone) \in Seq(DOMAIN r) /\ IsInjective(Minus(ids, gone))
      /\ ToSet(Minus(ids, gone)) = DOMAIN r \ gone
  BY <1>2, Retained
<1> QED BY <1>3 DEF InOrder, ids, gone

\* A row that is added comes last, if it is chosen.
LEMMA RowAdded ==
  ASSUME NEW r \in Seq(Row), NEW x \in Row, NEW S \in SUBSET DOMAIN r
  PROVE  /\ InOrder(Append(r, x), S) = InOrder(r, S)
         /\ InOrder(Append(r, x), S \cup {Len(r) + 1}) = Append(InOrder(r, S), Len(r) + 1)
<1> DEFINE n == Len(r)
           q == Append(r, x)
           ids == [i \in 1..n |-> i]
           more == [i \in 1..(n + 1) |-> i]
<1>1. n \in Nat /\ DOMAIN r = 1..n /\ Len(q) = n + 1 /\ DOMAIN q = 1..(n + 1)
  OBVIOUS
<1> HIDE DEF n, q
<1>2. /\ ids \in Seq(1..n) /\ ids \in Seq(1..(n + 1)) /\ more \in Seq(1..(n + 1))
      /\ Len(ids) = n /\ Len(more) = n + 1
  <2>1. /\ ids \in [1..n -> 1..n] /\ ids \in [1..n -> 1..(n + 1)]
        /\ more \in [1..(n + 1) -> 1..(n + 1)] /\ n + 1 \in Nat
    BY <1>1
  <2> HIDE DEF ids, more
  <2> QED BY <1>1, <2>1, FunctionIsSequence
<1>3. more = Append(ids, n + 1)
  <2> DEFINE t == Append(ids, n + 1)
  <2>1. /\ t \in Seq(1..(n + 1)) /\ Len(t) = n + 1 /\ t[n + 1] = n + 1
        /\ \A i \in 1..n : t[i] = ids[i] /\ ids[i] = i
    BY <1>1, <1>2
  <2>2. \A i \in 1..(n + 1) : (i \in 1..n \/ i = n + 1) /\ more[i] = i
    BY <1>1
  <2> HIDE DEF t, ids, more
  <2>3. \A i \in 1..Len(more) : more[i] = t[i]
    BY <1>2, <2>1, <2>2
  <2>4. more = t
    BY <1>2, <2>1, <2>3, SeqEqual
  <2> QED BY <2>4 DEF t
<1> HIDE DEF ids, more
<1>4. ASSUME NEW U, U \in {S, S \cup {n + 1}}
      PROVE  Minus(ids, DOMAIN q \ U) = Minus(ids, DOMAIN r \ S)
  <2> DEFINE A == DOMAIN q \ U
             B == DOMAIN r \ S
             T == 1..n
  <2>1. ids \in Seq(T) /\ \A i \in T : i \in A <=> i \in B
    <3>1. \A i \in 1..n : i # n + 1 /\ i \in DOMAIN q /\ i \in DOMAIN r
      BY <1>1
    <3>2. \A i \in 1..n : i \in U <=> i \in S
      BY <1>4, <3>1
    <3> QED BY <1>2, <3>1, <3>2
  <2> HIDE DEF A, B, T
  <2>2. Minus(ids, A) = Minus(ids, B)
    BY <2>1, MinusAlike
  <2> QED BY <2>2 DEF A, B
<1>5. InOrder(q, S) = InOrder(r, S)
  <2> DEFINE A == DOMAIN q \ S
  <2>1. n + 1 \in A /\ n + 1 \in 1..(n + 1)
    BY <1>1
  <2>2. Minus(ids, A) = Minus(ids, DOMAIN r \ S)
    BY <1>4
  <2> HIDE DEF A
  <2>3. Minus(more, A) = Minus(ids, A)
    BY <1>2, <1>3, <2>1, MinusOfAppend
  <2> QED BY <1>1, <2>2, <2>3 DEF A, InOrder, ids, more, n
<1>6. InOrder(q, S \cup {n + 1}) = Append(InOrder(r, S), n + 1)
  <2> DEFINE A == DOMAIN q \ (S \cup {n + 1})
  <2>1. n + 1 \notin A /\ n + 1 \in 1..(n + 1)
    BY <1>1
  <2>2. Minus(ids, A) = Minus(ids, DOMAIN r \ S)
    BY <1>4
  <2> HIDE DEF A
  <2>3. Minus(more, A) = Append(Minus(ids, A), n + 1)
    BY <1>2, <1>3, <2>1, MinusOfAppend
  <2> QED BY <1>1, <2>2, <2>3 DEF A, InOrder, ids, more, n
<1> QED BY <1>5, <1>6 DEF n, q

\* Rows that leave the choice leave the list, and nothing else moves.
LEMMA RowsLeave ==
  ASSUME NEW r \in Seq(Row), NEW q \in Seq(Row), Len(q) = Len(r),
         NEW S \in SUBSET DOMAIN r, NEW gone
  PROVE  InOrder(q, S \ gone) = Minus(InOrder(r, S), gone)
<1> DEFINE ids == [i \in 1..Len(r) |-> i]
<1>1. DOMAIN r = 1..Len(r) /\ DOMAIN q = DOMAIN r /\ Len(r) \in Nat
  OBVIOUS
<1>2. ids \in Seq(DOMAIN r)
  <2>1. ids \in [1..Len(r) -> DOMAIN r]
    BY <1>1
  <2> HIDE DEF ids
  <2> QED BY <1>1, <2>1, FunctionIsSequence
<1> HIDE DEF ids
<1>3. Minus(Minus(ids, DOMAIN r \ S), gone) = Minus(ids, (DOMAIN r \ S) \cup gone)
  BY <1>2, MinusTwice
<1>4. \A i \in DOMAIN r : i \in DOMAIN q \ (S \ gone) <=> i \in (DOMAIN r \ S) \cup gone
  BY <1>1
<1>5. Minus(ids, DOMAIN q \ (S \ gone)) = Minus(ids, (DOMAIN r \ S) \cup gone)
  BY <1>2, <1>4, MinusAlike
<1> QED BY <1>3, <1>5 DEF InOrder, ids

\* What is added to Minus at its end, or taken from elsewhere, leaves its head.
LEMMA HeadStays ==
  ASSUME NEW T, NEW s \in Seq(T), NEW gone, s # <<>>, Head(s) \notin gone
  PROVE  Minus(s, gone) # <<>> /\ Head(Minus(s, gone)) = Head(s)
<1> DEFINE P == {t \in Seq(T) : t # <<>> /\ Head(t) \notin gone =>
                   Minus(t, gone) # <<>> /\ Head(Minus(t, gone)) = Head(t)}
<1>1. <<>> \in P
  OBVIOUS
<1>2. ASSUME NEW t \in P, NEW x \in T PROVE Append(t, x) \in P
  <2> DEFINE u == Minus(t, gone)
  <2>1. t \in Seq(T) /\ Append(t, x) \in Seq(T) /\ u \in Seq(T)
    BY MinusElements
  <2>2. Minus(Append(t, x), gone) = IF x \in gone THEN u ELSE Append(u, x)
    BY <2>1, MinusOfAppend
  <2>3. CASE t = <<>>
    <3>1. u = t
      BY <2>3, MinusOfEmpty
    <3> HIDE DEF u
    <3>2. Head(Append(t, x)) = x /\ Append(t, x) # <<>>
      BY <2>1, <2>3
    <3> QED BY <2>1, <2>2, <3>1, <3>2
  <2>4. CASE t # <<>>
    <3>1. Head(Append(t, x)) = Head(t)
      BY <2>1, <2>4
    <3>2. Head(t) \notin gone => u # <<>> /\ Head(u) = Head(t)
      BY <2>4
    <3> HIDE DEF u
    <3>3. u # <<>> => Append(u, x) # <<>> /\ Head(Append(u, x)) = Head(u)
      BY <2>1
    <3> QED BY <2>1, <2>2, <3>1, <3>2, <3>3
  <2> QED BY <2>3, <2>4
<1>3. P \in SUBSET Seq(T)
  OBVIOUS
<1> HIDE DEF P
<1>4. s \in P
  BY <1>1, <1>2, <1>3, EverySequence
<1> QED BY <1>4 DEF P

LEMMA BindOf ==
  ASSUME IInv, Typed, NEW i \in DOMAIN rows
  PROVE  rows[i].bind \in Bind /\ i \in 1..Len(rows) /\ i # 0
<1>1. rows[i].bind \in [id : Nat, gen : Nat] /\ rows[i].bind.id <= goals
  BY RowOf DEF IInv, Numbered
<1>2. rows[i].bind.id \in 0..MaxGoals
  BY <1>1, BoundsAssumption DEF Typed, IInv, Shape
<1>3. rows \in Seq(Row)
  BY DEF IInv, Shape
<1> QED BY <1>1, <1>2, <1>3 DEF Bind

\* What waits, and what of it is bound.
LEMMA Lanes ==
  ASSUME IInv
  PROVE  /\ rows \in Seq(Row) /\ Len(rows) \in Nat /\ DOMAIN rows = 1..Len(rows)
         /\ Waiting(rows) \in SUBSET DOMAIN rows /\ BoundRows(rows) \in SUBSET Waiting(rows)
         /\ \A g : OfGoal(rows, g) \in SUBSET BoundRows(rows)
         /\ OfGoal(rows, NoGoal) = {}
<1>1. rows \in Seq(Row)
  BY DEF IInv, Shape
<1>2. OfGoal(rows, NoGoal) = {}
  BY DEF OfGoal, NoGoal, BoundRows, Waiting, IInv, Numbered
<1> QED BY <1>1, <1>2 DEF Waiting, BoundRows, OfGoal

\* The input that is due is the session's next one, for what the session is now; if it is
\* the goal's, nothing else waits for the goal.
LEMMA Due ==
  ASSUME IInv, MInv, Ready, Runnable # 0
  PROVE  /\ Runnable \in DOMAIN rows /\ Runnable \in Waiting(rows) /\ goal = storedGoal
         /\ ~Pending
         /\ \/ goal = NoGoal /\ rows[Runnable].bind = Unbound /\ lane = <<>>
            \/ /\ goal # NoGoal /\ goal.running /\ lane = <<Runnable>>
               /\ rows[Runnable].bind = Binding(goal) /\ Binding(goal) # Unbound
<1>1. /\ goal = storedGoal /\ ToSet(lane) = OfGoal(rows, goal) /\ queue = QueueOf(rows)
      /\ lane \in Seq(DOMAIN rows) /\ queue \in Seq(DOMAIN rows) /\ ~Pending
      /\ \A k \in DOMAIN lane : rows[lane[k]].bind = Binding(goal) => k = Len(lane)
  BY DEF Ready, IInv, InService, MInv, Mirror, Typed, Newest, Runnable
<1>2. CASE goal = NoGoal
  <2>1. queue # <<>> /\ Runnable = Head(queue)
    BY <1>2 DEF Runnable
  <2>2. ToSet(queue) = Waiting(rows) \ BoundRows(rows)
    BY <1>1, Lanes, RowsInOrder DEF QueueOf
  <2>3. 1 \in DOMAIN queue /\ Head(queue) = queue[1]
    BY <1>1, <2>1
  <2>4. Runnable \in Waiting(rows) /\ Runnable \notin BoundRows(rows)
    BY <2>1, <2>2, <2>3 DEF ToSet
  <2>5. lane = <<>>
    <3>1. ToSet(lane) = {}
      BY <1>1, <1>2, Lanes
    <3>2. DOMAIN lane = {}
      BY <3>1 DEF ToSet
    <3> QED BY <1>1, <3>2
  <2> QED BY <1>1, <1>2, <2>4, <2>5, Lanes DEF BoundRows
<1>3. CASE goal # NoGoal
  <2>1. /\ goal.running /\ lane # <<>> /\ rows[Head(lane)].bind = Binding(goal)
        /\ Runnable = Head(lane)
    BY <1>3 DEF Runnable
  <2>2. 1 \in DOMAIN lane /\ Head(lane) = lane[1] /\ Len(lane) \in Nat
    BY <1>1, <2>1
  <2>3. Len(lane) = 1
    BY <1>1, <2>1, <2>2
  <2>4. lane = <<Runnable>>
    BY <1>1, <2>1, <2>2, <2>3
  <2>5. Runnable \in BoundRows(rows)
    BY <1>1, <2>1, <2>2, Lanes DEF ToSet
  <2> QED BY <1>1, <1>3, <2>1, <2>4, <2>5, Lanes DEF BoundRows
<1> QED BY <1>2, <1>3

LEMMA InitMInv == Init => MInv
<1> SUFFICES ASSUME Init PROVE MInv
  OBVIOUS
<1>1. /\ storedGoal = NoGoal /\ rows = <<>> /\ open = 0 /\ question = NoQuestion
      /\ session = "ready" /\ goal = NoGoal /\ lane = <<>> /\ queue = <<>>
      /\ resume = FALSE /\ paused = FALSE /\ run = NoRun /\ driver = Off
      /\ goals = 0 /\ restarts = 0
  BY DEF Init
<1>2. /\ <<>> \in Seq({}) /\ DOMAIN <<>> = {} /\ Len(<<>>) = 0 /\ ToSet(<<>>) = {}
      /\ 0 \in 0..MaxGoals /\ 0 \in 0..MaxRestarts /\ 0 <= MaxInputs /\ 0 <= MaxGoals
      /\ 0 \in Nat /\ 0 \in 0..0
  BY BoundsAssumption DEF ToSet
<1>3. Typed
  <2>1. Unbound \in Bind /\ goal.id = 0
    BY <1>1, <1>2 DEF Unbound, Bind, NoGoal
  <2>2. /\ goal.id <= goals /\ goals <= MaxGoals /\ restarts \in 0..MaxRestarts
        /\ Len(rows) <= MaxInputs /\ open \in 0..Len(rows)
        /\ lane \in Seq(DOMAIN rows) /\ queue \in Seq(DOMAIN rows)
    BY <1>1, <1>2, <2>1
  <2>3. /\ run \in RunRecord(Len(rows))
        /\ driver \in DriverRecord(Len(rows))
        /\ question \in QuestionRecord(Len(rows))
    BY <1>1, <1>2, <2>1 DEF NoRun, Off, NoQuestion
  <2> QED BY <1>1, <2>2, <2>3 DEF Typed
<1>4. Mirror
  <2>1. OfGoal(rows, goal) = {} /\ Waiting(rows) = {} /\ BoundRows(rows) = {}
    BY <1>1, <1>2 DEF OfGoal, BoundRows, Waiting
  <2>2. rows \in Seq(Row)
    BY <1>1
  <2>3. QueueOf(rows) \in Seq({})
    BY <1>1, <1>2, <2>1, <2>2, RowsInOrder DEF QueueOf
  <2>4. QueueOf(rows) = <<>>
    BY <2>3
  <2> QED BY <1>1, <1>2, <2>1, <2>4 DEF Mirror, NoRun
<1> QED
  BY <1>1, <1>2, <1>3, <1>4
     DEF MInv, Viewed, Newest, Alone, RunOfInput, Reading, Waits, Off, NoQuestion, Pending

-----------------------------------------------------------------------------
(* Steps that leave the goal, its inputs and the open run *)

LEMMA WakeTurns ==
  ASSUME IInv, Typed, Wake
  PROVE  /\ driver' = driver \/ driver' = [at |-> "seek", input |-> 0, latch |-> Unbound]
         /\ driver'.at \in {"prepare", "run", "settle"} => driver' = driver
         /\ driver' \in DriverRecord(Len(rows))
<1>1. driver' = driver \/ driver' = [Off EXCEPT !.at = "seek"]
  BY DEF Wake
<1>2. [Off EXCEPT !.at = "seek"] = [at |-> "seek", input |-> 0, latch |-> Unbound]
  BY DEF Off
<1>3. Unbound \in Bind /\ 0 \in 0..Len(rows)
  BY Lanes, BoundsAssumption DEF Unbound, Bind
<1>4. driver' = driver \/ driver' = [at |-> "seek", input |-> 0, latch |-> Unbound]
  BY <1>1, <1>2
<1>5. driver'.at \in {"prepare", "run", "settle"} => driver' = driver
  BY <1>4
<1> QED BY <1>3, <1>4, <1>5 DEF Typed

\* What the driver finds when it looks for work.
Found == /\ driver'.input = Runnable /\ driver'.latch = rows[Runnable].bind
         /\ Ready /\ Runnable # 0

LEMMA Around ==
  ASSUME IInv, MInv, UNCHANGED <<storedGoal, rows, open, session, goal, lane, queue>>,
         Typed', Waits',
         run' = run \/ (run # NoRun /\ run'.input = run.input /\ run'.latch = run.latch),
         driver'.at = "prepare" => driver' = driver \/ Found,
         driver'.at \in {"run", "settle"} => driver.at \in {"run", "settle"}
  PROVE  MInv'
<1>1. run'.input = run.input /\ run'.latch = run.latch /\ (run' # NoRun => run # NoRun)
  OBVIOUS
<1>2. Viewed' /\ Newest'
  BY DEF MInv, Viewed, Newest
<1>3. Mirror'
  BY <1>1 DEF MInv, Mirror
<1>4. Alone' /\ RunOfInput'
  BY <1>1 DEF MInv, Alone, RunOfInput
<1>5. Reading'
  <2>1. CASE Found
    <3>1. /\ Runnable \in DOMAIN rows
          /\ rows[Runnable].bind = Unbound => goal = NoGoal
      BY <2>1, Due DEF Found
    <3> QED BY <2>1, <3>1 DEF Reading, Found
  <2>2. CASE driver' = driver
    BY <2>2 DEF MInv, Reading
  <2> QED BY <2>1, <2>2 DEF Reading
<1> QED BY <1>2, <1>3, <1>4, <1>5 DEF MInv

LEMMA AtWorkIsARun ==
  ASSUME IInv, driver.at \in {"run", "settle"} \/ run.input # 0
  PROVE  run # NoRun
<1>1. driver.at \in {"run", "settle"} => run.input \in DOMAIN rows
  BY DEF IInv, AtWork
<1>2. 0 \notin DOMAIN rows /\ NoRun.input = 0
  BY Lanes DEF NoRun
<1> QED BY <1>1, <1>2

LEMMA DriverLooks == ASSUME IInv, MInv, ResumeQueue \/ Seek \/ Stale PROVE MInv'
<1>1. CASE ResumeQueue
  <2>1. UNCHANGED <<stored, session, goal, lane, queue, run, goals, restarts>> /\ Wake
        /\ resume' = FALSE /\ paused' = FALSE
    BY <1>1 DEF ResumeQueue
  <2>2. Typed'
    <3>1. driver' \in DriverRecord(Len(rows))
      BY <2>1, WakeTurns DEF MInv
    <3>2. resume' \in BOOLEAN /\ paused' \in BOOLEAN
      BY <2>1
    <3> QED BY <2>1, <3>1, <3>2 DEF MInv, Typed, stored
  <2>3. Waits'
    BY <2>1 DEF MInv, Waits, Pending, stored
  <2> QED BY <2>1, <2>2, <2>3, WakeTurns, Around DEF stored, MInv
<1>2. CASE Seek
  <2>1. UNCHANGED <<stored, session, goal, lanes, run, goals, restarts>>
    BY <1>2 DEF Seek
  <2>2. \/ /\ driver' = [at |-> "prepare", input |-> Runnable, latch |-> rows[Runnable].bind]
           /\ Found
        \/ driver' = Off
    BY <1>2 DEF Seek, Found
  <2>3. driver' \in DriverRecord(Len(rows))
    <3>1. CASE driver' = Off
      BY <3>1, Lanes, BoundsAssumption DEF Off, Unbound, Bind
    <3>2. CASE Found
      <4>1. Runnable \in DOMAIN rows
        BY <3>2, Due DEF Found
      <4> QED BY <2>2, <3>1, <4>1, BindOf, Lanes DEF MInv
    <3> QED BY <2>2, <3>1, <3>2
  <2>4. Typed' /\ Waits'
    BY <2>1, <2>3 DEF MInv, Typed, Waits, Pending, stored, lanes
  <2>5. driver'.at \in {"off", "prepare"} /\ (driver'.at = "prepare" => Found)
    BY <2>2 DEF Off
  <2> QED BY <2>1, <2>4, <2>5, Around DEF stored, lanes
<1>3. CASE Stale
  <2>1. /\ UNCHANGED <<stored, session, goal, lanes, run, goals, restarts>>
        /\ driver' = [at |-> "seek", input |-> 0, latch |-> Unbound]
    BY <1>3 DEF Stale, Off
  <2>2. driver' \in DriverRecord(Len(rows))
    BY <2>1, Lanes, BoundsAssumption DEF Unbound, Bind
  <2>3. Typed' /\ Waits'
    BY <2>1, <2>2 DEF MInv, Typed, Waits, Pending, stored, lanes
  <2> QED BY <2>1, <2>3, Around DEF stored, lanes
<1> QED BY <1>1, <1>2, <1>3

LEMMA RunLives ==
  ASSUME IInv, MInv, UNCHANGED <<storedGoal, rows, open, session, goal, lane, queue, resume>>,
         UNCHANGED <<question, goals, restarts>>,
         paused' \in BOOLEAN, run # NoRun, run'.input = run.input, run'.latch = run.latch,
         run' \in RunRecord(Len(rows)),
         \/ driver' = driver
         \/ driver' = [driver EXCEPT !.at = "settle"] /\ driver.at = "run"
  PROVE  MInv'
<1>1. /\ driver' \in DriverRecord(Len(rows))
      /\ driver'.at \in {"prepare"} => driver' = driver
      /\ driver'.at \in {"run", "settle"} => driver.at \in {"run", "settle"}
  BY DEF MInv, Typed
<1>2. Typed' /\ Waits'
  BY <1>1 DEF MInv, Typed, Waits, Pending
<1> QED BY <1>1, <1>2, Around

LEMMA RunSteps ==
  ASSUME IInv, MInv,
         \/ CancelRun \/ InterruptRun
         \/ \E status \in {"complete", "blocked"} : Signal(status)
         \/ \E outcome \in {"completed", "failed", "cancelled", "broken", "lost", "returned"} :
              EndTurn(outcome)
  PROVE  MInv'
<1>1. run \in RunRecord(Len(rows))
  BY DEF MInv, Typed
<1>2. CASE CancelRun \/ InterruptRun
  <2>1. /\ UNCHANGED <<storedGoal, rows, open, session, goal, lane, queue, resume, question, driver,
                       goals, restarts>>
        /\ run # NoRun /\ paused' \in BOOLEAN
    BY <1>2 DEF CancelRun, InterruptRun, stored, lanes, MInv, Typed
  <2>2. PICK c \in BOOLEAN : run' = [run EXCEPT !.cancelled = c]
    <3>1. run.cancelled \in BOOLEAN
      BY <1>1
    <3> QED BY <1>2, <3>1 DEF CancelRun, InterruptRun, WorksForTheGoal
  <2>3. run' \in RunRecord(Len(rows)) /\ run'.input = run.input /\ run'.latch = run.latch
    BY <1>1, <2>2
  <2> QED BY <2>1, <2>3, RunLives
<1>3. CASE \E status \in {"complete", "blocked"} : Signal(status)
  <2>1. PICK status \in {"complete", "blocked"} : Signal(status)
    BY <1>3
  <2>2. /\ UNCHANGED <<storedGoal, rows, open, session, goal, lane, queue, resume, question, driver,
                       goals, restarts, paused>>
        /\ run # NoRun /\ run' = [run EXCEPT !.signal = status]
    BY <2>1, AtWorkIsARun DEF Signal, stored, lanes
  <2>3. /\ run' \in RunRecord(Len(rows)) /\ run'.input = run.input /\ run'.latch = run.latch
        /\ paused' \in BOOLEAN
    BY <1>1, <2>2 DEF MInv, Typed
  <2> QED BY <2>2, <2>3, RunLives
<1>4. CASE \E outcome \in {"completed", "failed", "cancelled", "broken", "lost", "returned"} :
             EndTurn(outcome)
  <2>1. PICK outcome \in {"completed", "failed", "cancelled", "broken", "lost", "returned"} :
               EndTurn(outcome)
    BY <1>4
  <2>2. /\ UNCHANGED <<storedGoal, rows, open, session, goal, lane, queue, resume, question,
                       goals, restarts, paused>>
        /\ run # NoRun /\ run' = [run EXCEPT !.outcome = outcome]
        /\ driver' = [driver EXCEPT !.at = "settle"] /\ driver.at = "run"
    BY <2>1, AtWorkIsARun DEF EndTurn, stored, lanes
  <2>3. /\ run' \in RunRecord(Len(rows)) /\ run'.input = run.input /\ run'.latch = run.latch
        /\ paused' \in BOOLEAN
    BY <1>1, <2>2 DEF MInv, Typed
  <2> QED BY <2>2, <2>3, RunLives
<1> QED BY <1>2, <1>3, <1>4

\* The question waits in the run that is open.
LEMMA QuestionSteps ==
  ASSUME IInv, MInv, AnswerWait \/ Dismiss \/ \E mode \in {"wait", "end"} : Ask(mode)
  PROVE  MInv'
<1>1. question \in QuestionRecord(Len(rows)) /\ run.input \in 0..Len(rows) /\ Len(rows) \in Nat
  BY Lanes DEF MInv, Typed
<1>2. CASE AnswerWait
  <2>1. /\ UNCHANGED <<storedGoal, rows, open, session, goal, lanes, run, driver, goals, restarts>>
        /\ question' = [of |-> 0, mode |-> "none", status |-> "none"]
    BY <1>2 DEF AnswerWait, NoQuestion
  <2>2. question' \in QuestionRecord(Len(rows))
    BY <1>1, <2>1
  <2>3. Typed' /\ Waits'
    BY <2>1, <2>2 DEF MInv, Typed, Waits, Pending, lanes
  <2> QED BY <2>1, <2>3, Around DEF lanes
<1>3. CASE Dismiss
  <2>1. /\ UNCHANGED <<storedGoal, rows, open, session, goal, lane, queue, resume, driver>>
        /\ UNCHANGED <<goals, restarts>>
        /\ question' = [question EXCEPT !.status = "dismissed"] /\ paused' = TRUE
        /\ run' = [run EXCEPT !.cancelled = run.cancelled \/ question.mode = "wait"]
        /\ Pending /\ session = "ready"
    BY <1>3 DEF Dismiss, Ready
  <2>2. question' \in QuestionRecord(Len(rows)) /\ question'.status = "dismissed"
    BY <1>1, <2>1
  <2>3. run \in RunRecord(Len(rows))
    BY DEF MInv, Typed
  <2>4. /\ run'.input = run.input /\ run'.latch = run.latch
        /\ run' \in RunRecord(Len(rows))
    BY <2>1, <2>3
  <2>5. run' = run \/ run # NoRun
    <3>1. CASE question.mode = "wait"
      <4>1. run.input # 0
        BY <2>1, <3>1 DEF MInv, Waits, Mirror
      <4> QED BY <4>1, AtWorkIsARun
    <3>2. CASE question.mode # "wait"
      <4>1. run.cancelled \in BOOLEAN
        BY <2>3
      <4>2. (run.cancelled \/ question.mode = "wait") = run.cancelled
        BY <3>2, <4>1
      <4> QED BY <2>1, <2>3, <4>2
    <3> QED BY <3>1, <3>2
  <2>6. Typed' /\ Waits'
    BY <2>1, <2>2, <2>4 DEF MInv, Typed, Waits, Pending
  <2> QED BY <2>1, <2>4, <2>5, <2>6, Around
<1>4. CASE \E mode \in {"wait", "end"} : Ask(mode)
  <2>1. PICK mode \in {"wait", "end"} : Ask(mode)
    BY <1>4
  <2>2. /\ UNCHANGED <<storedGoal, rows, open, session, goal, lanes, run, driver, goals, restarts>>
        /\ question' = [of |-> run.input, mode |-> mode, status |-> "pending"]
        /\ driver.at = "run" /\ session = "ready"
    BY <2>1 DEF Ask, IInv, InService
  <2>3. question' \in QuestionRecord(Len(rows))
    BY <1>1, <2>2
  <2>4. open = run.input /\ run.input # 0
    <3>1. run.input \in DOMAIN rows
      BY <2>2 DEF IInv, AtWork
    <3> QED BY <2>2, <3>1, Lanes DEF MInv, Mirror
  <2>5. Typed' /\ Waits'
    BY <2>2, <2>3, <2>4 DEF MInv, Typed, Waits, Pending, lanes
  <2> QED BY <2>2, <2>5, Around DEF lanes
<1> QED BY <1>2, <1>3, <1>4

-----------------------------------------------------------------------------
(* Inputs that come *)

\* What a row that is added last changes of what waits.
LEMMA RowComes ==
  ASSUME IInv, NEW x \in Row, x.state = "queued", rows' = Append(rows, x)
  PROVE  /\ rows' \in Seq(Row) /\ Len(rows') = Len(rows) + 1 /\ Len(rows) \in Nat
         /\ DOMAIN rows \subseteq DOMAIN rows'
         /\ Len(rows) + 1 \in DOMAIN rows' /\ Len(rows) + 1 \notin DOMAIN rows
         /\ \A i \in DOMAIN rows : rows'[i] = rows[i]
         /\ rows'[Len(rows) + 1] = x
         /\ x.bind = Unbound =>
              /\ QueueOf(rows') = Append(QueueOf(rows), Len(rows) + 1)
              /\ BoundRows(rows') = BoundRows(rows)
         /\ x.bind # Unbound =>
              /\ QueueOf(rows') = QueueOf(rows)
              /\ BoundRows(rows') = BoundRows(rows) \cup {Len(rows) + 1}
<1> DEFINE n == Len(rows) + 1
           W == Waiting(rows)
           B == BoundRows(rows)
<1>1. /\ rows \in Seq(Row) /\ Len(rows) \in Nat /\ DOMAIN rows = 1..Len(rows)
      /\ W \in SUBSET DOMAIN rows /\ B \in SUBSET W
  BY Lanes
<1>2. /\ rows' \in Seq(Row) /\ Len(rows') = Len(rows) + 1 /\ DOMAIN rows' = 1..(Len(rows) + 1)
      /\ \A i \in 1..Len(rows) : rows'[i] = rows[i]
      /\ rows'[n] = x
  BY <1>1, AppendRow
<1>3. n \notin DOMAIN rows /\ DOMAIN rows' = DOMAIN rows \cup {n}
  BY <1>1, <1>2
<1> HIDE DEF n
<1>4. Waiting(rows') = Waiting(rows) \cup {n}
  BY <1>1, <1>2, <1>3 DEF Waiting
<1>5. BoundRows(rows') = IF x.bind = Unbound THEN BoundRows(rows) ELSE BoundRows(rows) \cup {n}
  <2>1. CASE x.bind = Unbound
    BY <2>1, <1>1, <1>2, <1>3, <1>4 DEF BoundRows
  <2>2. CASE x.bind # Unbound
    BY <2>2, <1>1, <1>2, <1>3, <1>4 DEF BoundRows
  <2> QED BY <2>1, <2>2
<1>6. Waiting(rows') \ BoundRows(rows') = IF x.bind = Unbound THEN (W \ B) \cup {n} ELSE W \ B
  <2>1. n \notin W /\ n \notin B
    BY <1>1, <1>3
  <2> QED BY <2>1, <1>4, <1>5
<1>7. /\ InOrder(rows', W \ B) = QueueOf(rows)
      /\ InOrder(rows', (W \ B) \cup {n}) = Append(QueueOf(rows), n)
  <2> DEFINE S == W \ B
  <2>1. S \in SUBSET DOMAIN rows
    BY <1>1
  <2> HIDE DEF S
  <2>2. /\ InOrder(rows', S) = InOrder(rows, S)
        /\ InOrder(rows', S \cup {Len(rows) + 1}) = Append(InOrder(rows, S), Len(rows) + 1)
    BY <1>1, <2>1, RowAdded
  <2> QED BY <2>2 DEF S, n, QueueOf
<1>8. QueueOf(rows') = IF x.bind = Unbound THEN Append(QueueOf(rows), n) ELSE QueueOf(rows)
  BY <1>6, <1>7 DEF QueueOf
<1> QED BY <1>1, <1>2, <1>3, <1>5, <1>8 DEF n

\* What an input that comes leaves of the rest of the session.
LEMMA RestStays ==
  ASSUME IInv, MInv, Ready, NEW x \in Row, x.state = "queued", rows' = Append(rows, x), Wake,
         Len(rows) < MaxInputs, UNCHANGED <<open, session, run, restarts>>,
         question' = question \/ question' = NoQuestion,
         goal'.id <= goals', goals' <= MaxGoals, resume' \in BOOLEAN, paused' \in BOOLEAN,
         \/ lane' = lane /\ queue' = Append(queue, Len(rows) + 1)
         \/ lane' = Append(lane, Len(rows) + 1) /\ queue' = queue
  PROVE  /\ Typed' /\ Viewed' /\ RunOfInput' /\ Waits'
         /\ driver'.at \in {"prepare", "run", "settle"} => driver' = driver
<1> DEFINE n == Len(rows) + 1
<1>1. /\ Len(rows') = n /\ Len(rows) \in Nat /\ DOMAIN rows \subseteq DOMAIN rows'
      /\ n \in DOMAIN rows' /\ \A i \in DOMAIN rows : rows'[i] = rows[i]
  BY RowComes
<1>2. 0..Len(rows) \subseteq 0..Len(rows') /\ Len(rows') <= MaxInputs
  BY <1>1, BoundsAssumption
<1>3. /\ driver' \in DriverRecord(Len(rows))
      /\ driver'.at \in {"prepare", "run", "settle"} => driver' = driver
  BY WakeTurns DEF MInv
<1> HIDE DEF n
<1>4. lane' \in Seq(DOMAIN rows') /\ queue' \in Seq(DOMAIN rows')
  <2>1. lane \in Seq(DOMAIN rows) /\ queue \in Seq(DOMAIN rows)
    BY DEF MInv, Typed
  <2>2. lane \in Seq(DOMAIN rows') /\ queue \in Seq(DOMAIN rows')
    <3> DEFINE D == DOMAIN rows
               E == DOMAIN rows'
    <3>1. D \subseteq E /\ lane \in Seq(D) /\ queue \in Seq(D)
      BY <1>1, <2>1
    <3> HIDE DEF D, E
    <3>2. lane \in Seq(E) /\ queue \in Seq(E)
      BY <3>1
    <3> QED BY <3>2 DEF E
  <2>3. /\ lane' = lane \/ lane' = Append(lane, n)
        /\ queue' = queue \/ queue' = Append(queue, n)
    BY DEF n
  <2> DEFINE E == DOMAIN rows'
  <2>4. n \in E /\ lane \in Seq(E) /\ queue \in Seq(E)
    BY <1>1, <2>2
  <2> HIDE DEF E
  <2>5. Append(lane, n) \in Seq(E) /\ Append(queue, n) \in Seq(E)
    BY <2>4
  <2> QED BY <2>3, <2>4, <2>5 DEF E
<1>5. question' \in QuestionRecord(Len(rows))
  <2>1. NoQuestion \in QuestionRecord(Len(rows))
    BY <1>1 DEF NoQuestion
  <2> QED BY <2>1 DEF MInv, Typed
<1>6. Typed'
  <2>1. /\ run' \in RunRecord(Len(rows))
        /\ open' \in 0..Len(rows) /\ restarts' \in 0..MaxRestarts
        /\ session' \in {"cold", "viewed", "ready", "faulted"}
    BY DEF MInv, Typed
  <2>2. /\ run' \in RunRecord(Len(rows'))
        /\ driver' \in DriverRecord(Len(rows'))
        /\ question' \in QuestionRecord(Len(rows'))
        /\ open' \in 0..Len(rows')
    BY <1>2, <1>3, <1>5, <2>1
  <2> QED BY <1>2, <1>4, <2>1, <2>2 DEF Typed
<1>7. Viewed'
  BY DEF Ready, Viewed
<1>8. RunOfInput'
  BY <1>1 DEF MInv, RunOfInput
<1>9. Waits'
  BY DEF MInv, Waits, Pending, NoQuestion
<1> QED BY <1>3, <1>6, <1>7, <1>8, <1>9

LEMMA PlainMInv ==
  ASSUME IInv, MInv, AcceptPlain, Ready, question' = question \/ question' = NoQuestion
  PROVE  MInv'
<1> DEFINE row == [origin |-> "user", bind |-> Unbound, state |-> "queued"]
<1>1. /\ rows' = Append(rows, row) /\ queue' = Append(queue, Len(rows) + 1) /\ Wake
      /\ UNCHANGED <<storedGoal, open, session, goal, lane, run, goals, restarts>>
      /\ paused' = FALSE /\ resume' = (resume \/ goal # NoGoal) /\ Len(rows) < MaxInputs
  BY DEF AcceptPlain, AcceptRow
<1>2. row \in Row /\ row.state = "queued" /\ row.bind = Unbound
  BY DEF Row, Unbound
<1> HIDE DEF row
<1>3. goal.id <= goals /\ goals <= MaxGoals /\ resume' \in BOOLEAN
  BY <1>1 DEF MInv, Typed
<1>4. /\ Typed' /\ Viewed' /\ RunOfInput' /\ Waits'
      /\ driver'.at \in {"prepare", "run", "settle"} => driver' = driver
  BY <1>1, <1>2, <1>3, RestStays
<1>5. /\ \A i \in DOMAIN rows : i \in DOMAIN rows' /\ rows'[i] = rows[i]
      /\ QueueOf(rows') = Append(QueueOf(rows), Len(rows) + 1)
      /\ BoundRows(rows') = BoundRows(rows)
  BY <1>1, <1>2, RowComes
<1>6. lane \in Seq(DOMAIN rows) /\ \A k \in DOMAIN lane : lane[k] \in DOMAIN rows
  BY DEF MInv, Typed
<1>7. Mirror'
  <2>1. OfGoal(rows', goal') = OfGoal(rows, goal)
    BY <1>1, <1>5, Lanes DEF OfGoal
  <2> QED BY <1>1, <1>5, <2>1 DEF MInv, Mirror
<1>8. Newest'
  BY <1>1, <1>5, <1>6 DEF MInv, Newest
<1>9. Alone'
  BY <1>1, <1>4, <1>5 DEF MInv, Alone, IInv, AtWork
<1>10. Reading'
  <2>1. lane # <<>> => Head(lane) \in DOMAIN rows
    BY <1>6
  <2> QED BY <1>1, <1>4, <1>5, <2>1 DEF MInv, Reading
<1> QED BY <1>4, <1>7, <1>8, <1>9, <1>10 DEF MInv

\* An input for a goal that is started, or resumed: the goal has a new binding.
LEMMA BoundMInv ==
  ASSUME IInv, MInv, Ready, NEW origin \in {"user", "runtime"}, NEW next, Fresh(next),
         AcceptBound(origin, next), question' = question \/ question' = NoQuestion,
         goals' <= MaxGoals, paused' \in BOOLEAN,
         \/ goal = NoGoal /\ next.id > goals /\ origin = "user"
         \/ goal # NoGoal /\ next.id = goal.id
  PROVE  MInv'
<1> DEFINE row == [origin |-> origin, bind |-> Binding(next), state |-> "queued"]
           n == Len(rows) + 1
<1>1. /\ rows' = Append(rows, row) /\ lane' = Append(lane, n) /\ Wake
      /\ UNCHANGED <<open, session, queue, resume, run, restarts>>
      /\ goal' = next /\ storedGoal' = next /\ Len(rows) < MaxInputs
  BY DEF AcceptBound, AcceptRow
<1>2. row \in Row /\ row.state = "queued" /\ row.bind = Binding(next) /\ row.origin = origin
  BY FreshBinding DEF Row
<1> HIDE DEF row
<1>3. /\ Binding(next) # Unbound /\ Binding(next).id = next.id /\ next.id <= goals'
      /\ next.id \in Nat /\ next.id # 0 /\ NoGoal.id = 0
      /\ \A i \in DOMAIN rows : rows[i].bind # Binding(next)
  BY FreshBinding DEF Fresh, Binding, NoGoal, GoalRecord
<1>4. /\ Typed' /\ Viewed' /\ RunOfInput' /\ Waits'
      /\ driver'.at \in {"prepare", "run", "settle"} => driver' = driver
  <2>1. resume' \in BOOLEAN /\ goal'.id <= goals'
    BY <1>1, <1>3 DEF MInv, Typed
  <2> QED BY <1>1, <1>2, <2>1, RestStays
<1>5. /\ \A i \in DOMAIN rows : i \in DOMAIN rows' /\ rows'[i] = rows[i]
      /\ n \in DOMAIN rows' /\ n \notin DOMAIN rows /\ rows'[n] = row
      /\ QueueOf(rows') = QueueOf(rows)
      /\ BoundRows(rows') = BoundRows(rows) \cup {n}
  BY <1>1, <1>2, <1>3, RowComes
<1> HIDE DEF n
<1>6. lane \in Seq(DOMAIN rows) /\ \A k \in DOMAIN lane : lane[k] \in DOMAIN rows
  BY DEF MInv, Typed
<1>7. ToSet(lane) = OfGoal(rows, goal) /\ queue = QueueOf(rows) /\ run.input = open
  BY DEF MInv, Mirror, Ready
<1>8. OfGoal(rows, next) = OfGoal(rows, goal)
  <2>1. CASE goal # NoGoal /\ next.id = goal.id
    BY <2>1 DEF OfGoal
  <2>2. CASE goal = NoGoal /\ next.id > goals
    <3>1. ASSUME NEW i \in BoundRows(rows) PROVE rows[i].bind.id # next.id
      <4>1. i \in DOMAIN rows
        BY <3>1, Lanes
      <4>2. rows[i].bind.id \in Nat /\ rows[i].bind.id <= goals /\ goals \in Nat
        BY <4>1, RowOf DEF IInv, Numbered, Shape
      <4> QED BY <4>2, <2>2, <1>3
    <3>2. OfGoal(rows, next) = {}
      BY <3>1 DEF OfGoal
    <3> QED BY <2>2, <3>2, Lanes
  <2> QED BY <2>1, <2>2
<1>9. Mirror'
  <2>1. OfGoal(rows', next) = OfGoal(rows, next) \cup {n}
    BY <1>2, <1>3, <1>5, Lanes DEF OfGoal
  <2>2. ToSet(lane') = ToSet(lane) \cup {n}
    BY <1>1, <1>6, ToSetOfAppend
  <2> QED BY <1>1, <1>5, <1>7, <1>8, <2>1, <2>2 DEF Mirror
<1>10. /\ Len(lane') = Len(lane) + 1 /\ DOMAIN lane' = 1..(Len(lane) + 1)
       /\ \A k \in 1..Len(lane) : k \in DOMAIN lane /\ lane'[k] = lane[k]
       /\ Len(lane) \in Nat
       /\ lane' # <<>> /\ (lane = <<>> => Head(lane') = n)
       /\ (lane # <<>> => Head(lane') = Head(lane))
  BY <1>1, <1>6
<1>11. Newest'
  <2> SUFFICES ASSUME NEW k \in DOMAIN lane', rows'[lane'[k]].bind = Binding(next)
               PROVE  k = Len(lane')
    BY <1>1 DEF Newest
  <2>1. CASE k \in 1..Len(lane)
    <3>1. lane'[k] \in DOMAIN rows
      BY <2>1, <1>6, <1>10
    <3> QED BY <3>1, <1>3, <1>5
  <2> QED BY <2>1, <1>10
<1>12. Alone'
  BY <1>1, <1>3, <1>4, <1>5 DEF Alone, IInv, AtWork
<1>13. Reading'
  <2> SUFFICES ASSUME driver'.at = "prepare" PROVE Reading'
    BY DEF Reading
  <2>1. /\ driver' = driver /\ driver.at = "prepare" /\ driver.input \in DOMAIN rows
        /\ driver.latch # Unbound => rows[driver.input].bind = driver.latch
    BY <1>4 DEF MInv, Reading
  <2>2. CASE goal = NoGoal /\ origin = "user"
    <3>1. lane = <<>>
      <4>1. ToSet(lane) = {}
        BY <1>7, <2>2, Lanes
      <4>2. DOMAIN lane = {}
        BY <4>1 DEF ToSet
      <4> QED BY <1>6, <4>2
    <3>2. Head(lane') = n /\ n # driver.input /\ rows'[n].origin = "user"
      BY <3>1, <2>1, <2>2, <1>2, <1>5, <1>10
    <3> QED BY <2>1, <3>2, <1>5, <1>10 DEF Reading
  <2>3. CASE goal # NoGoal
    <3>1. driver.latch = Unbound =>
            /\ lane # <<>> /\ Head(lane) \in DOMAIN rows
            /\ Head(lane) # driver.input /\ rows[Head(lane)].origin = "user"
      BY <2>1, <2>3, <1>6 DEF MInv, Reading
    <3> QED BY <2>1, <3>1, <1>5, <1>10 DEF Reading
  <2> QED BY <2>2, <2>3
<1> QED BY <1>4, <1>9, <1>11, <1>12, <1>13 DEF MInv

LEMMA AcceptsMInv ==
  ASSUME IInv, MInv, Submit \/ StartGoal \/ ResumeWithMessage \/ ResumeWithoutInput \/ AnswerEnd
  PROVE  MInv'
<1>1. CASE Submit
  BY <1>1, PlainMInv DEF Submit
<1>2. CASE StartGoal
  <2> DEFINE next == NewGoal(goals + 1)
  <2>1. goals \in Nat /\ goals' = goals + 1 /\ goals < MaxGoals /\ MaxGoals \in Nat
    BY <1>2, BoundsAssumption DEF IInv, Shape, StartGoal
  <2>2. next = [id |-> goals + 1, running |-> TRUE, gen |-> 1, used |-> 0, fails |-> 0]
    BY DEF NewGoal
  <2>3. ~storedGoal.running /\ goal = NoGoal /\ Ready /\ paused' = FALSE /\ question' = question
        /\ AcceptBound("user", next)
    BY <1>2 DEF StartGoal, Ready, IInv, InService, NoGoal
  <2> HIDE DEF next
  <2>4. Fresh(next) /\ next.id > goals /\ goals' <= MaxGoals
    BY <2>1, <2>2, <2>3 DEF Fresh, GoalRecord
  <2> QED BY <2>3, <2>4, BoundMInv
<1>3. ASSUME NEW origin \in {"user", "runtime"}, MayResume, goals' = goals,
             AcceptBound(origin, Resumed(goal)),
             question' = question \/ question' = NoQuestion, paused' \in BOOLEAN
      PROVE  MInv'
  <2>1. Fresh(Resumed(goal)) /\ Ready /\ goal # NoGoal /\ goals' <= MaxGoals
    BY <1>3, ResumedIsFresh DEF MayResume, MInv, Typed
  <2>2. Resumed(goal).id = goal.id
    BY GoalSteps DEF IInv, Shape
  <2> QED BY <1>3, <2>1, <2>2, BoundMInv
<1>4. CASE ResumeWithMessage
  BY <1>3, <1>4 DEF ResumeWithMessage, AcceptResuming
<1>5. CASE ResumeWithoutInput
  <2>1. paused' \in BOOLEAN
    BY <1>5 DEF ResumeWithoutInput, MInv, Typed
  <2> QED BY <1>3, <1>5, <2>1 DEF ResumeWithoutInput
<1>6. CASE AnswerEnd
  <2>1. CASE goal = NoGoal
    BY <1>6, <2>1, PlainMInv DEF AnswerEnd
  <2>2. CASE goal # NoGoal
    BY <1>3, <1>6, <2>2 DEF AnswerEnd, AcceptResuming
  <2> QED BY <2>1, <2>2
<1> QED BY <1>1, <1>2, <1>4, <1>5, <1>6

-----------------------------------------------------------------------------
(* Inputs that leave a lane, or change theirs *)

\* What waits outside of the goal's lane, once some of it has gone or been bound.
LEMMA QueueShrinks ==
  ASSUME IInv, rows' \in Seq(Row), Len(rows') = Len(rows), NEW gone,
         Waiting(rows') \ BoundRows(rows') = (Waiting(rows) \ BoundRows(rows)) \ gone
  PROVE  QueueOf(rows') = Minus(QueueOf(rows), gone)
<1> DEFINE S == Waiting(rows) \ BoundRows(rows)
<1>1. rows \in Seq(Row) /\ S \in SUBSET DOMAIN rows
  BY Lanes
<1> HIDE DEF S
<1>2. InOrder(rows', S \ gone) = Minus(InOrder(rows, S), gone)
  BY <1>1, RowsLeave
<1> QED BY <1>2 DEF S, QueueOf

LEMMA SameLength ==
  ASSUME NEW r \in Seq(Row), NEW q \in Seq(Row), DOMAIN q = DOMAIN r
  PROVE  Len(q) = Len(r) /\ Len(r) \in Nat
<1>1. Len(q) \in Nat /\ Len(r) \in Nat /\ 1..Len(q) = 1..Len(r)
  OBVIOUS
<1> HIDE DEF Row
<1>2. CASE Len(q) < Len(r)
  <2>1. Len(r) \in 1..Len(r) /\ Len(r) \notin 1..Len(q)
    BY <1>1, <1>2
  <2> QED BY <1>1, <2>1
<1>3. CASE Len(q) > Len(r)
  <2>1. Len(q) \in 1..Len(q) /\ Len(q) \notin 1..Len(r)
    BY <1>1, <1>3
  <2> QED BY <1>1, <2>1
<1> QED BY <1>1, <1>2, <1>3

\* The driver may be woken, and all that the types say of the rows is their number.
LEMMA TypesStay ==
  ASSUME IInv, Typed, Len(rows') = Len(rows), DOMAIN rows' = DOMAIN rows,
         lane' \in Seq(DOMAIN rows), queue' \in Seq(DOMAIN rows),
         UNCHANGED <<open, restarts, goals>>,
         goal'.id \in {0, goal.id}, session' \in {"cold", "viewed", "ready", "faulted"},
         resume' \in BOOLEAN, paused' \in BOOLEAN,
         question' = question \/ question' = NoQuestion,
         run' = run \/ run' = NoRun \/ \E c \in BOOLEAN : run' = [run EXCEPT !.cancelled = c],
         driver' = driver \/ driver' = Off \/ driver' = [Off EXCEPT !.at = "seek"]
  PROVE  Typed'
<1>1. Len(rows) \in Nat /\ Unbound \in Bind
  BY Lanes, BoundsAssumption DEF Unbound, Bind
<1>2. question' \in QuestionRecord(Len(rows))
  BY <1>1 DEF Typed, NoQuestion
<1>3. driver' \in DriverRecord(Len(rows))
  <2>1. /\ Off = [at |-> "off", input |-> 0, latch |-> Unbound]
        /\ [Off EXCEPT !.at = "seek"] = [at |-> "seek", input |-> 0, latch |-> Unbound]
    BY DEF Off
  <2>2. driver \in DriverRecord(Len(rows)) /\ 0 \in 0..Len(rows)
    BY <1>1 DEF Typed
  <2>3. CASE driver' = driver
    BY <2>2, <2>3
  <2>4. CASE driver' = Off
    BY <1>1, <2>1, <2>2, <2>4
  <2>5. CASE driver' = [Off EXCEPT !.at = "seek"]
    BY <1>1, <2>1, <2>2, <2>5
  <2> QED BY <2>3, <2>4, <2>5
<1>4. run' \in RunRecord(Len(rows))
  <2>1. CASE run' = run
    BY <2>1 DEF Typed
  <2>2. CASE run' = NoRun
    BY <2>2, <1>1 DEF NoRun
  <2>3. CASE \E c \in BOOLEAN : run' = [run EXCEPT !.cancelled = c]
    <3>1. PICK c \in BOOLEAN : run' = [run EXCEPT !.cancelled = c]
      BY <2>3
    <3> QED BY <3>1 DEF Typed
  <2> QED BY <2>1, <2>2, <2>3
<1>5. goal'.id <= goals'
  <2>1. goal.id <= goals /\ goals \in Nat
    BY DEF Typed, IInv, Shape
  <2>2. goals' = goals /\ goal'.id \in {0, goal.id}
    OBVIOUS
  <2> QED BY <2>1, <2>2
<1> QED BY <1>2, <1>3, <1>4, <1>5 DEF Typed

LEMMA HeldMInv == ASSUME IInv, MInv, NEW i \in DOMAIN rows, ResumeWithHeldInput(i) PROVE MInv'
<1> DEFINE next == Resumed(goal)
<1>1. Fresh(next) /\ Ready /\ goal = storedGoal /\ goal # NoGoal
  BY ResumedIsFresh DEF ResumeWithHeldInput, MayResume
<1>2. /\ rows' = [rows EXCEPT ![i].bind = Binding(next)]
      /\ goal' = next /\ storedGoal' = next /\ Wake
      /\ UNCHANGED <<open, question, session, paused, run, goals, restarts>>
      /\ queue' = Minus(queue, {i}) /\ lane' = Append(lane, i) /\ resume' = (queue' # <<>>)
      /\ rows[i].origin = "user" /\ rows[i].state = "queued" /\ rows[i].bind = Unbound
  BY DEF ResumeWithHeldInput, Held
<1>3. next.id = goal.id
  BY GoalSteps DEF IInv, Shape
<1> HIDE DEF next
<1>4. /\ Binding(next) # Unbound /\ Binding(next).id = next.id
      /\ \A j \in DOMAIN rows : rows[j].bind # Binding(next)
  BY <1>1, <1>2, FreshBinding DEF Binding
<1>5. /\ [rows[i] EXCEPT !.bind = Binding(next)] \in Row
      /\ [rows[i] EXCEPT !.bind = Binding(next)].bind = Binding(next)
      /\ [rows[i] EXCEPT !.bind = Binding(next)].state = "queued"
      /\ [rows[i] EXCEPT !.bind = Binding(next)].origin = "user"
  BY <1>1, <1>2, RowOf, FreshBinding DEF Row
<1>6. DOMAIN rows = 1..Len(rows) /\ rows \in [1..Len(rows) -> Row] /\ rows \in Seq(Row)
  BY DEF IInv, Shape
<1>7. rows' \in Seq(Row) /\ DOMAIN rows' = DOMAIN rows /\ Len(rows') = Len(rows)
  <2>1. rows' \in [1..Len(rows) -> Row] /\ DOMAIN rows' = DOMAIN rows
    BY <1>2, <1>5, <1>6
  <2>2. rows' \in Seq(Row)
    BY <2>1
  <2> QED BY <1>6, <2>1, <2>2, SameLength
<1>8. /\ \A j \in DOMAIN rows : j # i => rows'[j] = rows[j]
      /\ rows'[i].bind = Binding(next) /\ rows'[i].state = "queued" /\ rows'[i].origin = "user"
  BY <1>2, <1>5
<1>9. Waiting(rows') = Waiting(rows) /\ BoundRows(rows') = BoundRows(rows) \cup {i}
      /\ i \notin BoundRows(rows)
  <2>1. Waiting(rows') = Waiting(rows) /\ i \in Waiting(rows)
    BY <1>2, <1>7, <1>8 DEF Waiting
  <2> QED BY <2>1, <1>2, <1>4, <1>7, <1>8, Lanes DEF BoundRows
<1>10. QueueOf(rows') = Minus(QueueOf(rows), {i})
  <2>1. Waiting(rows') \ BoundRows(rows') = (Waiting(rows) \ BoundRows(rows)) \ {i}
    BY <1>9
  <2> QED BY <2>1, <1>7, QueueShrinks
<1>11. /\ lane \in Seq(DOMAIN rows) /\ queue \in Seq(DOMAIN rows)
       /\ ToSet(lane) = OfGoal(rows, goal) /\ queue = QueueOf(rows) /\ run.input = open
  BY <1>1 DEF MInv, Typed, Mirror, Ready
<1>12. \A k \in DOMAIN lane : lane[k] \in DOMAIN rows /\ lane[k] # i
  BY <1>9, <1>11, Lanes DEF ToSet
<1>13. Mirror'
  <2>1. OfGoal(rows', next) = OfGoal(rows, goal) \cup {i}
    BY <1>3, <1>4, <1>8, <1>9, Lanes DEF OfGoal
  <2>2. ToSet(lane') = ToSet(lane) \cup {i}
    BY <1>2, <1>11, ToSetOfAppend
  <2> QED BY <1>2, <1>10, <1>11, <2>1, <2>2 DEF Mirror
<1>14. /\ Len(lane') = Len(lane) + 1 /\ DOMAIN lane' = 1..(Len(lane) + 1)
       /\ \A k \in 1..Len(lane) : k \in DOMAIN lane /\ lane'[k] = lane[k]
       /\ Len(lane) \in Nat /\ lane' \in Seq(DOMAIN rows)
       /\ lane' # <<>> /\ (lane # <<>> => Head(lane') = Head(lane) /\ Head(lane) = lane[1]
                                          /\ 1 \in DOMAIN lane)
  BY <1>2, <1>11
<1>15. Newest'
  <2> SUFFICES ASSUME NEW k \in DOMAIN lane', rows'[lane'[k]].bind = Binding(next)
               PROVE  k = Len(lane')
    BY <1>2 DEF Newest
  <2>1. CASE k \in 1..Len(lane)
    <3>1. lane'[k] \in DOMAIN rows /\ lane'[k] # i
      BY <2>1, <1>12, <1>14
    <3> QED BY <3>1, <1>4, <1>8
  <2> QED BY <2>1, <1>14
<1>16. /\ driver'.at \in {"prepare", "run", "settle"} => driver' = driver
       /\ driver' = driver \/ driver' = [Off EXCEPT !.at = "seek"]
  BY <1>2, WakeTurns DEF MInv, Wake
<1>17. driver'.at \in {"run", "settle"} \/ run # NoRun =>
         run.input \in DOMAIN rows /\ run.input # i
  BY <1>2, <1>16 DEF IInv, AtWork, MInv, RunOfInput
<1>18. Alone' /\ RunOfInput'
  BY <1>2, <1>4, <1>7, <1>8, <1>17 DEF Alone, RunOfInput, MInv
<1>19. Reading'
  <2> SUFFICES ASSUME driver'.at = "prepare" PROVE Reading'
    BY DEF Reading
  <2>1. /\ driver' = driver /\ driver.input \in DOMAIN rows
        /\ driver.latch # Unbound => rows[driver.input].bind = driver.latch
        /\ driver.latch = Unbound => /\ lane # <<>> /\ Head(lane) # driver.input
                                     /\ rows[Head(lane)].origin = "user"
    BY <1>1, <1>16 DEF MInv, Reading
  <2>2. driver.latch # Unbound => rows'[driver.input].bind = driver.latch
    BY <1>2, <1>8, <2>1
  <2>3. driver.latch = Unbound => /\ lane' # <<>> /\ Head(lane') # driver.input
                                  /\ rows'[Head(lane')].origin = "user"
    BY <1>8, <1>12, <1>14, <2>1
  <2> QED BY <1>7, <2>1, <2>2, <2>3 DEF Reading
<1>20. Typed'
  <2>1. /\ queue' \in Seq(DOMAIN rows) /\ resume' \in BOOLEAN /\ paused' \in BOOLEAN
        /\ session' \in {"cold", "viewed", "ready", "faulted"}
    BY <1>2, <1>11, MinusElements DEF MInv, Typed
  <2>2. Typed
    BY DEF MInv
  <2> QED BY <1>2, <1>3, <1>7, <1>14, <1>16, <2>1, <2>2, TypesStay
<1>21. Viewed' /\ Waits'
  BY <1>1, <1>2 DEF MInv, Viewed, Waits, Pending, Ready
<1> QED BY <1>13, <1>15, <1>18, <1>19, <1>20, <1>21 DEF MInv

\* What a row that is deleted changes of what waits.
LEMMA RowsDeleted ==
  ASSUME IInv, NEW gone, rows' = Delete(rows, gone)
  PROVE  /\ rows' \in Seq(Row) /\ DOMAIN rows' = DOMAIN rows /\ Len(rows') = Len(rows)
         /\ \A j \in DOMAIN rows :
              /\ rows'[j].bind = rows[j].bind /\ rows'[j].origin = rows[j].origin
              /\ rows[j].state # "queued" => rows'[j].state # "queued"
         /\ Waiting(rows') = Waiting(rows) \ gone /\ BoundRows(rows') = BoundRows(rows) \ gone
         /\ \A g : OfGoal(rows', g) = OfGoal(rows, g) \ gone
<1>1. rows \in Seq(Row)
  BY Lanes
<1>2. /\ rows' \in Seq(Row) /\ DOMAIN rows' = DOMAIN rows
      /\ \A j \in DOMAIN rows :
           /\ rows'[j].bind = rows[j].bind /\ rows'[j].origin = rows[j].origin
           /\ j \in gone => rows'[j].state = "deleted"
           /\ j \notin gone => rows'[j] = rows[j]
  BY <1>1, DeleteRows
<1>3. Len(rows') = Len(rows)
  BY <1>1, <1>2, SameLength
<1>4. Waiting(rows') = Waiting(rows) \ gone
  BY <1>2 DEF Waiting
<1>5. BoundRows(rows') = BoundRows(rows) \ gone
  BY <1>2, <1>4, Lanes DEF BoundRows
<1>6. ASSUME NEW g PROVE OfGoal(rows', g) = OfGoal(rows, g) \ gone
  BY <1>2, <1>5, Lanes DEF OfGoal
<1> QED BY <1>2, <1>3, <1>4, <1>5, <1>6

LEMMA StopMInv == ASSUME IInv, MInv, StopGoal PROVE MInv'
<1> DEFINE C == Continuations(rows, goal)
<1>1. /\ session = "ready" /\ goal.running /\ goal = storedGoal /\ goal \in GoalRecord
      /\ goal.id # 0 /\ goal # NoGoal /\ goal.gen \in Nat
  BY DEF StopGoal, Ready, IInv, InService, Numbered, Shape, NoGoal, GoalRecord
<1>2. /\ goal' = Paused(goal) /\ storedGoal' = goal' /\ rows' = Delete(rows, C)
      /\ lane' = Minus(lane, C)
      /\ run' = [run EXCEPT !.cancelled = run.cancelled \/ OpenRunOf(goal)]
      /\ resume' = (queue # <<>>)
      /\ UNCHANGED <<open, question, session, queue, paused, driver, goals, restarts>>
  BY DEF StopGoal
<1>3. goal'.id = goal.id /\ goal'.gen = goal.gen + 1 /\ goal'.running = FALSE
  BY <1>1, <1>2, GoalSteps
<1>4. C \subseteq BoundRows(rows) /\ \A i \in C : rows[i].origin = "runtime"
  <2>1. Binding(goal) # Unbound
    BY <1>1 DEF Binding, Unbound
  <2> QED BY <2>1 DEF Continuations, BoundRows
<1> HIDE DEF C
<1>5. /\ rows' \in Seq(Row) /\ DOMAIN rows' = DOMAIN rows /\ Len(rows') = Len(rows)
      /\ \A j \in DOMAIN rows :
           /\ rows'[j].bind = rows[j].bind /\ rows'[j].origin = rows[j].origin
           /\ rows[j].state # "queued" => rows'[j].state # "queued"
      /\ Waiting(rows') = Waiting(rows) \ C /\ BoundRows(rows') = BoundRows(rows) \ C
      /\ \A g : OfGoal(rows', g) = OfGoal(rows, g) \ C
  BY <1>2, RowsDeleted
<1>6. QueueOf(rows') = QueueOf(rows)
  <2>1. Waiting(rows') \ BoundRows(rows') = Waiting(rows) \ BoundRows(rows)
    BY <1>4, <1>5
  <2> QED BY <1>5, <2>1 DEF QueueOf, InOrder
<1>7. /\ lane \in Seq(DOMAIN rows) /\ ToSet(lane) = OfGoal(rows, goal)
      /\ queue = QueueOf(rows) /\ run.input = open /\ queue \in Seq(DOMAIN rows)
  BY <1>1 DEF MInv, Typed, Mirror
<1>8. lane' \in Seq(DOMAIN rows) /\ ToSet(lane') = ToSet(lane) \ C
  BY <1>2, <1>7, MinusElements
<1>9. PICK c \in BOOLEAN : run' = [run EXCEPT !.cancelled = c] /\ (run = NoRun => c = run.cancelled)
  <2>1. run.cancelled \in BOOLEAN /\ OpenRunOf(goal) \in BOOLEAN
    BY DEF IInv, Shape, OpenRunOf
  <2>2. run = NoRun => ~OpenRunOf(goal) /\ run.cancelled = FALSE
    BY <1>7 DEF OpenRunOf, NoRun
  <2> QED BY <1>2, <2>1, <2>2
<1>10. run'.input = run.input /\ run'.latch = run.latch /\ (run' # NoRun => run # NoRun)
  <2>1. c = run.cancelled => run' = run
    BY <1>9 DEF MInv, Typed
  <2> QED BY <1>9, <2>1 DEF IInv, Shape
<1>11. Mirror'
  <2>1. OfGoal(rows', goal') = OfGoal(rows', goal)
    BY <1>3 DEF OfGoal
  <2> QED BY <1>2, <1>5, <1>6, <1>7, <1>8, <1>10, <2>1 DEF Mirror
<1>12. Newest'
  <2>1. ASSUME NEW k \in DOMAIN lane' PROVE rows'[lane'[k]].bind # Binding(goal')
    <3>1. lane'[k] \in DOMAIN rows
      BY <1>8, <2>1
    <3>2. /\ rows'[lane'[k]].bind = rows[lane'[k]].bind /\ rows[lane'[k]].bind.gen \in Nat
          /\ rows[lane'[k]].bind.id = goal.id => rows[lane'[k]].bind.gen <= goal.gen
      BY <1>1, <1>5, <3>1, RowOf DEF IInv, Numbered
    <3> QED BY <1>1, <1>3, <3>2 DEF Binding
  <2> QED BY <2>1 DEF Newest
<1>13. Alone'
  BY <1>2, <1>3 DEF Alone
<1>14. RunOfInput'
  BY <1>5, <1>10 DEF MInv, RunOfInput
<1>15. Reading'
  <2> SUFFICES ASSUME driver.at = "prepare" PROVE Reading'
    BY <1>2 DEF Reading
  <2>1. /\ driver.input \in DOMAIN rows
        /\ driver.latch # Unbound => rows[driver.input].bind = driver.latch
        /\ driver.latch = Unbound => /\ lane # <<>> /\ Head(lane) # driver.input
                                     /\ rows[Head(lane)].origin = "user"
    BY <1>1 DEF MInv, Reading
  <2>2. driver.latch = Unbound => /\ lane' # <<>> /\ Head(lane') = Head(lane)
                                  /\ Head(lane) \in DOMAIN rows
    BY <1>2, <1>4, <1>7, <2>1, HeadStays
  <2> QED BY <1>2, <1>5, <2>1, <2>2 DEF Reading
<1>16. Typed'
  <2>1. /\ goal'.id \in {0, goal.id} /\ resume' \in BOOLEAN /\ paused' \in BOOLEAN /\ Typed
        /\ session' \in {"cold", "viewed", "ready", "faulted"} /\ queue' \in Seq(DOMAIN rows)
    BY <1>2, <1>3, <1>7 DEF MInv, Typed
  <2> QED BY <1>2, <1>5, <1>8, <1>9, <2>1, TypesStay
<1>17. Viewed' /\ Waits'
  BY <1>1, <1>2 DEF MInv, Viewed, Waits, Pending
<1> QED BY <1>11, <1>12, <1>13, <1>14, <1>15, <1>16, <1>17 DEF MInv

LEMMA ClearMInv == ASSUME IInv, MInv, ClearGoal PROVE MInv'
<1>1. /\ session = "ready" /\ goal' = NoGoal /\ storedGoal' = NoGoal /\ lane' = <<>>
      /\ resume' = (queue # <<>>) /\ NoGoal.id = 0 /\ ~NoGoal.running
      /\ UNCHANGED <<rows, open, question, session, queue, paused, run, driver, goals, restarts>>
  BY DEF ClearGoal, Ready, NoGoal
<1>2. /\ ToSet(<<>>) = {} /\ <<>> \in Seq(DOMAIN rows) /\ DOMAIN <<>> = {}
  BY DEF ToSet
<1>3. Mirror'
  BY <1>1, <1>2, Lanes DEF MInv, Mirror
<1>4. Newest' /\ Alone' /\ RunOfInput'
  BY <1>1, <1>2 DEF MInv, Newest, Alone, RunOfInput
<1>5. Reading'
  BY <1>1 DEF MInv, Reading
<1>6. Typed'
  <2>1. /\ resume' \in BOOLEAN /\ paused' \in BOOLEAN /\ Typed /\ queue' \in Seq(DOMAIN rows)
        /\ session' \in {"cold", "viewed", "ready", "faulted"}
    BY <1>1 DEF MInv, Typed
  <2> QED BY <1>1, <1>2, <2>1, TypesStay
<1>7. Viewed' /\ Waits'
  BY <1>1 DEF MInv, Viewed, Waits, Pending
<1> QED BY <1>3, <1>4, <1>5, <1>6, <1>7 DEF MInv

LEMMA CancelQueuedMInv == ASSUME IInv, MInv, NEW i, CancelQueued(i) PROVE MInv'
<1>1. /\ session = "ready" /\ i \in ToSet(queue) /\ rows' = Delete(rows, {i}) /\ Wake
      /\ queue' = Minus(queue, {i}) /\ resume' = (resume /\ queue' # <<>>)
      /\ paused' = (paused /\ queue' # <<>>)
      /\ UNCHANGED <<storedGoal, open, question, session, goal, lane, run, goals, restarts>>
  BY DEF CancelQueued, Ready, ToSet
<1>2. /\ rows' \in Seq(Row) /\ DOMAIN rows' = DOMAIN rows /\ Len(rows') = Len(rows)
      /\ \A j \in DOMAIN rows :
           /\ rows'[j].bind = rows[j].bind /\ rows'[j].origin = rows[j].origin
           /\ rows[j].state # "queued" => rows'[j].state # "queued"
      /\ Waiting(rows') = Waiting(rows) \ {i} /\ BoundRows(rows') = BoundRows(rows) \ {i}
      /\ \A g : OfGoal(rows', g) = OfGoal(rows, g) \ {i}
  BY <1>1, RowsDeleted
<1>3. /\ lane \in Seq(DOMAIN rows) /\ ToSet(lane) = OfGoal(rows, goal)
      /\ queue = QueueOf(rows) /\ run.input = open /\ queue \in Seq(DOMAIN rows)
  BY <1>1 DEF MInv, Typed, Mirror
<1>4. i \notin OfGoal(rows, goal)
  <2> DEFINE S == Waiting(rows) \ BoundRows(rows)
  <2>1. /\ rows \in Seq(Row) /\ S \in SUBSET DOMAIN rows
        /\ OfGoal(rows, goal) \in SUBSET BoundRows(rows)
    BY Lanes
  <2> HIDE DEF S
  <2>2. ToSet(InOrder(rows, S)) = S
    BY <2>1, RowsInOrder
  <2>3. i \in S
    BY <1>1, <1>3, <2>2 DEF QueueOf, S
  <2> QED BY <2>1, <2>3 DEF S
<1>5. Mirror'
  <2>1. QueueOf(rows') = Minus(QueueOf(rows), {i})
    <3>1. Waiting(rows') \ BoundRows(rows') = (Waiting(rows) \ BoundRows(rows)) \ {i}
      BY <1>2
    <3> QED BY <1>2, <3>1, QueueShrinks
  <2>2. OfGoal(rows', goal) = OfGoal(rows, goal)
    BY <1>2, <1>4
  <2> QED BY <1>1, <1>3, <2>1, <2>2 DEF Mirror
<1>6. \A k \in DOMAIN lane : lane[k] \in DOMAIN rows
  BY <1>3
<1>7. /\ driver'.at \in {"prepare", "run", "settle"} => driver' = driver
      /\ driver' = driver \/ driver' = [Off EXCEPT !.at = "seek"]
  BY <1>1, WakeTurns DEF MInv, Wake
<1>8. Newest'
  BY <1>1, <1>2, <1>6 DEF MInv, Newest
<1>9. Alone'
  BY <1>1, <1>2, <1>7 DEF MInv, Alone, IInv, AtWork
<1>10. RunOfInput'
  BY <1>1, <1>2 DEF MInv, RunOfInput
<1>11. Reading'
  <2>1. lane # <<>> => Head(lane) \in DOMAIN rows
    BY <1>3
  <2> QED BY <1>1, <1>2, <1>7, <2>1 DEF MInv, Reading
<1>12. Typed'
  <2>1. /\ resume' \in BOOLEAN /\ paused' \in BOOLEAN /\ Typed /\ goal'.id \in {0, goal.id}
        /\ session' \in {"cold", "viewed", "ready", "faulted"} /\ lane' \in Seq(DOMAIN rows)
    BY <1>1 DEF MInv, Typed
  <2>2. queue' \in Seq(DOMAIN rows)
    BY <1>1, <1>3, MinusElements
  <2> QED BY <1>1, <1>2, <1>7, <2>1, <2>2, TypesStay
<1>13. Viewed' /\ Waits'
  BY <1>1 DEF MInv, Viewed, Waits, Pending
<1> QED BY <1>5, <1>8, <1>9, <1>10, <1>11, <1>12, <1>13 DEF MInv

-----------------------------------------------------------------------------
(* The input that is taken *)

\* An input is only taken for what the session is at that moment, and nothing else waits
\* for the goal then.
LEMMA TakenIsDue ==
  ASSUME IInv, MInv, Take
  PROVE  /\ driver.input \in DOMAIN rows /\ driver.input \in Waiting(rows) /\ ~Pending
         /\ goal = storedGoal /\ run = NoRun /\ session = "ready" /\ driver.at = "prepare"
         /\ rows[driver.input].bind = driver.latch
         /\ \/ goal = NoGoal /\ rows[driver.input].bind = Unbound /\ lane = <<>>
            \/ /\ goal.running /\ lane = <<driver.input>>
               /\ rows[driver.input].bind = Binding(goal) /\ Binding(goal) # Unbound
<1>1. /\ Ready /\ run = NoRun /\ Runnable = driver.input /\ driver.at = "prepare"
      /\ driver.input \in Waiting(rows)
  BY DEF Take, StillCurrent
<1>2. driver.input # 0
  BY <1>1, Lanes
<1>3. /\ driver.input \in DOMAIN rows /\ goal = storedGoal /\ ~Pending
      /\ \/ goal = NoGoal /\ rows[driver.input].bind = Unbound /\ lane = <<>>
         \/ /\ goal # NoGoal /\ goal.running /\ lane = <<driver.input>>
            /\ rows[driver.input].bind = Binding(goal) /\ Binding(goal) # Unbound
  BY <1>1, <1>2, Due
<1>4. rows[driver.input].bind = driver.latch
  <2>1. CASE driver.latch # Unbound
    BY <2>1, <1>1 DEF MInv, Reading
  <2>2. CASE driver.latch = Unbound
    <3>1. goal # NoGoal => lane # <<>> /\ Head(lane) # driver.input
      BY <2>2, <1>1 DEF MInv, Reading
    <3>2. lane = <<driver.input>> => Head(lane) = driver.input
      OBVIOUS
    <3> QED BY <2>2, <1>3, <3>1, <3>2
  <2> QED BY <2>1, <2>2
<1> QED BY <1>1, <1>3, <1>4 DEF Ready

LEMMA TakenMInv == ASSUME IInv, MInv, Claim \/ StartFails PROVE MInv'
<1> DEFINE n == driver.input
<1>1. /\ Take /\ rows' = [rows EXCEPT ![n].state = "committed"]
      /\ lane' = Minus(lane, {n}) /\ queue' = Minus(queue, {n})
      /\ UNCHANGED <<storedGoal, question, session, goal, resume, paused, goals, restarts>>
  BY DEF Claim, StartFails, Take
<1>2. /\ n \in DOMAIN rows /\ n \in Waiting(rows) /\ ~Pending /\ goal = storedGoal
      /\ run = NoRun /\ session = "ready"
      /\ rows[n].bind = driver.latch /\ (lane = <<>> \/ lane = <<n>>)
  BY <1>1, TakenIsDue
<1> HIDE DEF n
<1>3. /\ rows' \in Seq(Row) /\ DOMAIN rows' = DOMAIN rows /\ rows \in Seq(Row)
      /\ \A i \in DOMAIN rows : rows'[i].bind = rows[i].bind
  BY <1>1, Taken, Lanes
<1>4. /\ \A i \in DOMAIN rows : i # n => rows'[i] = rows[i]
      /\ rows'[n].state = "committed"
  BY <1>1, <1>2, Taken DEF n
<1>5. Len(rows') = Len(rows)
  BY <1>3, SameLength
<1>6. Waiting(rows') = Waiting(rows) \ {n} /\ BoundRows(rows') = BoundRows(rows) \ {n}
  <2>1. Waiting(rows') = Waiting(rows) \ {n}
    BY <1>3, <1>4 DEF Waiting
  <2> QED BY <2>1, <1>3, Lanes DEF BoundRows
<1>7. /\ lane \in Seq(DOMAIN rows) /\ ToSet(lane) = OfGoal(rows, goal)
      /\ queue = QueueOf(rows) /\ run.input = open /\ queue \in Seq(DOMAIN rows)
  BY <1>2 DEF MInv, Typed, Mirror
<1>8. QueueOf(rows') = Minus(QueueOf(rows), {n})
  <2>1. Waiting(rows') \ BoundRows(rows') = (Waiting(rows) \ BoundRows(rows)) \ {n}
    BY <1>6
  <2> QED BY <1>3, <1>5, <2>1, QueueShrinks
<1>9. lane' \in Seq(DOMAIN rows) /\ queue' \in Seq(DOMAIN rows) /\ ToSet(lane') = ToSet(lane) \ {n}
  BY <1>1, <1>7, MinusElements
<1>10. lane' = <<>> /\ DOMAIN lane' = {}
  <2>1. ToSet(lane) \subseteq {n}
    BY <1>2 DEF ToSet
  <2>2. DOMAIN lane' = {}
    BY <1>9, <2>1 DEF ToSet
  <2> QED BY <1>9, <2>2
<1>11. OfGoal(rows', goal) = ToSet(lane')
  BY <1>3, <1>6, <1>7, <1>9, Lanes DEF OfGoal
<1>12. Newest' /\ Alone'
  BY <1>10 DEF Newest, Alone
<1>13. Viewed' /\ Waits'
  BY <1>1, <1>2 DEF Viewed, Waits, Pending
<1>14. CASE Claim
  <2>1. /\ open' = n /\ driver' = [at |-> "run", input |-> 0, latch |-> Unbound]
        /\ run' = [input |-> n, latch |-> driver.latch, signal |-> "none",
                   cancelled |-> FALSE, turned |-> FALSE, reminded |-> FALSE, outcome |-> "none"]
    BY <1>14 DEF Claim, NoRun, Off, n
  <2>2. Mirror'
    BY <1>1, <1>7, <1>8, <1>11, <2>1 DEF Mirror
  <2>3. RunOfInput' /\ Reading'
    BY <1>2, <1>3, <1>4, <2>1 DEF RunOfInput, Reading
  <2>4. Typed'
    <3>1. n \in 0..Len(rows) /\ 0 \in 0..Len(rows) /\ driver.latch \in Bind /\ Unbound \in Bind
      BY <1>2, Lanes, BoundsAssumption DEF MInv, Typed, Unbound, Bind
    <3>2. /\ run' \in RunRecord(Len(rows))
          /\ driver' \in DriverRecord(Len(rows))
      BY <2>1, <3>1
    <3> QED BY <1>1, <1>3, <1>5, <1>9, <2>1, <3>1, <3>2 DEF MInv, Typed
  <2> QED BY <1>12, <1>13, <2>2, <2>3, <2>4 DEF MInv
<1>15. CASE StartFails
  <2>1. UNCHANGED <<open, run>> /\ driver' = Off
    BY <1>15 DEF StartFails
  <2>2. Mirror'
    BY <1>1, <1>7, <1>8, <1>11, <2>1 DEF Mirror
  <2>3. RunOfInput' /\ Reading'
    BY <1>2, <2>1 DEF RunOfInput, Reading, Off
  <2>4. Typed'
    <3>1. /\ resume' \in BOOLEAN /\ paused' \in BOOLEAN /\ Typed /\ goal'.id \in {0, goal.id}
          /\ session' \in {"cold", "viewed", "ready", "faulted"}
      BY <1>1 DEF MInv, Typed
    <3> QED BY <1>1, <1>3, <1>5, <1>9, <2>1, <3>1, TypesStay
  <2> QED BY <1>12, <1>13, <2>2, <2>3, <2>4 DEF MInv
<1> QED BY <1>14, <1>15

-----------------------------------------------------------------------------
(* Turns, and the end of the process *)

\* What is decided about a turn leaves the lane what waits for the goal: if it touches the
\* goal at all, the run was the running goal's and nothing waits.
LEMMA LaneOutlivesTurn ==
  ASSUME IInv, MInv, driver.at \in {"run", "settle"}, NEW outcome, NEW decision,
         decision = Decision(outcome) \/ decision = "inert",
         NEW next, next = Effect(decision, outcome)
  PROVE  /\ next.id \in {0, goal.id} /\ (next = goal \/ lane = <<>>)
         /\ ToSet(lane) = OfGoal(rows, next)
         /\ session = "ready" /\ goal = storedGoal
<1>1. /\ session = "ready" /\ goal = storedGoal /\ ToSet(lane) = OfGoal(rows, goal)
      /\ lane \in Seq(DOMAIN rows)
  BY DEF IInv, InService, MInv, Mirror, Typed
<1>2. CASE decision = "inert"
  BY <1>1, <1>2 DEF Effect
<1>3. CASE decision # "inert"
  <2>1. /\ decision \in Decisions /\ storedGoal.running
        /\ rows[run.input].bind = Binding(storedGoal)
    BY <1>3, DecisionActs
  <2>2. lane = <<>>
    BY <2>1 DEF MInv, Alone
  <2>3. next.id = goal.id \/ next = NoGoal
    BY <1>1, <2>1, EffectOnGoal
  <2>4. ToSet(lane) = {}
    BY <2>2 DEF ToSet
  <2>5. OfGoal(rows, next) = {}
    BY <1>1, <2>3, <2>4, Lanes DEF OfGoal
  <2> QED BY <1>1, <2>2, <2>3, <2>4, <2>5 DEF NoGoal
<1> QED BY <1>2, <1>3

LEMMA GoOnMInv ==
  ASSUME IInv, MInv, Remind \/ \E outcome \in {"completed", "failed"} : NextTurn(outcome)
  PROVE  MInv'
<1>1. PICK outcome : /\ driver.at = "run" /\ GoOn(Decision(outcome), outcome)
                     /\ \/ run' = [run EXCEPT !.turned = TRUE]
                        \/ run' = [run EXCEPT !.turned = TRUE, !.reminded = TRUE]
  BY DEF Remind, NextTurn
<1>2. /\ goal' = Effect(Decision(outcome), outcome) /\ storedGoal' = goal'
      /\ resume' = HeldAfter(Decision(outcome))
      /\ UNCHANGED <<rows, open, question, session, lane, queue, paused, driver, goals, restarts>>
  BY <1>1 DEF GoOn
<1>3. /\ goal'.id \in {0, goal.id} /\ (goal' = goal \/ lane = <<>>)
      /\ ToSet(lane) = OfGoal(rows, goal')
      /\ session = "ready" /\ goal = storedGoal
  BY <1>1, <1>2, LaneOutlivesTurn
<1>4. run \in RunRecord(Len(rows))
  BY DEF MInv, Typed
<1>5. /\ run' \in RunRecord(Len(rows))
      /\ run'.input = run.input /\ run'.latch = run.latch
  BY <1>1, <1>4
<1>6. run # NoRun
  BY <1>1, AtWorkIsARun
<1>7. Typed'
  <2>1. resume' \in BOOLEAN /\ paused' \in BOOLEAN
    BY <1>2 DEF MInv, Typed, HeldAfter
  <2>2. goal'.id <= goals'
    <3>1. goal.id <= goals /\ goals \in Nat
      BY DEF MInv, Typed, IInv, Shape
    <3> QED BY <1>2, <1>3, <3>1
  <2> QED BY <1>2, <1>5, <2>1, <2>2 DEF MInv, Typed
<1>8. Mirror'
  BY <1>2, <1>3, <1>5 DEF MInv, Mirror
<1>9. Newest' /\ Alone'
  <2>1. DOMAIN <<>> = {}
    OBVIOUS
  <2>2. CASE goal' = goal
    BY <1>2, <1>3, <1>5, <2>2 DEF MInv, Newest, Alone
  <2>3. CASE lane = <<>>
    BY <1>2, <2>1, <2>3 DEF Newest, Alone
  <2> QED BY <1>3, <2>2, <2>3
<1>10. RunOfInput' /\ Reading'
  BY <1>1, <1>2, <1>5, <1>6 DEF MInv, RunOfInput, Reading
<1>11. Viewed' /\ Waits'
  BY <1>2, <1>3 DEF MInv, Viewed, Waits, Pending
<1> QED BY <1>7, <1>8, <1>9, <1>10, <1>11 DEF MInv

LEMMA SettleMInv == ASSUME IInv, MInv, Settle PROVE MInv'
<1>1. /\ driver.at = "settle" /\ storedGoal' = Effect(Verdict, Ended) /\ open' = 0
      /\ question' = IF Silent \/ (Pending /\ question.mode = "end" /\ Ended = "completed")
                     THEN question ELSE NoQuestion
      /\ UNCHANGED <<rows, lane, queue, paused, goals, restarts>>
      /\ \/ /\ goal' = storedGoal' /\ resume' = HeldAfter(Verdict) /\ run' = NoRun
            /\ driver' = [Off EXCEPT !.at = "seek"] /\ session' = session
         \/ session' = "faulted" /\ driver' = Off /\ UNCHANGED <<goal, resume, run>>
  BY DEF Settle
<1>2. Verdict = Decision(Ended) \/ Verdict = "inert"
  BY DEF Verdict
<1>3. /\ storedGoal'.id \in {0, goal.id} /\ (storedGoal' = goal \/ lane = <<>>)
      /\ ToSet(lane) = OfGoal(rows, storedGoal')
      /\ session = "ready" /\ goal = storedGoal
  BY <1>1, <1>2, LaneOutlivesTurn
<1>4. Waits'
  <2> SUFFICES ASSUME Pending', question'.mode = "wait" PROVE FALSE
    BY DEF Waits
  <2>1. question' = question /\ Pending
    BY <1>1 DEF Pending, NoQuestion
  <2>2. ~Silent /\ question.mode = "wait"
    BY <1>1, <2>1 DEF IInv, Asked
  <2>3. question' = NoQuestion
    BY <1>1, <2>2
  <2> QED BY <2>3 DEF Pending, NoQuestion
<1>5. /\ NoRun.input = 0 /\ [Off EXCEPT !.at = "seek"].at = "seek" /\ Off.at = "off"
      /\ DOMAIN <<>> = {}
  BY DEF NoRun, Off
<1>6. driver'.at \in {"off", "seek"}
  BY <1>1, <1>5
<1>7. Alone' /\ Reading'
  BY <1>6 DEF Alone, Reading
<1>8. RunOfInput'
  BY <1>1 DEF MInv, RunOfInput
<1>9. Viewed'
  BY <1>1, <1>3 DEF Viewed
<1>10. Mirror' /\ Newest'
  <2>1. CASE session' = "faulted"
    BY <2>1 DEF Mirror, Newest
  <2>2. CASE goal' = storedGoal' /\ run' = NoRun
    <3>1. Mirror'
      BY <1>1, <1>3, <1>5, <2>2 DEF MInv, Mirror
    <3>2. Newest'
      <4>1. CASE storedGoal' = goal
        BY <1>1, <1>3, <2>2, <4>1 DEF MInv, Newest
      <4>2. CASE lane = <<>>
        BY <1>1, <1>5, <4>2 DEF Newest
      <4> QED BY <1>3, <4>1, <4>2
    <3> QED BY <3>1, <3>2
  <2> QED BY <1>1, <2>1, <2>2
<1>11. Typed'
  <2>1. /\ resume' \in BOOLEAN /\ paused' \in BOOLEAN
        /\ session' \in {"cold", "viewed", "ready", "faulted"}
    BY <1>1, <1>3 DEF MInv, Typed, HeldAfter
  <2>6. goal'.id <= goals' /\ open' \in 0..Len(rows')
    <3>1. goal.id <= goals /\ goals \in Nat /\ Len(rows) \in Nat
      BY Lanes DEF MInv, Typed, IInv, Shape
    <3>2. goals' = goals /\ goal'.id \in {0, goal.id} /\ open' = 0 /\ rows' = rows
      BY <1>1, <1>3
    <3> QED BY <3>1, <3>2
  <2>2. Unbound \in Bind /\ 0 \in 0..Len(rows)
    BY Lanes, BoundsAssumption DEF Unbound, Bind
  <2>3. question' \in QuestionRecord(Len(rows))
    <3>1. NoQuestion \in QuestionRecord(Len(rows))
      BY <2>2 DEF NoQuestion
    <3> QED BY <1>1, <3>1 DEF MInv, Typed
  <2>4. driver' \in DriverRecord(Len(rows))
    <3>1. /\ Off = [at |-> "off", input |-> 0, latch |-> Unbound]
          /\ [Off EXCEPT !.at = "seek"] = [at |-> "seek", input |-> 0, latch |-> Unbound]
      BY DEF Off
    <3> QED BY <1>1, <2>2, <3>1
  <2>5. run' \in RunRecord(Len(rows))
    <3>1. CASE run' = run
      BY <3>1 DEF MInv, Typed
    <3>2. CASE run' = NoRun
      BY <2>2, <3>2 DEF NoRun
    <3> QED BY <1>1, <3>1, <3>2
  <2> QED BY <1>1, <2>1, <2>3, <2>4, <2>5, <2>6 DEF MInv, Typed
<1> QED BY <1>4, <1>7, <1>8, <1>9, <1>10, <1>11 DEF MInv

LEMMA EndMInv == ASSUME IInv, MInv, Escape \/ Crash PROVE MInv'
<1>1. CASE Escape
  <2>1. /\ session' = "faulted" /\ driver' = Off
        /\ UNCHANGED <<stored, goal, lanes, run, goals, restarts>>
    BY <1>1 DEF Escape
  <2>2. Typed'
    <3>1. /\ resume' \in BOOLEAN /\ paused' \in BOOLEAN /\ Typed /\ goal'.id \in {0, goal.id}
          /\ lane' \in Seq(DOMAIN rows) /\ queue' \in Seq(DOMAIN rows)
      BY <2>1 DEF MInv, Typed, lanes
    <3> QED BY <2>1, <3>1, TypesStay DEF stored
  <2>3. Waits' /\ RunOfInput'
    BY <2>1 DEF MInv, Waits, RunOfInput, Pending, stored
  <2> QED BY <2>1, <2>2, <2>3 DEF MInv, Viewed, Mirror, Newest, Alone, Reading, Off
<1>2. CASE Crash
  <2>1. /\ session' = "cold" /\ driver' = Off /\ run' = NoRun /\ goal' = NoGoal
        /\ lane' = <<>> /\ queue' = <<>> /\ resume' = FALSE /\ paused' = FALSE
        /\ restarts' = restarts + 1 /\ restarts < MaxRestarts
        /\ UNCHANGED <<storedGoal, rows, open, question, goals>>
    BY <1>2 DEF Crash, stored
  <2>2. Typed'
    <3>1. Unbound \in Bind /\ 0 \in 0..Len(rows) /\ NoGoal.id <= goals
      BY Lanes, BoundsAssumption DEF Unbound, Bind, NoGoal, IInv, Shape
    <3>2. NoRun \in RunRecord(Len(rows))
      BY <3>1 DEF NoRun
    <3>3. Off \in DriverRecord(Len(rows))
      BY <3>1 DEF Off
    <3>4. <<>> \in Seq(DOMAIN rows)
      OBVIOUS
    <3>5. restarts' \in 0..MaxRestarts
      BY <2>1, BoundsAssumption DEF MInv, Typed
    <3>6. /\ Len(rows') <= MaxInputs /\ open' \in 0..Len(rows') /\ goals' <= MaxGoals
          /\ question' \in QuestionRecord(Len(rows'))
      BY <2>1 DEF MInv, Typed
    <3>7. /\ lane' \in Seq(DOMAIN rows') /\ queue' \in Seq(DOMAIN rows')
          /\ session' \in {"cold", "viewed", "ready", "faulted"}
          /\ resume' \in BOOLEAN /\ paused' \in BOOLEAN /\ goal'.id <= goals'
      BY <2>1, <3>1, <3>4
    <3> QED BY <2>1, <3>2, <3>3, <3>5, <3>6, <3>7 DEF Typed
  <2>3. Waits'
    BY <2>1 DEF MInv, Waits, Pending
  <2> QED BY <2>1, <2>2, <2>3 DEF MInv, Viewed, Mirror, Newest, Alone, Reading, RunOfInput, Off
<1> QED BY <1>1, <1>2

\* What recovery installs of the rows.
LEMMA Installed ==
  ASSUME NEW r \in Seq(Row)
  PROVE  /\ LaneOf(r) \in Seq(DOMAIN r) /\ ToSet(LaneOf(r)) = BoundRows(r)
         /\ IsInjective(LaneOf(r)) /\ QueueOf(r) \in Seq(DOMAIN r)
<1>1. BoundRows(r) \in SUBSET DOMAIN r /\ Waiting(r) \ BoundRows(r) \in SUBSET DOMAIN r
  BY DEF BoundRows, Waiting
<1> QED BY <1>1, RowsInOrder DEF LaneOf, QueueOf

LEMMA LoadMInv == ASSUME IInv, MInv, Load PROVE MInv'
<1>1. /\ session = "cold" /\ session' = "viewed" /\ goal' = AfterRestart(storedGoal)
      /\ lane' = LaneOf(rows) /\ queue' = QueueOf(rows) /\ resume' = (queue' # <<>>)
      /\ paused' = FALSE
      /\ UNCHANGED <<storedGoal, rows, open, question, run, driver, goals, restarts>>
  BY DEF Load, Install, Projected, stored
<1>2. driver.at = "off" /\ run = NoRun
  BY <1>1 DEF IInv, InService, MInv, Viewed
<1>3. Typed'
  <2>1. lane' \in Seq(DOMAIN rows) /\ queue' \in Seq(DOMAIN rows)
    BY <1>1, Lanes, Installed
  <2>2. goal'.id = storedGoal.id /\ storedGoal.id <= goals
    BY <1>1, GoalSteps DEF AfterRestart, IInv, Shape, Numbered
  <2>3. /\ session' \in {"cold", "viewed", "ready", "faulted"} /\ resume' \in BOOLEAN
        /\ paused' \in BOOLEAN /\ goal'.id <= goals'
    BY <1>1, <2>2
  <2> QED BY <1>1, <2>1, <2>3 DEF MInv, Typed
<1>4. Viewed' /\ Waits'
  BY <1>1, <1>2 DEF MInv, Viewed, Waits, Pending, AfterRestart
<1> QED BY <1>1, <1>2, <1>3, <1>4 DEF MInv, Mirror, Newest, Alone, Reading, RunOfInput

LEMMA PrepareMInv == ASSUME IInv, MInv, Prepare PROVE MInv'
<1> DEFINE C == Outdated(rows, storedGoal')
<1>1. /\ session \in {"cold", "viewed"} /\ storedGoal' = AfterRestart(storedGoal)
      /\ rows' = Delete(rows, C) /\ open' = 0
      /\ question' = IF Pending /\ question.of # open THEN question ELSE NoQuestion
      /\ \/ /\ Recoverable(storedGoal', rows') /\ session' = "ready" /\ goal' = storedGoal'
            /\ lane' = LaneOf(rows') /\ queue' = QueueOf(rows') /\ resume' = (queue' # <<>>)
            /\ paused' = FALSE /\ UNCHANGED <<run, driver, goals, restarts>>
         \/ UNCHANGED <<session, goal, lane, queue, resume, paused, run, driver, goals, restarts>>
  BY DEF Prepare, Install, lanes
<1> HIDE DEF C
<1>2. driver.at = "off" /\ run = NoRun /\ NoRun.input = 0
  BY <1>1 DEF IInv, InService, MInv, Viewed, NoRun
<1>3. rows' \in Seq(Row) /\ DOMAIN rows' = DOMAIN rows /\ Len(rows') = Len(rows)
  BY <1>1, RowsDeleted
<1>4. /\ storedGoal'.id = storedGoal.id /\ ~storedGoal'.running
      /\ AfterRestart(storedGoal') = storedGoal' /\ storedGoal.id <= goals
  BY <1>1, GoalSteps DEF AfterRestart, IInv, Shape, Numbered
<1>5. lane' \in Seq(DOMAIN rows) /\ queue' \in Seq(DOMAIN rows)
  BY <1>1, <1>3, Installed DEF MInv, Typed
<1>6. Typed'
  <2>1. /\ goal'.id <= goals' /\ resume' \in BOOLEAN /\ paused' \in BOOLEAN
        /\ session' \in {"cold", "viewed", "ready", "faulted"}
    BY <1>1, <1>4 DEF MInv, Typed
  <2>2. 0 \in 0..Len(rows)
    BY Lanes
  <2>3. question' \in QuestionRecord(Len(rows))
    <3>1. NoQuestion \in QuestionRecord(Len(rows))
      BY <2>2 DEF NoQuestion
    <3> QED BY <1>1, <3>1 DEF MInv, Typed
  <2> QED BY <1>1, <1>3, <1>5, <2>1, <2>2, <2>3 DEF MInv, Typed
<1>7. Viewed'
  <2>1. run' = run
    BY <1>1
  <2>2. session' = "viewed" => session = "viewed" /\ goal' = goal
    BY <1>1
  <2> QED BY <1>1, <1>2, <1>4, <2>1, <2>2 DEF MInv, Viewed
<1>8. Mirror' /\ Newest'
  <2> SUFFICES ASSUME session' = "ready" PROVE Mirror' /\ Newest'
    BY DEF Mirror, Newest
  <2>1. /\ Recoverable(storedGoal', rows') /\ goal' = storedGoal' /\ lane' = LaneOf(rows')
        /\ queue' = QueueOf(rows') /\ run' = run
    BY <1>1
  <2>2. ToSet(lane') = BoundRows(rows') /\ IsInjective(lane')
    BY <1>3, <2>1, Installed
  <2>3. /\ \A i \in BoundRows(rows') : rows'[i].bind.id = goal'.id
        /\ \A i, j \in BoundRows(rows') : i = j
    BY <2>1 DEF Recoverable
  <2>4. Mirror'
    BY <1>1, <1>2, <2>1, <2>2, <2>3 DEF Mirror, OfGoal
  <2>5. Newest'
    <3> SUFFICES ASSUME NEW k \in DOMAIN lane' PROVE k = Len(lane')
      BY DEF Newest
    <3>1. Len(lane') \in DOMAIN lane'
      BY <1>5
    <3>2. lane'[k] = lane'[Len(lane')]
      BY <3>1, <2>2, <2>3 DEF ToSet
    <3> QED BY <3>1, <3>2, <2>2 DEF IsInjective
  <2> QED BY <2>4, <2>5
<1>9. Alone' /\ Reading' /\ RunOfInput'
  BY <1>1, <1>2 DEF Alone, Reading, RunOfInput
<1>10. Waits'
  BY <1>1 DEF MInv, Waits, Pending, NoQuestion
<1> QED BY <1>6, <1>7, <1>8, <1>9, <1>10 DEF MInv

LEMMA StutterMInv == ASSUME MInv, UNCHANGED vars PROVE MInv'
BY DEF vars, stored, lanes, MInv, Typed, Viewed, Mirror, Newest, Alone, RunOfInput, Reading, Waits,
   Pending

LEMMA NextMInv == ASSUME IInv, MInv, [Next]_vars PROVE MInv'
<1>1. CASE UserNext
  BY <1>1, AcceptsMInv, StopMInv, ClearMInv, DriverLooks, RunSteps, QuestionSteps, HeldMInv,
     CancelQueuedMInv DEF UserNext
<1>2. CASE DriverNext
  BY <1>2, DriverLooks, TakenMInv, GoOnMInv, RunSteps, SettleMInv, EndMInv DEF DriverNext, TurnNext
<1>3. CASE \/ \E status \in {"complete", "blocked"} : Signal(status)
           \/ \E mode \in {"wait", "end"} : Ask(mode)
  BY <1>3, RunSteps, QuestionSteps
<1>4. CASE Crash \/ Load \/ Prepare
  BY <1>4, EndMInv, LoadMInv, PrepareMInv
<1>5. CASE UNCHANGED vars
  BY <1>5, StutterMInv
<1> QED BY <1>1, <1>2, <1>3, <1>4, <1>5 DEF Next

\* What memory and the store owe each other: the lanes are the rows that wait, the goal's
\* current input is the last of its lane and stands alone while a run works for the goal,
\* and a binding that was read while the input was prepared is still the input's when it is
\* taken (SessionState and its recovery, runtime/goal/mutation.rs).
THEOREM MInvInvariant == Spec => []MInv
<1> QED BY InitIInv, NextIInv, InitMInv, NextMInv, PTL DEF Spec

\* What a ready session shows of its goal, its lanes and its run is what the store holds,
\* after whatever commands, turns, crashes and restarts (recover_session_registries,
\* goal commands and settlement).
THEOREM MemoryMirrorsStore == Spec => []MirrorsStore
<1>1. IInv /\ MInv => MirrorsStore
  <2> SUFFICES ASSUME IInv, MInv PROVE MirrorsStore
    OBVIOUS
  <2>1. TypeOK
    <3> DEFINE Goal == [id : 0..MaxGoals, running : BOOLEAN, gen : Nat, used : Nat, fails : Nat]
    <3>1. /\ storedGoal \in GoalRecord /\ goal \in GoalRecord /\ goals \in Nat
          /\ storedGoal.id <= goals /\ goal.id <= goals /\ goals <= MaxGoals /\ MaxGoals \in Nat
      BY BoundsAssumption DEF IInv, Shape, Numbered, MInv, Typed
    <3>2. ASSUME NEW g \in GoalRecord, g.id <= goals PROVE g \in Goal
      <4>1. g.id \in Nat
        BY DEF GoalRecord
      <4>2. g.id \in 0..MaxGoals
        BY <3>1, <3>2, <4>1
      <4> QED BY <4>2 DEF GoalRecord
    <3>3. storedGoal \in Goal /\ goal \in Goal
      BY <3>1, <3>2
    <3> DEFINE Entry == [origin : {"user", "runtime"}, bind : Bind,
                         state : {"queued", "committed", "deleted"}]
    <3>4. rows \in Seq(Entry)
      <4>1. /\ rows \in [1..Len(rows) -> Row] /\ Len(rows) \in Nat /\ DOMAIN rows = 1..Len(rows)
        BY Lanes
      <4>2. ASSUME NEW i \in 1..Len(rows) PROVE rows[i] \in Entry
        <5>1. rows[i] \in Row /\ rows[i].bind \in Bind
          BY <4>1, BindOf, RowOf DEF MInv
        <5> QED BY <5>1 DEF Row
      <4>3. rows \in [1..Len(rows) -> Entry]
        BY <4>1, <4>2
      <4> HIDE DEF Entry
      <4> QED BY <4>1, <4>3, FunctionIsSequence
    <3>5. lane \in Seq((0..Len(rows)) \ {0}) /\ queue \in Seq((0..Len(rows)) \ {0})
      <4>1. (0..Len(rows)) \ {0} = DOMAIN rows
        BY Lanes
      <4> QED BY <4>1 DEF MInv, Typed
    <3>6. Len(rows) \in 0..MaxInputs /\ goals \in 0..MaxGoals
      BY <3>1, Lanes, BoundsAssumption DEF MInv, Typed
    <3> QED BY <3>3, <3>4, <3>5, <3>6 DEF TypeOK, MInv, Typed, Bind
  <2>2. session = "ready" =>
          /\ goal = storedGoal
          /\ run.input = open
          /\ queue = QueueOf(rows)
          /\ {lane[k] : k \in DOMAIN lane} = {i \in BoundRows(rows) : rows[i].bind.id = goal.id}
    BY DEF IInv, InService, MInv, Mirror, ToSet, OfGoal
  <2> QED BY <2>1, <2>2 DEF MirrorsStore, MInv, Viewed
<1> QED BY <1>1, IInvInvariant, MInvInvariant, PTL

\* A run has the tools and the latch of the binding its input has, although the binding is
\* read before the gate is given up and a held input may be bound meanwhile (drive_queue,
\* resume_goal with a queued input).
THEOREM RunsAreForTheirGoal == Spec => []PreparedForItsGoal
<1>1. MInv => PreparedForItsGoal
  BY DEF MInv, RunOfInput, PreparedForItsGoal
<1> QED BY <1>1, MInvInvariant, PTL

-----------------------------------------------------------------------------
\* No row that waits becomes committed.
NothingTaken ==
  \A i \in DOMAIN rows : rows[i].state = "queued" => rows'[i].state # "committed"

LEMMA OthersTakeNothing ==
  ASSUME IInv, [Next]_vars, ~Claim, ~StartFails PROVE NothingTaken
<1>1. CASE rows' = rows
  BY <1>1 DEF NothingTaken
<1>2. ASSUME NEW gone, rows' = Delete(rows, gone) PROVE NothingTaken
  BY <1>2 DEF NothingTaken, Delete
<1>3. ASSUME NEW x, rows' = Append(rows, x) PROVE NothingTaken
  BY <1>3 DEF NothingTaken, IInv, Shape
<1>4. CASE \E i \in DOMAIN rows : ResumeWithHeldInput(i)
  <2>1. PICK i \in DOMAIN rows : /\ rows' = [rows EXCEPT ![i].bind = Binding(goal')]
                                 /\ rows[i].state = "queued"
    BY <1>4 DEF ResumeWithHeldInput, Held
  <2>2. rows'[i].state = "queued"
    BY <2>1, RowOf DEF Row
  <2> QED BY <2>1, <2>2 DEF NothingTaken
<1>5. CASE UserNext
  <2>1. CASE Submit \/ StartGoal \/ ResumeWithMessage \/ ResumeWithoutInput \/ AnswerEnd
    BY <1>3, <2>1 DEF Submit, AcceptPlain, StartGoal, ResumeWithMessage, AcceptResuming,
       ResumeWithoutInput, AnswerEnd, AcceptBound, AcceptRow
  <2>2. CASE StopGoal \/ \E i \in DOMAIN rows : CancelQueued(i)
    BY <1>2, <2>2 DEF StopGoal, CancelQueued
  <2>3. CASE ClearGoal \/ ResumeQueue \/ CancelRun \/ InterruptRun \/ AnswerWait \/ Dismiss
    BY <1>1, <2>3 DEF ClearGoal, ResumeQueue, CancelRun, InterruptRun, AnswerWait, Dismiss, stored
  <2> QED BY <1>4, <1>5, <2>1, <2>2, <2>3 DEF UserNext
<1>6. CASE DriverNext
  BY <1>1, <1>6 DEF DriverNext, TurnNext, Seek, Stale, Settle, Escape, Remind, NextTurn, GoOn,
     EndTurn, stored
<1>7. CASE \/ \E status \in {"complete", "blocked"} : Signal(status)
           \/ \E mode \in {"wait", "end"} : Ask(mode)
           \/ Crash \/ Load \/ UNCHANGED vars
  BY <1>1, <1>7 DEF Signal, Ask, Crash, Load, vars, stored
<1>8. CASE Prepare
  BY <1>2, <1>8 DEF Prepare
<1> QED BY <1>5, <1>6, <1>7, <1>8 DEF Next

\* An input is only taken for what the session is at that moment, whatever happened while it
\* was prepared (next_runnable_input, compared again before claim_input).
THEOREM ClaimsFollowTheGoal == Spec => ClaimsAreCurrent
<1>1. IInv /\ MInv /\ [Next]_vars
        => [ \A i \in DOMAIN rows :
               rows[i].state = "queued" /\ rows'[i].state = "committed" =>
                 IF rows[i].bind = Unbound THEN storedGoal = NoGoal
                 ELSE storedGoal.running /\ rows[i].bind = Binding(storedGoal) ]_vars
  <2> SUFFICES ASSUME IInv, MInv, [Next]_vars, NEW i \in DOMAIN rows,
                      rows[i].state = "queued", rows'[i].state = "committed"
               PROVE  IF rows[i].bind = Unbound THEN storedGoal = NoGoal
                      ELSE storedGoal.running /\ rows[i].bind = Binding(storedGoal)
    OBVIOUS
  <2>1. Claim \/ StartFails
    BY OthersTakeNothing DEF NothingTaken
  <2>2. Take /\ rows' = [rows EXCEPT ![driver.input].state = "committed"]
    BY <2>1 DEF Claim, StartFails, Take
  <2>3. i = driver.input
    BY <2>2
  <2> QED BY <2>2, <2>3, TakenIsDue
<1> QED BY <1>1, IInvInvariant, MInvInvariant, PTL DEF Spec, ClaimsAreCurrent
=============================================================================
