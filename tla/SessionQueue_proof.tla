-------------------------- MODULE SessionQueue_proof --------------------------
(***************************************************************************)
(* Proofs about SessionQueue, for every number of inputs, attempts,        *)
(* restarts and drivers.                                                   *)
(*                                                                         *)
(* IInv holds whatever fails.  That memory and store agree needs what an   *)
(* input may be in each state of its run (AttemptFacts), what the queue    *)
(* and active_run may name even in a faulted session (QueueFacts,          *)
(* ActiveFacts), and that the driver between claim and commit is the one   *)
(* that holds the gate (DriverFacts): its input is the only one that waits *)
(* and has a run already.                                                  *)
(*                                                                         *)
(* Alone and Single keep engines and drivers apart.  They hold under the   *)
(* conditions their theorems name; README, section 7, shows the runs in    *)
(* which the code breaks them otherwise.                                   *)
(***************************************************************************)
EXTENDS SessionQueue, SequenceFacts

\* The life of an input: its run, its attempts and how often it was started.
AttemptFacts ==
  \A i \in DOMAIN rows :
    /\ rows[i].run = "none" <=> rows[i].attempts = 0
    /\ rows[i].kind = "command" => rows[i].run = "none"
    /\ rows[i].state = "queued" => rows[i].run \in {"none", "accepted"}
    /\ rows[i].run = "running" => rows[i].state = "committed"
    /\ starts[i] <= rows[i].attempts
    /\ rows[i].run = "accepted" => starts[i] < rows[i].attempts

\* What is queued has not been started.
QueueFacts == \A k \in DOMAIN queue : rows[queue[k]].run \in {"none", "accepted"}

\* The active run is running.
ActiveFacts == active # 0 => rows[active].run = "running"

\* What a driver works on, and that it holds the gate from claim to commit.
DriverFacts ==
  \A d \in Drivers :
    /\ drivers[d].at \notin {"off", "stopped", "top"} => drivers[d].input \in DOMAIN rows
    /\ At(d, "prepare") => rows[drivers[d].input].kind # "command"
    /\ At(d, "command") => rows[drivers[d].input].kind = "command"
    /\ At(d, "commit") <=> gate = d
    /\ At(d, "commit") => active = 0 /\ rows[drivers[d].input].run = "accepted"

\* Handlers and the driver may change the session.
InService == prepared /\ ~faulted

\* Memory and store agree while the session is in service; what waits and has a run
\* already is being committed by the driver that holds the gate.
Agreement ==
  /\ asking = question
  /\ InService =>
       /\ ToSet(queue) = Queued(rows) \cup {i \in DOMAIN rows : rows[i].run = "accepted"}
       /\ {active} \ {0} = {i \in DOMAIN rows : rows[i].run = "running"}
       /\ \A i \in DOMAIN rows : rows[i].state = "queued" /\ rows[i].run = "accepted" =>
             gate # 0 /\ i = drivers[gate].input

IInv == TypeOK /\ AttemptFacts /\ QueueFacts /\ ActiveFacts /\ DriverFacts /\ Agreement

\* No driver in a process that is not prepared; one engine, and none while the gate is held;
\* in service, the engine works for the active run.
Alone ==
  /\ \A d \in Drivers :
    /\ drivers[d].at \notin {"panicked", "recovered", "orphan"}
    /\ ~prepared => drivers[d].at \in {"off", "stopped"}
    /\ At(d, "run") => /\ gate = 0
                       /\ faulted \/ active = drivers[d].input
                       /\ \A e \in Drivers : At(e, "run") => e = d

\* One driver, flagged as running unless the session is faulted; a faulted session has none
\* that is about to commit.
Single ==
  \A d \in Drivers : drivers[d].at \notin {"off", "stopped"} =>
    /\ \A e \in Drivers : drivers[e].at \notin {"off", "stopped"} => e = d
    /\ faulted \/ driving
    /\ drivers[d].at \in {"commit", "command"} => ~faulted

-----------------------------------------------------------------------------

\* The queue a load rebuilds holds every waiting input without a run, once.
LEMMA RecoveredQueue ==
  ASSUME NEW r \in Seq(Row), NEW s \in Recovered(r)
  PROVE  /\ s \in Seq(DOMAIN r) /\ IsInjective(s)
         /\ ToSet(s) = {i \in Queued(r) : r[i].run = "none"}
<1> DEFINE S == {i \in Queued(r) : r[i].run = "none"}
<1>1. S \subseteq DOMAIN r
  BY DEF Queued
<1>2. IsFiniteSet(S)
  <2>1. DOMAIN r = 1..Len(r) /\ Len(r) \in Nat
    OBVIOUS
  <2>2. IsFiniteSet(DOMAIN r)
    BY <2>1, FS_Interval
  <2> QED BY <1>1, <2>2, FS_Subset
<1>3. s \in SetToSeqs(S)
  BY DEF Recovered
<1> HIDE DEF S
<1>4. s \in Seq(S) /\ IsInjective(s) /\ ToSet(s) = S
  BY <1>2, <1>3, Enumerated
<1>5. s \in Seq(DOMAIN r)
  BY <1>1, <1>4
<1> QED BY <1>4, <1>5 DEF S

\* A new input gets a priority: one more than the greatest in use, or 0.
LEMMA NextPriorityType ==
  ASSUME rows \in Seq(Row)
  PROVE  NextPriority \in Nat
<1> DEFINE kept == {j \in DOMAIN rows : rows[j].state # "deleted"}
           T == {-1} \cup {StoredOrder(rows, i) : i \in kept}
           f == [i \in 1..Len(rows) |-> StoredOrder(rows, i)]
<1>1. Len(rows) \in Nat /\ DOMAIN rows = 1..Len(rows) /\ \A i \in DOMAIN rows : rows[i] \in Row
  OBVIOUS
<1>2. \A i \in DOMAIN rows : StoredOrder(rows, i) \in Nat
  BY <1>1 DEF StoredOrder, Row
<1>3. f \in [1..Len(rows) -> Nat]
  BY <1>1, <1>2
<1>4. PICK b \in Nat : \A i \in 1..Len(rows) : f[i] <= b
  <2> HIDE DEF f
  <2> QED BY <1>1, <1>3, BoundedValues
<1>5. \A i \in 1..Len(rows) : f[i] = StoredOrder(rows, i)
  OBVIOUS
<1> HIDE DEF f
<1>6. T \in SUBSET Int /\ -1 \in T
  BY <1>1, <1>2
<1>7. \A y \in T : -1 <= y /\ y <= b
  BY <1>1, <1>2, <1>4, <1>5
<1>8. NextPriority = Max(T) + 1
  BY DEF NextPriority
<1> HIDE DEF T
<1>9. Max(T) \in T
  BY <1>6, <1>7, GreatestElement
<1>10. Max(T) \in Int /\ -1 <= Max(T)
  BY <1>6, <1>7, <1>9
<1> QED BY <1>8, <1>10

\* wake_queue leaves the drivers alone or starts one that was off.
LEMMA WakeStep ==
  ASSUME drivers \in [Drivers -> Driver], driving \in BOOLEAN, Wake
  PROVE  /\ driving' \in BOOLEAN /\ drivers' \in [Drivers -> Driver]
         /\ \A d \in Drivers :
              \/ drivers'[d] = drivers[d]
              \/ /\ drivers[d].at \in {"off", "stopped"} /\ drivers'[d] = [at |-> "top", input |-> 0, attempt |-> 0]
                 /\ ~driving /\ driving' /\ ~faulted'
                 /\ \A e \in Drivers : e # d => drivers'[e] = drivers[e]
<1>1. CASE faulted' \/ driving \/ Runnable' = 0
  BY <1>1 DEF Wake, Gone, tasks
<1>2. CASE ~(faulted' \/ driving \/ Runnable' = 0)
  <2> DEFINE free == {d \in Drivers : drivers[d].at \in {"off", "stopped"}}
             new == [at |-> "top", input |-> 0, attempt |-> 0]
  <2>1. /\ driving' = TRUE /\ free # {}
        /\ drivers' = [drivers EXCEPT ![Min(free)] = [NoDriver EXCEPT !.at = "top"]]
    BY <1>2 DEF Wake, Gone
  <2>2. free \in SUBSET Nat
    BY BoundsAssumption
  <2>3. Min(free) \in free
    BY <2>1, <2>2, LeastElement
  <2>4. PICK m \in Drivers : m = Min(free) /\ drivers[m].at \in {"off", "stopped"}
    BY <2>3
  <2>5. [NoDriver EXCEPT !.at = "top"] = new
    BY DEF NoDriver
  <2> HIDE DEF free
  <2>6. drivers' = [drivers EXCEPT ![m] = new]
    BY <2>1, <2>4, <2>5
  <2>7. new \in Driver
    BY DEF Driver
  <2> HIDE DEF new
  <2>8. /\ drivers' \in [Drivers -> Driver]
        /\ \A d \in Drivers : drivers'[d] = IF d = m THEN new ELSE drivers[d]
    BY <2>6, <2>7
  <2> QED BY <1>2, <2>1, <2>4, <2>8 DEF new
<1> QED BY <1>1, <1>2

\* A handler that adds an input adds a row, its order and its count of starts.
LEMMA InsertStep ==
  ASSUME TypeOK, NEW kind \in {"message", "command", "report"}, NEW p \in Nat,
         NEW others \in Seq(Row), Len(others) = Len(rows), Insert(kind, p, others),
         NEW n, n = Len(rows) + 1
  PROVE  /\ rows' \in Seq(Row) /\ Len(rows') <= MaxInputs
         /\ DOMAIN rows' = DOMAIN rows \cup {n} /\ n \in Nat \ DOMAIN rows
         /\ \A i \in DOMAIN rows : rows'[i] = others[i] /\ starts'[i] = starts[i]
         /\ rows'[n] = [kind |-> kind, state |-> "queued", priority |-> p,
                        run |-> "none", attempts |-> 0]
         /\ starts'[n] = 0
         /\ order' \in [DOMAIN rows' -> Nat] /\ starts' \in [DOMAIN rows' -> Nat]
<1> DEFINE new == [kind |-> kind, state |-> "queued", priority |-> p, run |-> "none", attempts |-> 0]
<1>1. rows' = Append(others, new) /\ Len(rows) < MaxInputs
      /\ order' = Append(order, p) /\ starts' = Append(starts, 0)
  BY DEF Insert
<1>2. new \in Row
  BY DEF Row
<1> HIDE DEF new
<1>3. /\ Len(rows) \in Nat /\ DOMAIN rows = 1..Len(rows)
      /\ order \in [1..Len(rows) -> Nat] /\ starts \in [1..Len(rows) -> Nat]
  BY DEF TypeOK
<1>4. /\ rows' \in Seq(Row) /\ Len(rows') = Len(rows) + 1
      /\ \A i \in 1..Len(rows) : rows'[i] = others[i]
      /\ rows'[n] = new
  BY <1>1, <1>2, AppendProperties
<1>5. /\ order' \in [1..(Len(rows) + 1) -> Nat]
      /\ starts' \in [1..(Len(rows) + 1) -> Nat]
      /\ \A i \in 1..Len(rows) : starts'[i] = starts[i]
      /\ starts'[n] = 0
  <2>1. order \in Seq(Nat) /\ starts \in Seq(Nat)
    BY <1>3, FunctionIsSequence
  <2>2. DOMAIN order = 1..Len(order) /\ DOMAIN starts = 1..Len(starts)
        /\ Len(order) \in Nat /\ Len(starts) \in Nat
    BY <2>1, LenProperties
  <2>3. Len(order) = Len(rows) /\ Len(starts) = Len(rows)
    BY <1>3, <2>2
  <2>4. /\ order' \in Seq(Nat) /\ Len(order') = Len(rows) + 1
        /\ starts' \in Seq(Nat) /\ Len(starts') = Len(rows) + 1
        /\ \A i \in 1..Len(rows) : starts'[i] = starts[i]
        /\ starts'[n] = 0
    BY <2>1, <2>3, <1>1, AppendProperties
  <2> QED BY <2>4, LenProperties
<1>6. DOMAIN rows' = 1..(Len(rows) + 1)
  BY <1>4
<1>7. 1..(Len(rows) + 1) = 1..Len(rows) \cup {n} /\ n \in Nat \ 1..Len(rows)
  BY <1>3
<1>8. Len(rows') <= MaxInputs
  BY <1>1, <1>3, <1>4, BoundsAssumption
<1> QED BY <1>3, <1>4, <1>5, <1>6, <1>7, <1>8 DEF new

\* The invariant survives a new input that waits in the store and in memory.
LEMMA AnInputJoins ==
  ASSUME IInv, NEW kind \in {"message", "command", "report"}, NEW p \in Nat,
         NEW others \in Seq(Row), Len(others) = Len(rows),
         \A i \in DOMAIN rows : /\ others[i].kind = rows[i].kind
                                /\ others[i].state = rows[i].state
                                /\ others[i].run = rows[i].run
                                /\ others[i].attempts = rows[i].attempts,
         Insert(kind, p, others),
         queue' \in {Append(queue, Len(rows) + 1), <<Len(rows) + 1>> \o queue},
         UNCHANGED <<active, executing, faulted, prepared, gate, restarts>>,
         {question', paused', resume', asking'} \subseteq BOOLEAN, asking' = question',
         Wake
  PROVE  IInv'
<1> DEFINE n == Len(rows) + 1
<1>1. /\ rows' \in Seq(Row) /\ Len(rows') <= MaxInputs
      /\ DOMAIN rows' = DOMAIN rows \cup {n} /\ n \in Nat \ DOMAIN rows
      /\ \A i \in DOMAIN rows : rows'[i] = others[i] /\ starts'[i] = starts[i]
      /\ rows'[n] = [kind |-> kind, state |-> "queued", priority |-> p,
                     run |-> "none", attempts |-> 0]
      /\ starts'[n] = 0
      /\ order' \in [DOMAIN rows' -> Nat] /\ starts' \in [DOMAIN rows' -> Nat]
  BY InsertStep DEF IInv
<1> HIDE DEF n
<1>a. \A i \in DOMAIN rows : /\ rows'[i].kind = rows[i].kind
                             /\ rows'[i].state = rows[i].state
                             /\ rows'[i].run = rows[i].run
                             /\ rows'[i].attempts = rows[i].attempts
                             /\ starts'[i] = starts[i]
  BY <1>1
<1>b. /\ rows'[n].state = "queued" /\ rows'[n].run = "none" /\ rows'[n].attempts = 0
      /\ starts'[n] = 0
  BY <1>1
<1>c. DOMAIN rows' = DOMAIN rows \cup {n} /\ n \in Nat \ DOMAIN rows
  BY <1>1
<1>2. /\ queue' \in Seq(DOMAIN rows') /\ IsInjective(queue')
      /\ ToSet(queue') = ToSet(queue) \cup {n}
  <2>1. queue \in Seq(DOMAIN rows) /\ IsInjective(queue)
    BY DEF IInv, TypeOK
  <2>2. n \notin ToSet(queue)
    BY <2>1, <1>1 DEF ToSet
  <2>3. CASE queue' = Append(queue, n)
    BY <2>1, <2>2, <2>3, <1>1, AppendedAt
  <2>4. CASE queue' = <<n>> \o queue
    BY <2>1, <2>2, <2>4, <1>1, PutInFront
  <2> QED BY <2>3, <2>4 DEF n
<1>3. /\ driving' \in BOOLEAN /\ drivers' \in [Drivers -> Driver]
      /\ \A d \in Drivers :
           \/ drivers'[d] = drivers[d]
           \/ drivers[d].at \in {"off", "stopped"} /\ drivers'[d] = [at |-> "top", input |-> 0, attempt |-> 0]
  BY WakeStep DEF IInv, TypeOK
<1>4. TypeOK'
  BY <1>1, <1>2, <1>3 DEF IInv, TypeOK
<1>5. AttemptFacts'
  <2> SUFFICES ASSUME NEW i \in DOMAIN rows'
               PROVE  /\ rows'[i].run = "none" <=> rows'[i].attempts = 0
                      /\ rows'[i].kind = "command" => rows'[i].run = "none"
                      /\ rows'[i].state = "queued" => rows'[i].run \in {"none", "accepted"}
                      /\ rows'[i].run = "running" => rows'[i].state = "committed"
                      /\ starts'[i] <= rows'[i].attempts
                      /\ rows'[i].run = "accepted" => starts'[i] < rows'[i].attempts
    BY DEF AttemptFacts
  <2>1. CASE i = n
    BY <2>1, <1>b
  <2>2. CASE i \in DOMAIN rows
    BY <2>2, <1>a DEF IInv, AttemptFacts
  <2> QED BY <2>1, <2>2, <1>c
<1>6. QueueFacts'
  <2>1. ASSUME NEW k \in DOMAIN queue' PROVE rows'[queue'[k]].run \in {"none", "accepted"}
    <3>1. queue'[k] \in ToSet(queue) \cup {n}
      BY <1>2, <2>1 DEF ToSet
    <3>2. CASE queue'[k] = n
      BY <3>2, <1>1
    <3>3. CASE queue'[k] \in ToSet(queue)
      <4>1. PICK j \in DOMAIN queue : queue'[k] = queue[j]
        BY <3>3 DEF ToSet
      <4>2. queue \in Seq(DOMAIN rows)
        BY DEF IInv, TypeOK
      <4>3. queue[j] \in DOMAIN rows
        BY <4>1, <4>2
      <4>4. rows[queue[j]].run \in {"none", "accepted"}
        BY <4>1 DEF IInv, QueueFacts
      <4> QED BY <4>1, <4>3, <4>4, <1>a
    <3> QED BY <3>1, <3>2, <3>3
  <2> QED BY <2>1 DEF QueueFacts
<1>7. ActiveFacts'
  <2>1. active # 0 => active \in DOMAIN rows
    BY DEF IInv, TypeOK
  <2> QED BY <2>1, <1>1 DEF IInv, ActiveFacts
<1>8. DriverFacts'
  <2> SUFFICES ASSUME NEW d \in Drivers
               PROVE  /\ drivers'[d].at \notin {"off", "stopped", "top"} => drivers'[d].input \in DOMAIN rows'
                      /\ At(d, "prepare")' => rows'[drivers'[d].input].kind # "command"
                      /\ At(d, "command")' => rows'[drivers'[d].input].kind = "command"
                      /\ At(d, "commit")' <=> gate' = d
                      /\ At(d, "commit")' => active' = 0 /\ rows'[drivers'[d].input].run = "accepted"
    BY DEF DriverFacts
  <2>1. CASE drivers'[d] = drivers[d]
    <3> DEFINE i == drivers[d].input
    <3>1. /\ drivers[d].at \notin {"off", "stopped", "top"} => i \in DOMAIN rows
          /\ drivers[d].at = "prepare" => rows[i].kind # "command"
          /\ drivers[d].at = "command" => rows[i].kind = "command"
          /\ drivers[d].at = "commit" <=> gate = d
          /\ drivers[d].at = "commit" => active = 0 /\ rows[i].run = "accepted"
      BY DEF IInv, DriverFacts, At
    <3> HIDE DEF i
    <3>2. drivers'[d].at = drivers[d].at /\ drivers'[d].input = i
      BY <2>1 DEF i
    <3>3. i \in DOMAIN rows => /\ i \in DOMAIN rows' /\ rows'[i].kind = rows[i].kind
                               /\ rows'[i].run = rows[i].run
      BY <1>a, <1>c
    <3> QED BY <3>1, <3>2, <3>3 DEF At
  <2>2. CASE drivers[d].at \in {"off", "stopped"} /\ drivers'[d] = [at |-> "top", input |-> 0, attempt |-> 0]
    BY <2>2 DEF IInv, DriverFacts, At
  <2> QED BY <2>1, <2>2, <1>3
<1>9. Agreement'
  <2> SUFFICES ASSUME InService'
               PROVE  /\ ToSet(queue') = Queued(rows') \cup {i \in DOMAIN rows' : rows'[i].run = "accepted"}
                      /\ {active'} \ {0} = {i \in DOMAIN rows' : rows'[i].run = "running"}
                      /\ \A i \in DOMAIN rows' : rows'[i].state = "queued" /\ rows'[i].run = "accepted" =>
                            gate' # 0 /\ i = drivers'[gate'].input
    BY DEF Agreement
  <2>1. /\ ToSet(queue) = Queued(rows) \cup {i \in DOMAIN rows : rows[i].run = "accepted"}
        /\ {active} \ {0} = {i \in DOMAIN rows : rows[i].run = "running"}
        /\ \A i \in DOMAIN rows : rows[i].state = "queued" /\ rows[i].run = "accepted" =>
              gate # 0 /\ i = drivers[gate].input
    BY DEF InService, IInv, Agreement
  <2>2. Queued(rows') = Queued(rows) \cup {n}
    BY <1>a, <1>b, <1>c DEF Queued
  <2>3. {i \in DOMAIN rows' : rows'[i].run = "accepted"} = {i \in DOMAIN rows : rows[i].run = "accepted"}
    BY <1>a, <1>b, <1>c
  <2>4. {i \in DOMAIN rows' : rows'[i].run = "running"} = {i \in DOMAIN rows : rows[i].run = "running"}
    BY <1>a, <1>b, <1>c
  <2>5. gate # 0 => gate \in Drivers /\ drivers[gate].at = "commit"
    BY DEF IInv, TypeOK, DriverFacts, At
  <2>6. gate # 0 => drivers'[gate] = drivers[gate]
    BY <2>5, <1>3
  <2>7. ToSet(queue') = Queued(rows') \cup {i \in DOMAIN rows' : rows'[i].run = "accepted"}
    BY <2>1, <2>2, <2>3, <1>2
  <2>8. {active'} \ {0} = {i \in DOMAIN rows' : rows'[i].run = "running"}
    BY <2>1, <2>4
  <2>9. ASSUME NEW i \in DOMAIN rows', rows'[i].state = "queued", rows'[i].run = "accepted"
        PROVE  gate' # 0 /\ i = drivers'[gate'].input
    <3>1. i \in DOMAIN rows /\ rows[i].state = "queued" /\ rows[i].run = "accepted"
      BY <2>9, <1>a, <1>b, <1>c
    <3> QED BY <3>1, <2>1, <2>6
  <2> QED BY <2>7, <2>8, <2>9
<1> QED BY <1>4, <1>5, <1>6, <1>7, <1>8, <1>9 DEF IInv

\* The invariant survives a step that leaves the inputs and the run alone.
LEMMA OnlyTasksMove ==
  ASSUME IInv, UNCHANGED <<rows, queue, order, starts, prepared>>,
         {question', paused', resume', asking', driving', faulted'} \subseteq BOOLEAN,
         asking' = question', restarts' \in 0..MaxRestarts,
         drivers' \in [Drivers -> Driver], gate' \in {0} \cup Drivers,
         executing' \in {0} \cup DOMAIN rows,
         active' \in {0, active}, DriverFacts',
         ~faulted' => /\ ~faulted /\ active' = active
                      /\ gate = 0 \/ (gate' = gate /\ drivers'[gate].input = drivers[gate].input)
  PROVE  IInv'
<1>1. TypeOK'
  BY DEF IInv, TypeOK
<1>2. AttemptFacts' /\ QueueFacts'
  BY DEF IInv, AttemptFacts, QueueFacts
<1>3. ActiveFacts'
  BY DEF IInv, ActiveFacts
<1>4. Agreement'
  <2> SUFFICES ASSUME InService'
               PROVE  /\ ToSet(queue') = Queued(rows') \cup {i \in DOMAIN rows' : rows'[i].run = "accepted"}
                      /\ {active'} \ {0} = {i \in DOMAIN rows' : rows'[i].run = "running"}
                      /\ \A i \in DOMAIN rows' : rows'[i].state = "queued" /\ rows'[i].run = "accepted" =>
                            gate' # 0 /\ i = drivers'[gate'].input
    BY DEF Agreement
  <2>1. /\ ToSet(queue) = Queued(rows) \cup {i \in DOMAIN rows : rows[i].run = "accepted"}
        /\ {active} \ {0} = {i \in DOMAIN rows : rows[i].run = "running"}
        /\ \A i \in DOMAIN rows : rows[i].state = "queued" /\ rows[i].run = "accepted" =>
              gate # 0 /\ i = drivers[gate].input
    BY DEF InService, IInv, Agreement
  <2> QED BY <2>1 DEF InService
<1> QED BY <1>1, <1>2, <1>3, <1>4 DEF IInv

\* Replacing the row of one input leaves the rows of the others.
LEMMA OneRowChanges ==
  ASSUME rows \in Seq(Row), NEW i \in DOMAIN rows, NEW w \in Row, rows' = [rows EXCEPT ![i] = w]
  PROVE  /\ rows' \in Seq(Row) /\ Len(rows') = Len(rows) /\ DOMAIN rows' = DOMAIN rows
         /\ rows'[i] = w /\ \A j \in DOMAIN rows : j # i => rows'[j] = rows[j]
<1>1. DOMAIN rows = 1..Len(rows)
  OBVIOUS
<1>2. /\ rows' \in Seq(Row) /\ Len(rows') = Len(rows)
      /\ \A j \in 1..Len(rows) : rows'[j] = IF j = i THEN w ELSE rows[j]
  BY <1>1, ExceptSeq
<1>3. DOMAIN rows' = 1..Len(rows')
  BY <1>2
<1> QED BY <1>1, <1>2, <1>3

\* A woken driver holds nothing: what is true of the drivers stays true.
LEMMA DriversWake ==
  ASSUME IInv, gate = 0, gate' = 0, DOMAIN rows \subseteq DOMAIN rows',
         \A i \in DOMAIN rows : rows'[i].kind = rows[i].kind,
         Wake
  PROVE  driving' \in BOOLEAN /\ drivers' \in [Drivers -> Driver] /\ DriverFacts'
<1>1. /\ driving' \in BOOLEAN /\ drivers' \in [Drivers -> Driver]
      /\ \A d \in Drivers :
           \/ drivers'[d] = drivers[d]
           \/ drivers[d].at \in {"off", "stopped"} /\ drivers'[d] = [at |-> "top", input |-> 0, attempt |-> 0]
  BY WakeStep DEF IInv, TypeOK
<1> SUFFICES ASSUME NEW d \in Drivers
             PROVE  /\ drivers'[d].at \notin {"off", "stopped", "top"} => drivers'[d].input \in DOMAIN rows'
                    /\ At(d, "prepare")' => rows'[drivers'[d].input].kind # "command"
                    /\ At(d, "command")' => rows'[drivers'[d].input].kind = "command"
                    /\ At(d, "commit")' <=> gate' = d
                    /\ At(d, "commit")' => active' = 0 /\ rows'[drivers'[d].input].run = "accepted"
  BY <1>1 DEF DriverFacts
<1>2. gate # d
  BY BoundsAssumption
<1>3. CASE drivers'[d] = drivers[d]
  <2> DEFINE i == drivers[d].input
  <2>1. /\ drivers[d].at \notin {"off", "stopped", "top"} => i \in DOMAIN rows
        /\ drivers[d].at = "prepare" => rows[i].kind # "command"
        /\ drivers[d].at = "command" => rows[i].kind = "command"
        /\ drivers[d].at # "commit"
    BY <1>2 DEF IInv, DriverFacts, At
  <2> HIDE DEF i
  <2>2. drivers'[d].at = drivers[d].at /\ drivers'[d].input = i
    BY <1>3 DEF i
  <2> QED BY <2>1, <2>2, <1>2 DEF At
<1>4. CASE drivers[d].at \in {"off", "stopped"} /\ drivers'[d] = [at |-> "top", input |-> 0, attempt |-> 0]
  BY <1>2, <1>4 DEF At
<1> QED BY <1>1, <1>3, <1>4

\* A driver moves to a place that its input and the gate allow.
LEMMA DriverMoves ==
  ASSUME IInv, NEW d \in Drivers, NEW v \in Driver, drivers' = [drivers EXCEPT ![d] = v],
         DOMAIN rows \subseteq DOMAIN rows',
         \A i \in DOMAIN rows : rows'[i].kind = rows[i].kind,
         v.at \notin {"off", "stopped", "top"} => v.input \in DOMAIN rows,
         v.at = "prepare" => rows[v.input].kind # "command",
         v.at = "command" => rows[v.input].kind = "command",
         v.at = "commit" <=> gate' = d,
         v.at = "commit" => active' = 0 /\ rows'[v.input].run = "accepted",
         \/ gate \in {0, d} /\ gate' \in {0, d}
         \/ gate' = gate /\ (active = 0 => active' = 0) /\ rows' = rows
  PROVE  /\ drivers' \in [Drivers -> Driver] /\ gate' \in {0} \cup Drivers
         /\ drivers'[d] = v /\ \A e \in Drivers : e # d => drivers'[e] = drivers[e]
         /\ DriverFacts'
<1>1. /\ drivers' \in [Drivers -> Driver] /\ gate' \in {0} \cup Drivers
      /\ drivers'[d] = v /\ \A e \in Drivers : e # d => drivers'[e] = drivers[e]
  BY DEF IInv, TypeOK
<1> SUFFICES ASSUME NEW e \in Drivers
             PROVE  /\ drivers'[e].at \notin {"off", "stopped", "top"} => drivers'[e].input \in DOMAIN rows'
                    /\ At(e, "prepare")' => rows'[drivers'[e].input].kind # "command"
                    /\ At(e, "command")' => rows'[drivers'[e].input].kind = "command"
                    /\ At(e, "commit")' <=> gate' = e
                    /\ At(e, "commit")' => active' = 0 /\ rows'[drivers'[e].input].run = "accepted"
  BY <1>1 DEF DriverFacts
<1>2. CASE e = d
  <2>1. drivers'[e].at = v.at /\ drivers'[e].input = v.input
    BY <1>1, <1>2
  <2> QED BY <1>2, <2>1 DEF At
<1>3. CASE e # d
  <2> DEFINE i == drivers[e].input
  <2>1. /\ drivers[e].at \notin {"off", "stopped", "top"} => i \in DOMAIN rows
        /\ drivers[e].at = "prepare" => rows[i].kind # "command"
        /\ drivers[e].at = "command" => rows[i].kind = "command"
        /\ drivers[e].at = "commit" <=> gate = e
        /\ drivers[e].at = "commit" => active = 0 /\ rows[i].run = "accepted"
    BY DEF IInv, DriverFacts, At
  <2> HIDE DEF i
  <2>2. drivers'[e].at = drivers[e].at /\ drivers'[e].input = i
    BY <1>1, <1>3 DEF i
  <2>3. e # 0
    BY BoundsAssumption
  <2>4. CASE gate \in {0, d} /\ gate' \in {0, d}
    BY <2>1, <2>2, <2>3, <2>4, <1>3 DEF At
  <2>5. CASE gate' = gate /\ (active = 0 => active' = 0) /\ rows' = rows
    BY <2>1, <2>2, <2>5 DEF At
  <2> QED BY <2>4, <2>5
<1> QED BY <1>2, <1>3

\* A set is known by one element and by the others.
LEMMA OneMore ==
  ASSUME NEW X, NEW Y, NEW i, X \ {i} = Y \ {i}
  PROVE  X = (Y \ {i}) \cup (IF i \in X THEN {i} ELSE {})
<1>1. ASSUME NEW x PROVE x \in X <=> x \in (Y \ {i}) \cup (IF i \in X THEN {i} ELSE {})
  <2>1. x # i => (x \in X <=> x \in Y)
    OBVIOUS
  <2> QED BY <2>1
<1> QED BY <1>1

\* The invariant survives a step that changes the row of one input, provided that the
\* new row is a legal one and memory follows it while the session is in service.
LEMMA OneRowMoves ==
  ASSUME IInv, NEW i \in DOMAIN rows, NEW w \in Row, rows' = [rows EXCEPT ![i] = w],
         starts' \in [DOMAIN rows -> Nat], \A j \in DOMAIN rows : j # i => starts'[j] = starts[j],
         w.run = "none" <=> w.attempts = 0,
         w.kind = "command" => w.run = "none",
         w.state = "queued" => w.run \in {"none", "accepted"},
         w.run = "running" => w.state = "committed",
         starts'[i] <= w.attempts,
         w.run = "accepted" => starts'[i] < w.attempts,
         queue' \in Seq(DOMAIN rows), IsInjective(queue'), ToSet(queue') \subseteq ToSet(queue) \cup {i},
         i \in ToSet(queue') => w.run \in {"none", "accepted"},
         active' \in {0} \cup DOMAIN rows,
         active' # 0 => \/ active' = active /\ active # i
                        \/ active' = i /\ w.run = "running",
         {question', paused', resume', asking', driving', faulted', prepared'} \subseteq BOOLEAN,
         asking' = question', restarts' \in 0..MaxRestarts, order' = order,
         drivers' \in [Drivers -> Driver], gate' \in {0} \cup Drivers,
         executing' \in {0} \cup DOMAIN rows,
         DriverFacts',
         InService' =>
           /\ InService
           /\ gate = 0 \/ i = drivers[gate].input
           /\ ToSet(queue') = (ToSet(queue) \ {i}) \cup (IF w.state = "queued" \/ w.run = "accepted"
                                                         THEN {i} ELSE {})
           /\ {active'} \ {0} = ({active} \ {0, i}) \cup (IF w.run = "running" THEN {i} ELSE {})
           /\ w.state = "queued" /\ w.run = "accepted" => gate' # 0 /\ i = drivers'[gate'].input
  PROVE  IInv'
<1>1. /\ rows' \in Seq(Row) /\ Len(rows') = Len(rows) /\ DOMAIN rows' = DOMAIN rows
      /\ rows'[i] = w /\ \A j \in DOMAIN rows : j # i => rows'[j] = rows[j]
  BY OneRowChanges DEF IInv, TypeOK
<1>2. TypeOK'
  BY <1>1 DEF IInv, TypeOK
<1>3. AttemptFacts'
  <2> SUFFICES ASSUME NEW j \in DOMAIN rows
               PROVE  /\ rows'[j].run = "none" <=> rows'[j].attempts = 0
                      /\ rows'[j].kind = "command" => rows'[j].run = "none"
                      /\ rows'[j].state = "queued" => rows'[j].run \in {"none", "accepted"}
                      /\ rows'[j].run = "running" => rows'[j].state = "committed"
                      /\ starts'[j] <= rows'[j].attempts
                      /\ rows'[j].run = "accepted" => starts'[j] < rows'[j].attempts
    BY <1>1 DEF AttemptFacts
  <2>1. CASE j = i
    BY <2>1, <1>1
  <2>2. CASE j # i
    <3>1. rows'[j] = rows[j] /\ starts'[j] = starts[j]
      BY <2>2, <1>1
    <3> QED BY <3>1 DEF IInv, AttemptFacts
  <2> QED BY <2>1, <2>2
<1>4. QueueFacts'
  <2> SUFFICES ASSUME NEW k \in DOMAIN queue' PROVE rows'[queue'[k]].run \in {"none", "accepted"}
    BY DEF QueueFacts
  <2>1. queue'[k] \in ToSet(queue')
    BY DEF ToSet
  <2>2. CASE queue'[k] = i
    BY <2>1, <2>2, <1>1
  <2>3. CASE queue'[k] # i
    <3>1. PICK j \in DOMAIN queue : queue'[k] = queue[j]
      BY <2>1, <2>3 DEF ToSet
    <3>2. queue[j] \in DOMAIN rows
      <4>1. queue \in Seq(DOMAIN rows)
        BY DEF IInv, TypeOK
      <4> QED BY <3>1, <4>1
    <3>3. rows[queue[j]].run \in {"none", "accepted"}
      BY <3>1 DEF IInv, QueueFacts
    <3> QED BY <3>1, <3>2, <3>3, <2>3, <1>1
  <2> QED BY <2>2, <2>3
<1>5. ActiveFacts'
  BY <1>1 DEF IInv, ActiveFacts
<1>6. Agreement'
  <2> SUFFICES ASSUME InService'
               PROVE  /\ ToSet(queue') = Queued(rows') \cup {j \in DOMAIN rows' : rows'[j].run = "accepted"}
                      /\ {active'} \ {0} = {j \in DOMAIN rows' : rows'[j].run = "running"}
                      /\ \A j \in DOMAIN rows' : rows'[j].state = "queued" /\ rows'[j].run = "accepted" =>
                            gate' # 0 /\ j = drivers'[gate'].input
    BY DEF Agreement
  <2>1. /\ ToSet(queue) = Queued(rows) \cup {j \in DOMAIN rows : rows[j].run = "accepted"}
        /\ {active} \ {0} = {j \in DOMAIN rows : rows[j].run = "running"}
        /\ \A j \in DOMAIN rows : rows[j].state = "queued" /\ rows[j].run = "accepted" =>
              gate # 0 /\ j = drivers[gate].input
    BY DEF InService, IInv, Agreement
  <2>2. Queued(rows') \ {i} = Queued(rows) \ {i}
    BY <1>1 DEF Queued
  <2>3. {j \in DOMAIN rows' : rows'[j].run = "accepted"} \ {i}
          = {j \in DOMAIN rows : rows[j].run = "accepted"} \ {i}
    BY <1>1
  <2>4. {j \in DOMAIN rows' : rows'[j].run = "running"} \ {i}
          = {j \in DOMAIN rows : rows[j].run = "running"} \ {i}
    BY <1>1
  <2>5. /\ i \in Queued(rows') <=> w.state = "queued"
        /\ i \in {j \in DOMAIN rows' : rows'[j].run = "accepted"} <=> w.run = "accepted"
        /\ i \in {j \in DOMAIN rows' : rows'[j].run = "running"} <=> w.run = "running"
    BY <1>1 DEF Queued
  <2>6. ToSet(queue') = Queued(rows') \cup {j \in DOMAIN rows' : rows'[j].run = "accepted"}
    <3> DEFINE A == {j \in DOMAIN rows : rows[j].run = "accepted"}
               B == {j \in DOMAIN rows' : rows'[j].run = "accepted"}
    <3>1. /\ ToSet(queue) = Queued(rows) \cup A
          /\ B \ {i} = A \ {i} /\ (i \in B <=> w.run = "accepted")
      BY <2>1, <2>3, <2>5
    <3> HIDE DEF A, B
    <3>2. ToSet(queue') = (ToSet(queue) \ {i}) \cup (IF w.state = "queued" \/ w.run = "accepted"
                                                     THEN {i} ELSE {})
      OBVIOUS
    <3>3. (Queued(rows') \cup B) \ {i} = ToSet(queue) \ {i}
      BY <3>1, <2>2
    <3>4. i \in Queued(rows') \cup B <=> w.state = "queued" \/ w.run = "accepted"
      BY <3>1, <2>5
    <3> DEFINE X == Queued(rows') \cup B
    <3>5. X \ {i} = ToSet(queue) \ {i} /\ (i \in X <=> w.state = "queued" \/ w.run = "accepted")
      BY <3>3, <3>4
    <3> HIDE DEF X
    <3>6. X = (ToSet(queue) \ {i}) \cup (IF i \in X THEN {i} ELSE {})
      BY <3>5, OneMore
    <3>7. ToSet(queue') = X
      BY <3>2, <3>5, <3>6
    <3> QED BY <3>7 DEF X, B
  <2>7. {active'} \ {0} = {j \in DOMAIN rows' : rows'[j].run = "running"}
    <3> DEFINE A == {j \in DOMAIN rows : rows[j].run = "running"}
               B == {j \in DOMAIN rows' : rows'[j].run = "running"}
    <3>1. /\ {active} \ {0} = A
          /\ B \ {i} = A \ {i} /\ (i \in B <=> w.run = "running")
      BY <2>1, <2>4, <2>5
    <3> HIDE DEF A, B
    <3>2. {active'} \ {0} = ({active} \ {0, i}) \cup (IF w.run = "running" THEN {i} ELSE {})
      OBVIOUS
    <3>3. B \ {i} = ({active} \ {0}) \ {i} /\ (i \in B <=> w.run = "running")
      BY <3>1
    <3>4. B = (({active} \ {0}) \ {i}) \cup (IF w.run = "running" THEN {i} ELSE {})
      BY <3>3, OneMore
    <3>5. {active} \ {0, i} = ({active} \ {0}) \ {i}
      OBVIOUS
    <3> QED BY <3>2, <3>4, <3>5 DEF B
  <2>8. ASSUME NEW j \in DOMAIN rows', rows'[j].state = "queued", rows'[j].run = "accepted"
        PROVE  gate' # 0 /\ j = drivers'[gate'].input
    <3>1. CASE j = i
      BY <3>1, <2>8, <1>1
    <3>2. CASE j # i
      BY <3>2, <2>1, <2>8, <1>1
    <3> QED BY <3>1, <3>2
  <2> QED BY <2>6, <2>7, <2>8
<1> QED BY <1>2, <1>3, <1>4, <1>5, <1>6 DEF IInv

\* The invariant survives a step in which one driver moves and no row changes.
LEMMA ATaskMoves ==
  ASSUME IInv, NEW d \in Drivers, NEW v \in Driver, drivers' = [drivers EXCEPT ![d] = v],
         UNCHANGED <<rows, queue, order, switches, prepared, history>>,
         {driving', faulted'} \subseteq BOOLEAN, executing' \in {0} \cup DOMAIN rows,
         active' \in {0, active},
         v.at \notin {"off", "stopped", "top"} => v.input \in DOMAIN rows,
         v.at = "prepare" => rows[v.input].kind # "command",
         v.at = "command" => rows[v.input].kind = "command",
         v.at = "commit" <=> gate' = d,
         v.at = "commit" => active' = 0 /\ rows[v.input].run = "accepted",
         gate' = gate \/ (gate \in {0, d} /\ gate' \in {0, d}),
         ~faulted' => ~faulted /\ active' = active /\ (gate = 0 \/ (gate' = gate /\ gate # d))
  PROVE  IInv'
<1>1. /\ rows' = rows /\ queue' = queue /\ order' = order /\ starts' = starts /\ prepared' = prepared
      /\ paused' = paused /\ resume' = resume /\ asking' = asking /\ question' = question
      /\ restarts' = restarts
  BY DEF switches, history
<1>2. /\ drivers' \in [Drivers -> Driver] /\ gate' \in {0} \cup Drivers
      /\ drivers'[d] = v /\ \A e \in Drivers : e # d => drivers'[e] = drivers[e]
      /\ DriverFacts'
  BY <1>1, DriverMoves
<1>3. /\ {question, paused, resume, asking} \subseteq BOOLEAN /\ restarts \in 0..MaxRestarts
      /\ asking = question /\ gate \in {0} \cup Drivers
  BY DEF IInv, TypeOK, Agreement
<1> QED BY <1>1, <1>2, <1>3, OnlyTasksMove

\* A driver that moves keeps its input and its attempt.
LEMMA MovedDriver ==
  ASSUME IInv, NEW d \in Drivers, NEW place \in {"top", "prepare", "commit", "command", "run",
                                                 "panicked", "recovered", "orphan"},
         Move(d, place)
  PROVE  /\ drivers' = [drivers EXCEPT ![d] = [at |-> place, input |-> drivers[d].input,
                                               attempt |-> drivers[d].attempt]]
         /\ [at |-> place, input |-> drivers[d].input, attempt |-> drivers[d].attempt] \in Driver
<1>1. drivers[d] \in Driver
  BY DEF IInv, TypeOK
<1>2. drivers' = [drivers EXCEPT ![d] = [drivers[d] EXCEPT !.at = place]]
  BY DEF Move
<1>3. [drivers[d] EXCEPT !.at = place] = [at |-> place, input |-> drivers[d].input,
                                          attempt |-> drivers[d].attempt]
  BY <1>1 DEF Driver
<1>4. [at |-> place, input |-> drivers[d].input, attempt |-> drivers[d].attempt] \in Driver
  BY <1>1 DEF Driver
<1> QED BY <1>2, <1>3, <1>4

\* A driver that leaves is off.
LEMMA LeftDriver ==
  ASSUME NEW d \in Drivers, Leave(d)
  PROVE  /\ drivers' = [drivers EXCEPT ![d] = NoDriver]
         /\ NoDriver \in Driver /\ NoDriver.at \in {"off", "stopped"}
BY DEF Leave, NoDriver, Driver

\* One that could not prepare its input is nowhere either.
LEMMA StoppedDriver ==
  ASSUME NEW d \in Drivers, PreparationFails(d)
  PROVE  /\ drivers' = [drivers EXCEPT ![d] = Stopped]
         /\ Stopped \in Driver /\ Stopped.at \in {"off", "stopped"}
BY DEF PreparationFails, Stopped, NoDriver, Driver

\* The types of the variables, from the invariant.
LEMMA StateTypes ==
  ASSUME IInv
  PROVE  /\ rows \in Seq(Row) /\ DOMAIN rows = 1..Len(rows) /\ Len(rows) \in Nat
         /\ queue \in Seq(DOMAIN rows) /\ IsInjective(queue)
         /\ active \in {0} \cup DOMAIN rows /\ executing \in {0} \cup DOMAIN rows
         /\ {question, faulted, paused, resume, asking, driving, prepared} \subseteq BOOLEAN
         /\ drivers \in [Drivers -> Driver] /\ gate \in {0} \cup Drivers
         /\ restarts \in 0..MaxRestarts
         /\ starts \in [DOMAIN rows -> Nat] /\ order \in [DOMAIN rows -> Nat]
         /\ asking = question
BY DEF IInv, TypeOK, Agreement

\* What the place of a driver says of its input, from the invariant.
LEMMA DriverPlace ==
  ASSUME IInv, NEW d \in Drivers
  PROVE  /\ drivers[d].at \notin {"off", "stopped", "top"} => drivers[d].input \in DOMAIN rows
         /\ At(d, "prepare") => rows[drivers[d].input].kind # "command"
         /\ At(d, "command") => rows[drivers[d].input].kind = "command"
         /\ At(d, "commit") <=> gate = d
         /\ At(d, "commit") => active = 0 /\ rows[drivers[d].input].run = "accepted"
         /\ d # 0
BY BoundsAssumption DEF IInv, DriverFacts

\* What the queue offers waits for its first run or for an accepted retry.
LEMMA RunnableInput ==
  ASSUME IInv
  PROVE  /\ Runnable # 0 => /\ Runnable \in DOMAIN rows
                            /\ Runnable \in ToSet(queue)
                            /\ rows[Runnable].run \in {"none", "accepted"}
<1>1. CASE queue = <<>>
  BY <1>1 DEF Runnable
<1>2. CASE queue # <<>>
  <2>1. Head(queue) = queue[1] /\ 1 \in DOMAIN queue
    BY <1>2, StateTypes, TailOf
  <2>2. queue[1] \in ToSet(queue)
    BY <2>1 DEF ToSet
  <2>3. rows[queue[1]].run \in {"none", "accepted"}
    BY <2>1 DEF IInv, QueueFacts
  <2>4. queue[1] \in DOMAIN rows
    <3>1. queue \in Seq(DOMAIN rows)
      BY StateTypes
    <3> QED BY <2>1, <3>1
  <2> QED BY <2>1, <2>2, <2>3, <2>4 DEF Runnable
<1> QED BY <1>1, <1>2

-----------------------------------------------------------------------------

\* Dismissing a question clears it in memory and in the store.
LEMMA DismissQuestionStep ==
  ASSUME IInv, DismissQuestion
  PROVE  IInv'
<1>1. /\ UNCHANGED <<rows, queue, order, active, executing, faulted, resume, prepared, driving, drivers,
                     gate, starts, restarts>>
      /\ asking' = FALSE /\ question' = FALSE /\ paused' = TRUE
  BY DEF DismissQuestion, tasks, history
<1>2. DriverFacts'
  BY <1>1 DEF IInv, DriverFacts, At
<1> QED BY <1>1, <1>2, StateTypes, OnlyTasksMove

\* An interruption only pauses the queue.
LEMMA InterruptStep ==
  ASSUME IInv, Interrupt
  PROVE  IInv'
<1>1. /\ UNCHANGED <<rows, queue, order, active, executing, faulted, resume, asking, question, prepared,
                     driving, drivers, gate, starts, restarts>>
      /\ paused' = TRUE
  BY DEF Interrupt, tasks, history
<1>2. DriverFacts'
  BY <1>1 DEF IInv, DriverFacts, At
<1> QED BY <1>1, <1>2, StateTypes, OnlyTasksMove

\* Resuming only wakes the queue.
LEMMA ResumeSessionStep ==
  ASSUME IInv, ResumeSession
  PROVE  IInv'
<1>1. /\ UNCHANGED <<rows, queue, order, active, executing, faulted, asking, question, prepared,
                     gate, starts, restarts>>
      /\ resume' = FALSE /\ paused' = FALSE /\ gate = 0 /\ Wake
  BY DEF ResumeSession, Handler, history
<1>2. driving' \in BOOLEAN /\ drivers' \in [Drivers -> Driver] /\ DriverFacts'
  BY <1>1, DriversWake
<1> QED BY <1>1, <1>2, StateTypes, OnlyTasksMove

\* A driver that finds nothing to do ends.
LEMMA RestStep ==
  ASSUME IInv, NEW d \in Drivers, Rest(d)
  PROVE  IInv'
<1>1. /\ UNCHANGED <<rows, queue, order, active, executing, faulted, switches, prepared, gate, history>>
      /\ driving' = FALSE /\ gate = 0 /\ Leave(d)
  BY DEF Rest
<1> QED BY <1>1, StateTypes, DriverPlace, LeftDriver, ATaskMoves

\* A command is taken from the front of the queue and stays there while it runs.
LEMMA TakeCommandStep ==
  ASSUME IInv, NEW d \in Drivers, TakeCommand(d)
  PROVE  IInv'
<1> DEFINE v == [at |-> "command", input |-> Runnable, attempt |-> 0]
<1>1. /\ UNCHANGED <<rows, queue, order, active, faulted, switches, prepared, driving, gate, history>>
      /\ gate = 0 /\ Runnable # 0 /\ rows[Runnable].kind = "command" /\ executing' = Runnable
      /\ drivers' = [drivers EXCEPT ![d] = v]
  BY DEF TakeCommand, MayConsume
<1>2. Runnable \in DOMAIN rows
  BY <1>1, RunnableInput
<1>3. v \in Driver /\ v.at = "command" /\ v.input = Runnable
  BY <1>2, StateTypes DEF Driver
<1> HIDE DEF v
<1> QED BY <1>1, <1>2, <1>3, StateTypes, DriverPlace, ATaskMoves

\* An input is prepared while it waits.
LEMMA PrepareInputStep ==
  ASSUME IInv, NEW d \in Drivers, PrepareInput(d)
  PROVE  IInv'
<1> DEFINE v == [at |-> "prepare", input |-> Runnable, attempt |-> rows[Runnable].attempts]
<1>1. /\ UNCHANGED <<rows, queue, order, active, executing, faulted, switches, prepared, driving, gate,
                     history>>
      /\ gate = 0 /\ Runnable # 0 /\ rows[Runnable].kind # "command"
      /\ drivers' = [drivers EXCEPT ![d] = v]
  BY DEF PrepareInput, MayConsume
<1>2. Runnable \in DOMAIN rows
  BY <1>1, RunnableInput
<1>3. rows[Runnable] \in Row
  BY <1>2, StateTypes
<1>4. v \in Driver /\ v.at = "prepare" /\ v.input = Runnable
  BY <1>2, <1>3, StateTypes DEF Driver, Row
<1> HIDE DEF v
<1> QED BY <1>1, <1>2, <1>4, StateTypes, DriverPlace, ATaskMoves

\* A store that cannot be read takes the session out of service.
LEMMA ReadFailsStep ==
  ASSUME IInv, NEW d \in Drivers, ReadFails(d)
  PROVE  IInv'
<1>1. /\ UNCHANGED <<rows, queue, order, active, switches, prepared, gate, history>>
      /\ faulted' = TRUE /\ driving' = FALSE /\ executing' = 0 /\ At(d, "top")
      /\ Leave(d)
  BY DEF ReadFails, Fault
<1> QED BY <1>1, StateTypes, DriverPlace, LeftDriver, ATaskMoves DEF At

\* A preparation that is out of date is dropped.
LEMMA DropPreparationStep ==
  ASSUME IInv, NEW d \in Drivers, DropPreparation(d)
  PROVE  IInv'
<1> DEFINE v == [at |-> "top", input |-> drivers[d].input, attempt |-> drivers[d].attempt]
<1>1. /\ UNCHANGED <<rows, queue, order, active, executing, faulted, switches, prepared, driving, gate, history>>
      /\ At(d, "prepare") /\ gate = 0
      /\ Move(d, "top")
  BY DEF DropPreparation
<1>2. v \in Driver /\ drivers' = [drivers EXCEPT ![d] = v]
  BY <1>1, MovedDriver
<1>3. v.at = "top" /\ v.input = drivers[d].input
  OBVIOUS
<1> HIDE DEF v
<1> QED BY <1>1, <1>2, <1>3, StateTypes, DriverPlace, ATaskMoves DEF At

\* A claim the store refuses takes the session out of service.
LEMMA ClaimFailsStep ==
  ASSUME IInv, NEW d \in Drivers, ClaimFails(d)
  PROVE  IInv'
<1>1. /\ UNCHANGED <<rows, queue, order, active, switches, prepared, gate, history>>
      /\ faulted' = TRUE /\ driving' = FALSE /\ executing' = 0 /\ At(d, "prepare") /\ gate = 0
      /\ Leave(d)
  BY DEF ClaimFails, Fault
<1> QED BY <1>1, StateTypes, DriverPlace, LeftDriver, ATaskMoves DEF At

\* A retried input has its accepted run already; the driver takes the gate.
LEMMA TakeRetryStep ==
  ASSUME IInv, NEW d \in Drivers, TakeRetry(d)
  PROVE  IInv'
<1> DEFINE v == [at |-> "commit", input |-> drivers[d].input, attempt |-> drivers[d].attempt]
<1>1. /\ UNCHANGED <<rows, queue, order, active, executing, faulted, switches, prepared, driving, history>>
      /\ At(d, "prepare") /\ gate = 0 /\ gate' = d
      /\ Move(d, "commit")
  BY DEF TakeRetry
<1>2. v \in Driver /\ drivers' = [drivers EXCEPT ![d] = v]
  BY <1>1, MovedDriver
<1>3. v.at = "commit" /\ v.input = drivers[d].input
  OBVIOUS
<1> HIDE DEF v
<1>4. active = 0 /\ rows[drivers[d].input].run = "accepted"
  <2>1. /\ active = 0 /\ drivers[d].input = Runnable
        /\ rows[Runnable].attempts = drivers[d].attempt /\ drivers[d].attempt > 0
    BY DEF TakeRetry, StillCurrent
  <2>2. drivers[d].input \in DOMAIN rows
    BY <1>1, DriverPlace DEF At
  <2>3. Runnable # 0
    BY <2>1, <2>2, StateTypes
  <2>4. rows[Runnable].run \in {"none", "accepted"} /\ Runnable \in DOMAIN rows
    BY <2>3, RunnableInput
  <2>5. rows[Runnable].run = "none" <=> rows[Runnable].attempts = 0
    BY <2>4 DEF IInv, AttemptFacts
  <2> QED BY <2>1, <2>4, <2>5
<1> QED BY <1>1, <1>2, <1>3, <1>4, StateTypes, DriverPlace, ATaskMoves DEF At

\* A commit the store refuses takes the session out of service and frees the gate.
LEMMA CommitFailsStep ==
  ASSUME IInv, NEW d \in Drivers, CommitFails(d)
  PROVE  IInv'
<1>1. /\ UNCHANGED <<rows, queue, order, active, switches, prepared, history>>
      /\ faulted' = TRUE /\ driving' = FALSE /\ executing' = 0 /\ At(d, "commit") /\ gate' = 0
      /\ Leave(d)
  BY DEF CommitFails, Fault
<1> QED BY <1>1, StateTypes, DriverPlace, LeftDriver, ATaskMoves DEF At

\* A settlement the store refuses clears the active run and faults the session.
LEMMA SettleFailsStep ==
  ASSUME IInv, NEW d \in Drivers, SettleFails(d)
  PROVE  IInv'
<1> DEFINE v == [at |-> "top", input |-> drivers[d].input, attempt |-> drivers[d].attempt]
<1>1. /\ UNCHANGED <<rows, queue, order, switches, prepared, gate, history>>
      /\ faulted' = TRUE /\ driving' = FALSE /\ executing' = 0 /\ At(d, "run") /\ gate = 0 /\ active' = 0
      /\ Move(d, "top")
  BY DEF SettleFails, Fault
<1>2. v \in Driver /\ drivers' = [drivers EXCEPT ![d] = v]
  BY <1>1, MovedDriver
<1>3. v.at = "top" /\ v.input = drivers[d].input
  OBVIOUS
<1> HIDE DEF v
<1> QED BY <1>1, <1>2, <1>3, StateTypes, DriverPlace, ATaskMoves DEF At

\* A driver that does not own the active run settles nothing.
LEMMA SettleForeignStep ==
  ASSUME IInv, NEW d \in Drivers, SettleForeign(d)
  PROVE  IInv'
<1> DEFINE v == [at |-> "top", input |-> drivers[d].input, attempt |-> drivers[d].attempt]
<1>1. /\ UNCHANGED <<rows, queue, order, active, switches, prepared, gate, history>>
      /\ faulted' = TRUE /\ driving' = FALSE /\ executing' = 0 /\ At(d, "run") /\ gate = 0
      /\ Move(d, "top")
  BY DEF SettleForeign, Fault
<1>2. v \in Driver /\ drivers' = [drivers EXCEPT ![d] = v]
  BY <1>1, MovedDriver
<1>3. v.at = "top" /\ v.input = drivers[d].input
  OBVIOUS
<1> HIDE DEF v
<1> QED BY <1>1, <1>2, <1>3, StateTypes, DriverPlace, ATaskMoves DEF At

\* A panic clears the flag of the driver and leaves the run to the recovery.
LEMMA DriverPanicsStep ==
  ASSUME IInv, NEW d \in Drivers, DriverPanics(d)
  PROVE  IInv'
<1> DEFINE v == [at |-> "panicked", input |-> drivers[d].input, attempt |-> drivers[d].attempt]
<1>1. /\ UNCHANGED <<rows, queue, order, active, executing, faulted, switches, prepared, gate, history>>
      /\ driving' = FALSE /\ At(d, "run")
      /\ Move(d, "panicked")
  BY DEF DriverPanics
<1>2. v \in Driver /\ drivers' = [drivers EXCEPT ![d] = v]
  BY <1>1, MovedDriver
<1>3. v.at = "panicked" /\ v.input = drivers[d].input
  OBVIOUS
<1> HIDE DEF v
<1> QED BY <1>1, <1>2, <1>3, StateTypes, DriverPlace, ATaskMoves DEF At

\* A recovery that cannot settle the run faults the session.
LEMMA RecoveryFailsStep ==
  ASSUME IInv, NEW d \in Drivers, RecoveryFails(d)
  PROVE  IInv'
<1> DEFINE v == [at |-> "orphan", input |-> drivers[d].input, attempt |-> drivers[d].attempt]
<1>1. /\ UNCHANGED <<rows, queue, order, switches, prepared, gate, history>>
      /\ faulted' = TRUE /\ driving' = FALSE /\ executing' = 0 /\ At(d, "panicked") /\ gate = 0 /\ active' \in {0, active}
      /\ Move(d, "orphan")
  BY DEF RecoveryFails, Fault
<1>2. v \in Driver /\ drivers' = [drivers EXCEPT ![d] = v]
  BY <1>1, MovedDriver
<1>3. v.at = "orphan" /\ v.input = drivers[d].input
  OBVIOUS
<1> HIDE DEF v
<1> QED BY <1>1, <1>2, <1>3, StateTypes, DriverPlace, ATaskMoves DEF At

\* A recovery that has settled the run faults the session.
LEMMA RecoveryFaultsStep ==
  ASSUME IInv, NEW d \in Drivers, RecoveryFaults(d)
  PROVE  IInv'
<1> DEFINE v == [at |-> "orphan", input |-> drivers[d].input, attempt |-> drivers[d].attempt]
<1>1. /\ UNCHANGED <<rows, queue, order, active, switches, prepared, gate, history>>
      /\ faulted' = TRUE /\ driving' = FALSE /\ executing' = 0 /\ At(d, "recovered")
      /\ Move(d, "orphan")
  BY DEF RecoveryFaults, Fault
<1>2. v \in Driver /\ drivers' = [drivers EXCEPT ![d] = v]
  BY <1>1, MovedDriver
<1>3. v.at = "orphan" /\ v.input = drivers[d].input
  OBVIOUS
<1> HIDE DEF v
<1> QED BY <1>1, <1>2, <1>3, StateTypes, DriverPlace, ATaskMoves DEF At

\* An engine that outlived its driver ends.
LEMMA OrphanEndsStep ==
  ASSUME IInv, NEW d \in Drivers, OrphanEnds(d)
  PROVE  IInv'
<1>1. /\ UNCHANGED <<rows, queue, order, active, executing, faulted, switches, prepared, driving, gate, history>>
      /\ At(d, "orphan")
      /\ Leave(d)
  BY DEF OrphanEnds
<1>2. NoDriver \in Driver /\ NoDriver.at \in {"off", "stopped"} /\ drivers' = [drivers EXCEPT ![d] = NoDriver]
  BY <1>1, LeftDriver
<1>3. {driving', faulted'} \subseteq BOOLEAN /\ executing' \in {0} \cup DOMAIN rows /\ active' = active
  BY <1>1, StateTypes
<1>4. gate # d /\ gate' = gate /\ d # 0
  BY <1>1, DriverPlace DEF At
<1> QED BY <1>1, <1>2, <1>3, <1>4, ATaskMoves

\* A command that fails stays in the store of a faulted session.
LEMMA CommandFailsStep ==
  ASSUME IInv, NEW d \in Drivers, CommandFails(d)
  PROVE  IInv'
<1>1. /\ UNCHANGED <<rows, queue, order, active, switches, prepared, gate, history>>
      /\ faulted' = TRUE /\ driving' = FALSE /\ executing' = 0 /\ At(d, "command")
      /\ Leave(d)
  BY DEF CommandFails, Fault
<1> QED BY <1>1, StateTypes, DriverPlace, LeftDriver, ATaskMoves DEF At

\* A recorder that cannot write faults the session.
LEMMA RecorderFailsStep ==
  ASSUME IInv, NEW d \in Drivers, RecorderFails(d)
  PROVE  IInv'
<1>1. /\ UNCHANGED <<rows, queue, order, active, executing, resume, paused, asking, question, prepared,
                     driving, drivers, gate, starts, restarts>>
      /\ faulted' = TRUE
  BY DEF RecorderFails, tasks, history, switches
<1>2. DriverFacts'
  BY <1>1 DEF IInv, DriverFacts, At
<1> QED BY <1>1, <1>2, StateTypes, OnlyTasksMove

\* What holds of the row of an input, from the invariant.
LEMMA RowFacts ==
  ASSUME IInv, NEW i \in DOMAIN rows
  PROVE  /\ rows[i] \in Row /\ starts[i] \in Nat /\ rows[i].attempts \in Nat
         /\ rows[i].run = "none" <=> rows[i].attempts = 0
         /\ rows[i].kind = "command" => rows[i].run = "none"
         /\ rows[i].state = "queued" => rows[i].run \in {"none", "accepted"}
         /\ rows[i].run = "running" => rows[i].state = "committed"
         /\ starts[i] <= rows[i].attempts
         /\ rows[i].run = "accepted" => starts[i] < rows[i].attempts
         /\ i \in ToSet(queue) => rows[i].run \in {"none", "accepted"}
         /\ active = i => rows[i].run = "running"
         /\ i # 0
<1>1. rows[i] \in Row /\ starts[i] \in Nat /\ i # 0
  BY StateTypes
<1>2. i \in ToSet(queue) => rows[i].run \in {"none", "accepted"}
  BY DEF ToSet, IInv, QueueFacts
<1>3. active = i => rows[i].run = "running"
  BY <1>1 DEF IInv, ActiveFacts
<1> QED BY <1>1, <1>2, <1>3 DEF IInv, AttemptFacts, Row

\* Taking an input out of the queue.
LEMMA QueueWithout ==
  ASSUME IInv, NEW i
  PROVE  /\ Without(queue, i) \in Seq(DOMAIN rows) /\ IsInjective(Without(queue, i))
         /\ ToSet(Without(queue, i)) = ToSet(queue) \ {i}
BY StateTypes, RemovedElement DEF Without

\* A cancelled input leaves the store and the queue together.
LEMMA CancelInputStep ==
  ASSUME IInv, NEW i \in DOMAIN rows, CancelInput(i)
  PROVE  IInv'
<1> DEFINE w == [kind |-> rows[i].kind, state |-> "deleted", priority |-> rows[i].priority,
                 run |-> rows[i].run, attempts |-> rows[i].attempts]
<1>1. /\ UNCHANGED <<order, active, executing, faulted, asking, question, prepared, gate, starts,
                     restarts>>
      /\ prepared /\ ~faulted /\ gate = 0 /\ rows[i].state = "queued"
      /\ rows' = [rows EXCEPT ![i] = [rows[i] EXCEPT !.state = "deleted"]]
      /\ queue' = Without(queue, i)
      /\ resume' \in BOOLEAN /\ paused' \in BOOLEAN
      /\ Wake
  BY DEF CancelInput, Handler, history
<1>2. rows[i].run = "none" /\ active # i
  <2>1. gate # 0 \/ rows[i].run # "accepted"
    BY <1>1 DEF IInv, Agreement, InService
  <2> QED BY <2>1, <1>1, RowFacts
<1>3. w \in Row /\ rows' = [rows EXCEPT ![i] = w]
  <2>1. [rows[i] EXCEPT !.state = "deleted"] = w
    BY RowFacts DEF Row
  <2> QED BY <2>1, <1>1, RowFacts DEF Row
<1>4. /\ w.kind = rows[i].kind /\ w.state = "deleted" /\ w.run = "none"
      /\ w.attempts = rows[i].attempts
  BY <1>2
<1> HIDE DEF w
<1>5. /\ DOMAIN rows' = DOMAIN rows /\ rows'[i] = w
      /\ \A j \in DOMAIN rows : j # i => rows'[j] = rows[j]
  BY <1>3, StateTypes, OneRowChanges
<1>6. driving' \in BOOLEAN /\ drivers' \in [Drivers -> Driver] /\ DriverFacts'
  <2>1. \A j \in DOMAIN rows : rows'[j].kind = rows[j].kind
    BY <1>4, <1>5
  <2> QED BY <2>1, <1>1, <1>5, DriversWake
<1>7. /\ queue' \in Seq(DOMAIN rows) /\ IsInjective(queue') /\ ToSet(queue') = ToSet(queue) \ {i}
  BY <1>1, QueueWithout
<1>8. /\ w.run = "none" <=> w.attempts = 0
      /\ starts' \in [DOMAIN rows -> Nat] /\ starts' = starts /\ starts'[i] <= w.attempts
  BY <1>1, <1>2, <1>4, RowFacts, StateTypes
<1>9. /\ ToSet(queue') = (ToSet(queue) \ {i}) \cup (IF w.state = "queued" \/ w.run = "accepted"
                                                    THEN {i} ELSE {})
      /\ {active'} \ {0} = ({active} \ {0, i}) \cup (IF w.run = "running" THEN {i} ELSE {})
  BY <1>1, <1>2, <1>4, <1>7
<1>10. /\ {question', paused', resume', asking', driving', faulted', prepared'} \subseteq BOOLEAN
       /\ asking' = question' /\ restarts' \in 0..MaxRestarts /\ executing' \in {0} \cup DOMAIN rows
       /\ active' \in {0} \cup DOMAIN rows /\ gate' \in {0} \cup Drivers /\ order' = order
       /\ InService /\ gate = 0
  BY <1>1, <1>6, StateTypes DEF InService
<1> QED BY <1>1, <1>2, <1>3, <1>4, <1>6, <1>7, <1>8, <1>9, <1>10, OneRowMoves

\* A retry gives a committed input its next attempt and puts it in the queue.
LEMMA RetryStep ==
  ASSUME IInv, NEW i \in DOMAIN rows, Retry(i)
  PROVE  IInv'
<1> DEFINE w == [rows[i] EXCEPT !.run = "accepted", !.attempts = rows[i].attempts + 1]
           later == {k \in DOMAIN queue : order[queue[k]] > order[i]}
           place == Min(later \cup {Len(queue) + 1})
<1>1. /\ UNCHANGED <<order, active, executing, faulted, paused, resume, asking, question, prepared,
                     gate, starts, restarts>>
      /\ prepared /\ ~faulted /\ gate = 0 /\ active = 0
      /\ rows[i].state = "committed" /\ rows[i].kind # "command"
      /\ rows[i].run \in {"failed", "interrupted"}
      /\ rows' = [rows EXCEPT ![i].run = "accepted", ![i].attempts = @ + 1]
      /\ queue' = InsertAt(queue, place, i)
      /\ Wake
  BY DEF Retry, Handler, history, switches
<1>2. i \notin ToSet(queue)
  BY <1>1, RowFacts
<1>3. place \in 1..(Len(queue) + 1)
  <2> DEFINE T == later \cup {Len(queue) + 1}
  <2>1. DOMAIN queue = 1..Len(queue) /\ Len(queue) \in Nat
    BY StateTypes, LenProperties
  <2>2. T \in SUBSET Nat /\ T # {} /\ T \subseteq 1..(Len(queue) + 1)
    BY <2>1
  <2> HIDE DEF T
  <2>3. Min(T) \in T
    BY <2>2, LeastElement
  <2> QED BY <2>2, <2>3 DEF T
<1> HIDE DEF place
<1>4. /\ queue' \in Seq(DOMAIN rows) /\ IsInjective(queue') /\ ToSet(queue') = ToSet(queue) \cup {i}
  <2>1. DOMAIN rows \cup {i} = DOMAIN rows
    OBVIOUS
  <2>2. queue \in Seq(DOMAIN rows) /\ IsInjective(queue)
    BY StateTypes
  <2>3. /\ InsertAt(queue, place, i) \in Seq(DOMAIN rows \cup {i})
        /\ IsInjective(InsertAt(queue, place, i))
        /\ ToSet(InsertAt(queue, place, i)) = ToSet(queue) \cup {i}
    BY <2>2, <1>2, <1>3, PlacedAt
  <2> QED BY <2>1, <2>3, <1>1
<1>a. w = [rows[i] EXCEPT !.run = "accepted", !.attempts = rows[i].attempts + 1]
  OBVIOUS
<1> HIDE DEF w
<1>5. /\ w \in Row /\ w.kind = rows[i].kind /\ w.kind # "command" /\ w.state = "committed"
      /\ w.run = "accepted" /\ w.attempts = rows[i].attempts + 1
  <2>1. rows[i] \in Row /\ rows[i].attempts + 1 \in Nat
    BY RowFacts
  <2>2. PICK r \in Row : r = rows[i]
    BY <2>1
  <2>3. PICK n \in Nat : n = rows[i].attempts + 1
    BY <2>1
  <2>4. w = [r EXCEPT !.run = "accepted", !.attempts = n]
    BY <1>a, <2>2, <2>3
  <2>5. /\ w \in Row /\ w.kind = r.kind /\ w.state = r.state /\ w.run = "accepted" /\ w.attempts = n
    BY <2>1, <2>4 DEF Row, Unfinished
  <2> QED BY <2>2, <2>3, <2>5, <1>1
<1>6. rows' = [rows EXCEPT ![i] = w]
  BY <1>1, <1>a, StateTypes
<1>7. /\ DOMAIN rows' = DOMAIN rows /\ rows'[i] = w
      /\ \A j \in DOMAIN rows : j # i => rows'[j] = rows[j]
  BY <1>5, <1>6, StateTypes, OneRowChanges
<1>8. driving' \in BOOLEAN /\ drivers' \in [Drivers -> Driver] /\ DriverFacts'
  <2>1. \A j \in DOMAIN rows : rows'[j].kind = rows[j].kind
    BY <1>5, <1>7
  <2> QED BY <2>1, <1>1, <1>7, DriversWake
<1>9. starts'[i] <= w.attempts /\ starts'[i] < w.attempts /\ w.attempts # 0
  BY <1>1, <1>5, RowFacts
<1>10. /\ ToSet(queue') = (ToSet(queue) \ {i}) \cup (IF w.state = "queued" \/ w.run = "accepted"
                                                     THEN {i} ELSE {})
       /\ {active'} \ {0} = ({active} \ {0, i}) \cup (IF w.run = "running" THEN {i} ELSE {})
  BY <1>1, <1>4, <1>5
<1>11. /\ {question', paused', resume', asking', driving', faulted', prepared'} \subseteq BOOLEAN
       /\ asking' = question' /\ restarts' \in 0..MaxRestarts /\ executing' \in {0} \cup DOMAIN rows
       /\ active' = 0 /\ gate' \in {0} \cup Drivers /\ order' = order
       /\ starts' \in [DOMAIN rows -> Nat] /\ starts' = starts
       /\ InService /\ gate = 0
  BY <1>1, <1>8, StateTypes DEF InService
<1> QED BY <1>4, <1>5, <1>6, <1>8, <1>9, <1>10, <1>11, OneRowMoves

\* A claim gives a waiting input its first run, and the gate to the driver.
LEMMA ClaimStep ==
  ASSUME IInv, NEW d \in Drivers, Claim(d)
  PROVE  IInv'
<1> DEFINE i == drivers[d].input
           w == [rows[i] EXCEPT !.run = "accepted", !.attempts = 1]
           v == [drivers[d] EXCEPT !.at = "commit", !.attempt = 1]
<1>1. /\ UNCHANGED <<queue, order, active, executing, faulted, paused, resume, asking, question,
                     prepared, driving, starts, restarts>>
      /\ drivers[d].at = "prepare" /\ gate = 0 /\ gate' = d /\ active = 0
      /\ i = Runnable /\ rows[i].attempts = 0
      /\ rows' = [rows EXCEPT ![i].run = "accepted", ![i].attempts = 1]
      /\ drivers' = [drivers EXCEPT ![d].at = "commit", ![d].attempt = 1]
  BY DEF Claim, StillCurrent, At, history, switches
<1>2. i \in DOMAIN rows /\ rows[i].kind # "command" /\ d # 0
  BY <1>1, DriverPlace DEF At
<1>3. v \in Driver /\ drivers' = [drivers EXCEPT ![d] = v] /\ v.at = "commit" /\ v.input = i
  <2>1. PICK r \in Driver : r = drivers[d]
    BY StateTypes
  <2>2. v = [r EXCEPT !.at = "commit", !.attempt = 1]
    BY <2>1
  <2> HIDE DEF v
  <2>3. v \in Driver /\ v.at = "commit" /\ v.input = r.input
    BY <2>2 DEF Driver
  <2>4. drivers' = [drivers EXCEPT ![d] = v]
    BY <1>1, StateTypes DEF v
  <2> QED BY <2>1, <2>3, <2>4
<1>a. w = [rows[i] EXCEPT !.run = "accepted", !.attempts = 1]
  OBVIOUS
<1> HIDE DEF w, v, i
<1>4. /\ w \in Row /\ w.kind = rows[i].kind /\ w.state = rows[i].state
      /\ w.run = "accepted" /\ w.attempts = 1
  <2>1. PICK r \in Row : r = rows[i]
    BY <1>2, RowFacts
  <2>2. w = [r EXCEPT !.run = "accepted", !.attempts = 1]
    BY <1>a, <2>1
  <2>3. /\ w \in Row /\ w.kind = r.kind /\ w.state = r.state /\ w.run = "accepted" /\ w.attempts = 1
    BY <2>2 DEF Row, Unfinished
  <2> QED BY <2>1, <2>3
<1>5. rows' = [rows EXCEPT ![i] = w]
  BY <1>1, <1>a, StateTypes
<1>6. /\ DOMAIN rows' = DOMAIN rows /\ rows'[i] = w
      /\ \A j \in DOMAIN rows : j # i => rows'[j] = rows[j]
  BY <1>2, <1>4, <1>5, StateTypes, OneRowChanges
<1>7. /\ drivers' \in [Drivers -> Driver] /\ gate' \in {0} \cup Drivers
      /\ drivers'[d] = v /\ DriverFacts'
  <2>1. \A j \in DOMAIN rows : rows'[j].kind = rows[j].kind
    BY <1>4, <1>6
  <2>2. rows'[v.input].run = "accepted" /\ active' = 0
    BY <1>1, <1>3, <1>4, <1>6
  <2>3. gate = 0 /\ gate' = d
    BY <1>1
  <2> QED BY <2>1, <2>2, <2>3, <1>2, <1>3, <1>6, DriverMoves
<1>8. i \in ToSet(queue) /\ rows[i].run = "none"
  <2>1. Runnable # 0
    BY <1>1, <1>2, RowFacts
  <2> QED BY <2>1, <1>1, <1>2, RunnableInput, RowFacts
<1>9. /\ starts'[i] <= w.attempts /\ starts'[i] < w.attempts /\ w.attempts # 0
  BY <1>1, <1>2, <1>4, RowFacts
<1>10. /\ ToSet(queue') = (ToSet(queue) \ {i}) \cup (IF w.state = "queued" \/ w.run = "accepted"
                                                     THEN {i} ELSE {})
       /\ {active'} \ {0} = ({active} \ {0, i}) \cup (IF w.run = "running" THEN {i} ELSE {})
       /\ ToSet(queue') \subseteq ToSet(queue) \cup {i}
  BY <1>1, <1>4, <1>8
<1>11. /\ {question', paused', resume', asking', driving', faulted', prepared'} \subseteq BOOLEAN
       /\ asking' = question' /\ restarts' \in 0..MaxRestarts /\ executing' \in {0} \cup DOMAIN rows
       /\ active' = 0 /\ order' = order /\ starts' \in [DOMAIN rows -> Nat] /\ starts' = starts
       /\ queue' \in Seq(DOMAIN rows) /\ IsInjective(queue')
       /\ (InService' => InService) /\ gate = 0
  BY <1>1, StateTypes DEF InService
<1>12. w.state = "queued" /\ w.run = "accepted" => gate' # 0 /\ i = drivers'[gate'].input
  BY <1>1, <1>2, <1>3, <1>7
<1> QED BY <1>2, <1>4, <1>5, <1>7, <1>9, <1>10, <1>11, <1>12, OneRowMoves

\* The start of an attempt: it is counted, the input leaves the queue, the run is active.
LEMMA StartStep ==
  ASSUME IInv, NEW d \in Drivers, Start(d)
  PROVE  IInv'
<1> DEFINE i == drivers[d].input
           w == [rows[i] EXCEPT !.state = "committed", !.run = "running"]
           v == [at |-> "run", input |-> i, attempt |-> drivers[d].attempt]
<1>1. /\ UNCHANGED <<order, executing, faulted, paused, resume, asking, question,
                     prepared, driving, restarts>>
      /\ drivers[d].at = "commit" /\ gate' = 0 /\ active' = i
      /\ rows' = [rows EXCEPT ![i].state = "committed", ![i].run = "running"]
      /\ queue' = Without(queue, i) /\ starts' = [starts EXCEPT ![i] = @ + 1]
      /\ Move(d, "run")
  BY DEF Start, At, switches
<1>2. /\ i \in DOMAIN rows /\ d # 0 /\ gate = d /\ active = 0 /\ rows[i].run = "accepted"
  BY <1>1, DriverPlace DEF At
<1>3. v \in Driver /\ drivers' = [drivers EXCEPT ![d] = v] /\ v.at = "run" /\ v.input = i
  BY <1>1, MovedDriver
<1>a. w = [rows[i] EXCEPT !.state = "committed", !.run = "running"]
  OBVIOUS
<1> HIDE DEF w, v, i
<1>4. /\ w \in Row /\ w.kind = rows[i].kind /\ w.state = "committed"
      /\ w.run = "running" /\ w.attempts = rows[i].attempts
  <2>1. PICK r \in Row : r = rows[i]
    BY <1>2, RowFacts
  <2>2. w = [r EXCEPT !.state = "committed", !.run = "running"]
    BY <1>a, <2>1
  <2>3. /\ w \in Row /\ w.kind = r.kind /\ w.state = "committed" /\ w.run = "running"
        /\ w.attempts = r.attempts
    BY <2>2 DEF Row, Unfinished
  <2> QED BY <2>1, <2>3
<1>5. rows' = [rows EXCEPT ![i] = w]
  BY <1>1, <1>a, StateTypes
<1>6. /\ DOMAIN rows' = DOMAIN rows /\ rows'[i] = w
      /\ \A j \in DOMAIN rows : j # i => rows'[j] = rows[j]
  BY <1>2, <1>4, <1>5, StateTypes, OneRowChanges
<1>7. /\ drivers' \in [Drivers -> Driver] /\ gate' \in {0} \cup Drivers
      /\ drivers'[d] = v /\ DriverFacts'
  <2>1. \A j \in DOMAIN rows : rows'[j].kind = rows[j].kind
    BY <1>4, <1>6
  <2> QED BY <2>1, <1>1, <1>2, <1>3, <1>6, DriverMoves
<1>8. /\ queue' \in Seq(DOMAIN rows) /\ IsInjective(queue') /\ ToSet(queue') = ToSet(queue) \ {i}
  BY <1>1, QueueWithout
<1>9. /\ starts' \in [DOMAIN rows -> Nat] /\ starts'[i] <= w.attempts /\ w.attempts # 0
      /\ \A j \in DOMAIN rows : j # i => starts'[j] = starts[j]
      /\ w.kind # "command"
  <2>1. starts' \in [DOMAIN rows -> Nat] /\ starts'[i] = starts[i] + 1
        /\ \A j \in DOMAIN rows : j # i => starts'[j] = starts[j]
    BY <1>1, <1>2, StateTypes
  <2> QED BY <2>1, <1>2, <1>4, RowFacts
<1>10. /\ ToSet(queue') = (ToSet(queue) \ {i}) \cup (IF w.state = "queued" \/ w.run = "accepted"
                                                     THEN {i} ELSE {})
       /\ {active'} \ {0} = ({active} \ {0, i}) \cup (IF w.run = "running" THEN {i} ELSE {})
       /\ ToSet(queue') \subseteq ToSet(queue) \cup {i} /\ i \notin ToSet(queue')
  BY <1>1, <1>2, <1>4, <1>8, RowFacts
<1>11. /\ {question', paused', resume', asking', driving', faulted', prepared'} \subseteq BOOLEAN
       /\ asking' = question' /\ restarts' \in 0..MaxRestarts /\ executing' \in {0} \cup DOMAIN rows
       /\ active' = i /\ order' = order /\ (InService' => InService)
  BY <1>1, StateTypes DEF InService
<1>12. i = drivers[gate].input
  BY <1>2 DEF i
<1> QED BY <1>2, <1>4, <1>5, <1>7, <1>8, <1>9, <1>10, <1>11, <1>12, OneRowMoves

\* A retried run whose context is lost is running in the store and not executed.
LEMMA ContextFailsStep ==
  ASSUME IInv, NEW d \in Drivers, ContextFails(d)
  PROVE  IInv'
<1> DEFINE i == drivers[d].input
           w == [rows[i] EXCEPT !.run = "running"]
           v == NoDriver
<1>1. /\ UNCHANGED <<order, starts, paused, resume, asking, question, prepared, restarts>>
      /\ faulted' = TRUE /\ driving' = FALSE /\ executing' = 0
      /\ drivers[d].at = "commit" /\ gate' = 0 /\ active' = i /\ rows[i].state = "committed"
      /\ rows' = [rows EXCEPT ![i].run = "running"]
      /\ queue' = Without(queue, i) /\ Leave(d)
  BY DEF ContextFails, Fault, At, switches, history
<1>2. /\ i \in DOMAIN rows /\ d # 0 /\ gate = d /\ active = 0 /\ rows[i].run = "accepted" /\ rows[i].state = "committed"
  BY <1>1, DriverPlace DEF At
<1>3. v \in Driver /\ drivers' = [drivers EXCEPT ![d] = v] /\ v.at \in {"off", "stopped"}
  BY <1>1, LeftDriver
<1>a. w = [rows[i] EXCEPT !.run = "running"]
  OBVIOUS
<1> HIDE DEF w, v, i
<1>4. /\ w \in Row /\ w.kind = rows[i].kind /\ w.state = rows[i].state
      /\ w.run = "running" /\ w.attempts = rows[i].attempts
  <2>1. PICK r \in Row : r = rows[i]
    BY <1>2, RowFacts
  <2>2. w = [r EXCEPT !.run = "running"]
    BY <1>a, <2>1
  <2>3. /\ w \in Row /\ w.kind = r.kind /\ w.state = r.state /\ w.run = "running"
        /\ w.attempts = r.attempts
    BY <2>2 DEF Row, Unfinished, Terminal
  <2> QED BY <2>1, <2>3
<1>5. rows' = [rows EXCEPT ![i] = w]
  BY <1>1, <1>a, StateTypes
<1>6. /\ DOMAIN rows' = DOMAIN rows /\ rows'[i] = w
      /\ \A j \in DOMAIN rows : j # i => rows'[j] = rows[j]
  BY <1>2, <1>4, <1>5, StateTypes, OneRowChanges
<1>7. /\ drivers' \in [Drivers -> Driver] /\ gate' \in {0} \cup Drivers
      /\ drivers'[d] = v /\ DriverFacts'
  <2>1. \A j \in DOMAIN rows : rows'[j].kind = rows[j].kind
    BY <1>4, <1>6
  <2>2. gate \in {0, d} /\ gate' = 0
    BY <1>1, <1>2
  <2> QED BY <2>1, <2>2, <1>2, <1>3, <1>6, DriverMoves
<1>8. /\ queue' \in Seq(DOMAIN rows) /\ IsInjective(queue') /\ ToSet(queue') = ToSet(queue) \ {i}
  BY <1>1, QueueWithout
<1>9. /\ starts' = starts /\ starts' \in [DOMAIN rows -> Nat] /\ starts'[i] <= w.attempts
      /\ w.run = "none" <=> w.attempts = 0
      /\ w.kind = "command" => w.run = "none"
  BY <1>1, <1>2, <1>4, RowFacts, StateTypes
<1>10. /\ InService' => /\ ToSet(queue') = (ToSet(queue) \ {i}) \cup (IF w.state = "queued" \/ w.run = "accepted"
                                                                THEN {i} ELSE {})
                       /\ {active'} \ {0} = ({active} \ {0, i}) \cup (IF w.run = "running" THEN {i} ELSE {})
       /\ ToSet(queue') \subseteq ToSet(queue) \cup {i}
       /\ i \in ToSet(queue') => w.run \in {"none", "accepted"}
       /\ w.state # "queued"
  BY <1>1, <1>2, <1>4, <1>8, RowFacts DEF InService
<1>11. /\ {question', paused', resume', asking', driving', faulted', prepared'} \subseteq BOOLEAN
       /\ asking' = question' /\ restarts' \in 0..MaxRestarts /\ executing' \in {0} \cup DOMAIN rows
       /\ active' \in {0} \cup DOMAIN rows /\ order' = order /\ (InService' => InService)
       /\ active' # 0 => \/ active' = active /\ active # i
                         \/ active' = i /\ w.run = "running"
  BY <1>1, <1>2, <1>4, RowFacts, StateTypes DEF InService
<1>12. gate = 0 \/ i = drivers[gate].input
  BY <1>1, <1>2 DEF i
<1> QED BY <1>2, <1>4, <1>5, <1>7, <1>8, <1>9, <1>10, <1>11, <1>12, OneRowMoves

\* An input that fails before it starts leaves the queue; its run has failed.
LEMMA FailBeforeStartStep ==
  ASSUME IInv, NEW d \in Drivers, FailBeforeStart(d), NEW v \in Driver,
         drivers' = [drivers EXCEPT ![d] = v], v.at \in {"off", "stopped", "top"}
  PROVE  IInv'
<1> DEFINE i == drivers[d].input
           w == [rows[i] EXCEPT !.state = "committed", !.run = "failed"]
<1>1. /\ UNCHANGED <<order, active, executing, faulted, starts, paused, resume, asking, question, prepared,
                     restarts>>
      /\ driving' = FALSE /\ drivers[d].at = "commit" /\ gate' = 0
      /\ rows' = [rows EXCEPT ![i].state = "committed", ![i].run = "failed"]
      /\ queue' = Without(queue, i)
  BY DEF FailBeforeStart, At, switches, history
<1>2. /\ i \in DOMAIN rows /\ d # 0 /\ gate = d /\ active = 0 /\ rows[i].run = "accepted"
  BY <1>1, DriverPlace DEF At
<1>a. w = [rows[i] EXCEPT !.state = "committed", !.run = "failed"]
  OBVIOUS
<1> HIDE DEF w, i
<1>4. /\ w \in Row /\ w.kind = rows[i].kind /\ w.state = "committed"
      /\ w.run = "failed" /\ w.attempts = rows[i].attempts
  <2>1. PICK r \in Row : r = rows[i]
    BY <1>2, RowFacts
  <2>2. w = [r EXCEPT !.state = "committed", !.run = "failed"]
    BY <1>a, <2>1
  <2>3. /\ w \in Row /\ w.kind = r.kind /\ w.state = "committed" /\ w.run = "failed"
        /\ w.attempts = r.attempts
    BY <2>2 DEF Row, Unfinished, Terminal
  <2> QED BY <2>1, <2>3
<1>5. rows' = [rows EXCEPT ![i] = w]
  BY <1>1, <1>a, StateTypes
<1>6. /\ DOMAIN rows' = DOMAIN rows /\ rows'[i] = w
      /\ \A j \in DOMAIN rows : j # i => rows'[j] = rows[j]
  BY <1>2, <1>4, <1>5, StateTypes, OneRowChanges
<1>7. /\ drivers' \in [Drivers -> Driver] /\ gate' \in {0} \cup Drivers
      /\ drivers'[d] = v /\ DriverFacts'
  <2>1. \A j \in DOMAIN rows : rows'[j].kind = rows[j].kind
    BY <1>4, <1>6
  <2>2. gate \in {0, d} /\ gate' = 0
    BY <1>1, <1>2
  <2> QED BY <2>1, <2>2, <1>2, <1>6, DriverMoves
<1>8. /\ queue' \in Seq(DOMAIN rows) /\ IsInjective(queue') /\ ToSet(queue') = ToSet(queue) \ {i}
  BY <1>1, QueueWithout
<1>9. /\ starts' = starts /\ starts' \in [DOMAIN rows -> Nat] /\ starts'[i] <= w.attempts
      /\ w.run = "none" <=> w.attempts = 0
      /\ w.kind = "command" => w.run = "none"
  BY <1>1, <1>2, <1>4, RowFacts, StateTypes
<1>10. /\ InService' => /\ ToSet(queue') = (ToSet(queue) \ {i}) \cup (IF w.state = "queued" \/ w.run = "accepted"
                                                                THEN {i} ELSE {})
                       /\ {active'} \ {0} = ({active} \ {0, i}) \cup (IF w.run = "running" THEN {i} ELSE {})
       /\ ToSet(queue') \subseteq ToSet(queue) \cup {i}
       /\ i \in ToSet(queue') => w.run \in {"none", "accepted"}
       /\ w.state # "queued"
  BY <1>1, <1>2, <1>4, <1>8, RowFacts DEF InService
<1>11. /\ {question', paused', resume', asking', driving', faulted', prepared'} \subseteq BOOLEAN
       /\ asking' = question' /\ restarts' \in 0..MaxRestarts /\ executing' \in {0} \cup DOMAIN rows
       /\ active' \in {0} \cup DOMAIN rows /\ order' = order /\ (InService' => InService)
       /\ active' # 0 => \/ active' = active /\ active # i
                         \/ active' = i /\ w.run = "running"
  BY <1>1, <1>2, <1>4, RowFacts, StateTypes DEF InService
<1>12. gate = 0 \/ i = drivers[gate].input
  BY <1>1, <1>2 DEF i
<1> QED BY <1>2, <1>4, <1>5, <1>7, <1>8, <1>9, <1>10, <1>11, <1>12, OneRowMoves

\* The driver that cannot start the engine ends.
LEMMA PreparationFailsStep ==
  ASSUME IInv, NEW d \in Drivers, PreparationFails(d)
  PROVE  IInv'
<1>1. FailBeforeStart(d)
  BY DEF PreparationFails
<1> QED BY <1>1, StoppedDriver, FailBeforeStartStep

\* The driver that cannot prepare the journal goes on.
LEMMA JournalFailsStep ==
  ASSUME IInv, NEW d \in Drivers, JournalFails(d)
  PROVE  IInv'
<1> DEFINE v == [at |-> "top", input |-> drivers[d].input, attempt |-> drivers[d].attempt]
<1>1. FailBeforeStart(d) /\ Move(d, "top")
  BY DEF JournalFails
<1>2. v \in Driver /\ drivers' = [drivers EXCEPT ![d] = v] /\ v.at = "top"
  BY <1>1, MovedDriver
<1> HIDE DEF v
<1> QED BY <1>1, <1>2, FailBeforeStartStep

\* A settlement stores the outcome of the active run and clears it.
LEMMA SettlementStep ==
  ASSUME IInv, NEW d \in Drivers, NEW run, NEW asks \in BOOLEAN, NEW pending \in BOOLEAN,
         Settlement(d, run, asks, pending), drivers[d].at \in {"run", "panicked"},
         NEW v \in Driver, drivers' = [drivers EXCEPT ![d] = v],
         v.at \in {"top", "recovered"}, v.input = drivers[d].input
  PROVE  IInv'
<1> DEFINE i == drivers[d].input
           w == [rows[i] EXCEPT !.run = run]
<1>1. /\ UNCHANGED <<queue, order, executing, paused, prepared, driving, gate, starts, restarts>>
      /\ run \in {"done", "failed"} /\ gate = 0 /\ active = i /\ active' = 0
      /\ rows' = [rows EXCEPT ![i].run = run]
      /\ asking' = asks /\ question' = asks /\ resume' = FALSE /\ faulted' = (faulted \/ pending)
  BY DEF Settlement, Owns, history
<1>2. /\ i \in DOMAIN rows /\ d # 0 /\ rows[i].run = "running" /\ rows[i].state = "committed"
      /\ run \in {"done", "failed"}
  <2>1. i \in DOMAIN rows /\ d # 0
    BY <1>1, DriverPlace DEF At
  <2> QED BY <2>1, <1>1, RowFacts
<1>3. v.input = i
  OBVIOUS
<1>a. w = [rows[i] EXCEPT !.run = run]
  OBVIOUS
<1> HIDE DEF w, i
<1>4. /\ w \in Row /\ w.kind = rows[i].kind /\ w.state = rows[i].state
      /\ w.run = run /\ w.attempts = rows[i].attempts
  <2>1. PICK r \in Row : r = rows[i]
    BY <1>2, RowFacts
  <2>2. w = [r EXCEPT !.run = run]
    BY <1>a, <2>1
  <2>3. /\ w \in Row /\ w.kind = r.kind /\ w.state = r.state /\ w.run = run
        /\ w.attempts = r.attempts
    BY <2>2, <1>1 DEF Row, Unfinished, Terminal
  <2> QED BY <2>1, <2>3
<1>5. rows' = [rows EXCEPT ![i] = w]
  BY <1>1, <1>a, StateTypes
<1>6. /\ DOMAIN rows' = DOMAIN rows /\ rows'[i] = w
      /\ \A j \in DOMAIN rows : j # i => rows'[j] = rows[j]
  BY <1>2, <1>4, <1>5, StateTypes, OneRowChanges
<1>7. /\ drivers' \in [Drivers -> Driver] /\ gate' \in {0} \cup Drivers
      /\ drivers'[d] = v /\ DriverFacts'
  <2>1. \A j \in DOMAIN rows : rows'[j].kind = rows[j].kind
    BY <1>4, <1>6
  <2>2. gate \in {0, d} /\ gate' = 0
    BY <1>1, <1>2
  <2> QED BY <2>1, <2>2, <1>2, <1>3, <1>6, DriverMoves
<1>8. /\ queue' = queue /\ queue' \in Seq(DOMAIN rows) /\ IsInjective(queue')
  BY <1>1, StateTypes
<1>9. /\ starts' = starts /\ starts' \in [DOMAIN rows -> Nat] /\ starts'[i] <= w.attempts
      /\ w.run = "none" <=> w.attempts = 0
      /\ w.kind = "command" => w.run = "none"
  BY <1>1, <1>2, <1>4, RowFacts, StateTypes
<1>10. /\ InService' => /\ ToSet(queue') = (ToSet(queue) \ {i}) \cup (IF w.state = "queued" \/ w.run = "accepted"
                                                                THEN {i} ELSE {})
                       /\ {active'} \ {0} = ({active} \ {0, i}) \cup (IF w.run = "running" THEN {i} ELSE {})
       /\ ToSet(queue') \subseteq ToSet(queue) \cup {i}
       /\ i \in ToSet(queue') => w.run \in {"none", "accepted"}
       /\ w.state # "queued"
  BY <1>1, <1>2, <1>4, <1>8, RowFacts DEF InService
<1>11. /\ {question', paused', resume', asking', driving', faulted', prepared'} \subseteq BOOLEAN
       /\ asking' = question' /\ restarts' \in 0..MaxRestarts /\ executing' \in {0} \cup DOMAIN rows
       /\ active' \in {0} \cup DOMAIN rows /\ order' = order /\ (InService' => InService)
       /\ active' # 0 => \/ active' = active /\ active # i
                         \/ active' = i /\ w.run = "running"
  BY <1>1, <1>2, <1>4, RowFacts, StateTypes DEF InService
<1>12. gate = 0 \/ i = drivers[gate].input
  BY <1>1, <1>2 DEF i
<1> QED BY <1>2, <1>4, <1>5, <1>7, <1>8, <1>9, <1>10, <1>11, <1>12, OneRowMoves

\* A driver settles its run.
LEMMA SettleStep ==
  ASSUME IInv, NEW d \in Drivers, NEW run, NEW asks \in BOOLEAN, NEW pending \in BOOLEAN,
         Settle(d, run, asks, pending)
  PROVE  IInv'
<1> DEFINE v == [at |-> "top", input |-> drivers[d].input, attempt |-> drivers[d].attempt]
<1>1. Settlement(d, run, asks, pending) /\ drivers[d].at = "run" /\ Move(d, "top")
  BY DEF Settle, At
<1>2. v \in Driver /\ drivers' = [drivers EXCEPT ![d] = v] /\ v.at = "top" /\ v.input = drivers[d].input
  BY <1>1, MovedDriver
<1> HIDE DEF v
<1> QED BY <1>1, <1>2, SettlementStep

\* The recovery of a panicked driver settles its run.
LEMMA RecoverySettlesStep ==
  ASSUME IInv, NEW d \in Drivers, NEW pending \in BOOLEAN, RecoverySettles(d, pending)
  PROVE  IInv'
<1> DEFINE v == [at |-> "recovered", input |-> drivers[d].input, attempt |-> drivers[d].attempt]
<1>1. Settlement(d, "failed", FALSE, pending) /\ drivers[d].at = "panicked" /\ Move(d, "recovered")
  BY DEF RecoverySettles, At
<1>2. /\ v \in Driver /\ drivers' = [drivers EXCEPT ![d] = v]
      /\ v.at = "recovered" /\ v.input = drivers[d].input
  BY <1>1, MovedDriver
<1> HIDE DEF v
<1> QED BY <1>1, <1>2, SettlementStep

\* A command leaves the queue when its result is stored.
LEMMA CommitCommandStep ==
  ASSUME IInv, NEW d \in Drivers, CommitCommand(d)
  PROVE  IInv'
<1> DEFINE i == drivers[d].input
           w == [rows[i] EXCEPT !.state = "committed"]
           v == [at |-> "top", input |-> i, attempt |-> drivers[d].attempt]
<1>1. /\ UNCHANGED <<order, active, faulted, starts, paused, resume, asking, question, prepared,
                     driving, gate, restarts>>
      /\ drivers[d].at = "command" /\ gate = 0 /\ queue # <<>> /\ Head(queue) = i
      /\ rows' = [rows EXCEPT ![i].state = "committed"]
      /\ queue' = Tail(queue) /\ executing' = 0 /\ Move(d, "top")
  BY DEF CommitCommand, At, switches, history
<1>2. /\ i \in DOMAIN rows /\ d # 0 /\ rows[i].kind = "command" /\ rows[i].run = "none" /\ active # i
  <2>1. i \in DOMAIN rows /\ d # 0 /\ rows[i].kind = "command"
    BY <1>1, DriverPlace DEF At
  <2> QED BY <2>1, RowFacts
<1>3. v \in Driver /\ drivers' = [drivers EXCEPT ![d] = v] /\ v.at = "top" /\ v.input = i
  BY <1>1, MovedDriver
<1>a. w = [rows[i] EXCEPT !.state = "committed"]
  OBVIOUS
<1> HIDE DEF w, v, i
<1>4. /\ w \in Row /\ w.kind = rows[i].kind /\ w.state = "committed"
      /\ w.run = rows[i].run /\ w.attempts = rows[i].attempts
  <2>1. PICK r \in Row : r = rows[i]
    BY <1>2, RowFacts
  <2>2. w = [r EXCEPT !.state = "committed"]
    BY <1>a, <2>1
  <2>3. /\ w \in Row /\ w.kind = r.kind /\ w.state = "committed" /\ w.run = r.run
        /\ w.attempts = r.attempts
    BY <2>2 DEF Row, Unfinished, Terminal
  <2> QED BY <2>1, <2>3
<1>5. rows' = [rows EXCEPT ![i] = w]
  BY <1>1, <1>a, StateTypes
<1>6. /\ DOMAIN rows' = DOMAIN rows /\ rows'[i] = w
      /\ \A j \in DOMAIN rows : j # i => rows'[j] = rows[j]
  BY <1>2, <1>4, <1>5, StateTypes, OneRowChanges
<1>7. /\ drivers' \in [Drivers -> Driver] /\ gate' \in {0} \cup Drivers
      /\ drivers'[d] = v /\ DriverFacts'
  <2>1. \A j \in DOMAIN rows : rows'[j].kind = rows[j].kind
    BY <1>4, <1>6
  <2>2. gate \in {0, d} /\ gate' = 0
    BY <1>1, <1>2
  <2> QED BY <2>1, <2>2, <1>2, <1>3, <1>6, DriverMoves
<1>8. /\ queue' \in Seq(DOMAIN rows) /\ IsInjective(queue') /\ ToSet(queue') = ToSet(queue) \ {i}
  BY <1>1, StateTypes, TailOf
<1>9. /\ starts' = starts /\ starts' \in [DOMAIN rows -> Nat] /\ starts'[i] <= w.attempts
      /\ w.run = "none" <=> w.attempts = 0
      /\ w.kind = "command" => w.run = "none"
  BY <1>1, <1>2, <1>4, RowFacts, StateTypes
<1>10. /\ InService' => /\ ToSet(queue') = (ToSet(queue) \ {i}) \cup (IF w.state = "queued" \/ w.run = "accepted"
                                                                THEN {i} ELSE {})
                       /\ {active'} \ {0} = ({active} \ {0, i}) \cup (IF w.run = "running" THEN {i} ELSE {})
       /\ ToSet(queue') \subseteq ToSet(queue) \cup {i}
       /\ i \in ToSet(queue') => w.run \in {"none", "accepted"}
       /\ w.state # "queued"
  BY <1>1, <1>2, <1>4, <1>8, RowFacts DEF InService
<1>11. /\ {question', paused', resume', asking', driving', faulted', prepared'} \subseteq BOOLEAN
       /\ asking' = question' /\ restarts' \in 0..MaxRestarts /\ executing' \in {0} \cup DOMAIN rows
       /\ active' \in {0} \cup DOMAIN rows /\ order' = order /\ (InService' => InService)
       /\ active' # 0 => \/ active' = active /\ active # i
                         \/ active' = i /\ w.run = "running"
  BY <1>1, <1>2, <1>4, RowFacts, StateTypes DEF InService
<1>12. gate = 0 \/ i = drivers[gate].input
  BY <1>1, <1>2 DEF i
<1> QED BY <1>2, <1>4, <1>5, <1>7, <1>8, <1>9, <1>10, <1>11, <1>12, OneRowMoves

\* A stored result that is not the one memory expects faults the session.
LEMMA CommandDisplacedStep ==
  ASSUME IInv, NEW d \in Drivers, CommandDisplaced(d)
  PROVE  IInv'
<1> DEFINE i == drivers[d].input
           w == [rows[i] EXCEPT !.state = "committed"]
           v == NoDriver
<1>1. /\ UNCHANGED <<queue, order, active, starts, paused, resume, asking, question, prepared,
                     gate, restarts>>
      /\ drivers[d].at = "command" /\ gate = 0
      /\ rows' = [rows EXCEPT ![i].state = "committed"]
      /\ faulted' = TRUE /\ driving' = FALSE /\ executing' = 0 /\ Leave(d)
  BY DEF CommandDisplaced, Fault, At, switches, history
<1>2. /\ i \in DOMAIN rows /\ d # 0 /\ rows[i].kind = "command" /\ rows[i].run = "none" /\ active # i
  <2>1. i \in DOMAIN rows /\ d # 0 /\ rows[i].kind = "command"
    BY <1>1, DriverPlace DEF At
  <2> QED BY <2>1, RowFacts
<1>3. v \in Driver /\ drivers' = [drivers EXCEPT ![d] = v] /\ v.at \in {"off", "stopped"}
  BY <1>1, LeftDriver
<1>a. w = [rows[i] EXCEPT !.state = "committed"]
  OBVIOUS
<1> HIDE DEF w, v, i
<1>4. /\ w \in Row /\ w.kind = rows[i].kind /\ w.state = "committed"
      /\ w.run = rows[i].run /\ w.attempts = rows[i].attempts
  <2>1. PICK r \in Row : r = rows[i]
    BY <1>2, RowFacts
  <2>2. w = [r EXCEPT !.state = "committed"]
    BY <1>a, <2>1
  <2>3. /\ w \in Row /\ w.kind = r.kind /\ w.state = "committed" /\ w.run = r.run
        /\ w.attempts = r.attempts
    BY <2>2 DEF Row, Unfinished, Terminal
  <2> QED BY <2>1, <2>3
<1>5. rows' = [rows EXCEPT ![i] = w]
  BY <1>1, <1>a, StateTypes
<1>6. /\ DOMAIN rows' = DOMAIN rows /\ rows'[i] = w
      /\ \A j \in DOMAIN rows : j # i => rows'[j] = rows[j]
  BY <1>2, <1>4, <1>5, StateTypes, OneRowChanges
<1>7. /\ drivers' \in [Drivers -> Driver] /\ gate' \in {0} \cup Drivers
      /\ drivers'[d] = v /\ DriverFacts'
  <2>1. \A j \in DOMAIN rows : rows'[j].kind = rows[j].kind
    BY <1>4, <1>6
  <2>2. gate \in {0, d} /\ gate' = 0
    BY <1>1, <1>2
  <2> QED BY <2>1, <2>2, <1>2, <1>3, <1>6, DriverMoves
<1>8. /\ queue' = queue /\ queue' \in Seq(DOMAIN rows) /\ IsInjective(queue')
  BY <1>1, StateTypes
<1>9. /\ starts' = starts /\ starts' \in [DOMAIN rows -> Nat] /\ starts'[i] <= w.attempts
      /\ w.run = "none" <=> w.attempts = 0
      /\ w.kind = "command" => w.run = "none"
  BY <1>1, <1>2, <1>4, RowFacts, StateTypes
<1>10. /\ InService' => /\ ToSet(queue') = (ToSet(queue) \ {i}) \cup (IF w.state = "queued" \/ w.run = "accepted"
                                                                THEN {i} ELSE {})
                       /\ {active'} \ {0} = ({active} \ {0, i}) \cup (IF w.run = "running" THEN {i} ELSE {})
       /\ ToSet(queue') \subseteq ToSet(queue) \cup {i}
       /\ i \in ToSet(queue') => w.run \in {"none", "accepted"}
       /\ w.state # "queued"
  BY <1>1, <1>2, <1>4, <1>8, RowFacts DEF InService
<1>11. /\ {question', paused', resume', asking', driving', faulted', prepared'} \subseteq BOOLEAN
       /\ asking' = question' /\ restarts' \in 0..MaxRestarts /\ executing' \in {0} \cup DOMAIN rows
       /\ active' \in {0} \cup DOMAIN rows /\ order' = order /\ (InService' => InService)
       /\ active' # 0 => \/ active' = active /\ active # i
                         \/ active' = i /\ w.run = "running"
  BY <1>1, <1>2, <1>4, RowFacts, StateTypes DEF InService
<1>12. gate = 0 \/ i = drivers[gate].input
  BY <1>1, <1>2 DEF i
<1> QED BY <1>2, <1>4, <1>5, <1>7, <1>8, <1>9, <1>10, <1>11, <1>12, OneRowMoves

\* An accepted message is appended.
LEMMA AcceptMessageStep ==
  ASSUME IInv, AcceptMessage
  PROVE  IInv'
<1>1. /\ UNCHANGED <<resume, asking, question, active, executing, faulted, prepared, gate, restarts>>
      /\ paused' = FALSE /\ Wake /\ Insert("message", NextPriority, rows)
      /\ queue' = Append(queue, Len(rows) + 1)
  BY DEF AcceptMessage
<1>2. rows \in Seq(Row) /\ NextPriority \in Nat
  BY StateTypes, NextPriorityType
<1> QED BY <1>1, <1>2, StateTypes, AnInputJoins

\* An accepted command is appended.
LEMMA AcceptCommandStep ==
  ASSUME IInv, AcceptCommand
  PROVE  IInv'
<1>1. /\ UNCHANGED <<paused, resume, asking, question, active, executing, faulted, prepared, gate,
                     restarts>>
      /\ Wake /\ Insert("command", NextPriority, rows)
      /\ queue' = Append(queue, Len(rows) + 1)
  BY DEF AcceptCommand, switches
<1>2. rows \in Seq(Row) /\ NextPriority \in Nat
  BY StateTypes, NextPriorityType
<1> QED BY <1>1, <1>2, StateTypes, AnInputJoins

\* A report is appended.
LEMMA ReportArrivesStep ==
  ASSUME IInv, ReportArrives
  PROVE  IInv'
<1>1. /\ UNCHANGED <<paused, resume, asking, question, active, executing, faulted, prepared, gate,
                     restarts>>
      /\ Wake /\ Insert("report", NextPriority, rows)
      /\ queue' = Append(queue, Len(rows) + 1)
  BY DEF ReportArrives, switches
<1>2. rows \in Seq(Row) /\ NextPriority \in Nat
  BY StateTypes, NextPriorityType
<1> QED BY <1>1, <1>2, StateTypes, AnInputJoins

\* An answer comes first; the priorities of the others move up.
LEMMA AnswerStep ==
  ASSUME IInv, Answer
  PROVE  IInv'
<1> DEFINE later(i) == IF i \in Queued(rows) THEN [rows[i] EXCEPT !.priority = @ + 1] ELSE rows[i]
           others == [i \in DOMAIN rows |-> later(i)]
<1>1. /\ UNCHANGED <<active, executing, faulted, prepared, gate, restarts>>
      /\ asking' = FALSE /\ question' = FALSE /\ resume' = FALSE /\ paused' = FALSE
      /\ Wake /\ Insert("message", 0, others)
      /\ queue' = <<Len(rows) + 1>> \o queue
  BY DEF Answer
<1>2. ASSUME NEW i \in DOMAIN rows
      PROVE  /\ later(i) \in Row /\ later(i).kind = rows[i].kind /\ later(i).state = rows[i].state
             /\ later(i).run = rows[i].run /\ later(i).attempts = rows[i].attempts
  <2>1. PICK r \in Row : r = rows[i]
    BY StateTypes
  <2>2. CASE i \in Queued(rows)
    <3>1. later(i) = [r EXCEPT !.priority = r.priority + 1]
      BY <2>1, <2>2
    <3>2. r.priority + 1 \in Nat
      BY DEF Row
    <3> HIDE DEF later
    <3>3. /\ later(i) \in Row /\ later(i).kind = r.kind /\ later(i).state = r.state
          /\ later(i).run = r.run /\ later(i).attempts = r.attempts
      BY <3>1, <3>2 DEF Row
    <3> QED BY <3>3, <2>1
  <2>3. CASE i \notin Queued(rows)
    BY <2>1, <2>3
  <2> QED BY <2>2, <2>3
<1> HIDE DEF later
<1>3. others \in Seq(Row) /\ Len(others) = Len(rows) /\ \A i \in DOMAIN rows : others[i] = later(i)
  <2>1. DOMAIN rows = 1..Len(rows) /\ Len(rows) \in Nat
    BY StateTypes
  <2>2. others \in [1..Len(rows) -> Row]
    BY <1>2, <2>1
  <2>3. others \in Seq(Row) /\ Len(others) = Len(rows)
    <3> HIDE DEF others
    <3> QED BY <2>1, <2>2, FunctionIsSequence
  <2> QED BY <2>3
<1> HIDE DEF others
<1>4. \A i \in DOMAIN rows : /\ others[i].kind = rows[i].kind
                             /\ others[i].state = rows[i].state
                             /\ others[i].run = rows[i].run
                             /\ others[i].attempts = rows[i].attempts
  BY <1>2, <1>3
<1> QED BY <1>1, <1>3, <1>4, AnInputJoins

\* A process that ends loses its memory; the store is as it was.
LEMMA RestartStep ==
  ASSUME IInv, Restart
  PROVE  IInv'
<1>1. /\ UNCHANGED <<rows, question, starts>>
      /\ restarts < MaxRestarts /\ restarts' = restarts + 1
      /\ queue' \in Recovered(rows)
      /\ order' = [i \in DOMAIN rows |-> StoredOrder(rows, i)]
      /\ active' = 0 /\ executing' = 0 /\ faulted' = FALSE /\ driving' = FALSE
      /\ paused' = FALSE /\ resume' \in BOOLEAN
      /\ asking' = question /\ prepared' = FALSE
      /\ drivers' = [e \in Drivers |-> NoDriver] /\ gate' = 0
  BY DEF Restart, Rebuild
<1>2. /\ queue' \in Seq(DOMAIN rows) /\ IsInjective(queue')
      /\ ToSet(queue') = {i \in Queued(rows) : rows[i].run = "none"}
  BY <1>1, StateTypes, RecoveredQueue
<1>3. restarts' \in 0..MaxRestarts
  BY <1>1, StateTypes, BoundsAssumption
<1>4. order' \in [DOMAIN rows -> Nat]
  <2>1. ASSUME NEW i \in DOMAIN rows PROVE StoredOrder(rows, i) \in Nat
    <3>1. rows[i] \in Row /\ i \in Nat
      BY StateTypes
    <3> QED BY <3>1 DEF StoredOrder, Row
  <2> QED BY <2>1, <1>1
<1>5. drivers' \in [Drivers -> Driver] /\ \A d \in Drivers : drivers'[d].at \in {"off", "stopped"}
  BY <1>1 DEF NoDriver, Driver
<1>6. TypeOK'
  BY <1>1, <1>2, <1>3, <1>4, <1>5 DEF IInv, TypeOK
<1>7. AttemptFacts'
  BY <1>1 DEF IInv, AttemptFacts
<1>8. QueueFacts'
  <2> SUFFICES ASSUME NEW k \in DOMAIN queue' PROVE rows[queue'[k]].run \in {"none", "accepted"}
    BY <1>1 DEF QueueFacts
  <2>1. queue'[k] \in ToSet(queue')
    BY DEF ToSet
  <2> QED BY <2>1, <1>2
<1>9. ActiveFacts'
  BY <1>1 DEF ActiveFacts
<1>10. DriverFacts'
  <2>1. \A d \in Drivers : d # 0
    BY BoundsAssumption
  <2> QED BY <2>1, <1>1, <1>5 DEF DriverFacts, At
<1>11. Agreement'
  BY <1>1 DEF Agreement, InService
<1> QED BY <1>6, <1>7, <1>8, <1>9, <1>10, <1>11 DEF IInv

\* Preparation settles what was at work and rebuilds memory from the rows.
LEMMA PrepareStep ==
  ASSUME IInv, Prepare
  PROVE  IInv'
<1> DEFINE settled(i) == IF i \in StillAtWork(rows) THEN Interrupted(rows[i]) ELSE rows[i]
           new == [i \in DOMAIN rows |-> settled(i)]
<1>1. /\ UNCHANGED <<question, drivers, gate, starts, restarts>>
      /\ gate = 0 /\ rows' = new
      /\ queue' \in Recovered(rows')
      /\ order' = [i \in DOMAIN rows' |-> StoredOrder(rows', i)]
      /\ active' = 0 /\ executing' = 0 /\ faulted' = FALSE /\ driving' = FALSE
      /\ paused' = FALSE /\ resume' \in BOOLEAN
      /\ asking' = question /\ prepared' = TRUE
  BY DEF Prepare, Rebuild, history
<1>2. ASSUME NEW i \in DOMAIN rows
      PROVE  /\ settled(i) \in Row /\ settled(i).kind = rows[i].kind
             /\ settled(i).attempts = rows[i].attempts
             /\ settled(i).run \notin Unfinished
             /\ settled(i).run = "none" <=> rows[i].run = "none"
             /\ settled(i).state = "queued" => rows[i].state = "queued" /\ settled(i).run = rows[i].run
  <2>1. PICK r \in Row : r = rows[i]
    BY StateTypes
  <2>2. CASE i \in StillAtWork(rows)
    <3>1. settled(i) = [r EXCEPT !.state = "committed", !.run = "interrupted"]
      BY <2>1, <2>2 DEF Interrupted
    <3> HIDE DEF settled
    <3>2. /\ settled(i) \in Row /\ settled(i).kind = r.kind /\ settled(i).attempts = r.attempts
          /\ settled(i).run = "interrupted" /\ settled(i).state = "committed"
      BY <3>1 DEF Row, Terminal
    <3>3. r.run \in Unfinished
      BY <2>1, <2>2 DEF StillAtWork
    <3> QED BY <3>2, <3>3, <2>1 DEF Unfinished
  <2>3. CASE i \notin StillAtWork(rows)
    BY <2>1, <2>3 DEF StillAtWork
  <2> QED BY <2>2, <2>3
<1> HIDE DEF settled
<1>3. new \in Seq(Row) /\ Len(new) = Len(rows) /\ DOMAIN new = DOMAIN rows
      /\ \A i \in DOMAIN rows : new[i] = settled(i)
  <2>1. DOMAIN rows = 1..Len(rows) /\ Len(rows) \in Nat
    BY StateTypes
  <2>2. new \in [1..Len(rows) -> Row]
    BY <1>2, <2>1
  <2>3. new \in Seq(Row) /\ Len(new) = Len(rows)
    <3> HIDE DEF new
    <3> QED BY <2>1, <2>2, FunctionIsSequence
  <2> QED BY <2>3
<1> HIDE DEF new
<1>4. \A i \in DOMAIN rows : /\ rows'[i].kind = rows[i].kind
                             /\ rows'[i].attempts = rows[i].attempts
                             /\ rows'[i].run \notin Unfinished
                             /\ rows'[i].run = "none" <=> rows[i].run = "none"
                             /\ rows'[i].state = "queued" => /\ rows[i].state = "queued"
                                                             /\ rows'[i].run = rows[i].run
  BY <1>1, <1>2, <1>3
<1>5. /\ queue' \in Seq(DOMAIN rows') /\ IsInjective(queue')
      /\ ToSet(queue') = {i \in Queued(rows') : rows'[i].run = "none"}
  BY <1>1, <1>3, RecoveredQueue
<1>6. order' \in [DOMAIN rows' -> Nat]
  <2>1. ASSUME NEW i \in DOMAIN rows' PROVE StoredOrder(rows', i) \in Nat
    <3>1. rows'[i] \in Row /\ i \in Nat
      BY <1>1, <1>3, StateTypes
    <3> QED BY <3>1 DEF StoredOrder, Row
  <2> QED BY <2>1, <1>1
<1>7. TypeOK'
  <2>1. rows' \in Seq(Row) /\ Len(rows') = Len(rows) /\ DOMAIN rows' = DOMAIN rows
    BY <1>1, <1>3
  <2> QED BY <2>1, <1>1, <1>5, <1>6 DEF IInv, TypeOK
<1>8. DOMAIN rows' = DOMAIN rows
  BY <1>1, <1>3
<1>9. AttemptFacts'
  <2> SUFFICES ASSUME NEW i \in DOMAIN rows
               PROVE  /\ rows'[i].run = "none" <=> rows'[i].attempts = 0
                      /\ rows'[i].kind = "command" => rows'[i].run = "none"
                      /\ rows'[i].state = "queued" => rows'[i].run \in {"none", "accepted"}
                      /\ rows'[i].run = "running" => rows'[i].state = "committed"
                      /\ starts[i] <= rows'[i].attempts
                      /\ rows'[i].run = "accepted" => starts[i] < rows'[i].attempts
    BY <1>1, <1>8 DEF AttemptFacts
  <2> QED BY <1>4, RowFacts DEF Unfinished
<1>10. QueueFacts'
  <2> SUFFICES ASSUME NEW k \in DOMAIN queue' PROVE rows'[queue'[k]].run \in {"none", "accepted"}
    BY DEF QueueFacts
  <2>1. queue'[k] \in ToSet(queue')
    BY DEF ToSet
  <2> QED BY <2>1, <1>5
<1>11. ActiveFacts'
  BY <1>1 DEF ActiveFacts
<1>12. DriverFacts'
  <2> SUFFICES ASSUME NEW d \in Drivers
               PROVE  /\ drivers[d].at \notin {"off", "stopped", "top"} => drivers[d].input \in DOMAIN rows
                      /\ drivers[d].at = "prepare" => rows'[drivers[d].input].kind # "command"
                      /\ drivers[d].at = "command" => rows'[drivers[d].input].kind = "command"
                      /\ drivers[d].at # "commit" /\ d # 0
    BY <1>1, <1>8 DEF DriverFacts, At
  <2> QED BY <1>1, <1>4, DriverPlace DEF At
<1>13. Agreement'
  <2>1. Queued(rows') = {i \in Queued(rows') : rows'[i].run = "none"}
    <3>1. ASSUME NEW i \in Queued(rows') PROVE rows'[i].run = "none"
      BY <3>1, <1>4, <1>8, RowFacts DEF Queued, Unfinished
    <3> QED BY <3>1
  <2>2. {i \in DOMAIN rows' : rows'[i].run = "accepted"} = {}
    BY <1>4, <1>8 DEF Unfinished
  <2>3. {i \in DOMAIN rows' : rows'[i].run = "running"} = {}
    BY <1>4, <1>8 DEF Unfinished
  <2> QED BY <2>1, <2>2, <2>3, <1>1, <1>5 DEF Agreement
<1> QED BY <1>7, <1>9, <1>10, <1>11, <1>12, <1>13 DEF IInv

\* The invariant holds of an empty session.
LEMMA InitIInv == Init => IInv
<1> SUFFICES ASSUME Init PROVE IInv
  OBVIOUS
<1>1. /\ rows = <<>> /\ queue = <<>> /\ order = <<>> /\ starts = <<>>
      /\ DOMAIN rows = {} /\ DOMAIN queue = {}
      /\ rows \in Seq(Row) /\ Len(rows) = 0 /\ queue \in Seq(DOMAIN rows)
      /\ order \in [DOMAIN rows -> Nat] /\ starts \in [DOMAIN rows -> Nat]
  BY DEF Init
<1>2. drivers \in [Drivers -> Driver] /\ \A d \in Drivers : drivers[d].at \in {"off", "stopped"} /\ d # 0
  BY BoundsAssumption DEF Init, NoDriver, Driver
<1>3. TypeOK
  <2>1. IsInjective(queue)
    BY <1>1 DEF IsInjective
  <2>2. restarts \in 0..MaxRestarts /\ 0 <= MaxInputs
    BY BoundsAssumption DEF Init
  <2>3. /\ {question, faulted, paused, resume, asking, driving, prepared} \subseteq BOOLEAN
        /\ {active, executing} \subseteq {0} \cup DOMAIN rows /\ gate \in {0} \cup Drivers
    BY DEF Init
  <2> QED BY <1>1, <1>2, <2>1, <2>2, <2>3 DEF TypeOK
<1>4. AttemptFacts /\ QueueFacts /\ ActiveFacts
  BY <1>1 DEF Init, AttemptFacts, QueueFacts, ActiveFacts
<1>5. DriverFacts
  BY <1>2 DEF Init, DriverFacts, At
<1>6. Agreement
  <2>1. ToSet(queue) = {} /\ Queued(rows) = {}
    BY <1>1 DEF ToSet, Queued
  <2> QED BY <1>1, <2>1 DEF Init, Agreement
<1> QED BY <1>3, <1>4, <1>5, <1>6 DEF IInv

\* Every step of a driver keeps the invariant.
LEMMA DriveStep ==
  ASSUME IInv, NEW d \in Drivers, Drive(d)
  PROVE  IInv'
BY RestStep, TakeCommandStep, PrepareInputStep, ReadFailsStep, DropPreparationStep, ClaimStep,
   ClaimFailsStep, TakeRetryStep, StartStep, CommitFailsStep, ContextFailsStep,
   PreparationFailsStep, JournalFailsStep, SettleStep, SettleFailsStep, SettleForeignStep,
   RecoverySettlesStep, RecoveryFailsStep, RecoveryFaultsStep, OrphanEndsStep,
   CommitCommandStep, CommandDisplacedStep, CommandFailsStep
   DEF Drive

\* A stuttering step keeps the invariant.
LEMMA StutterStep ==
  ASSUME IInv, UNCHANGED vars
  PROVE  IInv'
BY DEF IInv, TypeOK, AttemptFacts, QueueFacts, ActiveFacts, DriverFacts, Agreement, InService, At,
       vars, switches, tasks, history

\* Every step keeps the invariant.
LEMMA NextIInv == IInv /\ [Next]_vars => IInv'
<1> SUFFICES ASSUME IInv, [Next]_vars PROVE IInv'
  OBVIOUS
<1>1. CASE User
  BY <1>1, AcceptMessageStep, AcceptCommandStep, AnswerStep, DismissQuestionStep, InterruptStep,
     ResumeSessionStep, CancelInputStep, RetryStep DEF User
<1>2. CASE ReportArrives \/ Prepare \/ Restart
  BY <1>2, ReportArrivesStep, PrepareStep, RestartStep
<1>3. CASE \E d \in Drivers : Drive(d) \/ RecorderFails(d) \/ DriverPanics(d)
  BY <1>3, DriveStep, RecorderFailsStep, DriverPanicsStep
<1>4. CASE UNCHANGED vars
  BY <1>4, StutterStep
<1> QED BY <1>1, <1>2, <1>3, <1>4 DEF Next

\* The session stays type correct: the queue has no input twice, every index names a row.
THEOREM TypeCorrect == Spec => []TypeOK
<1>1. IInv => TypeOK
  BY DEF IInv
<1> QED BY <1>1, InitIInv, NextIInv, PTL DEF Spec

\* No attempt of an input is started twice, across failures and restarts
\* (commit_user_message admits an accepted run only, prepare settles what was running).
THEOREM AttemptsRunOnce == Spec => []AttemptRunsOnce
<1>1. IInv => AttemptRunsOnce
  BY DEF IInv, AttemptFacts, AttemptRunsOnce
<1> QED BY <1>1, InitIInv, NextIInv, PTL DEF Spec

\* While the session is in service, the queue and the active run in memory are what the
\* store says: no handler changes one of them alone.
THEOREM MemoryAndStoreAgree == Spec => []MemoryMatchesStore
<1>1. IInv => MemoryMatchesStore
  BY DEF IInv, Agreement, InService, MemoryMatchesStore
<1> QED BY <1>1, InitIInv, NextIInv, PTL DEF Spec

-----------------------------------------------------------------------------

\* A run that has ended keeps its outcome, or the input has another attempt.
OutcomesKept ==
  \A i \in DOMAIN rows :
    rows[i].run \in Terminal =>
      rows'[i].run = rows[i].run \/ rows'[i].attempts = rows[i].attempts + 1

\* A new input leaves the rows of the others.
LEMMA InsertKeepsOutcomes ==
  ASSUME IInv, NEW kind, NEW p, NEW others \in Seq(Row), Len(others) = Len(rows),
         \A i \in DOMAIN rows : others[i].run = rows[i].run,
         Insert(kind, p, others)
  PROVE  OutcomesKept
<1>1. \A i \in DOMAIN rows : rows'[i] = others[i]
  BY StateTypes DEF Insert
<1> QED BY <1>1 DEF OutcomesKept

\* The input a driver commits or settles has a run that has not ended.
LEMMA SettledRow ==
  ASSUME IInv, NEW d \in Drivers, drivers[d].at \notin {"off", "stopped", "top"}
  PROVE  /\ drivers[d].input \in DOMAIN rows
         /\ drivers[d].at = "commit" => rows[drivers[d].input].run = "accepted"
         /\ Owns(d) => rows[drivers[d].input].run = "running"
BY DriverPlace, RowFacts DEF At, Owns

\* No step of a driver changes a run that has ended.
LEMMA DriveKeepsOutcomes ==
  ASSUME IInv, NEW d \in Drivers, Drive(d)
  PROVE  OutcomesKept
<1> DEFINE i == drivers[d].input
<1>1. CASE rows' = rows
  BY <1>1 DEF OutcomesKept
<1>2. ASSUME Claim(d) PROVE OutcomesKept
  <2>1. i \in DOMAIN rows /\ rows[i].attempts = 0 /\ rows[i].run = "none"
    BY <1>2, SettledRow, RowFacts DEF Claim, StillCurrent, At
  <2>2. \A j \in DOMAIN rows : j # i => rows'[j] = rows[j]
    BY <1>2, StateTypes DEF Claim
  <2> QED BY <2>1, <2>2 DEF OutcomesKept, Terminal
<1>3. ASSUME Start(d) \/ ContextFails(d) \/ PreparationFails(d) \/ JournalFails(d) PROVE OutcomesKept
  <2>1. i \in DOMAIN rows /\ rows[i].run = "accepted"
    BY <1>3, SettledRow DEF Start, ContextFails, PreparationFails, JournalFails, FailBeforeStart, At
  <2>2. \A j \in DOMAIN rows : j # i => rows'[j] = rows[j]
    BY <1>3, StateTypes DEF Start, ContextFails, PreparationFails, JournalFails, FailBeforeStart
  <2> QED BY <2>1, <2>2 DEF OutcomesKept, Terminal
<1>4. ASSUME NEW run, NEW asks, NEW pending,
             Settle(d, run, asks, pending) \/ RecoverySettles(d, pending)
      PROVE  OutcomesKept
  <2>1. i \in DOMAIN rows /\ rows[i].run = "running"
    BY <1>4, SettledRow DEF Settle, RecoverySettles, Settlement, At
  <2>2. \A j \in DOMAIN rows : j # i => rows'[j] = rows[j]
    BY <1>4, StateTypes DEF Settle, RecoverySettles, Settlement
  <2> QED BY <2>1, <2>2 DEF OutcomesKept, Terminal
<1>5. ASSUME CommitCommand(d) \/ CommandDisplaced(d) PROVE OutcomesKept
  <2>1. rows' = [rows EXCEPT ![i].state = "committed"]
    BY <1>5 DEF CommitCommand, CommandDisplaced
  <2>2. \A j \in DOMAIN rows : rows[j] \in Row
    BY StateTypes
  <2>3. \A j \in DOMAIN rows : rows'[j].run = rows[j].run
    BY <2>1, <2>2 DEF Row
  <2> QED BY <2>3 DEF OutcomesKept
<1>6. ASSUME ~Claim(d), ~(Start(d) \/ ContextFails(d) \/ PreparationFails(d) \/ JournalFails(d)),
             ~(CommitCommand(d) \/ CommandDisplaced(d)),
             \A run, asks, pending : ~(Settle(d, run, asks, pending) \/ RecoverySettles(d, pending))
      PROVE  rows' = rows
  BY <1>6 DEF Drive, Rest, TakeCommand, PrepareInput, ReadFails, DropPreparation, ClaimFails, TakeRetry,
     CommitFails, SettleFails, SettleForeign, RecoveryFails, RecoveryFaults, OrphanEnds, CommandFails
<1> QED BY <1>1, <1>2, <1>3, <1>4, <1>5, <1>6

\* A user changes a run that has ended by a retry only, which is another attempt.
LEMMA UserKeepsOutcomes ==
  ASSUME IInv, User \/ ReportArrives
  PROVE  OutcomesKept
<1>1. ASSUME AcceptMessage \/ AcceptCommand \/ ReportArrives PROVE OutcomesKept
  <2>1. rows \in Seq(Row)
    BY StateTypes
  <2> QED BY <1>1, <2>1, InsertKeepsOutcomes DEF AcceptMessage, AcceptCommand, ReportArrives
<1>2. ASSUME Answer PROVE OutcomesKept
  <2> DEFINE others == [i \in DOMAIN rows |->
                          IF i \in Queued(rows) THEN [rows[i] EXCEPT !.priority = @ + 1] ELSE rows[i]]
  <2>1. DOMAIN rows = 1..Len(rows) /\ Len(rows) \in Nat /\ \A i \in DOMAIN rows : rows[i] \in Row
    BY StateTypes
  <2>2. \A i \in DOMAIN rows : others[i] \in Row /\ others[i].run = rows[i].run
    BY <2>1 DEF Row
  <2>3. others \in [1..Len(rows) -> Row]
    BY <2>1, <2>2
  <2>4. Insert("message", 0, others)
    BY <1>2 DEF Answer
  <2> HIDE DEF others
  <2>5. others \in Seq(Row) /\ Len(others) = Len(rows)
    BY <2>1, <2>3, FunctionIsSequence
  <2> QED BY <2>2, <2>4, <2>5, InsertKeepsOutcomes
<1>3. ASSUME DismissQuestion \/ Interrupt \/ ResumeSession PROVE OutcomesKept
  BY <1>3 DEF DismissQuestion, Interrupt, ResumeSession, OutcomesKept
<1>4. ASSUME NEW i \in DOMAIN rows, CancelInput(i) PROVE OutcomesKept
  <2>1. rows' = [rows EXCEPT ![i].state = "deleted"] /\ \A j \in DOMAIN rows : rows[j] \in Row
    BY <1>4, StateTypes DEF CancelInput
  <2>2. \A j \in DOMAIN rows : rows'[j].run = rows[j].run
    BY <2>1 DEF Row
  <2> QED BY <2>2 DEF OutcomesKept
<1>5. ASSUME NEW i \in DOMAIN rows, Retry(i) PROVE OutcomesKept
  <2>1. /\ rows' = [rows EXCEPT ![i].run = "accepted", ![i].attempts = @ + 1]
        /\ \A j \in DOMAIN rows : rows[j] \in Row
    BY <1>5, StateTypes DEF Retry
  <2>2. rows'[i].attempts = rows[i].attempts + 1 /\ \A j \in DOMAIN rows : j # i => rows'[j] = rows[j]
    BY <2>1, StateTypes DEF Row
  <2> QED BY <2>2 DEF OutcomesKept
<1> QED BY <1>1, <1>2, <1>3, <1>4, <1>5 DEF User

\* No step changes the outcome of an attempt.
LEMMA NextKeepsOutcomes ==
  ASSUME IInv, Next
  PROVE  OutcomesKept
<1>1. ASSUME Prepare PROVE OutcomesKept
  <2>1. rows' = [i \in DOMAIN rows |-> IF i \in StillAtWork(rows) THEN Interrupted(rows[i]) ELSE rows[i]]
    BY <1>1 DEF Prepare
  <2>2. \A i \in DOMAIN rows : rows[i].run \in Terminal => rows'[i] = rows[i]
    BY <2>1 DEF StillAtWork, Unfinished, Terminal
  <2> QED BY <2>2 DEF OutcomesKept
<1>2. ASSUME Restart PROVE OutcomesKept
  BY <1>2 DEF Restart, OutcomesKept
<1>3. ASSUME NEW d \in Drivers, RecorderFails(d) \/ DriverPanics(d) PROVE OutcomesKept
  BY <1>3 DEF RecorderFails, DriverPanics, OutcomesKept
<1> QED BY <1>1, <1>2, <1>3, UserKeepsOutcomes, DriveKeepsOutcomes DEF Next

\* The outcome of an attempt is never overwritten (settle_run asks for the active run,
\* prepare settles unfinished runs only).
THEOREM OutcomesAreFinal == Spec => OutcomeIsFinal
<1>1. IInv /\ [Next]_vars => [OutcomesKept]_vars
  BY NextKeepsOutcomes
<1>2. OutcomeIsFinal <=> [][OutcomesKept]_vars
  BY DEF OutcomeIsFinal, OutcomesKept
<1> QED BY <1>1, <1>2, InitIInv, NextIInv, PTL DEF Spec

(***************************************************************************)
(* What one step of a driver does to its place, to the gate and to the     *)
(* switches that keep other drivers away, when nothing panics.             *)
(***************************************************************************)
Turn(d) ==
  /\ drivers' \in [Drivers -> Driver] /\ prepared' = prepared /\ drivers[d].at \notin {"off", "stopped"}
  /\ \A e \in Drivers : e # d => drivers'[e] = drivers[e]
  /\ \/ /\ drivers[d].at \in {"top", "prepare", "command"}
        /\ drivers'[d].at \in {"off", "stopped", "top", "prepare", "command"}
        /\ gate' = gate /\ active' = active /\ faulted' \in {faulted, TRUE}
     \/ /\ drivers[d].at = "prepare" /\ drivers'[d].at = "commit"
        /\ gate = 0 /\ gate' = d /\ ~faulted /\ active = 0
     \/ /\ drivers[d].at = "commit" /\ drivers'[d].at \in {"off", "stopped", "top"}
        /\ gate' = 0
     \/ /\ drivers[d].at = "commit" /\ drivers'[d].at = "run"
        /\ gate' = 0 /\ active' = drivers'[d].input /\ faulted' = faulted
     \/ /\ drivers[d].at = "run" /\ drivers'[d].at = "top"
        /\ gate' = gate
  /\ drivers'[d].at \notin {"off", "stopped"} =>
        faulted' \/ (faulted' = faulted /\ (driving' = driving \/ "journal" \in Failures))
  /\ drivers'[d].at \in {"commit", "command"} => ~faulted'
  /\ faulted /\ drivers[d].at \notin {"commit", "command"} =>
        starts' = starts /\ Queued(rows') = Queued(rows)

\* The drivers after one of them has moved.
LEMMA MovedTo ==
  ASSUME IInv, NEW d \in Drivers, NEW v \in Driver, drivers' = [drivers EXCEPT ![d] = v]
  PROVE  /\ drivers' \in [Drivers -> Driver] /\ drivers'[d] = v
         /\ \A e \in Drivers : e # d => drivers'[e] = drivers[e]
BY StateTypes

\* The steps with which a driver ends are turns.
LEMMA LeavesTurn ==
  ASSUME IInv, NEW d \in Drivers, "panic" \notin Failures,
         \/ Rest(d) \/ ReadFails(d) \/ ClaimFails(d) \/ CommitFails(d) \/ ContextFails(d)
         \/ PreparationFails(d) \/ CommandDisplaced(d) \/ CommandFails(d)
  PROVE  Turn(d)
<1>1. Leave(d) \/ PreparationFails(d)
  BY DEF Rest, ReadFails, ClaimFails, CommitFails, ContextFails, CommandDisplaced, CommandFails
<1>2. /\ drivers' \in [Drivers -> Driver] /\ drivers'[d].at \in {"off", "stopped"}
      /\ \A e \in Drivers : e # d => drivers'[e] = drivers[e]
  BY <1>1, LeftDriver, StoppedDriver, MovedTo
<1>3. CASE Rest(d)
  BY <1>2, <1>3 DEF Rest, At, Turn, history
<1>4. CASE ReadFails(d)
  BY <1>2, <1>4 DEF ReadFails, Fault, At, Turn, history
<1>5. CASE ClaimFails(d)
  BY <1>2, <1>5 DEF ClaimFails, Fault, At, Turn, history
<1>6. CASE CommitFails(d)
  BY <1>2, <1>6 DEF CommitFails, Fault, At, Turn, history
<1>7. CASE ContextFails(d)
  BY <1>2, <1>7 DEF ContextFails, Fault, At, Turn, history
<1>8. CASE PreparationFails(d)
  BY <1>2, <1>8 DEF PreparationFails, FailBeforeStart, At, Turn, history
<1>9. CASE CommandDisplaced(d)
  BY <1>2, <1>9 DEF CommandDisplaced, Fault, At, Turn, history
<1>10. CASE CommandFails(d)
  BY <1>2, <1>10 DEF CommandFails, Fault, At, Turn, history
<1> QED BY <1>3, <1>4, <1>5, <1>6, <1>7, <1>8, <1>9, <1>10

\* The steps with which a driver goes on are turns.
LEMMA MovesTurn ==
  ASSUME IInv, NEW d \in Drivers, "panic" \notin Failures,
         \/ DropPreparation(d) \/ TakeRetry(d) \/ Start(d) \/ JournalFails(d) \/ SettleFails(d)
         \/ SettleForeign(d) \/ CommitCommand(d)
         \/ \E run \in Terminal, asks, pending \in BOOLEAN : Settle(d, run, asks, pending)
  PROVE  Turn(d)
<1>1. ASSUME NEW place \in {"top", "prepare", "commit", "command", "run"}, Move(d, place)
      PROVE  /\ drivers' \in [Drivers -> Driver] /\ drivers'[d].at = place
             /\ drivers'[d].input = drivers[d].input
             /\ \A e \in Drivers : e # d => drivers'[e] = drivers[e]
  <2> DEFINE v == [at |-> place, input |-> drivers[d].input, attempt |-> drivers[d].attempt]
  <2>1. v \in Driver /\ drivers' = [drivers EXCEPT ![d] = v]
    <3>1. place \in {"top", "prepare", "commit", "command", "run", "panicked", "recovered", "orphan"}
      OBVIOUS
    <3>2. Move(d, place)
      BY <1>1
    <3> QED BY <3>1, <3>2, MovedDriver
  <2>2. v.at = place /\ v.input = drivers[d].input
    OBVIOUS
  <2> HIDE DEF v
  <2> QED BY <2>1, <2>2, MovedTo
<1>2. CASE DropPreparation(d)
  <2>1. Move(d, "top")
    BY <1>2 DEF DropPreparation
  <2> QED BY <1>1, <1>2, <2>1 DEF DropPreparation, At, Turn, history
<1>3. CASE TakeRetry(d)
  <2>1. Move(d, "commit")
    BY <1>3 DEF TakeRetry
  <2> QED BY <1>1, <1>3, <2>1 DEF TakeRetry, StillCurrent, At, Turn, history
<1>4. CASE Start(d)
  <2>1. Move(d, "run")
    BY <1>4 DEF Start
  <2> QED BY <1>1, <1>4, <2>1 DEF Start, At, Turn
<1>5. CASE JournalFails(d)
  <2>1. Move(d, "top")
    BY <1>5 DEF JournalFails
  <2> QED BY <1>1, <1>5, <2>1 DEF JournalFails, FailBeforeStart, At, Turn
<1>6. CASE SettleFails(d)
  <2>1. Move(d, "top")
    BY <1>6 DEF SettleFails
  <2> QED BY <1>1, <1>6, <2>1 DEF SettleFails, Fault, At, Turn, history
<1>7. CASE SettleForeign(d)
  <2>1. Move(d, "top")
    BY <1>7 DEF SettleForeign
  <2> QED BY <1>1, <1>7, <2>1 DEF SettleForeign, Fault, At, Turn, history
<1>8. CASE CommitCommand(d)
  <2>1. Move(d, "top")
    BY <1>8 DEF CommitCommand
  <2> QED BY <1>1, <1>8, <2>1 DEF CommitCommand, At, Turn, history
<1>9. ASSUME NEW run \in Terminal, NEW asks \in BOOLEAN, NEW pending \in BOOLEAN,
             Settle(d, run, asks, pending)
      PROVE  Turn(d)
  <2>1. Move(d, "top") /\ ~pending
    BY <1>9 DEF Settle, Settlement
  <2>2. /\ rows' = [rows EXCEPT ![drivers[d].input].run = run] /\ starts' = starts
        /\ prepared' = prepared /\ driving' = driving /\ gate' = gate /\ faulted' = (faulted \/ pending)
        /\ drivers[d].at = "run"
    BY <1>9 DEF Settle, Settlement, At, history
  <2>3. Queued(rows') = Queued(rows)
    <3>1. \A j \in DOMAIN rows : rows[j] \in Row
      BY StateTypes
    <3>2. DOMAIN rows' = DOMAIN rows /\ \A j \in DOMAIN rows : rows'[j].state = rows[j].state
      BY <2>2, <3>1 DEF Row
    <3> QED BY <3>2 DEF Queued
  <2>4. faulted' = faulted
    BY <2>1, <2>2, StateTypes
  <2> QED BY <1>1, <2>1, <2>2, <2>3, <2>4 DEF Turn
<1> QED BY <1>2, <1>3, <1>4, <1>5, <1>6, <1>7, <1>8, <1>9

\* Without panics every step of a driver is a turn.
LEMMA DriveTurn ==
  ASSUME IInv, NEW d \in Drivers, "panic" \notin Failures,
         drivers[d].at \notin {"panicked", "recovered", "orphan"}, Drive(d)
  PROVE  Turn(d)
<1>1. ASSUME TakeCommand(d) PROVE Turn(d)
  <2> DEFINE v == [at |-> "command", input |-> Runnable, attempt |-> 0]
  <2>1. /\ UNCHANGED <<rows, active, faulted, prepared, driving, gate, starts>>
        /\ drivers[d].at = "top" /\ ~faulted /\ Runnable # 0
        /\ drivers' = [drivers EXCEPT ![d] = v]
    BY <1>1 DEF TakeCommand, MayConsume, At, history
  <2>2. v \in Driver
    BY <2>1, RunnableInput, StateTypes DEF Driver
  <2>3. v.at = "command"
    OBVIOUS
  <2> HIDE DEF v
  <2> QED BY <2>1, <2>2, <2>3, MovedTo DEF Turn
<1>2. ASSUME PrepareInput(d) PROVE Turn(d)
  <2> DEFINE v == [at |-> "prepare", input |-> Runnable, attempt |-> rows[Runnable].attempts]
  <2>1. /\ UNCHANGED <<rows, active, faulted, prepared, driving, gate, starts>>
        /\ drivers[d].at = "top" /\ Runnable # 0
        /\ drivers' = [drivers EXCEPT ![d] = v]
    BY <1>2 DEF PrepareInput, MayConsume, At, history
  <2>2. v \in Driver
    BY <2>1, RunnableInput, RowFacts, StateTypes DEF Driver
  <2>3. v.at = "prepare"
    OBVIOUS
  <2> HIDE DEF v
  <2> QED BY <2>1, <2>2, <2>3, MovedTo DEF Turn
<1>3. ASSUME Claim(d) PROVE Turn(d)
  <2> DEFINE v == [drivers[d] EXCEPT !.at = "commit", !.attempt = 1]
  <2>1. /\ UNCHANGED <<active, faulted, prepared, driving>>
        /\ drivers[d].at = "prepare" /\ ~faulted /\ active = 0 /\ gate = 0 /\ gate' = d
        /\ drivers' = [drivers EXCEPT ![d].at = "commit", ![d].attempt = 1]
    BY <1>3 DEF Claim, StillCurrent, At, history
  <2>2. PICK r \in Driver : r = drivers[d]
    BY StateTypes
  <2>3. v = [r EXCEPT !.at = "commit", !.attempt = 1]
    BY <2>2
  <2> HIDE DEF v
  <2>4. v \in Driver /\ v.at = "commit"
    BY <2>3 DEF Driver
  <2>5. drivers' = [drivers EXCEPT ![d] = v]
    BY <2>1, StateTypes DEF v
  <2> QED BY <2>1, <2>4, <2>5, MovedTo DEF Turn
<1>4. ~ \E pending \in BOOLEAN : RecoverySettles(d, pending)
  BY DEF RecoverySettles, At
<1>5. ~(RecoveryFails(d) \/ RecoveryFaults(d) \/ OrphanEnds(d))
  BY DEF RecoveryFails, RecoveryFaults, OrphanEnds, At
<1> QED BY <1>1, <1>2, <1>3, <1>4, <1>5, LeavesTurn, MovesTurn DEF Drive

(***************************************************************************)
(* One engine at a time.  Alone needs that no driver task panics and that  *)
(* no report reaches a session nobody has prepared.                        *)
(***************************************************************************)
Calm == "panic" \notin Failures /\ ~LateReports

\* What a step of anyone but a driver does to the drivers.
Woken ==
  /\ prepared /\ prepared' = prepared /\ gate' = gate /\ active' = active /\ faulted' = faulted
  /\ \/ drivers' = drivers /\ driving' = driving
     \/ ~faulted /\ Wake

\* Handlers touch the drivers through wake_queue only.
LEMMA HandlersWake ==
  ASSUME IInv, ~LateReports, User \/ ReportArrives
  PROVE  Woken
<1>1. CASE AcceptMessage
  BY <1>1 DEF AcceptMessage, Handler, Woken
<1>2. CASE AcceptCommand
  BY <1>2 DEF AcceptCommand, Handler, Woken, switches
<1>3. CASE Answer
  BY <1>3 DEF Answer, Handler, Woken
<1>4. CASE DismissQuestion
  BY <1>4 DEF DismissQuestion, Handler, Woken, tasks
<1>5. CASE Interrupt
  BY <1>5 DEF Interrupt, Woken, tasks
<1>6. CASE ResumeSession
  BY <1>6 DEF ResumeSession, Handler, Woken
<1>7. ASSUME NEW i \in DOMAIN rows, CancelInput(i) PROVE Woken
  BY <1>7 DEF CancelInput, Handler, Woken
<1>8. ASSUME NEW i \in DOMAIN rows, Retry(i) PROVE Woken
  BY <1>8 DEF Retry, Handler, Woken
<1>9. CASE ReportArrives
  BY <1>9 DEF ReportArrives, Woken
<1> QED BY <1>1, <1>2, <1>3, <1>4, <1>5, <1>6, <1>7, <1>8, <1>9 DEF User

\* A handler starts at most one driver, and only when no driver is flagged as running.
LEMMA WokenDrivers ==
  ASSUME IInv, Woken
  PROVE  \/ drivers' = drivers /\ driving' = driving
         \/ \E d \in Drivers :
              /\ drivers[d].at \in {"off", "stopped"} /\ drivers'[d].at = "top"
              /\ ~driving /\ driving' /\ ~faulted
              /\ \A e \in Drivers : e # d => drivers'[e] = drivers[e]
<1>1. CASE drivers' = drivers /\ driving' = driving
  BY <1>1
<1>2. CASE ~faulted /\ Wake
  <2>1. CASE faulted' \/ driving \/ Runnable' = 0
    BY <1>2, <2>1 DEF Wake, Gone, tasks
  <2>2. CASE ~(faulted' \/ driving \/ Runnable' = 0)
    <3> DEFINE free == {d \in Drivers : drivers[d].at \in {"off", "stopped"}}
               new == [NoDriver EXCEPT !.at = "top"]
    <3>1. free # {} /\ driving' = TRUE /\ drivers' = [drivers EXCEPT ![Min(free)] = new]
      BY <1>2, <2>2 DEF Wake, Gone
    <3>2. free \in SUBSET Nat
      BY BoundsAssumption
    <3>3. Min(free) \in free
      BY <3>1, <3>2, LeastElement
    <3>4. PICK m \in Drivers : m = Min(free) /\ drivers[m].at \in {"off", "stopped"}
      BY <3>3
    <3>5. new.at = "top"
      BY DEF NoDriver
    <3> HIDE DEF free, new
    <3>6. drivers' = [drivers EXCEPT ![m] = new]
      BY <3>1, <3>4
    <3>7. drivers'[m] = new /\ \A e \in Drivers : e # m => drivers'[e] = drivers[e]
      BY <3>6, StateTypes
    <3> QED BY <1>2, <2>2, <3>1, <3>4, <3>5, <3>7
  <2> QED BY <2>1, <2>2
<1> QED BY <1>1, <1>2 DEF Woken

\* An engine at work has an input.
LEMMA EngineInput ==
  ASSUME IInv, NEW d \in Drivers, drivers[d].at = "run"
  PROVE  drivers[d].input # 0
<1>1. drivers[d].input \in DOMAIN rows /\ DOMAIN rows = 1..Len(rows) /\ Len(rows) \in Nat
  BY StateTypes DEF IInv, DriverFacts
<1> QED BY <1>1

\* A driver starts its engine with the gate, which it can only take while no run is active.
LEMMA TurnKeepsAlone ==
  ASSUME IInv, Alone, NEW d \in Drivers, Turn(d)
  PROVE  Alone'
<1> SUFFICES ASSUME NEW e \in Drivers
             PROVE  /\ drivers'[e].at \notin {"panicked", "recovered", "orphan"}
                    /\ ~prepared' => drivers'[e].at \in {"off", "stopped"}
                    /\ drivers'[e].at = "run" =>
                         /\ gate' = 0
                         /\ faulted' \/ active' = drivers'[e].input
                         /\ \A g \in Drivers : drivers'[g].at = "run" => g = e
  BY DEF Alone, At
<1>1. prepared' /\ drivers[d].at \notin {"off", "stopped"} /\ \A g \in Drivers : g # d => drivers'[g] = drivers[g]
  BY DEF Turn, Alone
<1>2. \A g \in Drivers : drivers[g].at \notin {"panicked", "recovered", "orphan"}
  BY DEF Alone
<1>3. \A g \in Drivers : drivers[g].at = "run" =>
         /\ gate = 0 /\ (faulted \/ active = drivers[g].input)
         /\ \A h \in Drivers : drivers[h].at = "run" => h = g
  BY DEF Alone, At
<1>4. gate = 0 \/ ~ \E g \in Drivers : drivers[g].at = "run"
  BY <1>3
<1>5. CASE /\ drivers[d].at \in {"top", "prepare", "command"}
           /\ drivers'[d].at \in {"off", "stopped", "top", "prepare", "command"}
           /\ gate' = gate /\ active' = active /\ faulted' \in {faulted, TRUE}
  <2>1. \A g \in Drivers : drivers'[g].at = "run" <=> drivers[g].at = "run"
    BY <1>1, <1>5
  <2>2. drivers'[e].at = "run" => drivers'[e] = drivers[e]
    BY <1>1, <1>5
  <2>3. drivers'[e].at \notin {"panicked", "recovered", "orphan"}
    BY <1>1, <1>2, <1>5
  <2>4. ASSUME drivers'[e].at = "run"
        PROVE  /\ gate' = 0 /\ (faulted' \/ active' = drivers'[e].input)
               /\ \A g \in Drivers : drivers'[g].at = "run" => g = e
    <3>1. drivers[e].at = "run" /\ drivers'[e].input = drivers[e].input
      BY <2>2, <2>4
    <3>2. /\ gate = 0 /\ (faulted \/ active = drivers[e].input)
          /\ \A h \in Drivers : drivers[h].at = "run" => h = e
      BY <1>3, <3>1
    <3>3. faulted => faulted'
      BY <1>5
    <3>4. \A g \in Drivers : drivers'[g].at = "run" => g = e
      BY <2>1, <3>2
    <3> QED BY <1>5, <3>1, <3>2, <3>3, <3>4
  <2> QED BY <1>1, <2>3, <2>4
<1>6. CASE /\ drivers[d].at = "prepare" /\ drivers'[d].at = "commit"
           /\ gate = 0 /\ gate' = d /\ ~faulted /\ active = 0
  <2>1. \A g \in Drivers : drivers[g].at # "run"
    BY <1>3, <1>6, EngineInput
  <2> QED BY <1>1, <1>2, <1>6, <2>1
<1>7. CASE drivers[d].at = "commit"
  <2>1. gate = d /\ d # 0
    BY <1>7, BoundsAssumption DEF IInv, DriverFacts, At
  <2>2. \A g \in Drivers : drivers[g].at # "run"
    BY <1>4, <2>1
  <2>3. \/ drivers'[d].at \in {"off", "stopped", "top"}
        \/ drivers'[d].at = "run" /\ gate' = 0 /\ active' = drivers'[d].input
    BY <1>5, <1>6, <1>7 DEF Turn
  <2> QED BY <1>1, <1>2, <2>2, <2>3
<1>8. CASE drivers[d].at = "run" /\ drivers'[d].at = "top" /\ gate' = gate
  <2>1. \A g \in Drivers : drivers'[g].at # "run"
    BY <1>1, <1>3, <1>8
  <2> QED BY <1>1, <1>2, <1>8, <2>1
<1> QED BY <1>5, <1>6, <1>7, <1>8 DEF Turn

\* A woken driver has no engine.
LEMMA WokenKeepsAlone ==
  ASSUME IInv, Alone, Woken
  PROVE  Alone'
<1>1. prepared /\ prepared' = prepared /\ gate' = gate /\ active' = active /\ faulted' = faulted
  BY DEF Woken
<1>2. CASE drivers' = drivers
  BY <1>1, <1>2 DEF Alone, At
<1>3. CASE \E d \in Drivers : /\ drivers[d].at \in {"off", "stopped"} /\ drivers'[d].at = "top"
                              /\ \A e \in Drivers : e # d => drivers'[e] = drivers[e]
  <2>1. PICK d \in Drivers : /\ drivers[d].at \in {"off", "stopped"} /\ drivers'[d].at = "top"
                             /\ \A e \in Drivers : e # d => drivers'[e] = drivers[e]
    BY <1>3
  <2>2. \A e \in Drivers : drivers'[e].at = "run" => drivers[e].at = "run" /\ drivers'[e] = drivers[e]
    BY <2>1
  <2> QED BY <1>1, <2>1, <2>2 DEF Alone, At
<1> QED BY <1>2, <1>3, WokenDrivers

\* Without drivers there is nothing to exclude.
LEMMA OffIsAlone ==
  ASSUME \A d \in Drivers : drivers'[d].at \in {"off", "stopped"}
  PROVE  Alone' /\ Single'
BY DEF Alone, Single, At

\* A new process has no driver, and it is prepared before it can have one.
LEMMA LoadsStartOff ==
  ASSUME IInv, Alone, Prepare \/ Restart
  PROVE  \A d \in Drivers : drivers'[d].at \in {"off", "stopped"}
<1>1. CASE Prepare
  BY <1>1 DEF Prepare, Alone
<1>2. CASE Restart
  BY <1>2 DEF Restart, NoDriver
<1> QED BY <1>1, <1>2

\* Every step keeps the engines apart.
LEMMA NextAlone ==
  ASSUME IInv, Alone, Calm, [Next]_vars
  PROVE  Alone'
<1>1. CASE User \/ ReportArrives
  BY <1>1, HandlersWake, WokenKeepsAlone DEF Calm
<1>2. CASE Prepare \/ Restart
  BY <1>2, LoadsStartOff, OffIsAlone
<1>3. ASSUME NEW d \in Drivers, Drive(d) PROVE Alone'
  <2>1. drivers[d].at \notin {"panicked", "recovered", "orphan"}
    BY DEF Alone
  <2>2. Turn(d)
    BY <1>3, <2>1, DriveTurn DEF Calm
  <2> QED BY <2>2, TurnKeepsAlone
<1>4. ASSUME NEW d \in Drivers, RecorderFails(d) PROVE Alone'
  BY <1>4 DEF RecorderFails, tasks, Alone, At
<1>5. ~ \E d \in Drivers : DriverPanics(d)
  BY DEF DriverPanics, Calm
<1>6. CASE UNCHANGED vars
  BY <1>6 DEF vars, tasks, Alone, At
<1> QED BY <1>1, <1>2, <1>3, <1>4, <1>5, <1>6 DEF Next

\* A set whose elements are all the same has at most one.
LEMMA AtMostOne ==
  ASSUME NEW S, \A d, e \in S : d = e
  PROVE  Cardinality(S) <= 1
<1>1. CASE S = {}
  BY <1>1, FS_EmptySet
<1>2. CASE S # {}
  <2>1. PICK d \in S : TRUE
    BY <1>2
  <2>2. S = {d}
    BY <2>1
  <2>3. Cardinality({d}) = 1
    BY FS_Singleton
  <2>4. Cardinality(S) = 1
    BY <2>2, <2>3, Zenon
  <2> QED BY <2>4
<1> QED BY <1>1, <1>2

\* OneExecution counts the engines that Alone keeps apart.
LEMMA AloneIsOneExecution ==
  ASSUME Alone
  PROVE  OneExecution
<1> DEFINE S == {d \in Drivers : EngineOf(d)}
<1>1. \A d, e \in S : d = e
  BY DEF Alone, At, EngineOf
<1> HIDE DEF S
<1>2. Cardinality(S) <= 1
  BY <1>1, AtMostOne
<1> QED BY <1>2 DEF OneExecution, S

\* At most one engine works for a session, when no task panics and reports go through
\* prepare: active_run and the gate keep a second one from starting, even where a failed
\* journal preparation lets a second driver run.
THEOREM EnginesDoNotOverlap ==
  ASSUME "panic" \notin Failures, ~LateReports
  PROVE  Spec => []OneExecution
<1>1. Init => IInv /\ Alone
  BY InitIInv DEF Init, NoDriver, Alone, At
<1>2. IInv /\ Alone /\ [Next]_vars => (IInv /\ Alone)'
  BY NextIInv, NextAlone DEF Calm
<1>3. Alone => OneExecution
  BY AloneIsOneExecution
<1> QED BY <1>1, <1>2, <1>3, PTL DEF Spec

-----------------------------------------------------------------------------
\* Nothing leaves the flag of a driver that goes on cleared.
Orderly == Calm /\ "journal" \notin Failures

\* A driver is woken when there is none, or the session is faulted.
LEMMA WokenKeepsSingle ==
  ASSUME IInv, Single, Woken
  PROVE  Single'
<1>1. faulted' = faulted
  BY DEF Woken
<1>2. CASE drivers' = drivers /\ driving' = driving
  BY <1>1, <1>2 DEF Single
<1>3. CASE \E d \in Drivers : /\ drivers[d].at \in {"off", "stopped"} /\ drivers'[d].at = "top"
                              /\ ~driving /\ driving' /\ ~faulted
                              /\ \A e \in Drivers : e # d => drivers'[e] = drivers[e]
  <2>1. PICK d \in Drivers : /\ drivers[d].at \in {"off", "stopped"} /\ drivers'[d].at = "top"
                             /\ ~driving /\ driving' /\ ~faulted
                             /\ \A e \in Drivers : e # d => drivers'[e] = drivers[e]
    BY <1>3
  <2>2. \A e \in Drivers : drivers[e].at \in {"off", "stopped"}
    BY <2>1 DEF Single
  <2> QED BY <1>1, <2>1, <2>2 DEF Single
<1> QED BY <1>2, <1>3, WokenDrivers

\* A driver that goes on is still the one flagged as running.
LEMMA TurnKeepsSingle ==
  ASSUME Single, Orderly, NEW d \in Drivers, Turn(d)
  PROVE  Single'
<1>1. drivers[d].at \notin {"off", "stopped"} /\ \A e \in Drivers : e # d => drivers'[e] = drivers[e]
  BY DEF Turn
<1>2. \A e \in Drivers : e # d => drivers'[e].at \in {"off", "stopped"}
  BY <1>1 DEF Single
<1>3. faulted \/ driving
  BY <1>1 DEF Single
<1>4. drivers'[d].at \notin {"off", "stopped"} => faulted' \/ (faulted' = faulted /\ driving' = driving)
  BY DEF Turn, Orderly
<1>5. drivers'[d].at \in {"commit", "command"} => ~faulted'
  BY DEF Turn
<1> QED BY <1>2, <1>3, <1>4, <1>5 DEF Single

\* Every step keeps the driver single.
LEMMA NextSingle ==
  ASSUME IInv, Alone, Single, Orderly, [Next]_vars
  PROVE  Single'
<1>1. CASE User \/ ReportArrives
  BY <1>1, HandlersWake, WokenKeepsSingle DEF Orderly, Calm
<1>2. CASE Prepare \/ Restart
  BY <1>2, LoadsStartOff, OffIsAlone
<1>3. ASSUME NEW d \in Drivers, Drive(d) PROVE Single'
  <2>1. drivers[d].at \notin {"panicked", "recovered", "orphan"}
    BY DEF Alone
  <2>2. Turn(d)
    BY <1>3, <2>1, DriveTurn DEF Orderly, Calm
  <2> QED BY <2>2, TurnKeepsSingle
<1>4. ASSUME NEW d \in Drivers, RecorderFails(d) PROVE Single'
  <2>1. drivers' = drivers /\ faulted' = TRUE /\ drivers[d].at \notin {"off", "stopped", "commit", "command"}
    BY <1>4 DEF RecorderFails, tasks, EngineOf
  <2> QED BY <2>1 DEF Single
<1>5. ~ \E d \in Drivers : DriverPanics(d)
  BY DEF DriverPanics, Orderly, Calm
<1>6. CASE UNCHANGED vars
  BY <1>6 DEF vars, tasks, Single
<1> QED BY <1>1, <1>2, <1>3, <1>4, <1>5, <1>6 DEF Next

\* SingleDriver counts the drivers that Single keeps apart.
LEMMA SingleIsSingleDriver ==
  ASSUME Single
  PROVE  SingleDriver
<1> DEFINE S == {d \in Drivers : drivers[d].at \notin Gone \cup {"panicked", "recovered", "orphan"}}
<1>1. \A d, e \in S : d = e
  BY DEF Single, Gone
<1> HIDE DEF S
<1>2. Cardinality(S) <= 1
  BY <1>1, AtMostOne
<1> QED BY <1>2 DEF SingleDriver, S

\* The invariant of a session whose only failures are those of the store and of the start.
LEMMA OrderlyInvariant ==
  ASSUME "panic" \notin Failures, "journal" \notin Failures, ~LateReports
  PROVE  Spec => [](IInv /\ Alone /\ Single)
<1>1. Init => IInv /\ Alone /\ Single
  BY InitIInv DEF Init, NoDriver, Alone, Single, At
<1>2. IInv /\ Alone /\ Single /\ [Next]_vars => (IInv /\ Alone /\ Single)'
  BY NextIInv, NextAlone, NextSingle DEF Calm, Orderly
<1> QED BY <1>1, <1>2, PTL DEF Spec

\* A session has one queue driver at most, unless a task panics, a journal preparation
\* fails or a report wakes an unprepared session: is_queue_driver_running is set while a
\* driver exists.
THEOREM DriversDoNotOverlap ==
  ASSUME "panic" \notin Failures, "journal" \notin Failures, ~LateReports
  PROVE  Spec => []SingleDriver
<1>1. IInv /\ Alone /\ Single => SingleDriver
  BY SingleIsSingleDriver
<1> QED BY <1>1, OrderlyInvariant, PTL

\* What a step of a faulted session that stays faulted leaves alone.
Untouched == faulted /\ faulted' => starts' = starts /\ Queued(rows) \subseteq Queued(rows')

\* Every step of a faulted session that stays faulted leaves starts and waiting inputs alone.
LEMMA NextUntouched ==
  ASSUME IInv, Alone, Single, Orderly, [Next]_vars
  PROVE  Untouched
<1> SUFFICES ASSUME faulted, faulted'
             PROVE  starts' = starts /\ Queued(rows) \subseteq Queued(rows')
  BY DEF Untouched
<1>1. CASE User \/ ReportArrives
  <2>1. Interrupt
    BY <1>1 DEF User, ReportArrives, AcceptMessage, AcceptCommand, Answer, DismissQuestion,
                ResumeSession, CancelInput, Retry, Handler
  <2> QED BY <2>1 DEF Interrupt, history
<1>2. CASE Prepare \/ Restart
  BY <1>2 DEF Prepare, Restart, Rebuild
<1>3. ASSUME NEW d \in Drivers, Drive(d) PROVE starts' = starts /\ Queued(rows) \subseteq Queued(rows')
  <2>1. drivers[d].at \notin {"panicked", "recovered", "orphan"}
    BY DEF Alone
  <2>2. Turn(d)
    BY <1>3, <2>1, DriveTurn DEF Orderly, Calm
  <2>3. drivers[d].at \notin {"commit", "command"}
    BY <2>2 DEF Single, Turn
  <2> QED BY <2>2, <2>3 DEF Turn
<1>4. ASSUME NEW d \in Drivers, RecorderFails(d)
      PROVE  starts' = starts /\ Queued(rows) \subseteq Queued(rows')
  BY <1>4 DEF RecorderFails, history
<1>5. ~ \E d \in Drivers : DriverPanics(d)
  BY DEF DriverPanics, Orderly, Calm
<1>6. CASE UNCHANGED vars
  BY <1>6 DEF vars, history
<1> QED BY <1>1, <1>2, <1>3, <1>4, <1>5, <1>6 DEF Next

\* A faulted session starts and consumes nothing (assistant-runtime.md:771-773), under the
\* same conditions: its one driver is past the commit, and looks at is_faulted before the next.
THEOREM FaultedIsClosed ==
  ASSUME "panic" \notin Failures, "journal" \notin Failures, ~LateReports
  PROVE  Spec => FailClosed
<1>1. IInv /\ Alone /\ Single /\ [Next]_vars => [Untouched]_vars
  BY NextUntouched DEF Calm, Orderly
<1>2. FailClosed <=> [][Untouched]_vars
  BY DEF FailClosed, Untouched
<1>3. Spec => [][Next]_vars
  BY PTL DEF Spec
<1> QED BY <1>1, <1>2, <1>3, OrderlyInvariant, PTL

=============================================================================
