----------------------------- MODULE Store_proof -----------------------------
(***************************************************************************)
(* Proofs about the two things the store of a session keeps: the order of  *)
(* its queue (QueueOrder) and its history (StagedHistory), for every       *)
(* number of inputs, runs, generations and faults.                         *)
(*                                                                         *)
(* QueueOrder.  Memory and the store are changed by different code, so     *)
(* that they agree is nothing an operation can rely on by itself.  IInv    *)
(* says how: who waits in the store is in memory's queue or on its way     *)
(* there as a report, and in a plain session both put the same input       *)
(* first.                                                                  *)
(*                                                                         *)
(* StagedHistory.  A file and a database cannot be written together.       *)
(* StoreInv says what is true between any two writes: Durable, of what     *)
(* both hold, is what a restart finds; Process, of what the worker knows,  *)
(* is why its next step is one the tables and the files allow.             *)
(***************************************************************************)
EXTENDS QueueOrder, StagedHistory, SequenceFacts, FiniteSetTheorems


\* Only a promoted input is ahead of one that was accepted before it.
Fifo(s, p) == \A j, k \in DOMAIN s : j < k /\ s[j] > s[k] => s[j] \in p

\* Memory's queue and the store hold the same inputs; a report belongs to a controller.
SameInputs ==
  /\ Waiting(rows) = ToSet(queue) \cup unprojected
  /\ ToSet(queue) \cap unprojected = {}
  /\ \A n \in unprojected : rows[n].kind = "report"
  /\ hosted => role = "hosted"
  /\ unprojected # {} => role = "controller"

\* All that waits in a plain session is the user's, and promotions move all of it.
SameOrder ==
  role = "plain" =>
    /\ \A n \in Waiting(rows) : rows[n].kind \in {"user", "command"}
    /\ Sorted(rows, queue)
    /\ Fifo(queue, promoted)

IInv == TypeOK /\ SameInputs /\ SameOrder /\ RevisionIdentifiesQueue

-----------------------------------------------------------------------------
(* What the operators do to the rows *)

\* An accepted input is the last row, and waits.
LEMMA AcceptedRows ==
  ASSUME NEW r \in Seq(Row), NEW kind \in Kinds, NEW priority \in Nat
  PROVE  LET q == Accepted(r, kind, priority)  new == Len(r) + 1
         IN  /\ q \in Seq(Row) /\ DOMAIN r = 1..Len(r) /\ DOMAIN q = 1..new
             /\ new \in DOMAIN q /\ new \notin DOMAIN r /\ DOMAIN r \subseteq DOMAIN q
             /\ \A n \in DOMAIN r : q[n] = r[n] /\ n < new
             /\ q[new] = [kind |-> kind, state |-> "queued", priority |-> priority]
             /\ Waiting(q) = Waiting(r) \cup {new}
<1> DEFINE entry == [kind |-> kind, state |-> "queued", priority |-> priority]
           q == Append(r, entry)
           new == Len(r) + 1
<1>1. entry \in Row /\ entry.state = "queued" /\ Len(r) \in Nat
  BY DEF Row
<1> HIDE DEF entry
<1>2. /\ q \in Seq(Row) /\ DOMAIN r = 1..Len(r) /\ DOMAIN q = 1..new
      /\ \A n \in 1..Len(r) : q[n] = r[n]
      /\ q[new] = entry
  BY <1>1
<1>3. \A n \in DOMAIN q : n \in DOMAIN r \/ n = new
  BY <1>1, <1>2
<1>4. /\ new \in DOMAIN q /\ new \notin DOMAIN r /\ DOMAIN r \subseteq DOMAIN q
      /\ \A n \in DOMAIN r : n < new
  BY <1>1, <1>2
<1> HIDE DEF q, new
<1>5. Waiting(q) = Waiting(r) \cup {new}
  BY <1>1, <1>2, <1>3, <1>4 DEF Waiting
<1> QED BY <1>1, <1>2, <1>4, <1>5 DEF q, new, entry, Accepted

\* A shift moves the rows of S back by one.
LEMMA ShiftedRows ==
  ASSUME NEW r \in Seq(Row), NEW S
  PROVE  LET q == Shifted(r, S)
         IN  /\ q \in Seq(Row) /\ DOMAIN q = DOMAIN r /\ Len(q) = Len(r)
             /\ \A n \in DOMAIN r :
                  /\ q[n].kind = r[n].kind /\ q[n].state = r[n].state
                  /\ q[n].priority = IF n \in S THEN r[n].priority + 1 ELSE r[n].priority
             /\ Waiting(q) = Waiting(r)
<1> DEFINE q == Shifted(r, S)
<1>1. Len(r) \in Nat /\ DOMAIN r = 1..Len(r) /\ \A n \in DOMAIN r : r[n] \in Row
  OBVIOUS
<1>2. ASSUME NEW n \in DOMAIN r
      PROVE  /\ q[n] \in Row /\ q[n].kind = r[n].kind /\ q[n].state = r[n].state
             /\ q[n].priority = IF n \in S THEN r[n].priority + 1 ELSE r[n].priority
  <2>1. PICK entry \in Row : entry = r[n]
    BY <1>1
  <2>2. q[n] = IF n \in S THEN [entry EXCEPT !.priority = @ + 1] ELSE entry
    BY <2>1 DEF Shifted
  <2>3. entry.priority \in Nat
    BY DEF Row
  <2> HIDE DEF q
  <2> QED BY <2>1, <2>2, <2>3 DEF Row
<1>3. q = [n \in 1..Len(r) |-> q[n]] /\ DOMAIN q = DOMAIN r
  BY <1>1 DEF Shifted
<1> HIDE DEF q
<1>4. q \in [1..Len(r) -> Row]
  BY <1>1, <1>2, <1>3
<1>5. q \in Seq(Row) /\ Len(q) = Len(r)
  BY <1>1, <1>4, FunctionIsSequence
<1>6. Waiting(q) = Waiting(r)
  BY <1>2, <1>3 DEF Waiting
<1> QED BY <1>2, <1>3, <1>5, <1>6 DEF q

\* Rows that leave the queue do nothing else.
LEMMA LeavingRows ==
  ASSUME NEW r \in Seq(Row), NEW S, NEW state \in {"committed", "deleted"}
  PROVE  LET q == WithState(r, S, state)
         IN  /\ q \in Seq(Row) /\ DOMAIN q = DOMAIN r /\ Len(q) = Len(r)
             /\ \A n \in DOMAIN r :
                  q[n].kind = r[n].kind /\ q[n].priority = r[n].priority
             /\ Waiting(q) = Waiting(r) \ S
<1> DEFINE q == WithState(r, S, state)
<1>1. Len(r) \in Nat /\ DOMAIN r = 1..Len(r) /\ \A n \in DOMAIN r : r[n] \in Row
  OBVIOUS
<1>2. ASSUME NEW n \in DOMAIN r
      PROVE  /\ q[n] \in Row /\ q[n].kind = r[n].kind /\ q[n].priority = r[n].priority
             /\ q[n].state = IF n \in S THEN state ELSE r[n].state
  <2>1. PICK entry \in Row : entry = r[n]
    BY <1>1
  <2>2. q[n] = IF n \in S THEN [entry EXCEPT !.state = state] ELSE entry
    BY <2>1 DEF WithState
  <2> HIDE DEF q
  <2> QED BY <2>1, <2>2 DEF Row
<1>3. q = [n \in 1..Len(r) |-> q[n]] /\ DOMAIN q = DOMAIN r
  BY <1>1 DEF WithState
<1> HIDE DEF q
<1>4. q \in [1..Len(r) -> Row]
  BY <1>1, <1>2, <1>3
<1>5. q \in Seq(Row) /\ Len(q) = Len(r)
  BY <1>1, <1>4, FunctionIsSequence
<1>6. Waiting(q) = Waiting(r) \ S
  BY <1>2, <1>3 DEF Waiting
<1> QED BY <1>2, <1>3, <1>5, <1>6 DEF q

\* The next priority is behind all that waits.
LEMMA NextPriorityIsBehind ==
  ASSUME NEW r \in Seq(Row)
  PROVE  /\ NextPriority(r) \in Nat
         /\ \A n \in Waiting(r) : r[n].priority < NextPriority(r)
<1> DEFINE present == {m \in DOMAIN r : r[m].state # "deleted"}
           T == {-1} \cup {Order(r, n) : n \in present}
<1>1. Len(r) \in Nat /\ DOMAIN r = 1..Len(r) /\ \A n \in DOMAIN r : r[n] \in Row
  OBVIOUS
<1>2. \A n \in 1..Len(r) : Order(r, n) \in Nat
  <2> SUFFICES ASSUME NEW n \in 1..Len(r) PROVE Order(r, n) \in Nat
    OBVIOUS
  <2>1. PICK entry \in Row : entry = r[n]
    BY <1>1
  <2>2. entry.priority \in Nat
    BY DEF Row
  <2> QED BY <2>1, <2>2 DEF Order
<1> DEFINE f == [n \in 1..Len(r) |-> Order(r, n)]
<1>3. f \in [1..Len(r) -> Nat]
  BY <1>2
<1>4. PICK b \in Nat : \A n \in 1..Len(r) : f[n] <= b
  <2> HIDE DEF f
  <2> QED BY <1>1, <1>3, BoundedValues
<1>5. present \subseteq 1..Len(r)
  BY <1>1
<1> HIDE DEF present
<1>6. T \in SUBSET Int /\ -1 \in T /\ \A y \in T : -1 <= y /\ y <= b
  BY <1>2, <1>4, <1>5
<1>7. Max(T) \in T /\ \A y \in T : y <= Max(T)
  <2> HIDE DEF T
  <2> QED BY <1>6, GreatestElement
<1>8. NextPriority(r) = Max(T) + 1
  BY DEF NextPriority, present
<1>9. ASSUME NEW n \in Waiting(r) PROVE r[n].priority \in T /\ r[n].priority \in Int
  <2>1. n \in present /\ r[n].state = "queued" /\ n \in 1..Len(r)
    BY <1>1 DEF Waiting, present
  <2>2. Order(r, n) = r[n].priority
    BY <2>1 DEF Order
  <2>3. Order(r, n) \in T /\ Order(r, n) \in Int
    BY <1>2, <2>1
  <2> QED BY <2>2, <2>3
<1> HIDE DEF T
<1>10. PICK m \in Int : m = Max(T) /\ -1 <= m /\ \A y \in T : y <= m
  BY <1>6, <1>7
<1> QED BY <1>8, <1>9, <1>10

-----------------------------------------------------------------------------
(* What the operators do to the order *)

\* A part of a sorted queue is sorted.
LEMMA FollowsInOrder ==
  ASSUME NEW s, NEW t, NEW r, NEW p, Follows(t, s), Sorted(r, s), Fifo(s, p)
  PROVE  Sorted(r, t) /\ Fifo(t, p)
BY DEF Follows, Sorted, Fifo

\* So is its tail.
LEMMA TailInOrder ==
  ASSUME NEW T, NEW s \in Seq(T), s # <<>>, NEW r, NEW p, Sorted(r, s), Fifo(s, p)
  PROVE  Sorted(r, Tail(s)) /\ Fifo(Tail(s), p)
<1>1. \A j \in DOMAIN Tail(s) : j + 1 \in DOMAIN s /\ Tail(s)[j] = s[j + 1]
  OBVIOUS
<1>2. \A j, k \in DOMAIN Tail(s) : j < k => j + 1 < k + 1
  OBVIOUS
<1>3. Follows(Tail(s), s)
  BY <1>1, <1>2 DEF Follows
<1> QED BY <1>3, FollowsInOrder

\* A queue stays sorted when its rows change and keep their order.
LEMMA StillInOrder ==
  ASSUME NEW s, NEW r, NEW q, NEW p, NEW more, p \subseteq more, Sorted(r, s), Fifo(s, p),
         \A a, b \in ToSet(s) : Before(r, a, b) => Before(q, a, b)
  PROVE  Sorted(q, s) /\ Fifo(s, more)
<1>1. \A j \in DOMAIN s : s[j] \in ToSet(s)
  BY DEF ToSet
<1> QED BY <1>1 DEF Sorted, Fifo

\* An input that goes behind all others may be appended.
LEMMA AppendInOrder ==
  ASSUME NEW T, NEW s \in Seq(T), NEW n, NEW r, NEW p, Sorted(r, s), Fifo(s, p),
         \A a \in ToSet(s) : Before(r, a, n) /\ ~(a > n)
  PROVE  Sorted(r, Append(s, n)) /\ Fifo(Append(s, n), p)
<1> DEFINE t == Append(s, n)
<1>1. /\ DOMAIN t = 1..(Len(s) + 1) /\ Len(s) \in Nat /\ DOMAIN s = 1..Len(s)
      /\ \A j \in 1..Len(s) : t[j] = s[j] /\ s[j] \in ToSet(s)
      /\ t[Len(s) + 1] = n
  BY DEF ToSet
<1> HIDE DEF t
<1>2. ASSUME NEW j \in DOMAIN t, NEW k \in DOMAIN t, j < k
      PROVE  /\ j \in DOMAIN s /\ t[j] = s[j]
             /\ (k \in DOMAIN s /\ t[k] = s[k]) \/ t[k] = n
  BY <1>1, <1>2
<1>3. Sorted(r, t)
  BY <1>1, <1>2 DEF Sorted
<1>4. Fifo(t, p)
  BY <1>1, <1>2 DEF Fifo
<1> QED BY <1>3, <1>4 DEF t

\* A promoted input that goes before all others may be put in front.
LEMMA FrontInOrder ==
  ASSUME NEW T, NEW s \in Seq(T), NEW n, NEW r, NEW p, n \in p, Sorted(r, s), Fifo(s, p),
         \A a \in ToSet(s) : Before(r, n, a)
  PROVE  Sorted(r, <<n>> \o s) /\ Fifo(<<n>> \o s, p)
<1> DEFINE t == <<n>> \o s
<1>1. /\ DOMAIN t = 1..(Len(s) + 1) /\ Len(s) \in Nat /\ DOMAIN s = 1..Len(s)
      /\ \A j \in 1..Len(s) : s[j] \in ToSet(s)
      /\ \A j \in 2..(Len(s) + 1) : t[j] = s[j - 1]
      /\ t[1] = n
  BY DEF ToSet
<1> HIDE DEF t
<1>2. ASSUME NEW j \in DOMAIN t, NEW k \in DOMAIN t, j < k
      PROVE  /\ k - 1 \in DOMAIN s /\ t[k] = s[k - 1] /\ t[k] \in ToSet(s)
             /\ (j - 1 \in DOMAIN s /\ t[j] = s[j - 1] /\ j - 1 < k - 1) \/ t[j] = n
  BY <1>1, <1>2
<1>3. Sorted(r, t)
  BY <1>1, <1>2 DEF Sorted
<1>4. Fifo(t, p)
  BY <1>1, <1>2 DEF Fifo
<1> QED BY <1>3, <1>4 DEF t

\* The order of two rows depends on their kinds and on how their priorities compare.
LEMMA OrderKept ==
  ASSUME NEW r \in Seq(Row), NEW q \in Seq(Row), NEW S \in SUBSET (DOMAIN r), S \subseteq DOMAIN q,
         NEW d \in Nat,
         \A n \in S : q[n].kind = r[n].kind /\ q[n].priority = r[n].priority + d
  PROVE  \A a, b \in S : Before(r, a, b) => Before(q, a, b)
<1> SUFFICES ASSUME NEW a \in S, NEW b \in S, Before(r, a, b) PROVE Before(q, a, b)
  OBVIOUS
<1>1. \A n \in S : r[n].priority \in Nat
  <2> SUFFICES ASSUME NEW n \in S PROVE r[n].priority \in Nat
    OBVIOUS
  <2>1. PICK entry \in Row : entry = r[n]
    OBVIOUS
  <2> QED BY <2>1 DEF Row
<1>2. q[a].kind = r[a].kind /\ q[b].kind = r[b].kind
  OBVIOUS
<1>3. /\ r[a].priority < r[b].priority <=> q[a].priority < q[b].priority
      /\ r[a].priority = r[b].priority <=> q[a].priority = q[b].priority
  BY <1>1
<1> QED BY <1>2, <1>3 DEF Before

-----------------------------------------------------------------------------
(* IInv is inductive *)

\* Where inputs, reports and the queue keep what each other says.
LEMMA Places ==
  ASSUME IInv
  PROVE  /\ rows \in Seq(Row) /\ Len(rows) \in Nat /\ DOMAIN rows = 1..Len(rows)
         /\ Waiting(rows) \subseteq DOMAIN rows /\ TakenOver \subseteq Waiting(rows)
         /\ queue \in Seq(DOMAIN rows) /\ IsInjective(queue)
         /\ ToSet(queue) \subseteq Waiting(rows) /\ ToSet(queue) \subseteq DOMAIN rows
         /\ unprojected \subseteq Waiting(rows) /\ TakenOver \cap unprojected = {}
BY DEF IInv, TypeOK, SameInputs, Waiting, TakenOver

\* An input is accepted behind all others; those the user took over are gone.
LEMMA AcceptedBehind ==
  ASSUME IInv, NEW kind \in Kinds, NEW gone \in SUBSET Waiting(rows), NEW q \in Seq(Row),
         gone \cap unprojected = {},
         DOMAIN q = DOMAIN rows, Len(q) = Len(rows), Waiting(q) = Waiting(rows) \ gone,
         \A n \in DOMAIN rows : q[n].kind = rows[n].kind /\ q[n].priority = rows[n].priority,
         rows' = Accepted(q, kind, NextPriority(q)),
         queue' = Append(Minus(queue, gone), Len(rows) + 1) \/
           (gone = {} /\ queue' = Append(queue, Len(rows) + 1)),
         hosted' \in BOOLEAN, hosted' => hosted, role = "plain" => kind \in {"user", "command"},
         UNCHANGED <<role, executing, active, asking, unprojected, promoted>>, NextRevision
  PROVE  IInv'
<1> DEFINE new == Len(rows) + 1
<1>1. /\ rows \in Seq(Row) /\ Len(rows) \in Nat /\ DOMAIN rows = 1..Len(rows)
      /\ queue \in Seq(DOMAIN rows) /\ IsInjective(queue)
      /\ ToSet(queue) \subseteq Waiting(rows) /\ ToSet(queue) \subseteq DOMAIN rows
  BY Places
<1>2. NextPriority(q) \in Nat /\ \A n \in Waiting(q) : q[n].priority < NextPriority(q)
  BY NextPriorityIsBehind
<1>3. /\ rows' \in Seq(Row) /\ DOMAIN rows' = 1..new
      /\ new \in DOMAIN rows' /\ new \notin DOMAIN rows /\ DOMAIN rows \subseteq DOMAIN rows'
      /\ \A n \in DOMAIN rows : rows'[n] = q[n] /\ n < new
      /\ rows'[new] = [kind |-> kind, state |-> "queued", priority |-> NextPriority(q)]
      /\ Waiting(rows') = Waiting(q) \cup {new}
  BY <1>1, <1>2, AcceptedRows
<1> HIDE DEF new
<1>4. PICK s : /\ queue' = Append(s, new)
               /\ s \in Seq(DOMAIN rows) /\ IsInjective(s) /\ ToSet(s) = ToSet(queue) \ gone
               /\ \A r, p : Sorted(r, queue) /\ Fifo(queue, p) => Sorted(r, s) /\ Fifo(s, p)
  <2>1. CASE queue' = Append(Minus(queue, gone), new)
    <3> DEFINE s == Minus(queue, gone)
    <3>1. /\ s \in Seq(DOMAIN rows) /\ IsInjective(s) /\ ToSet(s) = ToSet(queue) \ gone
          /\ Follows(s, queue)
      BY <1>1, Retained
    <3> HIDE DEF s
    <3>2. \A r, p : Sorted(r, queue) /\ Fifo(queue, p) => Sorted(r, s) /\ Fifo(s, p)
      BY <3>1, FollowsInOrder
    <3>3. queue' = Append(s, new)
      BY <2>1 DEF s
    <3> QED BY <3>1, <3>2, <3>3
  <2>2. CASE gone = {} /\ queue' = Append(queue, new)
    BY <1>1, <2>2
  <2> QED BY <2>1, <2>2 DEF new
<1>5. new \notin ToSet(s)
  BY <1>1, <1>3, <1>4
<1>6. /\ queue' \in Seq(DOMAIN rows \cup {new}) /\ IsInjective(queue')
      /\ ToSet(queue') = ToSet(s) \cup {new}
  BY <1>4, <1>5, AppendedAt
<1>7. queue' \in Seq(DOMAIN rows')
  <2>1. DOMAIN rows \cup {new} \subseteq DOMAIN rows'
    BY <1>3
  <2> QED BY <1>6, <2>1, SeqMonotonic
<1>8. TypeOK'
  <2>1. current' = {} /\ Cardinality({}) = 0
    BY FS_EmptySet DEF NextRevision
  <2> QED BY <1>3, <1>6, <1>7, <2>1 DEF IInv, TypeOK
<1>9. SameInputs'
  <2>1. new \notin unprojected
    BY <1>3, Places
  <2>2. \A n \in unprojected : rows'[n].kind = "report"
    BY <1>3, Places DEF IInv, SameInputs
  <2> QED BY <1>3, <1>4, <1>6, <2>1, <2>2 DEF IInv, SameInputs
<1>10. SameOrder'
  <2> SUFFICES ASSUME role = "plain" PROVE SameOrder'
    BY DEF SameOrder
  <2>1. /\ \A n \in Waiting(rows) : rows[n].kind \in {"user", "command"}
        /\ Sorted(rows, queue) /\ Fifo(queue, promoted)
    BY DEF IInv, SameOrder
  <2>2. \A n \in Waiting(rows') : rows'[n].kind \in {"user", "command"}
    <3> SUFFICES ASSUME NEW n \in Waiting(rows') PROVE rows'[n].kind \in {"user", "command"}
      OBVIOUS
    <3>1. CASE n \in Waiting(q)
      <4>1. n \in Waiting(rows) /\ n \in DOMAIN rows
        BY <3>1, Places
      <4> QED BY <1>3, <2>1, <4>1
    <3>2. CASE n = new
      BY <1>3, <3>2
    <3> QED BY <1>3, <3>1, <3>2
  <2>3. \A a, b \in DOMAIN rows : Before(rows, a, b) => Before(rows', a, b)
    <3>1. DOMAIN rows \in SUBSET (DOMAIN rows) /\ DOMAIN rows \subseteq DOMAIN rows' /\ 0 \in Nat
      BY <1>3
    <3>2. \A n \in DOMAIN rows : /\ rows'[n].kind = rows[n].kind
                                 /\ rows'[n].priority = rows[n].priority + 0
      <4> SUFFICES ASSUME NEW n \in DOMAIN rows
                   PROVE  /\ rows'[n].kind = rows[n].kind
                          /\ rows'[n].priority = rows[n].priority + 0
        OBVIOUS
      <4>1. PICK entry \in Row : entry = rows[n]
        BY <1>1
      <4>2. entry.priority \in Nat
        BY DEF Row
      <4> QED BY <1>3, <4>1, <4>2
    <3> QED BY <1>1, <1>3, <3>1, <3>2, OrderKept
  <2>4. Sorted(rows, s) /\ Fifo(s, promoted)
    BY <1>4, <2>1
  <2>5. Sorted(rows', s)
    <3>1. \A a, b \in ToSet(s) : Before(rows, a, b) => Before(rows', a, b)
      BY <1>1, <1>4, <2>3
    <3> QED BY <2>4, <3>1, StillInOrder
  <2>6. \A a \in ToSet(s) : Before(rows', a, new) /\ ~(a > new)
    <3> SUFFICES ASSUME NEW a \in ToSet(s) PROVE Before(rows', a, new) /\ ~(a > new)
      OBVIOUS
    <3>1. a \in Waiting(q) /\ a \in DOMAIN rows
      BY <1>1, <1>4
    <3>2. rows'[a].priority < rows'[new].priority /\ a < new
      BY <1>2, <1>3, <3>1
    <3> QED BY <1>3, <3>1, <3>2 DEF Before, new
  <2>7. Sorted(rows', queue') /\ Fifo(queue', promoted)
    BY <1>4, <2>4, <2>5, <2>6, AppendInOrder
  <2> QED BY <2>2, <2>7 DEF SameOrder
<1> QED BY <1>8, <1>9, <1>10 DEF IInv, RevisionIdentifiesQueue, NextRevision

\* The user, a command or a controller adds an input at the end.
LEMMA AcceptPreservesIInv ==
  ASSUME IInv, AcceptUser \/ AcceptCommand \/ AcceptDelivery
  PROVE  IInv'
<1>1. /\ rows \in Seq(Row) /\ TakenOver \subseteq Waiting(rows) /\ TakenOver \cap unprojected = {}
  BY Places
<1>2. /\ "user" \in Kinds /\ "command" \in Kinds /\ "delivery" \in Kinds /\ hosted \in BOOLEAN
      /\ hosted => role = "hosted"
  BY DEF Kinds, IInv, TypeOK, SameInputs
<1>3. CASE AcceptUser
  <2> DEFINE q == WithState(rows, TakenOver, "deleted")
  <2>1. /\ q \in Seq(Row) /\ DOMAIN q = DOMAIN rows /\ Len(q) = Len(rows)
        /\ \A n \in DOMAIN rows : q[n].kind = rows[n].kind /\ q[n].priority = rows[n].priority
        /\ Waiting(q) = Waiting(rows) \ TakenOver
    BY <1>1, LeavingRows
  <2>2. /\ rows' = Accepted(q, "user", NextPriority(q))
        /\ queue' = Append(Minus(queue, TakenOver), Len(rows) + 1)
        /\ hosted' = FALSE /\ NextRevision
        /\ UNCHANGED <<role, executing, active, asking, unprojected, promoted>>
    BY <1>3 DEF AcceptUser
  <2>3. hosted' \in BOOLEAN /\ (hosted' => hosted)
        /\ (role = "plain" => "user" \in {"user", "command"})
    BY <2>2
  <2> HIDE DEF q
  <2> QED BY <1>1, <1>2, <2>1, <2>2, <2>3, AcceptedBehind
<1>4. ASSUME NEW kind \in Kinds, role = "plain" => kind \in {"user", "command"},
             rows' = Accepted(rows, kind, NextPriority(rows)),
             queue' = Append(queue, Len(rows) + 1), NextRevision,
             UNCHANGED <<gateVars, executing, unprojected, promoted>>
      PROVE  IInv'
  <2>1. {} \in SUBSET Waiting(rows) /\ {} \cap unprojected = {} /\ Waiting(rows) = Waiting(rows) \ {}
    OBVIOUS
  <2>2. hosted' = hosted /\ UNCHANGED <<role, executing, active, asking, unprojected, promoted>>
    BY <1>4 DEF gateVars
  <2>3. hosted' \in BOOLEAN /\ (hosted' => hosted)
    BY <1>2, <2>2
  <2>4. \A n \in DOMAIN rows : rows[n].kind = rows[n].kind /\ rows[n].priority = rows[n].priority
    OBVIOUS
  <2> QED BY <1>1, <1>4, <2>1, <2>2, <2>3, <2>4, AcceptedBehind
<1>5. CASE AcceptCommand
  <2>1. /\ rows' = Accepted(rows, "command", NextPriority(rows))
        /\ queue' = Append(queue, Len(rows) + 1) /\ NextRevision
        /\ UNCHANGED <<gateVars, executing, unprojected, promoted>>
    BY <1>5 DEF AcceptCommand
  <2> QED BY <1>2, <1>4, <2>1
<1>6. CASE AcceptDelivery
  <2>1. /\ rows' = Accepted(rows, "delivery", NextPriority(rows)) /\ role # "plain"
        /\ queue' = Append(queue, Len(rows) + 1) /\ NextRevision
        /\ UNCHANGED <<gateVars, executing, unprojected, promoted>>
    BY <1>2, <1>6 DEF AcceptDelivery
  <2> QED BY <1>2, <1>4, <2>1
<1> QED BY <1>3, <1>5, <1>6

\* An input is put before all others, which move back by one; those in gone have left.
LEMMA PutFirst ==
  ASSUME IInv, NEW gone \in SUBSET Waiting(rows), gone \cap unprojected = {},
         NEW n, n \notin ToSet(queue) \ gone, n \notin unprojected,
         rows' \in Seq(Row), DOMAIN rows \subseteq DOMAIN rows', n \in DOMAIN rows',
         Waiting(rows') = (Waiting(rows) \ gone) \cup {n},
         \A m \in DOMAIN rows : rows'[m].kind = rows[m].kind,
         rows'[n].kind \in {"user", "command"}, rows'[n].priority = 0,
         role = "plain" => \A m \in Waiting(rows) \ (gone \cup {n}) :
                             rows'[m].priority = rows[m].priority + 1,
         queue' = <<n>> \o Minus(queue, gone),
         hosted' \in BOOLEAN, hosted' => hosted, asking' \in BOOLEAN,
         UNCHANGED <<role, executing, active, unprojected>>, NextRevision,
         promoted' = promoted \cup {n}
  PROVE  IInv'
<1>1. /\ rows \in Seq(Row) /\ queue \in Seq(DOMAIN rows) /\ IsInjective(queue)
      /\ ToSet(queue) \subseteq Waiting(rows) /\ Waiting(rows) \subseteq DOMAIN rows
  BY Places
<1> DEFINE s == Minus(queue, gone)
<1>2. /\ s \in Seq(DOMAIN rows) /\ IsInjective(s) /\ ToSet(s) = ToSet(queue) \ gone
      /\ Follows(s, queue)
  BY <1>1, Retained
<1>3. queue' = <<n>> \o s
  OBVIOUS
<1> HIDE DEF s
<1>4. /\ queue' \in Seq(DOMAIN rows \cup {n}) /\ IsInjective(queue')
      /\ ToSet(queue') = ToSet(s) \cup {n}
  <2>1. n \notin ToSet(s)
    BY <1>2
  <2>2. /\ <<n>> \o s \in Seq(DOMAIN rows \cup {n}) /\ IsInjective(<<n>> \o s)
        /\ ToSet(<<n>> \o s) = ToSet(s) \cup {n}
    BY <1>2, <2>1, PutInFront
  <2> QED BY <1>3, <2>2
<1>5. queue' \in Seq(DOMAIN rows')
  <2>1. DOMAIN rows \cup {n} \subseteq DOMAIN rows'
    OBVIOUS
  <2> QED BY <1>4, <2>1, SeqMonotonic
<1>6. TypeOK'
  <2>1. current' = {} /\ Cardinality({}) = 0
    BY FS_EmptySet DEF NextRevision
  <2> QED BY <1>4, <1>5, <2>1 DEF IInv, TypeOK
<1>7. SameInputs'
  <2>1. \A m \in unprojected : rows'[m].kind = "report"
    BY Places DEF IInv, SameInputs
  <2> QED BY <1>2, <1>4, <2>1 DEF IInv, SameInputs
<1>8. SameOrder'
  <2> SUFFICES ASSUME role = "plain" PROVE SameOrder'
    BY DEF SameOrder
  <2>1. /\ \A m \in Waiting(rows) : rows[m].kind \in {"user", "command"}
        /\ Sorted(rows, queue) /\ Fifo(queue, promoted)
    BY DEF IInv, SameOrder
  <2>2. \A m \in Waiting(rows') : rows'[m].kind \in {"user", "command"}
    BY <1>1, <2>1
  <2>3. Sorted(rows, s) /\ Fifo(s, promoted)
    BY <1>2, <2>1, FollowsInOrder
  <2>4. ToSet(s) \in SUBSET (DOMAIN rows) /\ ToSet(s) \subseteq DOMAIN rows'
        /\ \A m \in ToSet(s) : /\ rows'[m].kind = rows[m].kind
                               /\ rows'[m].priority = rows[m].priority + 1
    BY <1>1, <1>2
  <2>5. Sorted(rows', s) /\ Fifo(s, promoted')
    <3>1. \A a, b \in ToSet(s) : Before(rows, a, b) => Before(rows', a, b)
      <4>1. 1 \in Nat
        OBVIOUS
      <4> QED BY <1>1, <2>4, <4>1, OrderKept
    <3>2. promoted \subseteq promoted'
      OBVIOUS
    <3> QED BY <2>3, <3>1, <3>2, StillInOrder
  <2>6. \A a \in ToSet(s) : Before(rows', n, a)
    <3> SUFFICES ASSUME NEW a \in ToSet(s) PROVE Before(rows', n, a)
      OBVIOUS
    <3>1. PICK entry \in Row : entry = rows[a]
      BY <1>1, <2>4
    <3>2. entry.priority \in Nat
      BY DEF Row
    <3>3. rows'[n].priority < rows'[a].priority
      BY <2>4, <3>1, <3>2
    <3> QED BY <3>3 DEF Before
  <2>7. Sorted(rows', queue') /\ Fifo(queue', promoted')
    <3>1. n \in promoted'
      OBVIOUS
    <3>2. Sorted(rows', <<n>> \o s) /\ Fifo(<<n>> \o s, promoted')
      BY <1>2, <2>5, <2>6, <3>1, FrontInOrder
    <3> QED BY <1>3, <3>2
  <2> QED BY <2>2, <2>7 DEF SameOrder
<1> QED BY <1>6, <1>7, <1>8 DEF IInv, RevisionIdentifiesQueue, NextRevision

LEMMA AnswerPreservesIInv ==
  ASSUME IInv, AcceptAnswer
  PROVE  IInv'
<1> DEFINE new  == Len(rows) + 1
           kept == WithState(rows, TakenOver, "deleted")
           q    == Shifted(kept, Waiting(kept))
<1>1. /\ rows \in Seq(Row) /\ Len(rows) \in Nat /\ DOMAIN rows = 1..Len(rows)
      /\ TakenOver \in SUBSET Waiting(rows) /\ TakenOver \cap unprojected = {}
      /\ ToSet(queue) \subseteq DOMAIN rows /\ unprojected \subseteq DOMAIN rows
      /\ Waiting(rows) \subseteq DOMAIN rows
  BY Places
<1>2. /\ kept \in Seq(Row) /\ DOMAIN kept = DOMAIN rows /\ Len(kept) = Len(rows)
      /\ \A m \in DOMAIN rows :
           kept[m].kind = rows[m].kind /\ kept[m].priority = rows[m].priority
      /\ Waiting(kept) = Waiting(rows) \ TakenOver
  BY <1>1, LeavingRows
<1>3. /\ rows' = Accepted(q, "user", 0) /\ queue' = <<new>> \o Minus(queue, TakenOver)
      /\ hosted' = FALSE /\ asking' = FALSE /\ NextRevision
      /\ promoted' = promoted \cup {new}
      /\ UNCHANGED <<role, executing, active, unprojected>>
  BY DEF AcceptAnswer
<1> HIDE DEF kept
<1>4. /\ q \in Seq(Row) /\ DOMAIN q = DOMAIN rows /\ Len(q) = Len(rows)
      /\ \A m \in DOMAIN rows :
           /\ q[m].kind = rows[m].kind
           /\ m \in Waiting(kept) => q[m].priority = rows[m].priority + 1
      /\ Waiting(q) = Waiting(rows) \ TakenOver
  BY <1>2, ShiftedRows
<1> HIDE DEF q
<1>5. /\ rows' \in Seq(Row) /\ new \in DOMAIN rows' /\ new \notin DOMAIN rows
      /\ DOMAIN rows \subseteq DOMAIN rows'
      /\ \A m \in DOMAIN rows : rows'[m] = q[m]
      /\ rows'[new] = [kind |-> "user", state |-> "queued", priority |-> 0]
      /\ Waiting(rows') = Waiting(q) \cup {new}
  <2>1. "user" \in Kinds /\ 0 \in Nat
    BY DEF Kinds
  <2> QED BY <1>1, <1>3, <1>4, <2>1, AcceptedRows
<1> HIDE DEF new
<1>6. /\ new \notin ToSet(queue) \ TakenOver /\ new \notin unprojected
      /\ Waiting(rows') = (Waiting(rows) \ TakenOver) \cup {new}
      /\ \A m \in DOMAIN rows : rows'[m].kind = rows[m].kind
      /\ rows'[new].kind \in {"user", "command"} /\ rows'[new].priority = 0
      /\ \A m \in Waiting(rows) \ (TakenOver \cup {new}) :
           rows'[m].priority = rows[m].priority + 1
  BY <1>1, <1>2, <1>4, <1>5
<1>7. hosted' \in BOOLEAN /\ (hosted' => hosted) /\ asking' \in BOOLEAN
  BY <1>3
<1> QED BY <1>1, <1>3, <1>5, <1>6, <1>7, PutFirst

LEMMA PrioritizePreservesIInv ==
  ASSUME IInv, NEW n \in DOMAIN rows, Prioritize(n)
  PROVE  IInv'
<1> DEFINE q == Shifted(rows, Promotable(rows))
<1>1. /\ rows \in Seq(Row) /\ Len(rows) \in Nat /\ DOMAIN rows = 1..Len(rows)
      /\ Waiting(rows) \subseteq DOMAIN rows
      /\ ToSet(queue) \cap unprojected = {}
  BY Places DEF IInv, SameInputs
<1>2. /\ n \in Promotable(rows) /\ n \in ToSet(queue) /\ n \in Waiting(rows)
      /\ rows[n].kind \in {"user", "command"}
      /\ rows' = [q EXCEPT ![n].priority = 0]
      /\ queue' = <<n>> \o Minus(queue, {n}) /\ NextRevision
      /\ promoted' = promoted \cup {n}
      /\ UNCHANGED <<role, hosted, active, asking, executing, unprojected>>
  BY DEF Prioritize, Movable, Promotable, gateVars
<1>3. /\ q \in Seq(Row) /\ DOMAIN q = DOMAIN rows /\ Len(q) = Len(rows)
      /\ \A m \in DOMAIN rows :
           /\ q[m].kind = rows[m].kind /\ q[m].state = rows[m].state
           /\ m \in Promotable(rows) => q[m].priority = rows[m].priority + 1
  BY <1>1, ShiftedRows
<1> HIDE DEF q
<1>4. PICK entry \in Row : entry = q[n]
  BY <1>3
<1>5. /\ rows' \in Seq(Row) /\ DOMAIN rows' = DOMAIN rows
      /\ \A m \in DOMAIN rows : m # n => rows'[m] = q[m]
      /\ rows'[n] = [entry EXCEPT !.priority = 0]
  <2>1. [entry EXCEPT !.priority = 0] \in Row /\ rows' = [q EXCEPT ![n] = [entry EXCEPT !.priority = 0]]
    BY <1>2, <1>4 DEF Row
  <2> QED BY <1>3, <2>1, ExceptSeq
<1>6. /\ \A m \in DOMAIN rows : rows'[m].kind = rows[m].kind /\ rows'[m].state = rows[m].state
      /\ rows'[n].priority = 0
  <2>1. rows'[n].kind = entry.kind /\ rows'[n].state = entry.state /\ rows'[n].priority = 0
    BY <1>5 DEF Row
  <2> QED BY <1>3, <1>4, <1>5, <2>1
<1>7. Waiting(rows') = Waiting(rows)
  BY <1>5, <1>6 DEF Waiting
<1>8. role = "plain" => \A m \in Waiting(rows) \ ({n} \cup {n}) :
                          rows'[m].priority = rows[m].priority + 1
  <2>1. role = "plain" => Waiting(rows) = Promotable(rows)
    BY DEF IInv, SameOrder, Promotable
  <2> QED BY <1>1, <1>3, <1>5, <2>1
<1>9. /\ {n} \in SUBSET Waiting(rows) /\ {n} \cap unprojected = {}
      /\ n \notin ToSet(queue) \ {n} /\ n \notin unprojected
      /\ Waiting(rows') = (Waiting(rows) \ {n}) \cup {n}
      /\ rows'[n].kind \in {"user", "command"} /\ n \in DOMAIN rows'
      /\ DOMAIN rows \subseteq DOMAIN rows'
  BY <1>1, <1>2, <1>5, <1>6, <1>7
<1>10. hosted' \in BOOLEAN /\ (hosted' => hosted) /\ asking' \in BOOLEAN
  BY <1>2 DEF IInv, TypeOK
<1> QED BY <1>2, <1>5, <1>6, <1>8, <1>9, <1>10, PutFirst

\* Inputs leave the queue and the store's waiting rows together.
LEMMA LeavingPreservesIInv ==
  ASSUME IInv, NEW S \in SUBSET ToSet(queue), NEW state \in {"committed", "deleted"},
         rows' = WithState(rows, S, state),
         queue' \in Seq(DOMAIN rows), IsInjective(queue'), ToSet(queue') = ToSet(queue) \ S,
         \A r, p : Sorted(r, queue) /\ Fifo(queue, p) => Sorted(r, queue') /\ Fifo(queue', p),
         executing' \subseteq executing, Cardinality(executing') <= 1,
         active' \in BOOLEAN, NextRevision, UNCHANGED <<role, hosted, asking, unprojected, promoted>>
  PROVE  IInv'
<1>1. /\ rows \in Seq(Row) /\ ToSet(queue) \subseteq DOMAIN rows
      /\ ToSet(queue) \cap unprojected = {} /\ unprojected \subseteq Waiting(rows)
      /\ Waiting(rows) \subseteq DOMAIN rows
  BY Places DEF IInv, SameInputs
<1>2. /\ rows' \in Seq(Row) /\ DOMAIN rows' = DOMAIN rows
      /\ \A n \in DOMAIN rows :
           rows'[n].kind = rows[n].kind /\ rows'[n].priority = rows[n].priority
      /\ Waiting(rows') = Waiting(rows) \ S
  BY <1>1, LeavingRows
<1>3. TypeOK'
  <2>1. current' = {} /\ Cardinality({}) = 0
    BY FS_EmptySet DEF NextRevision
  <2> QED BY <1>2, <2>1 DEF IInv, TypeOK
<1>4. SameInputs'
  BY <1>1, <1>2 DEF IInv, SameInputs
<1>5. SameOrder'
  <2> SUFFICES ASSUME role = "plain" PROVE SameOrder'
    BY DEF SameOrder
  <2>1. /\ \A n \in Waiting(rows) : rows[n].kind \in {"user", "command"}
        /\ Sorted(rows, queue') /\ Fifo(queue', promoted)
    BY DEF IInv, SameOrder
  <2>2. \A n \in Waiting(rows') : rows'[n].kind \in {"user", "command"}
    BY <1>1, <1>2, <2>1
  <2>3. Sorted(rows', queue')
    <3>1. \A a, b \in ToSet(queue') : Before(rows, a, b) => Before(rows', a, b)
      BY <1>1, <1>2 DEF Before
    <3> QED BY <2>1, <3>1, StillInOrder
  <2> QED BY <2>1, <2>2, <2>3 DEF SameOrder
<1> QED BY <1>3, <1>4, <1>5 DEF IInv, RevisionIdentifiesQueue, NextRevision

\* Cancelling, the end of a command and the start of a run take an input out.
LEMMA DepartPreservesIInv ==
  ASSUME IInv, (\E n \in DOMAIN rows : CancelInput(n)) \/ FinishCommand \/ StartRun
  PROVE  IInv'
<1>1. /\ queue \in Seq(DOMAIN rows) /\ IsInjective(queue)
      /\ executing \subseteq executing /\ Cardinality(executing) <= 1 /\ active \in BOOLEAN
      /\ ToSet(queue) \subseteq DOMAIN rows /\ rows \in Seq(Row)
      /\ Waiting(rows) = ToSet(queue) \cup unprojected
      /\ \A n \in unprojected : rows[n].kind = "report"
  BY Places DEF IInv, TypeOK, SameInputs
<1>2. ASSUME NEW n \in DOMAIN rows, CancelInput(n) PROVE IInv'
  <2>1. /\ n \in Waiting(rows) /\ rows[n].kind = "user"
        /\ rows' = WithState(rows, {n}, "deleted") /\ queue' = Minus(queue, {n}) /\ NextRevision
        /\ UNCHANGED <<role, hosted, active, asking, executing, unprojected, promoted>>
    BY <1>2 DEF CancelInput, gateVars
  <2>2. {n} \in SUBSET ToSet(queue)
    BY <1>1, <2>1
  <2>3. /\ queue' \in Seq(DOMAIN rows) /\ IsInjective(queue') /\ ToSet(queue') = ToSet(queue) \ {n}
        /\ Follows(queue', queue)
    BY <1>1, <2>1, Retained
  <2>4. \A r, p : Sorted(r, queue) /\ Fifo(queue, p) => Sorted(r, queue') /\ Fifo(queue', p)
    BY <2>3, FollowsInOrder
  <2>5. active' \in BOOLEAN /\ executing' \subseteq executing /\ Cardinality(executing') <= 1
    BY <1>1, <2>1
  <2> QED BY <2>1, <2>2, <2>3, <2>4, <2>5, LeavingPreservesIInv
<1>3. ASSUME queue # <<>>, rows' = WithState(rows, {Head(queue)}, "committed"),
             queue' = Tail(queue), executing' \subseteq executing, Cardinality(executing') <= 1,
             active' \in BOOLEAN, NextRevision,
             UNCHANGED <<role, hosted, asking, unprojected, promoted>>
      PROVE  IInv'
  <2>1. /\ queue' \in Seq(DOMAIN rows) /\ IsInjective(queue')
        /\ ToSet(queue') = ToSet(queue) \ {Head(queue)}
        /\ Head(queue) = queue[1] /\ 1 \in DOMAIN queue
    BY <1>1, <1>3, TailOf
  <2>2. {Head(queue)} \in SUBSET ToSet(queue)
    BY <2>1 DEF ToSet
  <2>3. \A r, p : Sorted(r, queue) /\ Fifo(queue, p) => Sorted(r, queue') /\ Fifo(queue', p)
    BY <1>1, <1>3, TailInOrder
  <2> QED BY <1>3, <2>1, <2>2, <2>3, LeavingPreservesIInv
<1>4. CASE FinishCommand
  <2>1. executing' = {} /\ Cardinality({}) = 0
    BY <1>4, FS_EmptySet DEF FinishCommand
  <2>2. /\ queue # <<>> /\ rows' = WithState(rows, {Head(queue)}, "committed")
        /\ queue' = Tail(queue) /\ NextRevision
        /\ UNCHANGED <<role, hosted, active, asking, unprojected, promoted>>
    BY <1>4 DEF FinishCommand, gateVars
  <2>3. executing' \subseteq executing /\ Cardinality(executing') <= 1 /\ active' \in BOOLEAN
    BY <1>1, <2>1, <2>2
  <2> QED BY <1>3, <2>2, <2>3
<1>5. CASE StartRun
  <2>1. /\ queue # <<>> /\ rows' = WithState(rows, {Head(queue)}, "committed")
        /\ queue' = Tail(queue) /\ NextRevision /\ active' = TRUE
        /\ UNCHANGED <<role, hosted, asking, executing, unprojected, promoted>>
    BY <1>5 DEF StartRun, Takeable
  <2> QED BY <1>1, <1>3, <2>1
<1> QED BY <1>2, <1>4, <1>5

\* A report reaches the controller's row, then its memory.
LEMMA ReportPreservesIInv ==
  ASSUME IInv, StoreReport \/ \E n \in unprojected : ProjectReport(n)
  PROVE  IInv'
<1>1. /\ rows \in Seq(Row) /\ Len(rows) \in Nat /\ DOMAIN rows = 1..Len(rows)
      /\ queue \in Seq(DOMAIN rows) /\ IsInjective(queue)
      /\ ToSet(queue) \subseteq DOMAIN rows /\ unprojected \subseteq DOMAIN rows
      /\ Waiting(rows) = ToSet(queue) \cup unprojected /\ ToSet(queue) \cap unprojected = {}
      /\ \A n \in unprojected : rows[n].kind = "report"
  BY Places DEF IInv, SameInputs
<1>2. CASE StoreReport
  <2> DEFINE new == Len(rows) + 1
  <2>1. /\ role = "controller" /\ rows' = Accepted(rows, "report", NextPriority(rows))
        /\ unprojected' = unprojected \cup {new}
        /\ UNCHANGED <<role, hosted, active, asking, queue, executing, current, promoted>>
    BY <1>2 DEF StoreReport, gateVars
  <2>2. NextPriority(rows) \in Nat /\ "report" \in Kinds
    BY <1>1, NextPriorityIsBehind DEF Kinds
  <2>3. /\ rows' \in Seq(Row) /\ new \in DOMAIN rows' /\ new \notin DOMAIN rows
        /\ DOMAIN rows \subseteq DOMAIN rows'
        /\ \A n \in DOMAIN rows : rows'[n] = rows[n]
        /\ rows'[new] = [kind |-> "report", state |-> "queued", priority |-> NextPriority(rows)]
        /\ Waiting(rows') = Waiting(rows) \cup {new}
    BY <1>1, <2>1, <2>2, AcceptedRows
  <2> HIDE DEF new
  <2>4. queue' \in Seq(DOMAIN rows')
    BY <1>1, <2>1, <2>3, SeqMonotonic
  <2>5. TypeOK'
    BY <1>1, <2>1, <2>3, <2>4 DEF IInv, TypeOK
  <2>6. SameInputs' /\ SameOrder' /\ RevisionIdentifiesQueue'
    BY <1>1, <2>1, <2>3 DEF IInv, SameInputs, SameOrder, RevisionIdentifiesQueue, Snapshot
  <2> QED BY <2>5, <2>6 DEF IInv
<1>3. ASSUME NEW n \in unprojected, ProjectReport(n) PROVE IInv'
  <2>1. /\ unprojected' = unprojected \ {n} /\ queue' = Append(queue, n) /\ NextRevision
        /\ UNCHANGED <<role, hosted, active, asking, rows, executing, promoted>>
    BY <1>3 DEF ProjectReport, gateVars
  <2>2. n \in DOMAIN rows /\ n \notin ToSet(queue)
    BY <1>1
  <2>3. /\ queue' \in Seq(DOMAIN rows) /\ IsInjective(queue') /\ ToSet(queue') = ToSet(queue) \cup {n}
    <3>1. Append(queue, n) \in Seq(DOMAIN rows)
      BY <1>1, <2>2
    <3> QED BY <1>1, <2>1, <2>2, <3>1, AppendedAt
  <2>4. current' = {} /\ Cardinality({}) = 0
    BY <2>1, FS_EmptySet DEF NextRevision
  <2>5. TypeOK'
    BY <2>1, <2>3, <2>4 DEF IInv, TypeOK
  <2>6. SameInputs'
    BY <1>1, <2>1, <2>3 DEF IInv, SameInputs
  <2>7. SameOrder'
    BY <2>1 DEF IInv, SameInputs, SameOrder
  <2> QED BY <2>4, <2>5, <2>6, <2>7 DEF IInv, RevisionIdentifiesQueue
<1> QED BY <1>2, <1>3

\* The queue that a new process finds in the store is the one the old one had.
LEMMA RestartPreservesIInv ==
  ASSUME IInv, NEW claimed \in SUBSET ToSet(queue), Restart(claimed)
  PROVE  IInv'
<1>1. /\ rows \in Seq(Row) /\ Len(rows) \in Nat /\ DOMAIN rows = 1..Len(rows)
      /\ Waiting(rows) \subseteq DOMAIN rows /\ IsInjective(queue)
      /\ Waiting(rows) = ToSet(queue) \cup unprojected
  BY Places DEF IInv, SameInputs
<1>2. /\ rows' = WithState(rows, claimed, "committed") /\ queue' \in Recovered(rows')
      /\ executing' = {} /\ active' = FALSE /\ unprojected' = {} /\ current' = {}
      /\ UNCHANGED <<role, hosted, asking, promoted>>
  BY DEF Restart
<1>3. /\ rows' \in Seq(Row) /\ DOMAIN rows' = DOMAIN rows
      /\ \A n \in DOMAIN rows :
           rows'[n].kind = rows[n].kind /\ rows'[n].priority = rows[n].priority
      /\ Waiting(rows') = Waiting(rows) \ claimed
  BY <1>1, <1>2, LeavingRows
<1>4. IsFiniteSet(Waiting(rows'))
  <2>1. IsFiniteSet(1..Len(rows)) /\ Waiting(rows') \subseteq 1..Len(rows)
    BY <1>1, <1>3, FS_Interval
  <2> QED BY <2>1, FS_Subset
<1>5. queue' \in SetToSeqs(Waiting(rows')) /\ Sorted(rows', queue')
  BY <1>2 DEF Recovered
<1>6. queue' \in Seq(Waiting(rows')) /\ IsInjective(queue') /\ ToSet(queue') = Waiting(rows')
  BY <1>4, <1>5, Enumerated
<1>7. queue' \in Seq(DOMAIN rows')
  BY <1>1, <1>3, <1>6, SeqMonotonic
<1>8. TypeOK'
  <2>1. Cardinality({}) = 0
    BY FS_EmptySet
  <2>2. executing' \subseteq DOMAIN rows' /\ Cardinality(executing') <= 1 /\ Cardinality(current') <= 1
    BY <1>2, <2>1
  <2>3. unprojected' \subseteq DOMAIN rows' /\ promoted' \subseteq DOMAIN rows'
    BY <1>2, <1>3 DEF IInv, TypeOK
  <2>4. role' \in Roles /\ hosted' \in BOOLEAN /\ active' \in BOOLEAN /\ asking' \in BOOLEAN
    BY <1>2 DEF IInv, TypeOK
  <2> QED BY <1>3, <1>6, <1>7, <2>2, <2>3, <2>4 DEF TypeOK
<1>9. SameInputs'
  BY <1>2, <1>6 DEF IInv, SameInputs
<1>10. SameOrder'
  <2> SUFFICES ASSUME role = "plain" PROVE SameOrder'
    BY <1>2 DEF SameOrder
  <2>1. /\ \A n \in Waiting(rows) : rows[n].kind \in {"user", "command"}
        /\ Sorted(rows, queue) /\ Fifo(queue, promoted) /\ unprojected = {}
    BY DEF IInv, SameInputs, SameOrder
  <2>2. \A n \in Waiting(rows') : rows'[n].kind \in {"user", "command"}
    BY <1>1, <1>3, <2>1
  <2>3. Fifo(queue', promoted)
    <3> SUFFICES ASSUME NEW j \in DOMAIN queue', NEW k \in DOMAIN queue', j < k,
                        queue'[j] > queue'[k]
                 PROVE  queue'[j] \in promoted
      BY DEF Fifo
    <3> DEFINE a == queue'[j]
               b == queue'[k]
    <3>1. /\ a \in ToSet(queue') /\ b \in ToSet(queue') /\ a # b
          /\ Before(rows', a, b)
      <4>1. j \in Int /\ k \in Int
        BY <1>6
      <4> QED BY <1>5, <1>6, <4>1 DEF ToSet, IsInjective, Sorted
    <3>2. a \in ToSet(queue) /\ b \in ToSet(queue) /\ a \in DOMAIN rows /\ b \in DOMAIN rows
      BY <1>1, <1>3, <1>6, <2>1, <3>1
    <3> HIDE DEF a, b
    <3>3. PICK m \in DOMAIN queue, n \in DOMAIN queue : queue[m] = a /\ queue[n] = b
      BY <3>2 DEF ToSet
    <3>4. ~Before(rows, b, a)
      <4>1. PICK x \in Row, y \in Row : x = rows[a] /\ y = rows[b]
        BY <1>1, <3>2
      <4>2. x.priority \in Nat /\ y.priority \in Nat /\ a \in Nat /\ b \in Nat
        BY <1>1, <3>2 DEF Row
      <4>3. Before(rows, a, b)
        BY <1>3, <3>1, <3>2 DEF Before
      <4> QED BY <3>1, <4>1, <4>2, <4>3 DEF Before
    <3>5. m < n
      <4>1. ~(n < m)
        BY <2>1, <3>3, <3>4 DEF Sorted
      <4>2. m \in Int /\ n \in Int /\ m # n
        BY <3>1, <3>3, Places
      <4> QED BY <4>1, <4>2
    <3> QED BY <2>1, <3>3, <3>5 DEF Fifo, a, b
  <2> QED BY <1>2, <1>5, <2>2, <2>3 DEF SameOrder
<1> QED BY <1>2, <1>8, <1>9, <1>10 DEF IInv, RevisionIdentifiesQueue

\* What the rows, the queue and the reports under way do not notice.
LEMMA OtherStepsPreserveIInv ==
  ASSUME IInv,
         \/ SetProxy \/ ReadQueue \/ TouchQueue \/ BeginCommand
         \/ \E asks \in BOOLEAN : EndRun(asks)
         \/ UNCHANGED vars
  PROVE  IInv'
<1>1. /\ UNCHANGED <<role, rows, queue, unprojected, promoted>>
      /\ hosted' \in BOOLEAN /\ active' \in BOOLEAN /\ asking' \in BOOLEAN
      /\ hosted' => role = "hosted"
  <2>1. hosted \in BOOLEAN /\ active \in BOOLEAN /\ asking \in BOOLEAN /\ (hosted => role = "hosted")
    BY DEF IInv, TypeOK, SameInputs
  <2>2. CASE SetProxy
    BY <2>1, <2>2 DEF SetProxy
  <2>3. CASE \E asks \in BOOLEAN : EndRun(asks)
    <3>1. PICK asks \in BOOLEAN : EndRun(asks)
      BY <2>3
    <3>2. /\ asks \in BOOLEAN /\ active' = FALSE /\ asking' = asks
          /\ UNCHANGED <<role, hosted, rows, queue, unprojected, promoted>>
      BY <3>1 DEF EndRun
    <3> QED BY <2>1, <3>2
  <2>4. CASE ReadQueue \/ TouchQueue \/ BeginCommand \/ UNCHANGED vars
    BY <2>1, <2>4 DEF ReadQueue, TouchQueue, BeginCommand, vars, gateVars
  <2> QED BY <2>2, <2>3, <2>4
<1>2. /\ executing' \subseteq DOMAIN rows /\ Cardinality(executing') <= 1
      /\ UNCHANGED executing \/ current' = {}
  <2>1. CASE BeginCommand
    <3>1. executing' = {Head(queue)} /\ current' = {} /\ queue # <<>>
      BY <2>1 DEF BeginCommand, Takeable, NextRevision
    <3>2. Head(queue) \in DOMAIN rows
      BY <3>1, Places
    <3>3. Cardinality({Head(queue)}) = 1
      BY FS_Singleton
    <3> QED BY <3>1, <3>2, <3>3
  <2>2. CASE ~BeginCommand
    <3>1. UNCHANGED executing
      BY <2>2 DEF SetProxy, ReadQueue, TouchQueue, EndRun, vars, gateVars
    <3> QED BY <3>1 DEF IInv, TypeOK
  <2> QED BY <2>1, <2>2
<1>3. RevisionIdentifiesQueue'
  <2>1. CASE current' = {}
    BY <2>1 DEF RevisionIdentifiesQueue
  <2>2. CASE current' # {}
    <3>1. current' \subseteq current \cup {Snapshot} /\ UNCHANGED executing
      BY <1>2, <2>2 DEF SetProxy, ReadQueue, TouchQueue, BeginCommand, EndRun, vars, NextRevision
    <3>2. Snapshot' = Snapshot
      BY <1>1, <3>1 DEF Snapshot
    <3> QED BY <3>1, <3>2 DEF IInv, RevisionIdentifiesQueue
  <2> QED BY <2>1, <2>2
<1>4. Cardinality(current') <= 1
  <2>1. current' = {} \/ current' = {Snapshot'}
    BY <1>3 DEF RevisionIdentifiesQueue
  <2>2. Cardinality({}) = 0 /\ Cardinality({Snapshot'}) = 1
    BY FS_EmptySet, FS_Singleton
  <2> QED BY <2>1, <2>2
<1>5. TypeOK'
  BY <1>1, <1>2, <1>4 DEF IInv, TypeOK
<1>6. SameInputs' /\ SameOrder'
  BY <1>1 DEF IInv, SameInputs, SameOrder
<1> QED BY <1>3, <1>5, <1>6 DEF IInv

LEMMA InitIInv == Init => IInv
<1> SUFFICES ASSUME Init PROVE IInv
  OBVIOUS
<1>1. /\ rows = <<>> /\ queue = <<>> /\ unprojected = {} /\ promoted = {} /\ executing = {}
      /\ current = {} /\ hosted = FALSE /\ active = FALSE /\ asking = FALSE /\ role \in Roles
  BY DEF Init
<1>2. /\ <<>> \in Seq(Row) /\ DOMAIN <<>> = {} /\ <<>> \in Seq({}) /\ ToSet(<<>>) = {}
      /\ IsInjective(<<>>) /\ Cardinality({}) = 0
  BY FS_EmptySet DEF ToSet, IsInjective
<1>3. Waiting(rows) = {}
  BY <1>1, <1>2 DEF Waiting
<1>4. TypeOK
  <2>1. /\ rows \in Seq(Row) /\ queue \in Seq(DOMAIN rows) /\ IsInjective(queue)
        /\ executing \subseteq DOMAIN rows /\ Cardinality(executing) <= 1
        /\ unprojected \subseteq DOMAIN rows /\ promoted \subseteq DOMAIN rows
        /\ Cardinality(current) <= 1
    BY <1>1, <1>2
  <2>2. role \in Roles /\ hosted \in BOOLEAN /\ active \in BOOLEAN /\ asking \in BOOLEAN
    BY <1>1
  <2> QED BY <2>1, <2>2 DEF TypeOK
<1>5. SameInputs /\ RevisionIdentifiesQueue
  BY <1>1, <1>2, <1>3 DEF SameInputs, RevisionIdentifiesQueue
<1>6. SameOrder
  BY <1>1, <1>2, <1>3 DEF SameOrder, Sorted, Fifo
<1> QED BY <1>4, <1>5, <1>6 DEF IInv

LEMMA NextIInv == IInv /\ [Next]_vars => IInv'
<1> SUFFICES ASSUME IInv, [Next]_vars PROVE IInv'
  OBVIOUS
<1> QED BY AcceptPreservesIInv, AnswerPreservesIInv, PrioritizePreservesIInv, DepartPreservesIInv,
        ReportPreservesIInv, RestartPreservesIInv, OtherStepsPreserveIInv DEF Next

\* IInv holds in every state of every session.
THEOREM IInvInvariant == Spec => []IInv
BY InitIInv, NextIInv, PTL DEF Spec

-----------------------------------------------------------------------------
(* The safety properties *)

\* No input is lost, doubled or revived between memory and the store, whatever is accepted,
\* promoted, taken over, cancelled or consumed, and whenever the process restarts.
THEOREM RestartsKeepTheQueue == Spec => []QueueIsRecoverable
<1>1. IInv => QueueIsRecoverable
  BY DEF IInv, SameInputs, SameOrder, QueueIsRecoverable
<1> QED BY <1>1, IInvInvariant, PTL

\* In a plain session only a promoted input overtakes one that was accepted before it.
THEOREM ServedInOrder == Spec => []FifoUnlessPromoted
<1>1. IInv => FifoUnlessPromoted
  BY DEF IInv, SameOrder, Fifo, FifoUnlessPromoted
<1> QED BY <1>1, IInvInvariant, PTL

\* A client whose revision is accepted acts on the queue it saw.
THEOREM RevisionsIdentify == Spec => []RevisionIdentifiesQueue
<1>1. IInv => RevisionIdentifiesQueue
  BY DEF IInv
<1> QED BY <1>1, IInvInvariant, PTL
-----------------------------------------------------------------------------
(* ---- files ---------------------------------------------------------------*)
\* The recursion in Messages, over the first m frames.
CountStep(f, s, m) == [i \in 0..m |-> IF i = 0 THEN 0 ELSE f[i - 1] + s[i].messages]

\* It has a solution.
LEMMA CountExists ==
  ASSUME NEW s, Len(s) \in Nat
  PROVE  \E f : f = CountStep(f, s, Len(s))
<1> DEFINE Step(f, m) == CountStep(f, s, m)
           T == {m \in Nat : \E f : f = Step(f, m)}
<1> USE DEF CountStep
<1>1. 0 \in T
  <2> DEFINE f == [i \in 0..0 |-> 0]
  <2>1. \A i \in 0..0 : i = 0
    OBVIOUS
  <2>2. f = Step(f, 0)
    BY <2>1
  <2> QED BY <2>2
<1>2. ASSUME NEW m \in T PROVE m + 1 \in T
  <2>1. PICK f : f = Step(f, m)
    OBVIOUS
  <2> DEFINE g == Step(f, m + 1)
  <2>2. \A i \in 0..m : g[i] = f[i]
    <3> SUFFICES ASSUME NEW i \in 0..m PROVE g[i] = f[i]
      OBVIOUS
    <3>1. f[i] = IF i = 0 THEN 0 ELSE f[i - 1] + s[i].messages
      BY <2>1
    <3>2. i \in 0..(m + 1)
      OBVIOUS
    <3> QED BY <3>1, <3>2
  <2>3. \A i \in 0..(m + 1) : i # 0 => i - 1 \in 0..m
    OBVIOUS
  <2>4. g = Step(g, m + 1)
    <3>1. \A i \in 0..(m + 1) : g[i] = IF i = 0 THEN 0 ELSE g[i - 1] + s[i].messages
      BY <2>2, <2>3
    <3>2. g = [i \in 0..(m + 1) |-> g[i]]
      OBVIOUS
    <3> HIDE DEF g
    <3> QED BY <3>1, <3>2
  <2> HIDE DEF g, CountStep
  <2>5. \E h : h = Step(h, m + 1)
    BY <2>4
  <2> QED BY <2>5
<1>3. T \in SUBSET Nat
  OBVIOUS
<1> HIDE DEF T, CountStep
<1>4. \A z \in Nat : z \in T
  BY <1>1, <1>2, <1>3, EveryNat
<1>5. Len(s) \in T
  BY <1>4
<1> QED BY <1>5 DEF T

\* What it computes for every prefix.
Counts(sum, s) ==
  /\ sum[0] = 0
  /\ \A i \in 0..(Len(s) - 1) : sum[i + 1] = sum[i] + s[i + 1].messages
  /\ Messages(s) = sum[Len(s)]

\* Some function counts the messages, frame by frame.
LEMMA MessagesOf ==
  ASSUME NEW T, NEW s \in Seq(T)
  PROVE  \E sum : Counts(sum, s)
<1>1. Len(s) \in Nat
  OBVIOUS
<1> DEFINE Solves(f) == f = CountStep(f, s, Len(s))
           sum == CHOOSE f : Solves(f)
<1>2. Solves(sum)
  <2>1. \E f : Solves(f)
    BY <1>1, CountExists
  <2> HIDE DEF Solves
  <2> QED BY <2>1
<1>3. Messages(s) = sum[Len(s)]
  BY DEF Messages, CountStep
<1>4. sum[0] = 0 /\ \A i \in 0..(Len(s) - 1) : sum[i + 1] = sum[i] + s[i + 1].messages
  <2>1. \A i \in 0..Len(s) : sum[i] = IF i = 0 THEN 0 ELSE sum[i - 1] + s[i].messages
    BY <1>2 DEF CountStep
  <2> HIDE DEF sum
  <2>2. \A i \in 0..(Len(s) - 1) : i + 1 \in 0..Len(s) /\ i + 1 # 0 /\ (i + 1) - 1 = i
    BY <1>1
  <2> QED BY <1>1, <2>1, <2>2
<1> HIDE DEF sum
<1> QED BY <1>3, <1>4 DEF Counts

\* The messages of a file, one frame after another.
LEMMA MessagesOfEmpty == Messages(<<>>) = 0
<1>1. <<>> \in Seq({}) /\ Len(<<>>) = 0
  OBVIOUS
<1>2. PICK sum : Counts(sum, <<>>)
  BY <1>1, MessagesOf
<1> QED BY <1>1, <1>2 DEF Counts

\* One frame more adds its messages.
LEMMA MessagesOfAppend ==
  ASSUME NEW T, NEW s \in Seq(T), NEW x \in T
  PROVE  Messages(Append(s, x)) = Messages(s) + x.messages
<1> DEFINE t == Append(s, x)
           n == Len(s)
<1>1. /\ t \in Seq(T) /\ Len(t) = n + 1 /\ n \in Nat /\ t[n + 1] = x
      /\ \A i \in 1..n : t[i] = s[i]
  OBVIOUS
<1>2. PICK k : Counts(k, s)
  BY MessagesOf
<1> HIDE DEF t
<1>3. PICK l : Counts(l, t)
  BY <1>1, MessagesOf
<1> HIDE DEF n
<1> DEFINE M == {i \in Nat : i <= n => l[i] = k[i]}
<1>4. 0 \in M
  BY <1>2, <1>3 DEF Counts
<1>5. ASSUME NEW i \in M PROVE i + 1 \in M
  <2> SUFFICES ASSUME i + 1 <= n PROVE l[i + 1] = k[i + 1]
    OBVIOUS
  <2>1. i \in 0..(n - 1) /\ i \in 0..((n + 1) - 1) /\ i + 1 \in 1..n /\ l[i] = k[i]
    BY <1>1
  <2>2. k[i + 1] = k[i] + s[i + 1].messages
    BY <1>2, <2>1 DEF Counts, n
  <2>3. l[i + 1] = l[i] + t[i + 1].messages
    BY <1>1, <1>3, <2>1 DEF Counts
  <2> QED BY <1>1, <2>1, <2>2, <2>3
<1>6. M \in SUBSET Nat
  OBVIOUS
<1> HIDE DEF M
<1>7. n \in M
  BY <1>1, <1>4, <1>5, <1>6, EveryNat
<1>8. l[n] = k[n] /\ n \in 0..((n + 1) - 1)
  BY <1>1, <1>7 DEF M
<1>9. l[n + 1] = l[n] + t[n + 1].messages
  BY <1>1, <1>3, <1>8 DEF Counts
<1>10. Messages(t) = l[n + 1] /\ Messages(s) = k[n]
  BY <1>1, <1>2, <1>3 DEF Counts, n
<1>11. Messages(t) = Messages(s) + x.messages
  BY <1>1, <1>8, <1>9, <1>10
<1> QED BY <1>11 DEF t

\* A file of frames holds a number of messages.
LEMMA MessagesAreCounted == ASSUME NEW s \in Seq(Frames) PROVE Messages(s) \in Nat
<1> DEFINE P == {t \in Seq(Frames) : Messages(t) \in Nat}
<1>1. <<>> \in P
  BY MessagesOfEmpty
<1>2. ASSUME NEW t \in P, NEW x \in Frames PROVE Append(t, x) \in P
  <2>1. Messages(Append(t, x)) = Messages(t) + x.messages
    BY MessagesOfAppend
  <2>2. x.messages \in Nat
    BY DEF Frames
  <2> QED BY <2>1, <2>2
<1>3. P \in SUBSET Seq(Frames)
  OBVIOUS
<1> HIDE DEF P
<1>4. s \in P
  BY <1>1, <1>2, <1>3, EverySequence
<1> QED BY <1>4 DEF P

\* A file cut after its first b frames.
LEMMA CutFile ==
  ASSUME NEW T, NEW s \in Seq(T), NEW b \in Nat, b <= Len(s)
  PROVE  /\ SubSeq(s, 1, b) \in Seq(T) /\ Len(SubSeq(s, 1, b)) = b
         /\ \A i \in 1..b : SubSeq(s, 1, b)[i] = s[i]
<1>1. \A i \in 1..b : s[i] \in T
  OBVIOUS
<1>2. 1 \in Int /\ b \in Int /\ b - 1 + 1 = b /\ \A i \in 1..b : 1 + i - 1 = i
  OBVIOUS
<1>3. /\ SubSeq(s, 1, b) \in Seq(T)
      /\ Len(SubSeq(s, 1, b)) = IF 1 <= b THEN b - 1 + 1 ELSE 0
      /\ \A i \in 1..(b - 1 + 1) : SubSeq(s, 1, b)[i] = s[1 + i - 1]
  BY <1>1, <1>2, SubSeqProperties
<1> QED BY <1>2, <1>3

\* What the file holds after them.
LEMMA TailOfFile ==
  ASSUME NEW T, NEW s \in Seq(T), NEW b \in Nat, b <= Len(s)
  PROVE  /\ SubSeq(s, b + 1, Len(s)) \in Seq(T)
         /\ Len(SubSeq(s, b + 1, Len(s))) = Len(s) - b
         /\ \A i \in 1..(Len(s) - b) : SubSeq(s, b + 1, Len(s))[i] = s[b + i]
<1> DEFINE n == Len(s)
<1>1. n \in Nat /\ \A i \in (b + 1)..n : s[i] \in T
  OBVIOUS
<1> HIDE DEF n
<1>2. b + 1 \in Int /\ n \in Int /\ n - (b + 1) + 1 = n - b
      /\ \A i \in 1..(n - b) : (b + 1) + i - 1 = b + i
  BY <1>1
<1>3. /\ SubSeq(s, b + 1, n) \in Seq(T)
      /\ Len(SubSeq(s, b + 1, n)) = IF b + 1 <= n THEN n - (b + 1) + 1 ELSE 0
      /\ \A i \in 1..(n - (b + 1) + 1) : SubSeq(s, b + 1, n)[i] = s[(b + 1) + i - 1]
  BY <1>1, <1>2, SubSeqProperties
<1>4. b <= n
  BY DEF n
<1>5. /\ Len(SubSeq(s, b + 1, n)) = n - b
      /\ \A i \in 1..(n - b) : SubSeq(s, b + 1, n)[i] = s[b + i]
  <2>1. Len(SubSeq(s, b + 1, n)) = n - b
    <3>1. b + 1 <= n \/ n - b = 0
      BY <1>1, <1>4
    <3> QED BY <1>1, <1>2, <1>3, <3>1
  <2>2. \A i \in 1..(n - b) : SubSeq(s, b + 1, n)[i] = s[b + i]
    BY <1>2, <1>3
  <2> QED BY <2>1, <2>2
<1> QED BY <1>3, <1>5 DEF n

\* Writing after the first b frames: they stay and what follows is what was written.
LEMMA WrittenFile ==
  ASSUME NEW T, NEW s \in Seq(T), NEW b \in Nat, b <= Len(s), NEW tail \in Seq(T)
  PROVE  LET t == SubSeq(s, 1, b) \o tail IN
         /\ t \in Seq(T) /\ Len(t) >= b
         /\ SubSeq(t, 1, b) = SubSeq(s, 1, b)
         /\ SubSeq(t, b + 1, Len(t)) = tail
<1> DEFINE p == SubSeq(s, 1, b)
           t == p \o tail
<1>1. p \in Seq(T) /\ Len(p) = b
  BY CutFile
<1> HIDE DEF p
<1>2. /\ t \in Seq(T) /\ Len(t) = b + Len(tail) /\ Len(tail) \in Nat
      /\ \A i \in 1..b : t[i] = p[i]
      /\ \A i \in 1..Len(tail) : t[b + i] = tail[i]
  <2>1. /\ t \in Seq(T) /\ Len(t) = Len(p) + Len(tail)
        /\ \A i \in 1 .. Len(p) + Len(tail) :
             t[i] = IF i <= Len(p) THEN p[i] ELSE tail[i - Len(p)]
    BY <1>1, ConcatProperties
  <2>2. Len(tail) \in Nat
    OBVIOUS
  <2> HIDE DEF t
  <2>3. \A i \in 1..b : t[i] = p[i]
    BY <1>1, <2>1, <2>2
  <2>4. \A i \in 1..Len(tail) : b + i \in 1..(b + Len(tail)) /\ ~(b + i <= b) /\ (b + i) - b = i
    BY <2>2
  <2>5. \A i \in 1..Len(tail) : t[b + i] = tail[i]
    BY <1>1, <2>1, <2>4
  <2> QED BY <1>1, <2>1, <2>2, <2>3, <2>5
<1> HIDE DEF t
<1>3. b <= Len(t) /\ Len(t) - b = Len(tail)
  BY <1>2
<1>4. SubSeq(t, 1, b) = p
  <2>1. /\ SubSeq(t, 1, b) \in Seq(T) /\ Len(SubSeq(t, 1, b)) = b
        /\ \A i \in 1..b : SubSeq(t, 1, b)[i] = t[i]
    BY <1>2, <1>3, CutFile
  <2> QED BY <1>1, <1>2, <2>1, SeqEqual
<1>5. SubSeq(t, b + 1, Len(t)) = tail
  <2>1. /\ SubSeq(t, b + 1, Len(t)) \in Seq(T)
        /\ Len(SubSeq(t, b + 1, Len(t))) = Len(t) - b
        /\ \A i \in 1..(Len(t) - b) : SubSeq(t, b + 1, Len(t))[i] = t[b + i]
    BY <1>2, <1>3, TailOfFile
  <2> QED BY <1>2, <1>3, <2>1, SeqEqual
<1> QED BY <1>2, <1>3, <1>4, <1>5 DEF t, p

\* A whole file, cut at its end, is itself and nothing follows.
LEMMA CutAtEnd ==
  ASSUME NEW T, NEW s \in Seq(T)
  PROVE  /\ SubSeq(s, 1, Len(s)) = s /\ SubSeq(s, Len(s) + 1, Len(s)) = <<>>
<1>1. Len(s) \in Nat /\ Len(s) + 1 \in Int /\ Len(s) < Len(s) + 1
  OBVIOUS
<1> QED BY <1>1, SubSeqFull, SubSeqEmpty

\* Appending one frame is writing it at the end.
LEMMA AppendIsWriting ==
  ASSUME NEW T, NEW s \in Seq(T), NEW x \in T
  PROVE  /\ Append(s, x) = s \o <<x>> /\ Append(s, x) \in Seq(T) /\ Append(s, x) # <<>>
         /\ Last(Append(s, x)) = x
         /\ Len(Append(s, x)) = Len(s) + 1
         /\ DOMAIN Append(s, x) = (DOMAIN s) \cup {Len(s) + 1}
         /\ \A i \in DOMAIN s : Append(s, x)[i] = s[i]
         /\ Append(s, x)[Len(s) + 1] = x
<1>1. /\ Append(s, x) \in Seq(T) /\ Len(Append(s, x)) = Len(s) + 1 /\ Len(s) \in Nat
      /\ \A i \in 1..Len(s) : Append(s, x)[i] = s[i]
      /\ Append(s, x)[Len(s) + 1] = x
      /\ DOMAIN s = 1..Len(s) /\ DOMAIN Append(s, x) = 1..(Len(s) + 1)
  OBVIOUS
<1>2. 1..(Len(s) + 1) = 1..Len(s) \cup {Len(s) + 1} /\ Len(s) + 1 # 0
  BY <1>1
<1>3. Append(s, x) = s \o <<x>>
  <2>1. /\ <<x>> \in Seq(T) /\ s \o <<x>> \in Seq(T) /\ Len(s \o <<x>>) = Len(s) + 1
        /\ \A i \in 1..Len(s) : (s \o <<x>>)[i] = s[i]
        /\ (s \o <<x>>)[Len(s) + 1] = x
    OBVIOUS
  <2>2. \A i \in 1..(Len(s) + 1) : Append(s, x)[i] = (s \o <<x>>)[i]
    BY <1>1, <1>2, <2>1
  <2> QED BY <1>1, <2>1, <2>2, SeqEqual
<1>4. Append(s, x) # <<>>
  BY <1>1, <1>2
<1>5. Last(Append(s, x)) = x
  BY <1>1 DEF Last
<1> HIDE DEF Last
<1> QED BY <1>1, <1>2, <1>3, <1>4, <1>5

-----------------------------------------------------------------------------
(* ---- the invariant --------------------------------------------------------*)
(* Of a session that is prepared no preparation is under way; and an       *)
(* engine only runs in one, for a run that is running, with nothing staged *)
(* for the session but what the worker is just appending.                  *)
Memory ==
    /\ loaded => phase = "off"
    /\ ~loaded /\ phase \in {"off", "operations"} => at = Idle
    /\ phase = "childrows" /\ at.who = Session => row[Session] # NoRow
    /\ live # Nobody =>
         /\ loaded /\ run[live] = "running"
         /\ row[Session] # NoRow => at \in {At("write", Session), At("finalize", Session)}

(* Where the worker is says what it has done so far.                       *)
Position ==
    /\ at.do = "idle" => at = Idle
    /\ at.do \in {"write", "finalize"} => at.who \in Owners /\ row[at.who] # NoRow
    /\ at.do = "finalize" =>
         ~Alone(at.who) /\ HasFile(at.who) /\ FileOf(at.who) = Append(Prefix(at.who), row[at.who].frame)
    /\ at.do = "directory" => at.who \in Runs /\ Alone(at.who)
    /\ at.do = "write" /\ Alone(at.who) =>
         row[Session] # NoRow /\ row[Session].frame = Directory(at.who)
    /\ at.do = "stage" => at.who = Session /\ pend.state = "ready"
    /\ at.do = "childrow" =>
         /\ at.who \in Runs /\ loaded /\ pend.state = "begun"
         /\ pend.run = at.who /\ "task" \in pend.started /\ ~pend.located
         /\ child[at.who] = "none" /\ HasFile(at.who) /\ FileOf(at.who) = <<>>
    /\ at.do \in {"switch", "remove"} =>
         /\ loaded /\ row[Session] = NoRow /\ candidate # head.generation
    /\ at.do = "switch" =>
         /\ candidate \in DOMAIN body /\ HasFile(Session)
         /\ body[candidate] = Append(FileOf(Session), Summary)
    /\ at.do \in {"clearfile", "clearswitch"} =>
         /\ loaded /\ SessionIsIdle /\ op.kind = "clear"
         /\ op.result \in Generations /\ op.result # head.generation
    /\ at.do = "clearswitch" => op.result \in DOMAIN body /\ body[op.result] = <<>>
    /\ at.do = "cleanup" => loaded /\ SessionIsIdle /\ op.state = "cleanup"

(* A clear is under way or to be cleaned up, and until then its receipt    *)
(* names the generation after its source; runs follow one another.         *)
Receipts == op.kind = "clear" =>
                op.state = "cleanup" \/ (op.state = "preparing" /\ op.result = op.source + 1)
SingleRun == \A r, x \in Runs : run[r] # "none" /\ run[x] # "none" => r = x

(* The rows of runs, inputs, exchanges and children fit together.  A child *)
(* is left behind when the exchange that began it is over and its answer   *)
(* was an error; where that is written may be lost with the file.          *)
InExchange(r) == pend # NoExchange /\ pend.run = r
LeftBehind(r) == /\ pend = NoExchange
                 /\ GivenUp(r) \/ (live = Nobody /\ ~HasFile(Session))
Controls ==
    /\ \A r \in Runs : /\ run[r] = "accepted" => input[r] = "queued"
                       /\ run[r] = "running" => input[r] = "committed"
    /\ pend # NoExchange =>
         /\ run[pend.run] = "running"
         /\ pend.located => "task" \in pend.started
    /\ \A r \in Runs : child[r] # "none" =>
         /\ run[r] = "running"
         /\ Delegating(r) \/ LeftBehind(r)
         /\ (InExchange(r) /\ pend.state = "begun") \/ faults > 0
         /\ loaded => HasFile(r)

(* What is staged can be finished: the rows its effect needs are there and *)
(* the file holds no more than an attempt to write it.  A settlement needs *)
(* the exchange of its child as well, which is gone when that was left     *)
(* behind; one that stands alone is only staged by a preparation.          *)
ExchangeFrame == Frame("exchange", pend.run, pend.answers, 1 + Cardinality(Calls))
Stageable(o, f) ==
    /\ f.whole /\ f.run \in Runs
    /\ f.kind = "exchange" => f = ExchangeFrame
    /\ f.kind = "directory" => f = Directory(f.run)
    /\ IF o = Session
       THEN f.kind \in {"start", "exchange", "settle", "directory"} /\ Applies(o, f)
       ELSE /\ f.run = o /\ f.kind \in {"start", "settle", "alone"} /\ child[o] # "none"
            /\ f.kind = "start" => child[o] = "accepted"
            /\ f.kind = "settle" => f.says["task"] \in Outcomes
            /\ f.kind = "alone" => pend = NoExchange /\ ~loaded
Rows ==
    \A o \in Owners : row[o] # NoRow =>
        /\ Stageable(o, row[o].frame)
        /\ o = Session => HasFile(Session) /\ row[o].generation = head.generation
        /\ HasFile(o) => Reconcilable(o)

Told(r) == \E i \in DOMAIN Visible(Session) :
              Visible(Session)[i].kind = "exchange" /\ Visible(Session)[i].run = r

(* What is recorded of a run has happened and does not happen again.       *)
Happened(f) ==
    f # Summary => /\ f.run \in Runs /\ f.kind \in {"start", "exchange", "settle", "directory"}
                   /\ input[f.run] = "committed"
                   /\ f.kind = "settle" => run[f.run] = "none"
                   /\ f.kind = "exchange" => ~InExchange(f.run)
                   /\ f.kind = "directory" => child[f.run] = "none" /\ Told(f.run)
Recorded == \A i \in DOMAIN Visible(Session) : Happened(Visible(Session)[i])

(* Nothing has happened for a run before its exchange, and nothing for a   *)
(* call of the exchange before it is marked as started.                    *)
Untouched(r) == effects[r] = 0 /\ ~HasFile(r)
Beginnings ==
    /\ \A r \in Runs : input[r] \in {"none", "queued"} => Untouched(r)
    /\ live # Nobody => Untouched(live) \/ InExchange(live) \/ Told(live)
    /\ pend # NoExchange => /\ "tool" \notin pend.started => effects[pend.run] = 0
                            /\ "task" \notin pend.started => ~HasFile(pend.run)

(* The file of the delegated call says how far its child has come.         *)
ChildFiles ==
    pend # NoExchange =>
        /\ loaded /\ pend.located => HasFile(pend.run)
        /\ HasFile(pend.run) /\ pend.located =>
              /\ FileOf(pend.run) # <<>>
              /\ Last(FileOf(pend.run)).kind = "settle"
              /\ Last(FileOf(pend.run)).run = pend.run
              /\ Last(FileOf(pend.run)).says["task"] \in Outcomes
        /\ HasFile(pend.run) /\ ~pend.located /\ child[pend.run] = "none" =>
              FileOf(pend.run) = <<>>

Counted == HasFile(Session) => head.count = Messages(Visible(Session))

(* A file is lost only by failures of a kind.                              *)
Spared ==
    /\ "sync" \notin Faults => HasFile(Session)
    /\ "cleanup" \notin Faults =>
         /\ \A r \in Runs : child[r] # "none" => HasFile(r)
         /\ op.state = "cleanup" =>
              /\ \A r \in Runs : child[r] = "none"
              /\ at.do = "cleanup" \/ (~loaded /\ phase \in {"off", "operations"})

(* What the tables and the files say, and what the process knows.          *)
Durable == Controls /\ Rows /\ Recorded /\ Beginnings /\ ChildFiles /\ Counted
           /\ AnswersAreTrue /\ FactsInOrder
Process == StagedTypeOK /\ Memory /\ Position /\ Receipts /\ SingleRun /\ Spared
StoreInv == Process /\ Durable

(* Until something fails there is nothing to prepare and nothing staged    *)
(* for a child but what the worker is just appending.                      *)
Faultless ==
    faults = 0 => /\ ~loaded => \A r \in Runs : run[r] = "none"
                  /\ \A r \in Runs : row[r] # NoRow => at \in {At("write", r), At("finalize", r)}
-----------------------------------------------------------------------------
(* ---- what the helpers say of the files ------------------------------------*)
\* A session is not one of its runs, nobody is none, and a file is theirs or the session's.
LEMMA Names ==
  /\ Session \in Owners /\ Session \notin Runs /\ Nobody \notin Runs /\ Nobody # Session
  /\ Runs \subseteq Owners /\ \A o \in Owners : o = Session \/ o \in Runs
BY StagedHistoryAssumption DEF Owners, Session, Nobody

\* The file of the session is the one of its generation, that of a child its own.
LEMMA SessionFile ==
  /\ HasFile(Session) <=> head.generation \in DOMAIN body
  /\ HasFile(Session) => FileOf(Session) = body[head.generation]
  /\ ~HasFile(Session) => FileOf(Session) = <<>>
BY DEF HasFile, FileOf

LEMMA ChildFile ==
  ASSUME NEW r \in Runs
  PROVE  /\ HasFile(r) <=> r \in DOMAIN childBody
         /\ HasFile(r) => FileOf(r) = childBody[r]
         /\ ~HasFile(r) => FileOf(r) = <<>>
BY Names DEF HasFile, FileOf

\* They hold frames.
LEMMA FilesHoldFrames ==
  ASSUME StagedTypeOK, NEW o \in Owners
  PROVE  FileOf(o) \in Seq(Frames)
<1>1. CASE ~HasFile(o)
  <2>1. FileOf(o) = <<>>
    BY <1>1 DEF FileOf
  <2> QED BY <2>1
<1>2. CASE HasFile(o) /\ o = Session
  <2>1. FileOf(o) = body[head.generation] /\ head.generation \in DOMAIN body
    BY <1>2, SessionFile
  <2>2. body \in [DOMAIN body -> Seq(Frames)]
    BY DEF StagedTypeOK
  <2> QED BY <2>1, <2>2
<1>3. CASE HasFile(o) /\ o \in Runs
  <2>1. FileOf(o) = childBody[o] /\ o \in DOMAIN childBody
    BY <1>3, ChildFile
  <2>2. childBody \in [DOMAIN childBody -> Seq(Frames)]
    BY DEF StagedTypeOK
  <2> QED BY <2>1, <2>2
<1> QED BY <1>1, <1>2, <1>3, Names

\* A row that is staged has a frame and a place in the file.
LEMMA RowsHoldFrames ==
  ASSUME StagedTypeOK, NEW o \in Owners, row[o] # NoRow
  PROVE  /\ row[o].frame \in Frames /\ row[o].base \in Nat
         /\ row[o].generation \in Generations
<1>1. row[o] \in {NoRow} \cup [step : {"staged"}, frame : Frames, base : Nat,
                                generation : Generations]
  BY DEF StagedTypeOK
<1> QED BY <1>1

\* Appending a frame to what was there before the append is one of the tails recovery accepts.
LEMMA TornIsFrame == ASSUME NEW f \in Frames PROVE Torn(f) \in Frames
BY DEF Torn, Frames

\* The part of a file before a staged append is a file.
LEMMA PrefixHoldsFrames ==
  ASSUME StagedTypeOK, NEW o \in Owners, row[o] # NoRow, Reconcilable(o)
  PROVE  Prefix(o) \in Seq(Frames) /\ row[o].base <= Len(FileOf(o))
<1>1. FileOf(o) \in Seq(Frames) /\ row[o].base \in Nat
  BY FilesHoldFrames, RowsHoldFrames
<1>2. row[o].base <= Len(FileOf(o))
  BY <1>1 DEF Reconcilable
<1> QED BY <1>1, <1>2, CutFile DEF Prefix

\* What readers see of the session is a file.
LEMMA VisibleHoldsFrames ==
  ASSUME StagedTypeOK, Rows
  PROVE  Visible(Session) \in Seq(Frames)
<1>1. CASE row[Session] = NoRow
  BY <1>1, Names, FilesHoldFrames DEF Visible
<1>2. CASE row[Session] # NoRow
  <2>1. Reconcilable(Session)
    BY <1>2, Names DEF Rows
  <2> QED BY <1>2, <2>1, Names, PrefixHoldsFrames DEF Visible
<1> QED BY <1>1, <1>2

\* Without a staged append they see the file itself.
LEMMA VisibleAtRest == row[Session] = NoRow => Visible(Session) = FileOf(Session)
BY DEF Visible

\* A child's answer is what the last fact of its file says.
LEMMA OutcomeOfFile ==
  ASSUME NEW r \in Runs, FileOf(r) # <<>>
  PROVE  ChildOutcome(r) = Last(FileOf(r)).says["task"]
<1>1. FileOf(r) = childBody[r]
  BY ChildFile
<1> QED BY <1>1 DEF ChildOutcome

\* A summary is no fact.
LEMMA FactIsNoSummary ==
  ASSUME NEW f, f.kind \in {"start", "exchange", "settle", "directory"}
  PROVE  f # Summary
BY DEF Summary, Frame

\* The frames the store appends.
LEMMA FramesMade ==
  ASSUME NEW kind \in {"start", "exchange", "settle", "alone", "directory", "summary"},
         NEW r \in Runs \cup {Nobody},
         NEW says \in [Calls -> Words], NEW n \in Nat
  PROVE  /\ Frame(kind, r, says, n) \in Frames
         /\ Frame(kind, r, says, n).kind = kind /\ Frame(kind, r, says, n).run = r
         /\ Frame(kind, r, says, n).says = says /\ Frame(kind, r, says, n).messages = n
         /\ Frame(kind, r, says, n).whole = TRUE
BY DEF Frame, Frames

\* A summary is a frame of a kind of its own.
LEMMA SummaryIsFrame == Summary \in Frames /\ Summary.kind = "summary"
<1> DEFINE says == [c \in Calls |-> "summary"]
<1>1. says \in [Calls -> Words]
  BY DEF Words
<1>2. Summary = Frame("summary", Nobody, says, 1)
  BY DEF Summary
<1> HIDE DEF says
<1>3. Frame("summary", Nobody, says, 1) \in Frames
      /\ Frame("summary", Nobody, says, 1).kind = "summary"
  BY <1>1 DEF Frame, Frames
<1> QED BY <1>2, <1>3

-----------------------------------------------------------------------------
(* ---- steps that change files and no rows ----------------------------------*)
\* A child's append is staged only while the child is there.
LEMMA ChildRowHasChild ==
  ASSUME Controls, Rows, NEW r \in Runs, row[r] # NoRow
  PROVE  /\ child[r] # "none" /\ run[r] = "running" /\ (loaded => HasFile(r))
         /\ Delegating(r) \/ LeftBehind(r)
         /\ row[r].frame.kind \in {"start", "settle", "alone"} /\ row[r].frame.run = r
         /\ row[r].frame.kind = "alone" => ~loaded /\ pend = NoExchange
<1>1. Stageable(r, row[r].frame) /\ r # Session
  BY Names DEF Rows
<1>2. /\ child[r] # "none" /\ row[r].frame.kind \in {"start", "settle", "alone"}
      /\ row[r].frame.run = r
      /\ row[r].frame.kind = "alone" => ~loaded /\ pend = NoExchange
  BY <1>1 DEF Stageable
<1> QED BY <1>2 DEF Controls

\* The exchange of a child that is there has no place for its outcome, but for an error.
LEMMA ChildIsUnanswered ==
  ASSUME Controls, NEW r \in Runs, child[r] # "none", InExchange(r)
  PROVE  /\ "task" \in pend.started /\ ~pend.located
         /\ pend.state = "ready" => pend.answers["task"] = "error" /\ faults > 0
<1>1. Delegating(r) /\ ((InExchange(r) /\ pend.state = "begun") \/ faults > 0)
  BY DEF Controls, LeftBehind, InExchange
<1> QED BY <1>1 DEF Delegating

\* Each run has one exchange.
LEMMA OneExchange ==
  ASSUME StagedTypeOK, Rows, FactsInOrder,
         NEW i \in DOMAIN Visible(Session), NEW j \in DOMAIN Visible(Session),
         Visible(Session)[i].kind = "exchange", Visible(Session)[j].kind = "exchange",
         Visible(Session)[i].run = Visible(Session)[j].run
  PROVE  i = j
<1>1. i \in Nat /\ j \in Nat
  BY VisibleHoldsFrames
<1>2. Visible(Session)[i] # Summary /\ Visible(Session)[j] # Summary
  BY SummaryIsFrame
<1>3. ~(i < j) /\ ~(j < i)
  BY <1>2 DEF FactsInOrder, Place
<1> QED BY <1>1, <1>3

\* What was told of a child that is still there is an error.
LEMMA ToldAnError ==
  ASSUME StagedTypeOK, Controls, Rows, Recorded, FactsInOrder,
         NEW r \in Runs, child[r] # "none",
         NEW i \in DOMAIN Visible(Session),
         Visible(Session)[i].kind = "exchange", Visible(Session)[i].run = r
  PROVE  Visible(Session)[i].says["task"] = "error" /\ faults > 0 /\ GivenUp(r)
<1>1. Visible(Session)[i] # Summary /\ Happened(Visible(Session)[i])
  BY SummaryIsFrame DEF Recorded
<1>2. ~InExchange(r)
  BY <1>1 DEF Happened
<1>3. LeftBehind(r) /\ faults > 0
  BY <1>2 DEF Controls, Delegating, InExchange
<1>4. CASE ~HasFile(Session)
  <2>1. row[Session] = NoRow
    BY <1>4, Names DEF Rows
  <2>2. Visible(Session) = <<>>
    BY <1>4, <2>1 DEF Visible, FileOf
  <2> QED BY <2>2
<1>5. CASE GivenUp(r)
  <2>1. PICK j \in DOMAIN Visible(Session) :
          /\ Visible(Session)[j].kind = "exchange" /\ Visible(Session)[j].run = r
          /\ Visible(Session)[j].says["task"] = "error"
    BY <1>5 DEF GivenUp
  <2>2. i = j
    BY <2>1, OneExchange
  <2> QED BY <1>3, <1>5, <2>1, <2>2
<1> QED BY <1>3, <1>4, <1>5 DEF LeftBehind

\* A file keeps its contents; gets what is staged for it, or a part of that; is lost; or is
\* the new file of a delegated call.
KeptFile(o) == HasFile(o)' = HasFile(o) /\ FileOf(o)' = FileOf(o)
RewrittenFile(o) == /\ row[o] # NoRow /\ HasFile(o) /\ HasFile(o)'
                    /\ Prefix(o)' = Prefix(o) /\ Reconcilable(o)'
LostFile(o) == /\ ~HasFile(o)'
               /\ o = Session => row[o] = NoRow /\ live' = Nobody
               /\ o # Session /\ loaded' => child[o] = "none" /\ ~(InExchange(o) /\ pend.located)
CreatedFile(o) == /\ o \in Runs /\ ~HasFile(o) /\ HasFile(o)' /\ FileOf(o)' = <<>>
                  /\ InExchange(o) /\ pend.state = "begun" /\ "task" \in pend.started
                  /\ ~pend.located /\ child[o] = "none"
RowsStay == UNCHANGED <<head, row, input, run, pend, child, effects>>
FaultsStay == faults > 0 => faults' > 0
FilesChange == /\ RowsStay /\ FaultsStay
               /\ loaded' => loaded
               /\ live' \in {live, Nobody}
               /\ \A o \in Owners : KeptFile(o) \/ RewrittenFile(o) \/ LostFile(o) \/ CreatedFile(o)

\* What readers see stays, or the file is gone.
LEMMA VisibleStays ==
  ASSUME FilesChange
  PROVE  \/ Visible(Session)' = Visible(Session) /\ HasFile(Session)' = HasFile(Session)
         \/ /\ row[Session] = NoRow /\ ~HasFile(Session)' /\ live' = Nobody
            /\ Visible(Session)' = <<>>
<1>1. row'[Session] = row[Session]
  BY DEF FilesChange, RowsStay
<1>2. CASE KeptFile(Session)
  BY <1>1, <1>2 DEF KeptFile, Visible, Prefix
<1>3. CASE RewrittenFile(Session)
  BY <1>1, <1>3 DEF RewrittenFile, Visible
<1>4. CASE LostFile(Session)
  <2>1. FileOf(Session)' = <<>>
    BY <1>4 DEF LostFile, FileOf
  <2> QED BY <1>1, <1>4, <2>1 DEF LostFile, Visible
<1> QED BY <1>2, <1>3, <1>4, Names DEF FilesChange, CreatedFile

\* What can be staged depends on the rows alone.
LEMMA StageableStays ==
  ASSUME UNCHANGED <<input, run, pend, child>>, loaded' => loaded,
         \A r \in Runs : Alone(r) => Alone(r)',
         NEW o, NEW f, Stageable(o, f)
  PROVE  Stageable(o, f)'
<1>1. f.run \in Runs /\ (o = Session => f.kind \in {"start", "exchange", "settle", "directory"})
  BY DEF Stageable
<1>2. Alone(f.run) => Alone(f.run)'
  BY <1>1
<1>3. Applies(o, f) /\ o = Session => Applies(o, f)'
  BY <1>1, <1>2 DEF Applies
<1> HIDE DEF Alone
<1> QED BY <1>1, <1>3 DEF Stageable, ExchangeFrame, Directory

\* The settlement of a child stands alone as long as its row stays.
LEMMA AloneStays ==
  ASSUME NEW r, row'[r] = row[r]
  PROVE  Alone(r)' = Alone(r)
BY DEF Alone

\* An answer stays true while nothing more happens to its calls and the child's file stays
\* as it is, or is gone, or the answer was an error for which there is a reason.
StaysTrue(r, says) ==
  /\ effects'[r] = effects[r] /\ FaultsStay
  /\ KeptFile(r) \/ ~HasFile(r)' \/ (says["task"] = "error" /\ faults > 0)

\* What was told of a call stays true.
LEMMA TruthStays ==
  ASSUME NEW r \in Runs, NEW says, Truthful(r, says), StaysTrue(r, says)
  PROVE  Truthful(r, says)'
<1>1. ToldOfTool(r, says)'
  BY ZenonT(20) DEF Truthful, ToldOfTool, StaysTrue
<1>2. ToldOfTask(r, says)'
  <2>1. CASE HasFile(r)' = HasFile(r) /\ FileOf(r)' = FileOf(r)
    <3>1. Ended(r)' = Ended(r)
      BY <2>1 DEF Ended, Records
    <3>2. HasFile(r) => ChildOutcome(r)' = ChildOutcome(r)
      <4>1. HasFile(r) => FileOf(r) = childBody[r] /\ FileOf(r)' = childBody'[r]
        BY <2>1, Names DEF FileOf
      <4> QED BY <2>1, <4>1 DEF ChildOutcome
    <3> QED BY <2>1, <3>1, <3>2 DEF Truthful, ToldOfTask, StaysTrue, FaultsStay
  <2>2. CASE ~HasFile(r)'
    BY <2>2 DEF ToldOfTask
  <2>3. CASE says["task"] = "error" /\ faults > 0
    BY <2>3 DEF ToldOfTask, StaysTrue, FaultsStay, Outcomes
  <2> QED BY <2>1, <2>2, <2>3 DEF StaysTrue, KeptFile
<1> QED BY <1>1, <1>2 DEF Truthful

\* What the model is told stays true if the answers told and those frozen do.
LEMMA AnswersStayTrue ==
  ASSUME AnswersAreTrue, Recorded,
         \/ Visible(Session)' = Visible(Session)
         \/ Visible(Session)' = <<>>,
         pend'.state = "ready" =>
            /\ pend.state = "ready" /\ pend'.run = pend.run /\ pend'.answers = pend.answers
            /\ pend.run \in Runs /\ StaysTrue(pend.run, pend.answers),
         \A i \in DOMAIN Visible(Session) :
            Visible(Session)[i].kind = "exchange" =>
                StaysTrue(Visible(Session)[i].run, Visible(Session)[i].says)
  PROVE  AnswersAreTrue'
<1>1. pend'.state = "ready" => Truthful(pend.run, pend.answers)'
  <2> SUFFICES ASSUME pend'.state = "ready" PROVE Truthful(pend.run, pend.answers)'
    OBVIOUS
  <2>1. PICK r, says : r = pend.run /\ says = pend.answers
    OBVIOUS
  <2>2. /\ pend.state = "ready" /\ pend'.run = r /\ pend'.answers = says
        /\ r \in Runs /\ StaysTrue(r, says)
    BY <2>1
  <2>3. Truthful(r, says)
    BY <2>1, <2>2 DEF AnswersAreTrue
  <2>4. Truthful(r, says)'
    BY <2>2, <2>3, TruthStays
  <2> QED BY <2>2, <2>4
<1>2. \A i \in DOMAIN Visible(Session)' :
          Visible(Session)'[i].kind = "exchange" =>
              Truthful(Visible(Session)[i].run, Visible(Session)[i].says)'
  <2>1. CASE Visible(Session)' = <<>>
    BY <2>1
  <2>2. CASE Visible(Session)' = Visible(Session)
    <3> SUFFICES ASSUME NEW i \in DOMAIN Visible(Session), Visible(Session)[i].kind = "exchange"
                 PROVE  Truthful(Visible(Session)[i].run, Visible(Session)[i].says)'
      BY <2>2
    <3>1. PICK f : f = Visible(Session)[i]
      OBVIOUS
    <3>2. f # Summary /\ Happened(f)
      BY <3>1, SummaryIsFrame DEF Recorded
    <3>3. f.run \in Runs /\ StaysTrue(f.run, f.says)
      BY <3>1, <3>2 DEF Happened
    <3>4. Truthful(f.run, f.says)
      BY <3>1 DEF AnswersAreTrue
    <3>5. Truthful(f.run, f.says)'
      BY <3>3, <3>4, TruthStays
    <3> QED BY <2>2, <3>1, <3>5
  <2> QED BY <2>1, <2>2
<1> QED BY <1>1, <1>2 DEF AnswersAreTrue

\* The exchange is one of a run.
LEMMA ExchangeOfRun ==
  ASSUME StagedTypeOK, pend # NoExchange
  PROVE  /\ pend.run \in Runs /\ pend.state \in {"begun", "ready"} /\ pend.started \subseteq Calls
         /\ pend.located \in BOOLEAN /\ pend.answers \in [Calls -> Words]
<1>1. pend \in {NoExchange} \cup [state : {"begun", "ready"}, run : Runs,
                                    started : SUBSET Calls, located : BOOLEAN,
                                    answers : [Calls -> Words]]
  BY DEF StagedTypeOK
<1> QED BY <1>1

\* An exchange that has a state is one.
LEMMA NoExchangeHasNoState ==
  /\ pend.state \in {"begun", "ready"} => pend # NoExchange
  /\ StagedTypeOK /\ pend.state # "none" => pend # NoExchange
BY DEF NoExchange

\* So it is if nothing that is told, or frozen, is disturbed.
LEMMA AnswersStay ==
  ASSUME StagedTypeOK, AnswersAreTrue, Recorded,
         \/ Visible(Session)' = Visible(Session)
         \/ Visible(Session)' = <<>>,
         pend'.state = "ready" =>
            pend.state = "ready" /\ pend'.run = pend.run /\ pend'.answers = pend.answers,
         \A r \in Runs : (pend.state = "ready" /\ pend.run = r) \/ Told(r) =>
            \A says : StaysTrue(r, says)
  PROVE  AnswersAreTrue'
<1>1. pend.state = "ready" => pend.run \in Runs
  BY ExchangeOfRun, NoExchangeHasNoState
<1>2. ASSUME NEW i \in DOMAIN Visible(Session), Visible(Session)[i].kind = "exchange"
      PROVE  StaysTrue(Visible(Session)[i].run, Visible(Session)[i].says)
  <2>1. Happened(Visible(Session)[i]) /\ Visible(Session)[i] # Summary
    BY <1>2, SummaryIsFrame DEF Recorded
  <2>2. Visible(Session)[i].run \in Runs /\ Told(Visible(Session)[i].run)
    BY <1>2, <2>1 DEF Happened, Told
  <2> QED BY <2>2
<1> QED BY <1>1, <1>2, AnswersStayTrue

\* Children stay what they are while the rows, and what readers see, stay.
LEMMA ControlsStay ==
  ASSUME Controls, UNCHANGED <<run, input, pend, child>>, FaultsStay,
         live' \in {live, Nobody},
         \/ Visible(Session)' = Visible(Session) /\ HasFile(Session)' = HasFile(Session)
         \/ ~HasFile(Session)' /\ live' = Nobody,
         loaded' => \A r \in Runs : child[r] # "none" => HasFile(r)'
  PROVE  Controls'
<1>1. ASSUME NEW r \in Runs, child[r] # "none"
      PROVE  /\ run[r] = "running"
             /\ (Delegating(r) \/ LeftBehind(r))'
             /\ (InExchange(r) /\ pend.state = "begun") \/ faults' > 0
             /\ loaded' => HasFile(r)'
  <2>1. /\ run[r] = "running" /\ (Delegating(r) \/ LeftBehind(r))
        /\ (InExchange(r) /\ pend.state = "begun") \/ faults > 0
    BY <1>1 DEF Controls
  <2>2. Delegating(r)' = Delegating(r)
    BY DEF Delegating
  <2>3. LeftBehind(r) => LeftBehind(r)'
    <3>1. CASE Visible(Session)' = Visible(Session) /\ HasFile(Session)' = HasFile(Session)
      BY <3>1 DEF LeftBehind, GivenUp
    <3>2. CASE ~HasFile(Session)' /\ live' = Nobody
      BY <3>2 DEF LeftBehind
    <3> QED BY <3>1, <3>2
  <2> QED BY <1>1, <2>1, <2>2, <2>3 DEF FaultsStay
<1> HIDE DEF Delegating, LeftBehind
<1> QED BY <1>1 DEF Controls, InExchange

\* Steps that only change files keep what the rows and the files say.
LEMMA FilesChangeKeeps ==
  ASSUME StagedTypeOK, Durable, FilesChange
  PROVE  Durable'
<1> USE DEF Durable
<1>1. /\ UNCHANGED <<head, row, input, run, pend, child, effects>>
      /\ loaded' => loaded
      /\ live' \in {live, Nobody} /\ FaultsStay
  BY DEF FilesChange, RowsStay
<1>2. \A o \in Owners : KeptFile(o) \/ RewrittenFile(o) \/ LostFile(o) \/ CreatedFile(o)
  BY DEF FilesChange
<1>3. \/ Visible(Session)' = Visible(Session) /\ HasFile(Session)' = HasFile(Session)
      \/ row[Session] = NoRow /\ ~HasFile(Session)' /\ live' = Nobody /\ Visible(Session)' = <<>>
  BY VisibleStays
<1>4. Controls'
  <2>1. ASSUME NEW r \in Runs, child[r] # "none", loaded' PROVE HasFile(r)'
    <3>1. loaded /\ HasFile(r) /\ r \in Owners /\ r # Session
      BY <1>1, <2>1, Names DEF Controls
    <3> QED BY <1>2, <2>1, <3>1 DEF KeptFile, RewrittenFile, LostFile, CreatedFile
  <2> QED BY <1>1, <1>3, <2>1, ControlsStay
<1>5. Rows'
  <2> SUFFICES ASSUME NEW o \in Owners, row[o] # NoRow
               PROVE  /\ Stageable(o, row[o].frame)'
                      /\ o = Session => HasFile(Session)' /\ row'[o].generation = head'.generation
                      /\ HasFile(o)' => Reconcilable(o)'
    BY <1>1 DEF Rows
  <2>1. /\ Stageable(o, row[o].frame)
        /\ o = Session => HasFile(Session) /\ row[o].generation = head.generation
        /\ HasFile(o) => Reconcilable(o)
    BY DEF Rows
  <2>2. Stageable(o, row[o].frame)'
    <3>1. PICK f : f = row[o].frame
      OBVIOUS
    <3>2. Stageable(o, f)'
      BY <1>1, <2>1, <3>1, StageableStays, AloneStays
    <3> QED BY <1>1, <3>1, <3>2
  <2>3. o = Session => HasFile(Session)'
    BY <1>3, <2>1
  <2>4. HasFile(o)' => Reconcilable(o)'
    <3>1. CASE KeptFile(o)
      BY <1>1, <2>1, <3>1 DEF KeptFile, Reconcilable, Staged
    <3>2. CASE RewrittenFile(o) \/ LostFile(o)
      BY <3>2 DEF RewrittenFile, LostFile
    <3>3. CASE CreatedFile(o)
      <4>1. o \in Runs /\ child[o] = "none"
        BY <3>3 DEF CreatedFile
      <4> QED BY <4>1, ChildRowHasChild
    <3> QED BY <1>2, <3>1, <3>2, <3>3
  <2> QED BY <1>1, <2>1, <2>2, <2>3, <2>4
<1>6. Recorded'
  <2>1. CASE Visible(Session)' = <<>>
    BY <2>1 DEF Recorded
  <2>2. CASE Visible(Session)' = Visible(Session)
    <3>1. \A r : Told(r)' = Told(r) /\ InExchange(r)' = InExchange(r)
      BY <1>1, <2>2 DEF Told, InExchange
    <3> QED BY <1>1, <2>2, <3>1 DEF Recorded, Happened
  <2> QED BY <1>3, <2>1, <2>2
<1>7. Beginnings'
  <2>1. \A r \in Runs : HasFile(r)' /\ ~HasFile(r) => InExchange(r) /\ "task" \in pend.started
    BY <1>2, Names DEF KeptFile, RewrittenFile, LostFile, CreatedFile
  <2>2. ASSUME NEW r \in Runs, Untouched(r) PROVE Untouched(r)' \/ InExchange(r)
    BY <1>1, <2>1, <2>2 DEF Untouched
  <2>3. ASSUME NEW r \in Runs, input'[r] \in {"none", "queued"} PROVE Untouched(r)'
    <3>1. Untouched(r)
      BY <1>1, <2>3 DEF Beginnings
    <3>2. ~InExchange(r)
      BY <1>1, <2>3 DEF Controls, InExchange
    <3> QED BY <2>2, <3>1, <3>2
  <2>4. ASSUME live' # Nobody PROVE Untouched(live)' \/ InExchange(live)' \/ Told(live)'
    <3>1. live' = live /\ Visible(Session)' = Visible(Session)
      BY <1>1, <1>3, <2>4
    <3>2. PICK r : r = live
      OBVIOUS
    <3>3. r \in Runs
      BY <2>4, <3>1, <3>2 DEF StagedTypeOK
    <3>4. Untouched(r) \/ InExchange(r) \/ Told(r)
      BY <2>4, <3>1, <3>2 DEF Beginnings
    <3>5. InExchange(r)' = InExchange(r) /\ Told(r)' = Told(r)
      BY <1>1, <3>1 DEF InExchange, Told
    <3>6. Untouched(r)' \/ InExchange(r)' \/ Told(r)'
      BY <2>2, <3>3, <3>4, <3>5
    <3> QED BY <3>1, <3>2, <3>6
  <2>5. pend' # NoExchange => /\ "tool" \notin pend'.started => effects'[pend'.run] = 0
                              /\ "task" \notin pend'.started => ~HasFile(pend.run)'
    <3> SUFFICES ASSUME pend # NoExchange, "task" \notin pend.started PROVE ~HasFile(pend.run)'
      BY <1>1 DEF Beginnings
    <3>1. PICK r : r = pend.run
      OBVIOUS
    <3>2. r \in Runs /\ ~HasFile(r)
      BY <3>1, ExchangeOfRun DEF Beginnings
    <3>3. ~HasFile(r)'
      BY <2>1, <3>2
    <3> QED BY <1>1, <3>1, <3>3
  <2> QED BY <2>3, <2>4, <2>5 DEF Beginnings
<1>8. ChildFiles'
  <2> SUFFICES ASSUME pend # NoExchange, NEW r, r = pend.run
               PROVE  /\ loaded' /\ pend.located => HasFile(r)'
                      /\ HasFile(r)' /\ pend.located =>
                            /\ FileOf(r)' # <<>>
                            /\ Last(FileOf(r)').kind = "settle"
                            /\ Last(FileOf(r)').run = r
                            /\ Last(FileOf(r)').says["task"] \in Outcomes
                      /\ HasFile(r)' /\ ~pend.located /\ child[r] = "none" => FileOf(r)' = <<>>
    BY <1>1 DEF ChildFiles
  <2>1. r \in Runs /\ r \in Owners /\ r # Session /\ InExchange(r)
    BY ExchangeOfRun, Names DEF InExchange
  <2>2. /\ loaded /\ pend.located => HasFile(r)
        /\ HasFile(r) /\ pend.located =>
              /\ FileOf(r) # <<>>
              /\ Last(FileOf(r)).kind = "settle"
              /\ Last(FileOf(r)).run = r
              /\ Last(FileOf(r)).says["task"] \in Outcomes
        /\ HasFile(r) /\ ~pend.located /\ child[r] = "none" => FileOf(r) = <<>>
    BY DEF ChildFiles
  <2>3. CASE KeptFile(r)
    BY <1>1, <2>2, <2>3 DEF KeptFile
  <2>4. CASE RewrittenFile(r)
    <3>1. child[r] # "none" /\ ~pend.located
      BY <2>1, <2>4, ChildRowHasChild, ChildIsUnanswered DEF RewrittenFile
    <3> QED BY <3>1
  <2>5. CASE LostFile(r)
    BY <2>1, <2>5 DEF LostFile
  <2>6. CASE CreatedFile(r)
    BY <2>6 DEF CreatedFile
  <2> QED BY <1>2, <2>1, <2>3, <2>4, <2>5, <2>6
<1>9. Counted'
  BY <1>1, <1>3 DEF Counted
<1>10. AnswersAreTrue'
  <2>1. ASSUME NEW r \in Runs, NEW says,
               ~(InExchange(r) /\ pend.state = "begun"),
               child[r] # "none" => says["task"] = "error" /\ faults > 0
        PROVE  StaysTrue(r, says)
    <3>1. ~CreatedFile(r)
      BY <2>1 DEF CreatedFile
    <3>2. RewrittenFile(r) => says["task"] = "error" /\ faults > 0
      BY <2>1, ChildRowHasChild DEF RewrittenFile
    <3> QED BY <1>1, <1>2, <2>1, <3>1, <3>2, Names DEF LostFile, StaysTrue
  <2>2. pend.state = "ready" => pend.run \in Runs /\ StaysTrue(pend.run, pend.answers)
    <3> SUFFICES ASSUME pend.state = "ready", NEW r, r = pend.run
                 PROVE  r \in Runs /\ StaysTrue(r, pend.answers)
      OBVIOUS
    <3>1. r \in Runs /\ InExchange(r)
      BY ExchangeOfRun, NoExchangeHasNoState DEF InExchange
    <3>2. child[r] # "none" => pend.answers["task"] = "error" /\ faults > 0
      BY <3>1, ChildIsUnanswered
    <3> QED BY <2>1, <3>1, <3>2
  <2>5. ASSUME NEW i \in DOMAIN Visible(Session), Visible(Session)[i].kind = "exchange"
        PROVE  StaysTrue(Visible(Session)[i].run, Visible(Session)[i].says)
    <3>1. PICK f : f = Visible(Session)[i]
      OBVIOUS
    <3>2. f.run \in Runs /\ ~InExchange(f.run)
      BY <2>5, <3>1, SummaryIsFrame DEF Recorded, Happened
    <3>3. child[f.run] # "none" => f.says["task"] = "error" /\ faults > 0
      BY <2>5, <3>1, <3>2, ToldAnError
    <3> QED BY <2>1, <3>1, <3>2, <3>3
  <2>3. Visible(Session)' = Visible(Session) \/ Visible(Session)' = <<>>
    BY <1>3
  <2>4. pend' = pend
    BY <1>1
  <2> HIDE DEF Durable
  <2>6. AnswersAreTrue /\ Recorded
    BY DEF Durable
  <2> QED BY <2>2, <2>3, <2>4, <2>5, <2>6, AnswersStayTrue
<1>11. FactsInOrder'
  BY <1>3 DEF FactsInOrder
<1> QED BY <1>4, <1>5, <1>6, <1>7, <1>8, <1>9, <1>10, <1>11

-----------------------------------------------------------------------------
(* ---- steps that change rows and no file -----------------------------------*)
FilesStay == head'.generation = head.generation /\ UNCHANGED <<body, childBody>>

\* No file is touched and the session stays with its own.
LEMMA SameFiles ==
  ASSUME FilesStay
  PROVE  \A o \in Owners : KeptFile(o)
BY DEF FilesStay, KeptFile, HasFile, FileOf

\* Without a step of the append readers of the session see what they saw.
LEMMA SameView ==
  ASSUME \A o \in Owners : KeptFile(o), row'[Session] = row[Session]
  PROVE  Visible(Session)' = Visible(Session) /\ HasFile(Session)' = HasFile(Session)
BY Names DEF KeptFile, Visible, Prefix

\* What a staged append needs stays there while its row and its file stay.
LEMMA RowStays ==
  ASSUME NEW o \in Owners, row[o] # NoRow, row'[o] = row[o], KeptFile(o), Rows,
         head'.generation = head.generation, Stageable(o, row[o].frame)'
  PROVE  /\ Stageable(o, row[o].frame)'
         /\ o = Session => HasFile(Session)' /\ row'[o].generation = head'.generation
         /\ HasFile(o)' => Reconcilable(o)'
<1>1. /\ o = Session => HasFile(Session) /\ row[o].generation = head.generation
      /\ HasFile(o) => Reconcilable(o)
  BY DEF Rows
<1>2. o = Session => HasFile(Session)' = HasFile(Session)
  BY DEF KeptFile
<1>3. HasFile(o)' => Reconcilable(o)'
  BY <1>1 DEF KeptFile, Reconcilable, Staged
<1> QED BY <1>1, <1>2, <1>3

\* Told answers are not disturbed by what happens to calls of an exchange that has begun.
LEMMA ToldIsOver ==
  ASSUME Recorded, NEW r, Told(r)
  PROVE  r \in Runs /\ ~InExchange(r) /\ input[r] = "committed"
<1>1. PICK i \in DOMAIN Visible(Session) :
        Visible(Session)[i].kind = "exchange" /\ Visible(Session)[i].run = r
  BY DEF Told
<1>2. Visible(Session)[i] # Summary /\ Happened(Visible(Session)[i])
  BY <1>1, SummaryIsFrame DEF Recorded
<1> QED BY <1>1, <1>2 DEF Happened

\* Staging an append that can be finished changes nothing readers see.
LEMMA StageKeeps ==
  ASSUME StagedTypeOK, Durable, NEW o \in Owners, NEW f \in Frames, Stageable(o, f),
         CanStage(o), row' = [row EXCEPT ![o] = StagedRow(f, Len(FileOf(o)), head.generation)],
         FilesStay, UNCHANGED <<head, input, run, pend, child, effects, loaded, live>>, FaultsStay
  PROVE  /\ Durable' /\ Visible(Session)' = Visible(Session)
         /\ row[o] = NoRow /\ row'[o] # NoRow /\ row'[o].frame = f
         /\ \A x \in Owners : x # o => row'[x] = row[x]
<1> USE DEF Durable
<1>1. /\ row[o] = NoRow /\ HasFile(o) /\ row'[o] = StagedRow(f, Len(FileOf(o)), head.generation)
      /\ \A x \in Owners : x # o => row'[x] = row[x]
  BY DEF CanStage, StagedTypeOK
<1>2. /\ row'[o] # NoRow /\ row'[o].frame = f /\ row'[o].base = Len(FileOf(o))
      /\ row'[o].generation = head.generation
  BY <1>1 DEF NoRow, StagedRow
<1>3. \A x \in Owners : KeptFile(x)
  BY SameFiles
<1>4. FileOf(o) \in Seq(Frames)
  BY FilesHoldFrames
<1>5. Visible(Session)' = Visible(Session) /\ HasFile(Session)' = HasFile(Session)
  <2>1. CASE o # Session
    BY <1>1, <1>3, <2>1, Names, SameView
  <2>2. CASE o = Session
    <3>1. Visible(Session) = FileOf(Session)
      BY <1>1, <2>2, VisibleAtRest
    <3>2. Visible(Session)' = SubSeq(FileOf(Session), 1, Len(FileOf(Session)))
      BY <1>2, <1>3, <2>2 DEF Visible, Prefix, KeptFile
    <3>3. SubSeq(FileOf(Session), 1, Len(FileOf(Session))) = FileOf(Session)
      BY <1>4, <2>2, CutAtEnd
    <3> QED BY <1>3, <2>2, <3>1, <3>2, <3>3 DEF KeptFile
  <2> QED BY <2>1, <2>2
<1>16. \A r \in Runs : Alone(r) => Alone(r)'
  BY <1>1 DEF Alone, NoRow
<1>6. Rows'
  <2> SUFFICES ASSUME NEW x \in Owners, row'[x] # NoRow
               PROVE  /\ Stageable(x, row[x].frame)'
                      /\ x = Session => HasFile(Session)' /\ row'[x].generation = head'.generation
                      /\ HasFile(x)' => Reconcilable(x)'
    BY DEF Rows
  <2>1. CASE x # o
    <3>1. row'[x] = row[x] /\ row[x] # NoRow
      BY <1>1, <2>1
    <3>2. PICK g : g = row[x].frame
      OBVIOUS
    <3>3. Stageable(x, g)'
      BY <1>16, <3>1, <3>2, StageableStays DEF Rows
    <3>4. Stageable(x, row[x].frame)'
      BY <3>1, <3>2, <3>3
    <3> QED BY <1>3, <3>1, <3>4, RowStays DEF FilesStay
  <2>2. CASE x = o
    <3>1. Stageable(o, f)'
      BY <1>16, StageableStays
    <3>2. Stageable(o, row[o].frame)'
      BY <1>2, <3>1
    <3>3. HasFile(o)'
      BY <1>1, <1>3 DEF KeptFile
    <3>4. Reconcilable(o)'
      <4>1. FileOf(o)' = FileOf(o)
        BY <1>3 DEF KeptFile
      <4>2. Staged(o)' = <<>>
        BY <1>2, <1>4, <4>1, CutAtEnd DEF Staged
      <4>3. Len(FileOf(o)') >= row'[o].base
        BY <1>2, <1>4, <4>1
      <4> QED BY <3>3, <4>2, <4>3 DEF Reconcilable
    <3> QED BY <1>2, <2>2, <3>2, <3>3, <3>4 DEF FilesStay
  <2> QED BY <2>1, <2>2
<1>7. \A r \in Runs : HasFile(r)' = HasFile(r) /\ FileOf(r)' = FileOf(r)
  BY <1>3, Names DEF KeptFile
<1>8. Controls'
  <2>1. \A r \in Runs : loaded' /\ child[r] # "none" => HasFile(r)'
    BY <1>7 DEF Controls
  <2> QED BY <1>5, <2>1, ControlsStay
<1>9. Recorded'
  <2>1. \A r : Told(r)' = Told(r) /\ InExchange(r)' = InExchange(r)
    BY <1>5 DEF Told, InExchange
  <2> QED BY <1>5, <2>1 DEF Recorded, Happened
<1>10. Beginnings'
  <2>1. \A r \in Runs : Untouched(r)' = Untouched(r) /\ Told(r)' = Told(r)
                        /\ InExchange(r)' = InExchange(r)
    BY <1>5, <1>7 DEF Untouched, Told, InExchange
  <2>2. pend # NoExchange => HasFile(pend.run)' = HasFile(pend.run)
    <3>1. pend # NoExchange => pend.run \in Runs
      BY ExchangeOfRun
    <3> QED BY <1>7, <3>1
  <2>3. live' = live /\ (live # Nobody => live \in Runs)
    BY DEF StagedTypeOK
  <2>4. live' # Nobody => Untouched(live)' \/ InExchange(live)' \/ Told(live)'
    BY <2>1, <2>3 DEF Beginnings
  <2> QED BY <2>1, <2>2, <2>4 DEF Beginnings
<1>11. ChildFiles'
  <2>1. pend # NoExchange => pend.run \in Runs
    BY ExchangeOfRun
  <2>2. pend # NoExchange => HasFile(pend.run)' = HasFile(pend.run)
                             /\ FileOf(pend.run)' = FileOf(pend.run)
    BY <1>7, <2>1
  <2> QED BY <2>1, <2>2 DEF ChildFiles
<1>12. Counted'
  BY <1>5 DEF Counted, FilesStay
<1>13. AnswersAreTrue'
  <2>1. \A r \in Runs : \A says : StaysTrue(r, says)
    BY <1>3, Names DEF StaysTrue
  <2>2. pend.state = "ready" => pend.run \in Runs /\ StaysTrue(pend.run, pend.answers)
    BY <2>1, ExchangeOfRun, NoExchangeHasNoState
  <2>4. \A i \in DOMAIN Visible(Session) : Visible(Session)[i].kind = "exchange" =>
           StaysTrue(Visible(Session)[i].run, Visible(Session)[i].says)
    BY <2>1, SummaryIsFrame DEF Recorded, Happened
  <2>3. AnswersAreTrue /\ Recorded /\ pend' = pend
    BY DEF Durable
  <2> HIDE DEF Durable
  <2> QED BY <1>5, <2>2, <2>3, <2>4, AnswersStayTrue
<1>14. FactsInOrder'
  BY <1>5 DEF FactsInOrder
<1> HIDE DEF Durable
<1>15. Durable'
  BY <1>6, <1>8, <1>9, <1>10, <1>11, <1>12, <1>13, <1>14 DEF Durable
<1> QED BY <1>1, <1>2, <1>5, <1>15

\* The effects of a finalized append of the session, in one piece: the run of the frame has
\* its input committed; it is running, or settled; its exchange is over.
SessionEffect(f) ==
  /\ head' = [generation |-> head.generation, count |-> head.count + f.messages]
  /\ row'[Session] = NoRow
  /\ \A x \in Runs : input'[x] = IF x = f.run THEN "committed" ELSE input[x]
  /\ \A x \in Runs : x # f.run => run'[x] = run[x]
  /\ run'[f.run] = IF f.kind = "settle" THEN "none" ELSE "running"
  /\ pend' = IF f.kind = "exchange" THEN NoExchange ELSE pend
  /\ \A x \in Runs : child'[x] = IF f.kind = "directory" /\ x = f.run THEN "none" ELSE child[x]
  /\ \A x \in Runs : row'[x] = IF f.kind = "directory" /\ x = f.run THEN NoRow ELSE row[x]
  /\ live' \in {live, Nobody} \/ (live' = f.run /\ f.kind = "start")
  /\ UNCHANGED <<body, childBody, effects, loaded, faults>>

\* What held of them before.
SessionReady(f) ==
  /\ f \in Frames /\ f = row[Session].frame /\ f.run \in Runs /\ f # Summary
  /\ f.kind \in {"start", "exchange", "settle", "directory"}
  /\ HasFile(Session) /\ FileOf(Session) = Append(Visible(Session), f)
  /\ f.kind = "start" => run[f.run] = "accepted" /\ input[f.run] = "queued"
  /\ f.kind = "exchange" => /\ pend # NoExchange /\ pend.state = "ready" /\ pend.run = f.run
                            /\ f.says = pend.answers /\ f = ExchangeFrame
                            /\ run[f.run] = "running" /\ input[f.run] = "committed"
  /\ f.kind = "settle" => run[f.run] # "none" /\ child[f.run] = "none" /\ pend = NoExchange
  /\ f.kind = "directory" => /\ child[f.run] # "none" /\ Alone(f.run) /\ ~loaded
                              /\ pend = NoExchange /\ Told(f.run)
                              /\ run[f.run] = "running" /\ input[f.run] = "committed"

\* What the transaction that finishes an append of the session finds and does.
LEMMA FinalizesSession ==
  ASSUME StagedTypeOK, Durable, Position, Finalize(Session)
  PROVE  SessionEffect(row[Session].frame) /\ SessionReady(row[Session].frame)
<1> DEFINE f == row[Session].frame
<1>1. at = At("finalize", Session) /\ at.do = "finalize" /\ at.who = Session
  BY DEF Finalize, At
<1>2. /\ row[Session] # NoRow /\ HasFile(Session)
      /\ FileOf(Session) = Append(Prefix(Session), row[Session].frame)
  BY <1>1 DEF Position
<1>3. Visible(Session) = Prefix(Session)
  BY <1>2 DEF Visible
<1>4. f \in Frames /\ Stageable(Session, f)
  BY <1>2, Names, RowsHoldFrames DEF Durable, Rows
<1>5. /\ Applies(Session, f) /\ Effect(Session, f)
      /\ row' = IF f.kind = "directory"
                THEN [row EXCEPT ![Session] = NoRow, ![f.run] = NoRow]
                ELSE [row EXCEPT ![Session] = NoRow]
      /\ head' = [head EXCEPT !.count = @ + f.messages]
      /\ UNCHANGED <<body, childBody, effects, loaded, faults>>
  BY DEF Finalize, Succeeded, files
<1> HIDE DEF f
<1>6. f.run \in Runs /\ f.kind \in {"start", "exchange", "settle", "directory"}
      /\ (f.kind = "exchange" => f = ExchangeFrame)
  BY <1>4 DEF Stageable
<1>7. /\ f.kind = "start" => run[f.run] = "accepted" /\ input[f.run] = "queued"
      /\ f.kind = "exchange" => pend.state = "ready" /\ pend.run = f.run
      /\ f.kind = "settle" => run[f.run] # "none" /\ child[f.run] = "none" /\ pend = NoExchange
  BY <1>5, <1>6 DEF Applies
<1>8. f.kind = "exchange" => /\ pend # NoExchange /\ f.says = pend.answers
                             /\ run[f.run] = "running" /\ input[f.run] = "committed"
  BY <1>6, <1>7, NoExchangeHasNoState DEF ExchangeFrame, Frame, Durable, Controls
<1>17. f.kind = "directory" => /\ child[f.run] # "none" /\ Alone(f.run) /\ ~loaded
                               /\ pend = NoExchange /\ Told(f.run)
                               /\ run[f.run] = "running" /\ input[f.run] = "committed"
  <2> SUFFICES ASSUME f.kind = "directory"
               PROVE  /\ child[f.run] # "none" /\ Alone(f.run) /\ ~loaded
                      /\ pend = NoExchange /\ Told(f.run)
                      /\ run[f.run] = "running" /\ input[f.run] = "committed"
    OBVIOUS
  <2>1. child[f.run] # "none" /\ Alone(f.run)
    BY <1>5 DEF Applies
  <2>2. row[f.run] # NoRow /\ row[f.run].frame.kind = "alone"
    BY <2>1 DEF Alone
  <2>3. /\ ~loaded /\ pend = NoExchange /\ run[f.run] = "running"
        /\ Delegating(f.run) \/ LeftBehind(f.run)
    BY <1>6, <2>2, ChildRowHasChild DEF Durable
  <2>4. GivenUp(f.run)
    BY <1>2, <2>3 DEF Delegating, LeftBehind
  <2>5. Told(f.run)
    BY <2>4 DEF GivenUp, Told
  <2> QED BY <1>6, <2>1, <2>3, <2>5 DEF Durable, Controls
<1>9. SessionReady(f)
  BY <1>2, <1>3, <1>4, <1>6, <1>7, <1>8, <1>17, FactIsNoSummary DEF SessionReady, f
<1>10. /\ input' = IF f.kind \in {"start", "settle"}
                   THEN [input EXCEPT ![f.run] = "committed"] ELSE input
       /\ pend' = IF f.kind = "exchange" THEN NoExchange ELSE pend
       /\ child' = IF f.kind = "directory" THEN [child EXCEPT ![f.run] = "none"] ELSE child
  BY <1>5 DEF Effect
<1>11. run' = IF f.kind = "start" THEN [run EXCEPT ![f.run] = "running"]
              ELSE IF f.kind = "settle" THEN [run EXCEPT ![f.run] = "none"]
              ELSE run
  BY <1>5, <1>6 DEF Effect
<1>12. live' \in {live, Nobody} \/ (live' = f.run /\ f.kind = "start")
  BY <1>5, <1>6 DEF Effect
<1>13. \A x \in Runs : input'[x] = IF x = f.run THEN "committed" ELSE input[x]
  BY <1>6, <1>8, <1>10, <1>17 DEF StagedTypeOK
<1>14. /\ \A x \in Runs : x # f.run => run'[x] = run[x]
       /\ run'[f.run] = IF f.kind = "settle" THEN "none" ELSE "running"
  BY <1>6, <1>8, <1>11, <1>17 DEF StagedTypeOK
<1>18. /\ \A x \in Runs : child'[x] = IF f.kind = "directory" /\ x = f.run THEN "none" ELSE child[x]
       /\ \A x \in Runs : row'[x] = IF f.kind = "directory" /\ x = f.run THEN NoRow ELSE row[x]
       /\ row'[Session] = NoRow
  <2>1. Session \in Owners /\ \A x \in Runs : x \in Owners /\ x # Session
    BY Names
  <2>2. /\ child \in [Runs -> {"none", "accepted", "running"}]
        /\ DOMAIN row = Owners
    BY DEF StagedTypeOK
  <2> QED BY <1>5, <1>6, <1>10, <2>1, <2>2
<1>15. head' = [generation |-> head.generation, count |-> head.count + f.messages]
  BY <1>5 DEF StagedTypeOK
<1>16. SessionEffect(f)
  BY <1>5, <1>10, <1>12, <1>13, <1>14, <1>15, <1>18 DEF SessionEffect
<1> QED BY <1>9, <1>16 DEF f

\* Then readers see one fact more.
LEMMA FinalizePublishes ==
  ASSUME StagedTypeOK, NEW f, SessionEffect(f), SessionReady(f)
  PROVE  /\ \A o \in Owners : KeptFile(o)
         /\ Visible(Session)' = Append(Visible(Session), f)
<1>1. row'[Session] = NoRow
  BY DEF SessionEffect
<1>2. \A o \in Owners : KeptFile(o)
  BY SameFiles DEF SessionEffect, FilesStay
<1>3. Visible(Session)' = FileOf(Session)
  BY <1>1, <1>2, Names DEF Visible, KeptFile
<1> QED BY <1>1, <1>2, <1>3 DEF SessionReady

\* What a child can stage does not depend on the rows of runs and inputs.
LEMMA StageableForChildStays ==
  ASSUME NEW r \in Runs, NEW f, Stageable(r, f), child'[r] = child[r],
         pend' = NoExchange \/ pend # NoExchange, loaded' => loaded
  PROVE  Stageable(r, f)'
<1>1. /\ f.whole /\ f.run \in Runs /\ f.run = r /\ f.kind \in {"start", "settle", "alone"}
      /\ child[r] # "none" /\ (f.kind = "start" => child[r] = "accepted")
      /\ (f.kind = "settle" => f.says["task"] \in Outcomes)
      /\ (f.kind = "alone" => pend = NoExchange /\ ~loaded)
  BY Names DEF Stageable
<1> QED BY <1>1, Names DEF Stageable

\* The effects of a finished append agree with what the file then tells.
LEMMA FinalizeSessionKeeps ==
  ASSUME StagedTypeOK, Durable, NEW f, SessionEffect(f), SessionReady(f)
  PROVE  Durable'
<1> DEFINE V == Visible(Session)
<1>1. /\ row'[Session] = NoRow
      /\ \A x \in Runs : row'[x] = IF f.kind = "directory" /\ x = f.run THEN NoRow ELSE row[x]
      /\ \A o \in Owners : KeptFile(o)
      /\ Visible(Session)' = Append(V, f)
  BY FinalizePublishes DEF SessionEffect
<1>2. Controls /\ Rows /\ Recorded /\ Beginnings /\ ChildFiles /\ Counted /\ AnswersAreTrue
      /\ FactsInOrder
  BY DEF Durable
<1>3. V \in Seq(Frames) /\ f \in Frames
  BY <1>2, VisibleHoldsFrames DEF SessionReady
<1>4. /\ DOMAIN Append(V, f) = (DOMAIN V) \cup {Len(V) + 1}
      /\ \A i \in DOMAIN V : Append(V, f)[i] = V[i]
      /\ Append(V, f)[Len(V) + 1] = f
      /\ DOMAIN V = 1..Len(V) /\ Len(V) \in Nat
  BY <1>3, AppendIsWriting
<1>5. /\ \A r \in Runs : HasFile(r)' = HasFile(r) /\ FileOf(r)' = FileOf(r)
      /\ HasFile(Session)' = HasFile(Session)
  BY <1>1, Names DEF KeptFile
<1>6. /\ f.run \in Runs /\ f.kind \in {"start", "exchange", "settle", "directory"} /\ f # Summary
      /\ f.kind = "start" => run[f.run] = "accepted" /\ input[f.run] = "queued"
      /\ f.kind = "exchange" => /\ pend # NoExchange /\ pend.state = "ready" /\ pend.run = f.run
                                /\ f.says = pend.answers
                                /\ run[f.run] = "running" /\ input[f.run] = "committed"
      /\ f.kind = "settle" => run[f.run] # "none" /\ child[f.run] = "none" /\ pend = NoExchange
      /\ f.kind = "directory" => /\ child[f.run] # "none" /\ ~loaded /\ pend = NoExchange
                                 /\ Told(f.run)
                                 /\ run[f.run] = "running" /\ input[f.run] = "committed"
  BY DEF SessionReady
<1>7. /\ \A x \in Runs : input'[x] = IF x = f.run THEN "committed" ELSE input[x]
      /\ \A x \in Runs : x # f.run => run'[x] = run[x]
      /\ run'[f.run] = IF f.kind = "settle" THEN "none" ELSE "running"
      /\ pend' = IF f.kind = "exchange" THEN NoExchange ELSE pend
      /\ live' \in {live, Nobody} \/ (live' = f.run /\ f.kind = "start")
      /\ \A x \in Runs : child'[x] = IF f.kind = "directory" /\ x = f.run THEN "none"
                                    ELSE child[x]
      /\ UNCHANGED <<effects, loaded, faults>>
      /\ head' = [generation |-> head.generation, count |-> head.count + f.messages]
  BY DEF SessionEffect
<1> HIDE DEF V
<1>8. /\ \A r : GivenUp(r) => GivenUp(r)'
      /\ f.kind = "exchange" /\ f.says["task"] = "error" => GivenUp(f.run)'
  <2>1. ASSUME NEW r, GivenUp(r) PROVE GivenUp(r)'
    <3>1. PICK i \in DOMAIN V : V[i].kind = "exchange" /\ V[i].run = r
                                /\ V[i].says["task"] = "error"
      BY <2>1 DEF GivenUp, V
    <3>2. i \in DOMAIN Append(V, f) /\ Append(V, f)[i] = V[i]
      BY <1>4, <3>1
    <3> QED BY <1>1, <3>1, <3>2 DEF GivenUp
  <2>2. ASSUME f.kind = "exchange", f.says["task"] = "error" PROVE GivenUp(f.run)'
    <3>1. Len(V) + 1 \in DOMAIN Append(V, f) /\ Append(V, f)[Len(V) + 1] = f
      BY <1>4
    <3> QED BY <1>1, <2>2, <3>1 DEF GivenUp
  <2> QED BY <2>1, <2>2
<1>9. Controls'
  <2>1. \A r \in Runs : /\ run'[r] = "accepted" => input'[r] = "queued"
                        /\ run'[r] = "running" => input'[r] = "committed"
    BY <1>2, <1>6, <1>7 DEF Controls
  <2>2. pend' # NoExchange => /\ run'[pend'.run] = "running"
                              /\ pend'.located => "task" \in pend'.started
    <3> SUFFICES ASSUME pend' # NoExchange, pend' = pend
                 PROVE  run'[pend.run] = "running" /\ (pend.located => "task" \in pend.started)
      BY <1>7
    <3>1. run[pend.run] = "running" /\ pend.run \in Runs
          /\ (pend.located => "task" \in pend.started)
      BY <1>2, ExchangeOfRun DEF Controls
    <3> QED BY <1>6, <1>7, <3>1
  <2>3. ASSUME NEW r \in Runs, child'[r] # "none"
        PROVE  /\ run'[r] = "running" /\ (Delegating(r) \/ LeftBehind(r))'
               /\ (InExchange(r) /\ pend.state = "begun")' \/ faults' > 0
               /\ loaded' => HasFile(r)'
    <3>1. child[r] # "none" /\ ~(f.kind = "directory" /\ r = f.run)
      BY <1>7, <2>3
    <3>2. /\ run[r] = "running" /\ (Delegating(r) \/ LeftBehind(r))
          /\ (InExchange(r) /\ pend.state = "begun") \/ faults > 0
          /\ loaded => HasFile(r)
      BY <1>2, <3>1 DEF Controls
    <3>3. run'[r] = "running"
      BY <1>6, <1>7, <3>1, <3>2
    <3>4. CASE f.kind = "exchange"
      <4>1. Delegating(r) /\ r = f.run /\ faults > 0 /\ GivenUp(r)' /\ pend' = NoExchange
        BY <1>6, <1>7, <1>8, <3>2, <3>4 DEF Delegating, LeftBehind, InExchange
      <4> QED BY <1>5, <1>7, <3>2, <3>3, <4>1 DEF LeftBehind
    <3>5. CASE f.kind # "exchange"
      <4>1. pend' = pend
        BY <1>7, <3>5
      <4>2. Delegating(r) => Delegating(r)'
        BY <4>1 DEF Delegating
      <4>3. LeftBehind(r) => LeftBehind(r)'
        <5>1. HasFile(Session)
          BY DEF SessionReady
        <5> QED BY <1>8, <4>1, <5>1 DEF LeftBehind
      <4>4. (InExchange(r) /\ pend.state = "begun")' = (InExchange(r) /\ pend.state = "begun")
        BY <4>1 DEF InExchange
      <4> QED BY <1>5, <1>7, <3>2, <3>3, <4>2, <4>3, <4>4
    <3> QED BY <3>4, <3>5
  <2> HIDE DEF Delegating, LeftBehind, InExchange
  <2> QED BY <2>1, <2>2, <2>3 DEF Controls
<1>10. Rows'
  <2> SUFFICES ASSUME NEW o \in Owners, row'[o] # NoRow
               PROVE  /\ Stageable(o, row[o].frame)'
                      /\ o = Session => HasFile(Session)' /\ row'[o].generation = head'.generation
                      /\ HasFile(o)' => Reconcilable(o)'
    BY DEF Rows
  <2>1. o \in Runs /\ o # Session /\ row'[o] = row[o] /\ row[o] # NoRow
    BY <1>1, Names
  <2>2. child'[o] = child[o] /\ (pend' = NoExchange \/ pend # NoExchange) /\ loaded' = loaded
    BY <1>1, <1>7, <2>1
  <2>3. PICK g : g = row[o].frame
    OBVIOUS
  <2>4. Stageable(o, g)'
    BY <1>2, <2>1, <2>2, <2>3, StageableForChildStays DEF Rows
  <2>5. Stageable(o, row[o].frame)'
    BY <2>1, <2>3, <2>4
  <2> QED BY <1>1, <1>2, <1>7, <2>1, <2>5, RowStays
<1>12. \A r : Told(r) => Told(r)'
  <2> SUFFICES ASSUME NEW r, Told(r) PROVE Told(r)'
    OBVIOUS
  <2>1. PICK i \in DOMAIN V : V[i].kind = "exchange" /\ V[i].run = r
    BY DEF Told, V
  <2>2. i \in DOMAIN Append(V, f) /\ Append(V, f)[i] = V[i]
    BY <1>4, <2>1
  <2> QED BY <1>1, <2>1, <2>2 DEF Told
<1>11. Recorded'
  <2>1. ASSUME NEW g, Happened(g) PROVE Happened(g)'
    <3> SUFFICES ASSUME g # Summary PROVE Happened(g)'
      BY DEF Happened
    <3>1. /\ g.run \in Runs /\ g.kind \in {"start", "exchange", "settle", "directory"}
          /\ g.kind = "directory" => child[g.run] = "none" /\ Told(g.run)
          /\ input[g.run] = "committed"
          /\ g.kind = "settle" => run[g.run] = "none"
          /\ g.kind = "exchange" => ~InExchange(g.run)
      BY <2>1 DEF Happened
    <3>2. input'[g.run] = "committed"
      BY <1>7, <3>1
    <3>3. g.kind = "settle" => run'[g.run] = "none"
      BY <1>6, <1>7, <3>1
    <3>4. g.kind = "exchange" => ~InExchange(g.run)'
      BY <1>7, <3>1 DEF InExchange
    <3>5. g.kind = "directory" => child'[g.run] = "none" /\ Told(g.run)'
      BY <1>7, <1>12, <3>1
    <3> QED BY <3>1, <3>2, <3>3, <3>4, <3>5 DEF Happened
  <2>2. Happened(f)'
    <3>1. f.kind = "directory" => child'[f.run] = "none" /\ Told(f.run)'
      BY <1>6, <1>7, <1>12
    <3> QED BY <1>6, <1>7, <3>1 DEF Happened, InExchange
  <2>3. \A i \in DOMAIN V : Happened(V[i])
    BY <1>2 DEF Recorded, V
  <2>4. \A i \in DOMAIN Append(V, f) : Append(V, f)[i] = f \/ \E j \in DOMAIN V : Append(V, f)[i] = V[j]
    BY <1>4
  <2>5. ASSUME NEW i \in DOMAIN Append(V, f) PROVE Happened(Visible(Session)[i])'
    <3>1. PICK g : g = Append(V, f)[i]
      OBVIOUS
    <3>2. Happened(g)'
      BY <2>1, <2>2, <2>3, <2>4, <3>1
    <3>3. Visible(Session)'[i] = g
      BY <1>1, <3>1
    <3> QED BY <3>2, <3>3 DEF Happened, InExchange, Told
  <2> QED BY <1>1, <2>5 DEF Recorded
<1>13. f.kind = "exchange" => Told(f.run)'
  <2>1. Len(V) + 1 \in DOMAIN Append(V, f) /\ Append(V, f)[Len(V) + 1] = f
    BY <1>4
  <2> QED BY <1>1, <2>1 DEF Told
<1>14. Beginnings'
  <2>1. \A r \in Runs : Untouched(r)' = Untouched(r)
    BY <1>5, <1>7 DEF Untouched
  <2>2. \A r \in Runs : input'[r] \in {"none", "queued"} => Untouched(r)'
    BY <1>2, <1>7, <2>1 DEF Beginnings
  <2>3. live' # Nobody => Untouched(live)' \/ InExchange(live)' \/ Told(live)'
    <3> SUFFICES ASSUME live' # Nobody, NEW r, r = live'
                 PROVE  Untouched(r)' \/ InExchange(r)' \/ Told(r)'
      OBVIOUS
    <3>1. CASE r = live
      <4>1. r \in Runs /\ live # Nobody
        BY <3>1 DEF StagedTypeOK
      <4>2. Untouched(r) \/ InExchange(r) \/ Told(r)
        BY <1>2, <3>1, <4>1 DEF Beginnings
      <4>3. InExchange(r) => InExchange(r)' \/ Told(r)'
        BY <1>6, <1>7, <1>13 DEF InExchange
      <4> QED BY <1>12, <2>1, <4>1, <4>2, <4>3
    <3>2. CASE r = f.run /\ f.kind = "start"
      BY <1>2, <1>6, <2>1, <3>2 DEF Beginnings
    <3> QED BY <1>7, <3>1, <3>2
  <2>4. pend' # NoExchange => /\ "tool" \notin pend'.started => effects'[pend'.run] = 0
                              /\ "task" \notin pend'.started => ~HasFile(pend.run)'
    <3> SUFFICES ASSUME pend' # NoExchange, pend' = pend
                 PROVE  /\ "tool" \notin pend.started => effects[pend.run] = 0
                        /\ "task" \notin pend.started => ~HasFile(pend.run)'
      BY <1>7
    <3>1. PICK r : r = pend.run
      OBVIOUS
    <3>2. r \in Runs
      BY <3>1, ExchangeOfRun
    <3>3. HasFile(r)' = HasFile(r)
      BY <1>5, <3>2
    <3> QED BY <1>2, <3>1, <3>3 DEF Beginnings
  <2> QED BY <2>2, <2>3, <2>4 DEF Beginnings
<1>15. ChildFiles'
  <2> SUFFICES ASSUME pend' # NoExchange, pend' = pend PROVE ChildFiles'
    BY <1>7 DEF ChildFiles
  <2>1. PICK r : r = pend.run
    OBVIOUS
  <2>2. r \in Runs
    BY <2>1, ExchangeOfRun
  <2>3. HasFile(r)' = HasFile(r) /\ FileOf(r)' = FileOf(r) /\ child'[r] = child[r]
    BY <1>5, <1>6, <1>7, <2>2
  <2> QED BY <1>2, <1>7, <2>1, <2>3 DEF ChildFiles
<1>16. Counted'
  <2>1. Messages(Append(V, f)) = Messages(V) + f.messages
    BY <1>3, MessagesOfAppend
  <2>2. head.count = Messages(V)
    BY <1>2 DEF Counted, SessionReady, V
  <2> QED BY <1>1, <1>7, <2>1, <2>2 DEF Counted
<1>17. AnswersAreTrue'
  <2>1. \A r \in Runs : \A says : StaysTrue(r, says)
    BY <1>1, <1>7, Names DEF StaysTrue, FaultsStay
  <2>2. \A r \in Runs : \A says : Truthful(r, says) => Truthful(r, says)'
    BY <2>1, TruthStays
  <2>3. pend'.state = "ready" => Truthful(pend.run, pend.answers)'
    <3> SUFFICES ASSUME pend'.state = "ready" PROVE Truthful(pend.run, pend.answers)'
      OBVIOUS
    <3>1. pend' = pend
      BY <1>7 DEF NoExchange
    <3>2. pend.run \in Runs /\ Truthful(pend.run, pend.answers)
      BY <1>2, <3>1, ExchangeOfRun, NoExchangeHasNoState DEF AnswersAreTrue
    <3>3. PICK r, says : r = pend.run /\ says = pend.answers
      OBVIOUS
    <3>4. Truthful(r, says)'
      BY <2>2, <3>2, <3>3
    <3> QED BY <3>1, <3>3, <3>4
  <2>4. ASSUME NEW g, g.kind = "exchange", g = f \/ \E j \in DOMAIN V : g = V[j]
        PROVE  Truthful(g.run, g.says)'
    <3>1. CASE g = f
      <4>1. Truthful(g.run, g.says)
        BY <1>2, <1>6, <2>4, <3>1 DEF AnswersAreTrue
      <4> QED BY <1>6, <2>2, <3>1, <4>1
    <3>2. CASE \E j \in DOMAIN V : g = V[j]
      <4>1. Happened(g) /\ g # Summary /\ Truthful(g.run, g.says)
        BY <1>2, <2>4, <3>2, SummaryIsFrame DEF Recorded, AnswersAreTrue, V
      <4> QED BY <2>2, <4>1 DEF Happened
    <3> QED BY <2>4, <3>1, <3>2
  <2>5. ASSUME NEW i \in DOMAIN Append(V, f), Append(V, f)[i].kind = "exchange"
        PROVE  Truthful(Visible(Session)[i].run, Visible(Session)[i].says)'
    <3>1. PICK g : g = Append(V, f)[i]
      OBVIOUS
    <3>2. g = f \/ \E j \in DOMAIN V : g = V[j]
      BY <1>4, <3>1
    <3>3. Truthful(g.run, g.says)'
      BY <2>4, <2>5, <3>1, <3>2
    <3> QED BY <1>1, <3>1, <3>3
  <2> QED BY <1>1, <2>3, <2>5 DEF AnswersAreTrue
<1>18. FactsInOrder'
  <2> SUFFICES ASSUME NEW i \in DOMAIN Append(V, f), NEW j \in DOMAIN Append(V, f), i < j,
                      Append(V, f)[i].run = Append(V, f)[j].run,
                      Append(V, f)[i] # Summary, Append(V, f)[j] # Summary
               PROVE  Place(Append(V, f)[i]) < Place(Append(V, f)[j])
    BY <1>1 DEF FactsInOrder, Place
  <2>1. i \in DOMAIN V /\ Append(V, f)[i] = V[i]
    BY <1>4
  <2>2. CASE j \in DOMAIN V
    BY <1>2, <1>4, <2>1, <2>2 DEF FactsInOrder, V
  <2>3. CASE j = Len(V) + 1
    <3>1. Append(V, f)[j] = f /\ V[i].run = f.run /\ Happened(V[i])
      BY <1>2, <1>4, <2>1, <2>3 DEF Recorded, V
    <3>2. /\ V[i].kind \in {"start", "exchange", "settle", "directory"}
          /\ input[f.run] = "committed"
          /\ V[i].kind = "directory" => child[f.run] = "none" /\ ~InExchange(f.run)
          /\ V[i].kind = "settle" => run[f.run] = "none"
          /\ V[i].kind = "exchange" => ~InExchange(f.run)
      BY <1>2, <2>1, <3>1, ToldIsOver DEF Happened
    <3>3. \/ V[i].kind = "start" /\ f.kind \in {"exchange", "settle", "directory"}
          \/ V[i].kind = "exchange" /\ f.kind \in {"directory", "settle"}
          \/ V[i].kind = "directory" /\ f.kind = "settle"
      BY <1>6, <3>2 DEF InExchange
    <3>4. Place(V[i]) < Place(f)
      BY <3>3 DEF Place
    <3> QED BY <2>1, <3>1, <3>4
  <2> QED BY <1>4, <2>2, <2>3
<1> QED BY <1>9, <1>10, <1>11, <1>14, <1>15, <1>16, <1>17, <1>18 DEF Durable

\* Steps of an exchange or of a child: they keep the run, what the exchange has marked and
\* answered, and every file; and rows stay, or are finished.
ExchangeStep ==
  /\ \/ pend' = pend
     \/ /\ pend # NoExchange /\ pend' # NoExchange /\ pend'.run = pend.run
        /\ pend.started \subseteq pend'.started
        /\ \/ pend.state = "begun"
           \/ pend'.state = pend.state /\ pend'.answers = pend.answers
  /\ \A r \in Runs : child[r] = "none" => child'[r] = "none" \/ InExchange(r)
  /\ \A r \in Runs : Alone(r) => Alone(r)' /\ child'[r] = child[r]
  /\ UNCHANGED <<head, body, childBody, input, run, effects, loaded, live>>
  /\ row'[Session] = row[Session]
  /\ FaultsStay

\* What happens to an exchange and its child does not matter to what is staged for the
\* session.
LEMMA StageableInExchange ==
  ASSUME NEW f, Stageable(Session, f), ExchangeStep
  PROVE  Stageable(Session, f)'
<1>1. /\ f.whole /\ f.run \in Runs /\ f.kind \in {"start", "exchange", "settle", "directory"}
      /\ Applies(Session, f) /\ (f.kind = "directory" => f = Directory(f.run))
      /\ (f.kind = "exchange" => f = ExchangeFrame)
  BY DEF Stageable
<1>2. f.kind = "exchange" => f = ExchangeFrame' /\ pend'.state = "ready" /\ pend'.run = f.run
  BY <1>1 DEF Applies, ExchangeFrame, ExchangeStep
<1>3. f.kind = "settle" => run'[f.run] # "none" /\ child'[f.run] = "none" /\ pend' = NoExchange
  BY <1>1 DEF Applies, ExchangeStep, InExchange
<1>4. f.kind = "directory" => Alone(f.run)' /\ child'[f.run] # "none"
  BY <1>1 DEF Applies, ExchangeStep
<1>5. f.kind = "start" => run'[f.run] = "accepted" /\ input'[f.run] = "queued"
  BY <1>1 DEF Applies, ExchangeStep
<1>6. Applies(Session, f)'
  BY <1>1, <1>2, <1>3, <1>4, <1>5 DEF Applies
<1> QED BY <1>1, <1>2, <1>6 DEF Stageable, Directory

\* Steps within an exchange leave history, counts and files alone.
LEMMA ExchangeStepKeeps ==
  ASSUME StagedTypeOK, Durable, ExchangeStep
  PROVE  /\ Recorded' /\ Beginnings' /\ Counted' /\ FactsInOrder'
         /\ Visible(Session)' = Visible(Session)
         /\ \A o \in Owners : KeptFile(o)
         /\ \A r : InExchange(r)' = InExchange(r) /\ LeftBehind(r)' = LeftBehind(r)
<1> USE DEF Durable
<1>1. \A o \in Owners : KeptFile(o)
  BY SameFiles DEF ExchangeStep, FilesStay
<1>2. Visible(Session)' = Visible(Session) /\ HasFile(Session)' = HasFile(Session)
  BY <1>1, SameView DEF ExchangeStep
<1>3. \A r : InExchange(r)' = InExchange(r) /\ LeftBehind(r)' = LeftBehind(r)
             /\ Told(r)' = Told(r)
  BY <1>2 DEF ExchangeStep, InExchange, LeftBehind, GivenUp, Told
<1>4. Recorded'
  <2>1. ASSUME NEW g, Happened(g) PROVE Happened(g)'
    <3>1. g # Summary /\ g.kind = "directory" => child'[g.run] = "none"
      <4>1. g # Summary /\ g.kind = "directory" => /\ g.run \in Runs /\ child[g.run] = "none"
                                                    /\ ~InExchange(g.run)
        BY <2>1, ToldIsOver DEF Happened
      <4> QED BY <4>1 DEF ExchangeStep
    <3> QED BY <1>3, <2>1, <3>1 DEF Happened, ExchangeStep
  <2>2. ASSUME NEW i \in DOMAIN Visible(Session) PROVE Happened(Visible(Session)[i])'
    <3>1. PICK g : g = Visible(Session)[i]
      OBVIOUS
    <3>2. Happened(g)'
      BY <2>1, <3>1 DEF Recorded
    <3> QED BY <1>2, <3>1, <3>2 DEF Happened, InExchange, Told
  <2> QED BY <1>2, <2>2 DEF Recorded
<1>5. \A r \in Runs : HasFile(r)' = HasFile(r)
  BY <1>1, Names DEF KeptFile
<1>6. Beginnings'
  <2>1. \A r \in Runs : Untouched(r)' = Untouched(r) /\ Told(r)' = Told(r)
    BY <1>2, <1>5 DEF Untouched, Told, ExchangeStep
  <2>2. live' = live /\ (live # Nobody => live \in Runs) /\ input' = input
    BY DEF StagedTypeOK, ExchangeStep
  <2>3. live' # Nobody => Untouched(live)' \/ InExchange(live)' \/ Told(live)'
    BY <1>3, <2>1, <2>2 DEF Beginnings
  <2>4. pend' # NoExchange =>
          /\ "tool" \notin pend'.started => effects'[pend'.run] = 0
          /\ "task" \notin pend'.started => ~HasFile(pend.run)'
    <3> SUFFICES ASSUME pend # NoExchange, pend'.run = pend.run, pend.started \subseteq pend'.started
                 PROVE  /\ "tool" \notin pend'.started => effects'[pend'.run] = 0
                        /\ "task" \notin pend'.started => ~HasFile(pend.run)'
      BY DEF ExchangeStep
    <3>1. PICK r : r = pend.run
      OBVIOUS
    <3>2. r \in Runs /\ HasFile(r)' = HasFile(r)
      BY <1>5, <3>1, ExchangeOfRun DEF ExchangeStep
    <3>3. /\ "tool" \notin pend.started => effects[r] = 0
          /\ "task" \notin pend.started => ~HasFile(r)
      BY <3>1 DEF Beginnings, ExchangeStep
    <3> QED BY <3>1, <3>2, <3>3 DEF ExchangeStep
  <2>6. /\ \A r \in Runs : input'[r] \in {"none", "queued"} => Untouched(r)'
        /\ live' # Nobody => Untouched(live)' \/ InExchange(live)' \/ Told(live)'
    BY <2>1, <2>2, <2>3 DEF Beginnings
  <2> QED BY <2>4, <2>6 DEF Beginnings
<1>7. Counted'
  BY <1>2 DEF Counted, ExchangeStep
<1>8. FactsInOrder'
  BY <1>2 DEF FactsInOrder
<1> QED BY <1>1, <1>2, <1>3, <1>4, <1>6, <1>7, <1>8

\* What is staged for a child is another matter.
LEMMA RowsInExchange ==
  ASSUME StagedTypeOK, Durable, ExchangeStep,
         \A x \in Runs : row'[x] # NoRow => row'[x] = row[x] /\ Stageable(x, row[x].frame)'
  PROVE  Rows'
<1>1. \A o \in Owners : KeptFile(o)
  BY SameFiles DEF ExchangeStep, FilesStay
<1>2. Rows
  BY DEF Durable
<1> SUFFICES ASSUME NEW o \in Owners, row'[o] # NoRow
             PROVE  /\ Stageable(o, row[o].frame)'
                    /\ o = Session => HasFile(Session)' /\ row'[o].generation = head'.generation
                    /\ HasFile(o)' => Reconcilable(o)'
  BY DEF Rows
<1>3. row'[o] = row[o]
  BY Names DEF ExchangeStep
<1>4. Stageable(o, row[o].frame)'
  <2>1. CASE o \in Runs
    BY <2>1
  <2>2. CASE o = Session
    <3>1. PICK f : f = row[Session].frame
      OBVIOUS
    <3>2. Stageable(Session, f)
      BY <1>2, <1>3, <2>2, <3>1 DEF Rows
    <3>3. Stageable(Session, f)'
      BY <3>2, StageableInExchange
    <3> QED BY <1>3, <2>2, <3>1, <3>3
  <2> QED BY <2>1, <2>2, Names
<1> QED BY <1>1, <1>2, <1>3, <1>4, RowStays DEF ExchangeStep

\* The effects of a finalized append of a child.
ChildEffect(r, f) ==
  /\ row' = [row EXCEPT ![r] = NoRow]
  /\ child' = [child EXCEPT ![r] = IF f.kind = "start" THEN "running" ELSE "none"]
  /\ pend' = IF f.kind = "settle" THEN [pend EXCEPT !.located = TRUE] ELSE pend
  /\ UNCHANGED <<head, body, childBody, input, run, effects, loaded, live, faults>>
ChildReady(r, f) ==
  /\ f = row[r].frame /\ row[r] # NoRow /\ f.run = r /\ f.kind \in {"start", "settle"}
  /\ HasFile(r) /\ FileOf(r) # <<>> /\ Last(FileOf(r)) = f
  /\ child[r] # "none"
  /\ f.kind = "settle" => InExchange(r) /\ "task" \in pend.started /\ f.says["task"] \in Outcomes

\* What the transaction that finishes an append of a child finds and does.
LEMMA FinalizesChild ==
  ASSUME StagedTypeOK, Durable, Position, NEW r \in Runs, Finalize(r)
  PROVE  ChildEffect(r, row[r].frame) /\ ChildReady(r, row[r].frame)
<1> DEFINE f == row[r].frame
<1>1. at = At("finalize", r) /\ at.do = "finalize" /\ at.who = r
  BY DEF Finalize, At
<1>2. /\ row[r] # NoRow /\ HasFile(r) /\ ~Alone(r)
      /\ FileOf(r) = Append(Prefix(r), row[r].frame)
  BY <1>1 DEF Position
<1>3. f \in Frames /\ Stageable(r, f) /\ Reconcilable(r) /\ r # Session
  BY <1>2, Names, RowsHoldFrames DEF Durable, Rows
<1>4. /\ Effect(r, f) /\ Applies(r, f) /\ head' = head
      /\ row' = IF f.kind = "directory" THEN [row EXCEPT ![r] = NoRow, ![f.run] = NoRow]
                ELSE [row EXCEPT ![r] = NoRow]
      /\ UNCHANGED <<body, childBody, effects, loaded, faults>>
  BY <1>3 DEF Finalize, Succeeded, files
<1>5. FileOf(r) # <<>> /\ Last(FileOf(r)) = f
  <2>1. Prefix(r) \in Seq(Frames)
    BY <1>2, <1>3, Names, PrefixHoldsFrames
  <2> HIDE DEF f
  <2>2. PICK p : p = Prefix(r)
    OBVIOUS
  <2>4. f \in Frames /\ p \in Seq(Frames)
    BY <1>3, <2>1, <2>2
  <2>5. Append(p, f) # <<>> /\ Last(Append(p, f)) = f
    <3>1. Len(Append(p, f)) = Len(p) + 1 /\ Len(p) \in Nat /\ Append(p, f) \in Seq(Frames)
      BY <2>4
    <3>2. Append(p, f) # <<>>
      BY <3>1
    <3>3. Append(p, f)[Len(p) + 1] = f
      BY <2>4
    <3>4. Last(Append(p, f)) = f
      BY <3>1, <3>3 DEF Last
    <3> QED BY <3>2, <3>4
  <2>3. FileOf(r) = Append(Prefix(r), f)
    BY <1>2 DEF f
  <2> QED BY <2>2, <2>3, <2>5
<1> HIDE DEF f
<1>6. f.run = r /\ f.kind \in {"start", "settle"} /\ child[r] # "none"
      /\ (f.kind = "settle" => f.says["task"] \in Outcomes)
  BY <1>2, <1>3 DEF Stageable, Alone, f
<1>7. f.kind = "settle" => InExchange(r) /\ "task" \in pend.started
  <2>1. f.kind = "settle" => pend.state # "none" /\ pend.run = r /\ "task" \in pend.started
    BY <1>3, <1>4, <1>6 DEF Applies
  <2> QED BY <2>1, NoExchangeHasNoState DEF InExchange
<1>8. ChildReady(r, f)
  BY <1>2, <1>5, <1>6, <1>7 DEF ChildReady, f
<1>9. ChildEffect(r, f)
  BY <1>3, <1>4, <1>6 DEF Effect, ChildEffect
<1> QED BY <1>8, <1>9 DEF f

\* A settled child is located by its parent's call, and its file holds the outcome.
LEMMA FinalizeChildKeeps ==
  ASSUME StagedTypeOK, Durable, NEW r \in Runs, NEW f, ChildEffect(r, f), ChildReady(r, f)
  PROVE  /\ Durable' /\ Visible(Session)' = Visible(Session) /\ row'[Session] = row[Session]
         /\ row'[r] = NoRow /\ \A x \in Owners : x # r => row'[x] = row[x]
<1>1. Controls /\ Rows /\ Recorded /\ Beginnings /\ ChildFiles /\ Counted /\ AnswersAreTrue
      /\ FactsInOrder
  BY DEF Durable
<1>2. /\ row'[r] = NoRow /\ \A x \in Owners : x # r => row'[x] = row[x]
      /\ child'[r] = (IF f.kind = "start" THEN "running" ELSE "none")
      /\ \A x \in Runs : x # r => child'[x] = child[x]
      /\ UNCHANGED <<input, run, loaded, faults>>
  BY Names DEF ChildEffect, StagedTypeOK
<1>3. /\ f.kind \in {"start", "settle"} /\ HasFile(r) /\ FileOf(r) # <<>> /\ Last(FileOf(r)) = f
      /\ f.run = r /\ child[r] # "none" /\ ~Alone(r)
      /\ f.kind = "settle" => InExchange(r) /\ "task" \in pend.started
                              /\ f.says["task"] \in Outcomes
  BY DEF ChildReady, Alone
<1>4. ASSUME f.kind = "start" PROVE ExchangeStep /\ pend' = pend
  <2>1. pend' = pend
    BY <1>4 DEF ChildEffect
  <2>2. ExchangeStep
    BY <1>2, <1>3, <2>1, Names, AloneStays DEF ExchangeStep, ChildEffect, FaultsStay
  <2> QED BY <2>1, <2>2
<1>5. ASSUME f.kind = "settle"
      PROVE  /\ ExchangeStep
             /\ pend # NoExchange /\ pend' # NoExchange /\ pend'.run = r /\ pend'.state = pend.state
             /\ pend'.located /\ pend'.started = pend.started /\ pend'.answers = pend.answers
             /\ \A x \in Runs : x # r => child[x] = "none"
  <2>1. pend \in [state : {"begun", "ready"}, run : Runs, started : SUBSET Calls,
                  located : BOOLEAN, answers : [Calls -> Words]]
    BY <1>3, <1>5 DEF StagedTypeOK, InExchange
  <2>2. pend' = [pend EXCEPT !.located = TRUE]
    BY <1>5 DEF ChildEffect
  <2>3. /\ pend' # NoExchange /\ pend'.run = r /\ pend'.state = pend.state /\ pend'.located
        /\ pend'.started = pend.started /\ pend'.answers = pend.answers
    BY <1>3, <1>5, <2>1, <2>2 DEF NoExchange, InExchange
  <2>4. ExchangeStep
    BY <1>2, <1>3, <1>5, <2>3, Names, AloneStays DEF ExchangeStep, ChildEffect, FaultsStay, InExchange
  <2>5. \A x \in Runs : x # r => child[x] = "none"
    BY <1>1, <1>3, <1>5 DEF Controls, Delegating, LeftBehind, InExchange
  <2> QED BY <1>3, <1>5, <2>3, <2>4, <2>5 DEF InExchange
<1>6. ExchangeStep
  BY <1>3, <1>4, <1>5
<1>7. /\ Recorded' /\ Beginnings' /\ Counted' /\ FactsInOrder'
      /\ Visible(Session)' = Visible(Session)
      /\ \A o \in Owners : KeptFile(o)
      /\ \A x : InExchange(x)' = InExchange(x) /\ LeftBehind(x)' = LeftBehind(x)
  BY <1>6, ExchangeStepKeeps
<1>8. \A x \in Runs : HasFile(x)' = HasFile(x) /\ FileOf(x)' = FileOf(x)
  BY <1>7, Names DEF KeptFile
<1>9. /\ pend' # NoExchange => pend # NoExchange /\ pend'.run = pend.run /\ pend.run \in Runs
      /\ pend'.started = pend.started /\ pend'.state = pend.state /\ pend'.answers = pend.answers
      /\ f.kind = "start" => pend' = pend
      /\ f.kind = "settle" => pend' # NoExchange /\ pend.run = r /\ pend'.located
      /\ f.kind = "settle" => \A x \in Runs : x # r => child[x] = "none"
  <2>1. CASE f.kind = "start"
    BY <1>4, <2>1, ExchangeOfRun
  <2>2. CASE f.kind = "settle"
    BY <1>3, <1>5, <2>2 DEF InExchange
  <2> QED BY <1>3, <2>1, <2>2
<1>10. Controls'
  <2>1. \A x \in Runs : /\ run'[x] = "accepted" => input'[x] = "queued"
                        /\ run'[x] = "running" => input'[x] = "committed"
    BY <1>1, <1>2 DEF Controls
  <2>2. pend' # NoExchange => /\ run'[pend'.run] = "running"
                              /\ pend'.located => "task" \in pend'.started
    BY <1>1, <1>2, <1>3, <1>9 DEF Controls
  <2>3. ASSUME NEW x \in Runs, child'[x] # "none"
        PROVE  /\ run'[x] = "running"
               /\ Delegating(x)' \/ LeftBehind(x)'
               /\ (InExchange(x)' /\ pend'.state = "begun") \/ faults' > 0
               /\ loaded' => HasFile(x)'
    <3>1. f.kind = "start" /\ child[x] # "none"
      BY <1>2, <1>3, <1>9, <2>3
    <3>2. Delegating(x)' = Delegating(x)
      BY <1>9, <3>1 DEF Delegating
    <3>3. /\ run[x] = "running"
          /\ Delegating(x) \/ LeftBehind(x)
          /\ (InExchange(x) /\ pend.state = "begun") \/ faults > 0
          /\ loaded => HasFile(x)
      BY <1>1, <3>1 DEF Controls
    <3> QED BY <1>2, <1>7, <1>8, <1>9, <3>1, <3>2, <3>3
  <2> HIDE DEF Delegating, LeftBehind, InExchange
  <2> QED BY <2>1, <2>2, <2>3 DEF Controls
<1>11. Rows'
  <2>1. ASSUME NEW x \in Runs, row'[x] # NoRow
        PROVE  row'[x] = row[x] /\ Stageable(x, row[x].frame)'
    <3>1. x # r /\ row'[x] = row[x] /\ child'[x] = child[x] /\ x \in Owners
      BY <1>2, <2>1, Names
    <3>2. PICK g : g = row[x].frame
      OBVIOUS
    <3>3. Stageable(x, g)
      BY <1>1, <2>1, <3>1, <3>2 DEF Rows
    <3>4. Stageable(x, g)'
      BY <1>2, <1>9, <3>1, <3>3, StageableForChildStays
    <3> QED BY <3>1, <3>2, <3>4
  <2> QED BY <1>6, <2>1, RowsInExchange
<1>12. ChildFiles'
  <2> SUFFICES ASSUME pend' # NoExchange, NEW x, x = pend.run
               PROVE  /\ loaded' /\ pend'.located => HasFile(x)'
                      /\ HasFile(x)' /\ pend'.located =>
                            /\ FileOf(x)' # <<>>
                            /\ Last(FileOf(x)').kind = "settle"
                            /\ Last(FileOf(x)').run = x
                            /\ Last(FileOf(x)').says["task"] \in Outcomes
                      /\ HasFile(x)' /\ ~pend'.located /\ child'[x] = "none" => FileOf(x)' = <<>>
    BY <1>9 DEF ChildFiles
  <2>1. x \in Runs /\ pend # NoExchange /\ HasFile(x)' = HasFile(x) /\ FileOf(x)' = FileOf(x)
    BY <1>8, <1>9
  <2>2. CASE f.kind = "start"
    <3>1. child'[x] = "none" => child[x] = "none"
      BY <1>2, <2>1, <2>2
    <3>2. pend' = pend /\ loaded' = loaded
      BY <1>2, <1>9, <2>2
    <3> QED BY <1>1, <2>1, <3>1, <3>2 DEF ChildFiles
  <2>3. CASE f.kind = "settle"
    BY <1>3, <1>9, <2>1, <2>3
  <2> QED BY <1>3, <2>2, <2>3
<1>13. AnswersAreTrue'
  <2>1. \A x \in Runs : \A says : StaysTrue(x, says)
    BY <1>6, <1>7, Names DEF StaysTrue, ExchangeStep
  <2>2. pend'.state = "ready" =>
          pend.state = "ready" /\ pend'.run = pend.run /\ pend'.answers = pend.answers
    BY <1>3, <1>9
  <2> QED BY <1>1, <1>7, <2>1, <2>2, AnswersStay
<1>14. Durable'
  BY <1>7, <1>10, <1>11, <1>12, <1>13 DEF Durable
<1> QED BY <1>2, <1>7, <1>14, Names

\* An input is queued, or claimed for its run while nothing is staged for the session.
QueueStep(r) ==
  /\ UNCHANGED <<head, body, childBody, row, pend, child, effects, loaded, live, faults>>
  /\ \A x \in Runs : x # r => input'[x] = input[x] /\ run'[x] = run[x]
  /\ \/ input[r] = "none" /\ input'[r] = "queued" /\ run'[r] = run[r]
     \/ /\ input[r] = "queued" /\ input'[r] = "queued" /\ run[r] = "none" /\ run'[r] = "accepted"
        /\ row[Session] = NoRow

\* Accepting and claiming an input tell nothing and touch no file.
LEMMA QueueStepKeeps ==
  ASSUME StagedTypeOK, Durable, NEW r \in Runs, QueueStep(r)
  PROVE  Durable' /\ Visible(Session)' = Visible(Session)
<1>1. Controls /\ Rows /\ Recorded /\ Beginnings /\ ChildFiles /\ Counted /\ AnswersAreTrue
      /\ FactsInOrder
  BY DEF Durable
<1>2. /\ UNCHANGED <<head, row, pend, child, effects, loaded, live, faults>>
      /\ \A x \in Runs : x # r => input'[x] = input[x] /\ run'[x] = run[x]
      /\ \/ input[r] = "none" /\ input'[r] = "queued" /\ run'[r] = run[r]
         \/ /\ input[r] = "queued" /\ input'[r] = "queued" /\ run[r] = "none"
            /\ run'[r] = "accepted" /\ row[Session] = NoRow
  BY DEF QueueStep
<1>3. \A o \in Owners : KeptFile(o)
  BY SameFiles DEF QueueStep, FilesStay
<1>4. \A x \in Runs : HasFile(x)' = HasFile(x) /\ FileOf(x)' = FileOf(x)
  BY <1>3, Names DEF KeptFile
<1>5. Visible(Session)' = Visible(Session) /\ HasFile(Session)' = HasFile(Session)
  BY <1>2, <1>3, SameView
<1>6. pend # NoExchange => pend.run \in Runs
  BY ExchangeOfRun
<1>7. Controls'
  <2>1. \A x \in Runs : /\ run'[x] = "accepted" => input'[x] = "queued"
                        /\ run'[x] = "running" => input'[x] = "committed"
    BY <1>1, <1>2 DEF Controls
  <2>2. \A x \in Runs : run[x] = "running" => run'[x] = "running"
    BY <1>2
  <2>3. ASSUME NEW x \in Runs, child'[x] # "none"
        PROVE  /\ run'[x] = "running"
               /\ Delegating(x)' \/ LeftBehind(x)'
               /\ (InExchange(x)' /\ pend'.state = "begun") \/ faults' > 0
               /\ loaded' => HasFile(x)'
    <3>1. Delegating(x)' = Delegating(x) /\ LeftBehind(x)' = LeftBehind(x)
          /\ InExchange(x)' = InExchange(x)
      BY <1>2, <1>5 DEF Delegating, LeftBehind, GivenUp, InExchange
    <3> QED BY <1>1, <1>2, <1>4, <2>2, <2>3, <3>1 DEF Controls
  <2>4. pend' # NoExchange => /\ run'[pend'.run] = "running"
                              /\ pend'.located => "task" \in pend'.started
    BY <1>1, <1>2, <1>6, <2>2 DEF Controls
  <2> HIDE DEF Delegating, LeftBehind, InExchange
  <2> QED BY <2>1, <2>3, <2>4 DEF Controls
<1>8. Rows'
  <2> SUFFICES ASSUME NEW o \in Owners, row'[o] # NoRow
               PROVE  /\ Stageable(o, row[o].frame)'
                      /\ o = Session => HasFile(Session)' /\ row'[o].generation = head'.generation
                      /\ HasFile(o)' => Reconcilable(o)'
    BY DEF Rows
  <2>1. row'[o] = row[o] /\ row[o] # NoRow
    BY <1>2
  <2>2. PICK f : f = row[o].frame
    OBVIOUS
  <2>3. Stageable(o, f)
    BY <1>1, <2>1, <2>2 DEF Rows
  <2>4. Stageable(o, f)'
    <3>1. CASE o \in Runs
      BY <1>2, <2>3, <3>1, StageableForChildStays
    <3>2. CASE o = Session
      <4>1. /\ \A x \in Runs : run'[x] = run[x]
            /\ input[r] = "none" /\ \A x \in Runs : x # r => input'[x] = input[x]
        BY <1>2, <2>1, <3>2
      <4>2. /\ f.run \in Runs /\ f.kind \in {"start", "exchange", "settle", "directory"}
            /\ Applies(Session, f) /\ Alone(f.run)' = Alone(f.run)
        BY <1>2, <2>3, <3>2, AloneStays DEF Stageable
      <4>3. Applies(Session, f)'
        BY <1>2, <4>1, <4>2 DEF Applies
      <4> QED BY <1>2, <2>3, <3>2, <4>3 DEF Stageable, ExchangeFrame, Directory
    <3> QED BY <3>1, <3>2, Names
  <2>5. Stageable(o, row[o].frame)'
    BY <2>1, <2>2, <2>4
  <2> QED BY <1>1, <1>2, <1>3, <2>1, <2>5, RowStays
<1>9. Recorded'
  <2>1. ASSUME NEW g, Happened(g) PROVE Happened(g)'
    <3>1. Told(g.run)' = Told(g.run) /\ InExchange(g.run)' = InExchange(g.run)
      BY <1>2, <1>5 DEF Told, InExchange
    <3> QED BY <1>2, <2>1, <3>1 DEF Happened
  <2>2. ASSUME NEW i \in DOMAIN Visible(Session) PROVE Happened(Visible(Session)[i])'
    <3>1. PICK g : g = Visible(Session)[i]
      OBVIOUS
    <3>2. Happened(g)'
      BY <1>1, <2>1, <3>1 DEF Recorded
    <3> QED BY <1>5, <3>1, <3>2 DEF Happened, InExchange, Told
  <2> QED BY <1>5, <2>2 DEF Recorded
<1>10. Beginnings'
  <2>1. \A x \in Runs : Untouched(x)' = Untouched(x) /\ Told(x)' = Told(x)
                        /\ InExchange(x)' = InExchange(x)
    BY <1>2, <1>4, <1>5 DEF Untouched, Told, InExchange
  <2>2. live' = live /\ (live # Nobody => live \in Runs)
    BY <1>2 DEF StagedTypeOK
  <2>3. live' # Nobody => Untouched(live)' \/ InExchange(live)' \/ Told(live)'
    BY <1>1, <2>1, <2>2 DEF Beginnings
  <2>4. \A x \in Runs : input'[x] \in {"none", "queued"} => Untouched(x)'
    BY <1>1, <1>2, <2>1 DEF Beginnings
  <2> QED BY <1>1, <1>2, <1>4, <1>6, <2>3, <2>4 DEF Beginnings
<1>11. ChildFiles'
  BY <1>1, <1>2, <1>4, <1>6 DEF ChildFiles
<1>12. Counted'
  BY <1>1, <1>2, <1>5 DEF Counted
<1>13. AnswersAreTrue'
  <2>1. \A x \in Runs : \A says : StaysTrue(x, says)
    BY <1>2, <1>3, Names DEF StaysTrue, FaultsStay
  <2> QED BY <1>1, <1>2, <1>5, <2>1, AnswersStay
<1>14. FactsInOrder'
  BY <1>1, <1>5 DEF FactsInOrder
<1> QED BY <1>5, <1>7, <1>8, <1>9, <1>10, <1>11, <1>12, <1>13, <1>14 DEF Durable

\* While an engine waits for the worker nothing is staged.
LEMMA NothingStaged ==
  ASSUME Memory, live # Nobody, at.do \notin {"write", "finalize"} \/ at.who # Session
  PROVE  row[Session] = NoRow
BY DEF Memory, At

\* A run begins an exchange before anything happened for it.
LEMMA BeginExchangeKeeps ==
  ASSUME StagedTypeOK, Memory, SingleRun, Durable, NEW r \in Runs, BeginExchange(r)
  PROVE  Durable' /\ Visible(Session)' = Visible(Session)
<1>1. Controls /\ Rows /\ Recorded /\ Beginnings /\ ChildFiles /\ Counted /\ AnswersAreTrue
      /\ FactsInOrder
  BY DEF Durable
<1>2. /\ UNCHANGED <<head, row, input, run, child, body, childBody, effects, loaded, live,
                   faults>>
      /\ at = Idle /\ live = r /\ run[r] = "running" /\ pend = NoExchange /\ ~Exchanged(r)
      /\ pend' = [state |-> "begun", run |-> r, started |-> {}, located |-> FALSE,
                  answers |-> Unanswered]
  BY DEF BeginExchange, Serving, files, memory
<1>3. pend' # NoExchange /\ pend'.state = "begun" /\ pend'.run = r /\ pend'.started = {}
      /\ pend'.located = FALSE
  BY <1>2 DEF NoExchange
<1>4. row[Session] = NoRow
  BY <1>2, Names, NothingStaged DEF Idle
<1>5. \A o \in Owners : KeptFile(o)
  BY <1>2, SameFiles DEF FilesStay
<1>6. \A x \in Runs : HasFile(x)' = HasFile(x) /\ FileOf(x)' = FileOf(x)
  BY <1>5, Names DEF KeptFile
<1>7. Visible(Session)' = Visible(Session) /\ HasFile(Session)' = HasFile(Session)
      /\ Visible(Session) = FileOf(Session)
  BY <1>2, <1>4, <1>5, SameView, VisibleAtRest, Names
<1>8. ~Told(r)
  BY <1>2, <1>7 DEF Exchanged, Records, Told
<1>9. Untouched(r)
  BY <1>1, <1>2, <1>8, Names DEF Beginnings, InExchange
<1>10. \A x \in Runs : child[x] = "none"
  <2> SUFFICES ASSUME NEW x \in Runs, child[x] # "none" PROVE FALSE
    OBVIOUS
  <2>1. run[x] = "running" /\ LeftBehind(x)
    BY <1>1, <1>2 DEF Controls, Delegating
  <2>2. x = r
    BY <1>2, <2>1 DEF SingleRun
  <2>3. GivenUp(x)
    BY <1>2, <2>1, Names DEF LeftBehind
  <2> QED BY <1>8, <2>2, <2>3 DEF GivenUp, Told
<1>11. Controls'
  BY <1>1, <1>2, <1>3, <1>10 DEF Controls
<1>12. Rows'
  <2>1. \A x \in Runs : row[x] = NoRow
    BY <1>1, <1>10, ChildRowHasChild
  <2> QED BY <1>2, <1>4, <2>1, Names DEF Rows
<1>13. Recorded'
  <2>1. ASSUME NEW i \in DOMAIN Visible(Session) PROVE Happened(Visible(Session)[i])'
    <3>1. PICK g : g = Visible(Session)[i]
      OBVIOUS
    <3>2. Happened(g) /\ (g.kind = "exchange" => g.run # r)
      BY <1>1, <1>8, <3>1 DEF Recorded, Told
    <3>3. Happened(g)'
      BY <1>2, <1>3, <1>7, <3>2 DEF Happened, InExchange, Told
    <3> QED BY <1>7, <3>1, <3>3 DEF Happened, InExchange, Told
  <2> QED BY <1>7, <2>1 DEF Recorded
<1>14. Beginnings'
  <2>1. \A x \in Runs : Untouched(x)' = Untouched(x)
    BY <1>2, <1>6 DEF Untouched
  <2>2. InExchange(r)'
    BY <1>3 DEF InExchange
  <2>3. effects'[r] = 0 /\ ~HasFile(r)'
    BY <1>2, <1>6, <1>9 DEF Untouched
  <2>4. \A x \in Runs : input'[x] \in {"none", "queued"} => Untouched(x)'
    BY <1>1, <1>2, <2>1 DEF Beginnings
  <2>5. live' # Nobody => InExchange(live)'
    BY <1>2, <2>2
  <2> QED BY <1>3, <2>3, <2>4, <2>5 DEF Beginnings
<1>15. ChildFiles'
  BY <1>3, <1>6, <1>9 DEF ChildFiles, Untouched
<1>16. Counted'
  BY <1>1, <1>2, <1>7 DEF Counted
<1>17. AnswersAreTrue'
  <2>1. \A x \in Runs : \A says : StaysTrue(x, says)
    BY <1>2, <1>5, Names DEF StaysTrue, FaultsStay
  <2> QED BY <1>1, <1>3, <1>7, <2>1, AnswersStay
<1>18. FactsInOrder'
  BY <1>1, <1>7 DEF FactsInOrder
<1> QED BY <1>7, <1>11, <1>12, <1>13, <1>14, <1>15, <1>16, <1>17, <1>18 DEF Durable

\* A call is marked as started before anything else happens to it.
LEMMA MarkStartedKeeps ==
  ASSUME StagedTypeOK, Memory, Durable, NEW r \in Runs, NEW c \in Calls, MarkStarted(r, c)
  PROVE  Durable' /\ Visible(Session)' = Visible(Session)
<1>1. Controls /\ Rows /\ Recorded /\ Beginnings /\ ChildFiles /\ Counted /\ AnswersAreTrue
      /\ FactsInOrder
  BY DEF Durable
<1>2. /\ UNCHANGED <<head, row, input, run, child, body, childBody, effects, loaded, live,
                   faults>>
      /\ at = Idle /\ live = r /\ pend.state = "begun" /\ pend.run = r
      /\ pend' = [pend EXCEPT !.started = @ \cup {c}]
  BY DEF MarkStarted, Exchanging, Serving, files, memory
<1>3. /\ pend # NoExchange /\ pend' # NoExchange /\ pend'.state = "begun" /\ pend'.run = r
      /\ pend'.started = pend.started \cup {c} /\ pend'.located = pend.located
      /\ pend.run \in Runs
  <2>1. pend # NoExchange
    BY <1>2, NoExchangeHasNoState
  <2>2. pend \in [state : {"begun", "ready"}, run : Runs, started : SUBSET Calls,
                  located : BOOLEAN, answers : [Calls -> Words]]
    BY <2>1 DEF StagedTypeOK
  <2> QED BY <1>2, <2>1, <2>2 DEF NoExchange
<1>4. \A x \in Runs : Alone(x)' = Alone(x)
  BY <1>2, AloneStays
<1>5. ExchangeStep
  BY <1>2, <1>3, <1>4 DEF ExchangeStep, FaultsStay
<1>6. /\ Recorded' /\ Beginnings' /\ Counted' /\ FactsInOrder'
      /\ Visible(Session)' = Visible(Session)
      /\ \A o \in Owners : KeptFile(o)
      /\ \A x : InExchange(x)' = InExchange(x) /\ LeftBehind(x)' = LeftBehind(x)
  BY <1>5, ExchangeStepKeeps
<1>7. \A x \in Runs : HasFile(x)' = HasFile(x) /\ FileOf(x)' = FileOf(x)
  BY <1>6, Names DEF KeptFile
<1>8. Controls'
  <2>1. ASSUME NEW x \in Runs, child'[x] # "none"
        PROVE  /\ run'[x] = "running"
               /\ Delegating(x)' \/ LeftBehind(x)'
               /\ (InExchange(x)' /\ pend'.state = "begun") \/ faults' > 0
               /\ loaded' => HasFile(x)'
    <3>1. Delegating(x) => Delegating(x)'
      BY <1>2, <1>3 DEF Delegating
    <3> QED BY <1>1, <1>2, <1>3, <1>6, <1>7, <2>1, <3>1 DEF Controls
  <2>2. \A x \in Runs : /\ run'[x] = "accepted" => input'[x] = "queued"
                        /\ run'[x] = "running" => input'[x] = "committed"
    BY <1>1, <1>2 DEF Controls
  <2>3. pend' # NoExchange => /\ run'[pend'.run] = "running"
                              /\ pend'.located => "task" \in pend'.started
    BY <1>1, <1>2, <1>3 DEF Controls
  <2> HIDE DEF Delegating, LeftBehind, InExchange
  <2> QED BY <2>1, <2>2, <2>3 DEF Controls
<1>9. Rows'
  <2>1. ASSUME NEW x \in Runs, row'[x] # NoRow
        PROVE  row'[x] = row[x] /\ Stageable(x, row[x].frame)'
    <3>1. row'[x] = row[x] /\ child'[x] = child[x] /\ x \in Owners
      BY <1>2, Names
    <3>2. PICK g : g = row[x].frame
      OBVIOUS
    <3>3. Stageable(x, g)
      BY <1>1, <2>1, <3>1, <3>2 DEF Rows
    <3>4. Stageable(x, g)'
      BY <1>2, <1>3, <3>1, <3>3, StageableForChildStays
    <3> QED BY <3>1, <3>2, <3>4
  <2> QED BY <1>5, <2>1, RowsInExchange
<1>10. ChildFiles'
  BY <1>1, <1>2, <1>3, <1>7 DEF ChildFiles
<1>11. AnswersAreTrue'
  <2>1. \A x \in Runs : \A says : StaysTrue(x, says)
    BY <1>2, <1>6, Names DEF StaysTrue, FaultsStay
  <2> QED BY <1>1, <1>3, <1>6, <2>1, AnswersStay
<1> QED BY <1>6, <1>8, <1>9, <1>10, <1>11 DEF Durable

\* The child's row is made after its file.
LEMMA InsertChildKeeps ==
  ASSUME StagedTypeOK, Position, Durable, NEW r \in Runs, at = At("childrow", r),
         child' = [child EXCEPT ![r] = "accepted"],
         UNCHANGED <<head, row, input, run, pend, body, childBody, effects, loaded, live,
                   faults>>
  PROVE  Durable' /\ Visible(Session)' = Visible(Session)
<1>1. Controls /\ Rows /\ Recorded /\ Beginnings /\ ChildFiles /\ Counted /\ AnswersAreTrue
      /\ FactsInOrder
  BY DEF Durable
<1>2. /\ pend.state = "begun" /\ pend.run = r /\ "task" \in pend.started /\ ~pend.located
      /\ child[r] = "none" /\ HasFile(r)
  BY DEF Position, At
<1>3. pend # NoExchange
  BY <1>2, NoExchangeHasNoState
<1>4. child'[r] = "accepted" /\ \A x \in Runs : x # r => child'[x] = child[x]
  BY DEF StagedTypeOK
<1>5. ExchangeStep
  <2>1. \A x \in Runs : Alone(x)' = Alone(x)
    BY AloneStays
  <2>2. ~Alone(r)
    BY <1>1, <1>2, ChildRowHasChild DEF Alone
  <2> QED BY <1>2, <1>3, <1>4, <2>1, <2>2 DEF ExchangeStep, InExchange, FaultsStay
<1>6. /\ Recorded' /\ Beginnings' /\ Counted' /\ FactsInOrder'
      /\ Visible(Session)' = Visible(Session)
      /\ \A o \in Owners : KeptFile(o)
      /\ \A x : InExchange(x)' = InExchange(x) /\ LeftBehind(x)' = LeftBehind(x)
  BY <1>5, ExchangeStepKeeps
<1>7. \A x \in Runs : HasFile(x)' = HasFile(x) /\ FileOf(x)' = FileOf(x)
  BY <1>6, Names DEF KeptFile
<1>8. InExchange(r)
  BY <1>2, <1>3 DEF InExchange
<1>9. Controls'
  <2>1. ASSUME NEW x \in Runs, child'[x] # "none"
        PROVE  /\ run'[x] = "running"
               /\ Delegating(x)' \/ LeftBehind(x)'
               /\ (InExchange(x)' /\ pend'.state = "begun") \/ faults' > 0
               /\ loaded' => HasFile(x)'
    <3>1. CASE x = r
      <4>1. run[r] = "running" /\ pend.state # "ready"
        BY <1>1, <1>2, <1>3 DEF Controls
      <4>2. Delegating(r)'
        BY <1>2, <1>3, <4>1 DEF Delegating
      <4> QED BY <1>2, <1>6, <1>7, <1>8, <3>1, <4>1, <4>2
    <3>2. CASE x # r
      <4>1. Delegating(x)' = Delegating(x)
        BY DEF Delegating
      <4>2. child[x] # "none"
        BY <1>4, <2>1, <3>2
      <4> QED BY <1>1, <1>6, <1>7, <4>1, <4>2 DEF Controls
    <3> QED BY <3>1, <3>2
  <2>2. \A x \in Runs : /\ run'[x] = "accepted" => input'[x] = "queued"
                        /\ run'[x] = "running" => input'[x] = "committed"
    BY <1>1 DEF Controls
  <2>3. pend' # NoExchange => /\ run'[pend'.run] = "running"
                              /\ pend'.located => "task" \in pend'.started
    BY <1>1 DEF Controls
  <2> HIDE DEF Delegating, LeftBehind, InExchange
  <2> QED BY <2>1, <2>2, <2>3 DEF Controls
<1>10. Rows'
  <2>1. ASSUME NEW x \in Runs, row'[x] # NoRow
        PROVE  row'[x] = row[x] /\ Stageable(x, row[x].frame)'
    <3>1. row'[x] = row[x] /\ x \in Owners
      BY Names
    <3>2. child[x] # "none"
      BY <1>1, <2>1, <3>1, ChildRowHasChild
    <3>3. child'[x] = child[x]
      BY <1>2, <1>4, <3>2
    <3>4. PICK g : g = row[x].frame
      OBVIOUS
    <3>5. Stageable(x, g)
      BY <1>1, <2>1, <3>1, <3>4 DEF Rows
    <3>6. Stageable(x, g)'
      BY <1>3, <3>3, <3>5, StageableForChildStays
    <3> QED BY <3>1, <3>4, <3>6
  <2> QED BY <1>5, <2>1, RowsInExchange
<1>11. ChildFiles'
  BY <1>1, <1>2, <1>3, <1>4, <1>7 DEF ChildFiles
<1>12. AnswersAreTrue'
  <2>1. \A x \in Runs : \A says : StaysTrue(x, says)
    BY <1>6, Names DEF StaysTrue, FaultsStay
  <2> QED BY <1>1, <1>6, <2>1, AnswersStay
<1> QED BY <1>6, <1>9, <1>10, <1>11, <1>12 DEF Durable

\* The last fact of a child's file that is settled is found in it, and its words are words.
LEMMA LastIsRecorded ==
  ASSUME StagedTypeOK, NEW r \in Runs, FileOf(r) # <<>>
  PROVE  /\ Last(FileOf(r)).says["task"] \in Words
         /\ Last(FileOf(r)).kind = "settle" /\ Last(FileOf(r)).run = r => Ended(r)
<1> DEFINE s == FileOf(r)
<1>1. s \in Seq(Frames) /\ s # <<>>
  BY Names, FilesHoldFrames
<1> HIDE DEF s
<1>2. Len(s) \in DOMAIN s /\ Last(s) = s[Len(s)] /\ s[Len(s)] \in Frames
  BY <1>1 DEF Last
<1>3. Last(s).says \in [Calls -> Words] /\ "task" \in Calls
  BY <1>2 DEF Frames, Calls
<1>4. Last(s).kind = "settle" /\ Last(s).run = r => Records(s, "settle", r)
  BY <1>2 DEF Records
<1> QED BY <1>3, <1>4 DEF s, Ended

\* Answers that say of each call what its marks, its effects and its child's file say.
Answering(r, says) ==
  /\ says \in [Calls -> Words]
  /\ says["tool"] \in {"refused", "not started"} => "tool" \notin pend.started
  /\ says["tool"] = "done" => effects[r] = 1
  /\ "task" \notin pend.started => says["task"] \in {"refused", "not started"}
  /\ "task" \in pend.started /\ pend.located => says["task"] = ChildOutcome(r)
  /\ "task" \in pend.started /\ ~pend.located => says["task"] \in {"no child", "error"}
  /\ child[r] # "none" => says["task"] = "error"

\* The answers that follow from marks, effects and the child's file are true.
LEMMA AnsweringIsTrue ==
  ASSUME StagedTypeOK, Durable, NEW r \in Runs, InExchange(r), KeptFile(r), effects' = effects,
         NEW says, Answering(r, says), child[r] # "none" => faults' > 0
  PROVE  Truthful(r, says)'
<1>1. Beginnings /\ ChildFiles /\ Controls /\ pend # NoExchange /\ pend.run = r
  BY DEF Durable, InExchange
<1>2. says["tool"] \in {"refused", "not started"} => effects[r] = 0
  BY <1>1, ZenonT(20) DEF Beginnings, Answering
<1>3. says["tool"] = "done" => effects[r] = 1
  BY ZenonT(20) DEF Answering
<1>8. /\ "task" \in pend.started /\ pend.located => says["task"] = ChildOutcome(r)
      /\ "task" \in pend.started /\ ~pend.located => says["task"] \in {"no child", "error"}
      /\ child[r] # "none" => says["task"] = "error"
  BY ZenonT(20) DEF Answering
<1>4. ToldOfTool(r, says)'
  BY <1>2, <1>3, ZenonT(20) DEF ToldOfTool
<1>5. HasFile(r)' = HasFile(r) /\ FileOf(r)' = FileOf(r) /\ Ended(r)' = Ended(r)
  BY DEF KeptFile, Ended, Records
<1>6. ASSUME HasFile(r)
      PROVE  /\ says["task"] \in Outcomes => Ended(r) /\ says["task"] = ChildOutcome(r)'
             /\ says["task"] \notin Outcomes =>
                   FileOf(r) = <<>> \/ (says["task"] = "error" /\ faults' > 0)
  <2>1. "task" \in pend.started
    BY <1>1, <1>6 DEF Beginnings
  <2>2. CASE pend.located
    <3>1. /\ FileOf(r) # <<>> /\ Last(FileOf(r)).kind = "settle" /\ Last(FileOf(r)).run = r
          /\ Last(FileOf(r)).says["task"] \in Outcomes
      BY <1>1, <1>6, <2>2 DEF ChildFiles
    <3>2. Ended(r) /\ ChildOutcome(r) = Last(FileOf(r)).says["task"]
      BY <3>1, LastIsRecorded, OutcomeOfFile
    <3>3. ChildOutcome(r)' = ChildOutcome(r)
      <4>1. FileOf(r) = childBody[r] /\ FileOf(r)' = childBody'[r]
        BY <1>5, <1>6, Names DEF FileOf
      <4> QED BY <1>5, <4>1 DEF ChildOutcome
    <3> QED BY <1>8, <2>1, <2>2, <3>1, <3>2, <3>3
  <2>3. CASE ~pend.located
    <3>3. says["task"] \in {"no child", "error"}
      BY <1>8, <2>1, <2>3, ZenonT(20)
    <3>4. PICK w : w = says["task"]
      OBVIOUS
    <3>5. w = "no child" \/ w = "error"
      BY <3>3, <3>4, ZenonT(20)
    <3>6. w \notin Outcomes
      BY <3>5, ZenonT(20) DEF Outcomes
    <3>1. says["task"] \notin Outcomes
      BY <3>4, <3>6, ZenonT(20)
    <3>2. child[r] = "none" => FileOf(r) = <<>>
      BY <1>1, <1>6, <2>3 DEF ChildFiles
    <3> QED BY <1>8, <3>1, <3>2, ZenonT(20)
  <2> QED BY <2>2, <2>3
<1>7. ToldOfTask(r, says)'
  BY <1>5, <1>6 DEF ToldOfTask, Outcomes
<1> QED BY <1>4, <1>7 DEF Truthful

\* Freezing such answers; a child that is under way is left behind with an error.
LEMMA FreezeKeeps ==
  ASSUME StagedTypeOK, Durable, pend.state = "begun", FaultsStay,
         NEW says, Answering(pend.run, says), child[pend.run] # "none" => faults' > 0,
         pend' = [pend EXCEPT !.state = "ready", !.answers = says],
         UNCHANGED <<head, row, input, run, child, body, childBody, effects, loaded, live>>
  PROVE  Durable' /\ Visible(Session)' = Visible(Session)
<1>1. Controls /\ Rows /\ Recorded /\ Beginnings /\ ChildFiles /\ Counted /\ AnswersAreTrue
      /\ FactsInOrder
  BY DEF Durable
<1>2. PICK r : r = pend.run
  OBVIOUS
<1>3. pend # NoExchange /\ r \in Runs /\ InExchange(r)
  BY <1>2, NoExchangeHasNoState, ExchangeOfRun DEF InExchange
<1>4. /\ pend' # NoExchange /\ pend'.state = "ready" /\ pend'.run = r
      /\ pend'.started = pend.started /\ pend'.located = pend.located /\ pend'.answers = says
  <2>1. pend \in [state : {"begun", "ready"}, run : Runs, started : SUBSET Calls,
                  located : BOOLEAN, answers : [Calls -> Words]]
    BY <1>3 DEF StagedTypeOK
  <2> QED BY <1>2, <2>1 DEF NoExchange
<1>5. ExchangeStep
  BY <1>2, <1>3, <1>4, AloneStays DEF ExchangeStep
<1>6. /\ Recorded' /\ Beginnings' /\ Counted' /\ FactsInOrder'
      /\ Visible(Session)' = Visible(Session)
      /\ \A o \in Owners : KeptFile(o)
      /\ \A x : InExchange(x)' = InExchange(x) /\ LeftBehind(x)' = LeftBehind(x)
  BY <1>5, ExchangeStepKeeps
<1>7. \A x \in Runs : HasFile(x)' = HasFile(x) /\ FileOf(x)' = FileOf(x)
  BY <1>6, Names DEF KeptFile
<1>8. Controls'
  <2>1. ASSUME NEW x \in Runs, child'[x] # "none"
        PROVE  /\ run'[x] = "running"
               /\ Delegating(x)' \/ LeftBehind(x)'
               /\ (InExchange(x)' /\ pend'.state = "begun") \/ faults' > 0
               /\ loaded' => HasFile(x)'
    <3>1. run[x] = "running" /\ (Delegating(x) \/ LeftBehind(x)) /\ (loaded => HasFile(x))
      BY <1>1, <2>1 DEF Controls
    <3>2. x = r /\ Delegating(x)
      BY <1>2, <1>3, <3>1 DEF Delegating, LeftBehind
    <3>3. says["task"] = "error" /\ faults' > 0
      BY <1>2, <2>1, <3>2, ZenonT(20) DEF Answering
    <3>4. Delegating(x)'
      BY <1>2, <1>4, <3>2, <3>3 DEF Delegating
    <3> QED BY <1>7, <3>1, <3>3, <3>4
  <2>2. \A x \in Runs : /\ run'[x] = "accepted" => input'[x] = "queued"
                        /\ run'[x] = "running" => input'[x] = "committed"
    BY <1>1 DEF Controls
  <2>3. pend' # NoExchange => /\ run'[pend'.run] = "running"
                              /\ pend'.located => "task" \in pend'.started
    BY <1>1, <1>2, <1>3, <1>4 DEF Controls
  <2> HIDE DEF Delegating, LeftBehind, InExchange
  <2> QED BY <2>1, <2>2, <2>3 DEF Controls
<1>9. Rows'
  <2>1. ASSUME NEW x \in Runs, row'[x] # NoRow
        PROVE  row'[x] = row[x] /\ Stageable(x, row[x].frame)'
    <3>1. row'[x] = row[x] /\ child'[x] = child[x] /\ x \in Owners /\ loaded' = loaded
      BY Names
    <3>2. PICK g : g = row[x].frame
      OBVIOUS
    <3>3. Stageable(x, g)
      BY <1>1, <2>1, <3>1, <3>2 DEF Rows
    <3>4. Stageable(x, g)'
      BY <1>3, <3>1, <3>3, StageableForChildStays
    <3> QED BY <3>1, <3>2, <3>4
  <2> QED BY <1>5, <2>1, RowsInExchange
<1>10. ChildFiles'
  BY <1>1, <1>2, <1>3, <1>4, <1>7 DEF ChildFiles
<1>11. AnswersAreTrue'
  <2>1. \A x \in Runs : \A y : Truthful(x, y) => Truthful(x, y)'
    <3>1. \A x \in Runs : \A y : StaysTrue(x, y)
      BY <1>6, Names DEF StaysTrue
    <3> QED BY <3>1, TruthStays
  <2>2. Truthful(r, says)'
    BY <1>2, <1>3, <1>6, Names, AnsweringIsTrue
  <2>3. Truthful(pend.run, pend.answers)'
    BY <1>4, <2>2
  <2>4. ASSUME NEW i \in DOMAIN Visible(Session), Visible(Session)[i].kind = "exchange"
        PROVE  Truthful(Visible(Session)[i].run, Visible(Session)[i].says)'
    <3>1. PICK g : g = Visible(Session)[i]
      OBVIOUS
    <3>2. Happened(g) /\ g # Summary /\ Truthful(g.run, g.says)
      BY <1>1, <2>4, <3>1, SummaryIsFrame DEF Recorded, AnswersAreTrue
    <3>3. Truthful(g.run, g.says)'
      BY <2>1, <3>2 DEF Happened
    <3> QED BY <1>6, <3>1, <3>3
  <2> QED BY <1>6, <2>3, <2>4 DEF AnswersAreTrue
<1> QED BY <1>6, <1>8, <1>9, <1>10, <1>11 DEF Durable

\* A tool takes effect only when its call is marked as started and not yet answered.
LEMMA ToolTakesEffectKeeps ==
  ASSUME StagedTypeOK, Durable, NEW r \in Runs, ToolTakesEffect(r)
  PROVE  Durable' /\ Visible(Session)' = Visible(Session)
<1>1. Controls /\ Rows /\ Recorded /\ Beginnings /\ ChildFiles /\ Counted /\ AnswersAreTrue
      /\ FactsInOrder
  BY DEF Durable
<1>2. /\ UNCHANGED <<head, row, input, run, pend, child, body, childBody, loaded, live, faults>>
      /\ live = r /\ pend.state = "begun" /\ pend.run = r /\ "tool" \in pend.started
      /\ \A x \in Runs : x # r => effects'[x] = effects[x]
  BY DEF ToolTakesEffect, tables, files, memory, StagedTypeOK
<1>3. pend # NoExchange /\ InExchange(r)
  BY <1>2, NoExchangeHasNoState DEF InExchange
<1>4. \A o \in Owners : KeptFile(o)
  BY <1>2, SameFiles DEF FilesStay
<1>5. \A x \in Runs : HasFile(x)' = HasFile(x) /\ FileOf(x)' = FileOf(x)
  BY <1>4, Names DEF KeptFile
<1>6. Visible(Session)' = Visible(Session) /\ HasFile(Session)' = HasFile(Session)
  BY <1>2, <1>4, SameView
<1>7. Controls'
  <2>1. \A x \in Runs : child[x] # "none" /\ loaded => HasFile(x)
    BY <1>1 DEF Controls
  <2> QED BY <1>1, <1>2, <1>5, <1>6, <2>1, ControlsStay DEF FaultsStay
<1>8. Rows'
  <2> SUFFICES ASSUME NEW o \in Owners, row'[o] # NoRow
               PROVE  /\ Stageable(o, row[o].frame)'
                      /\ o = Session => HasFile(Session)' /\ row'[o].generation = head'.generation
                      /\ HasFile(o)' => Reconcilable(o)'
    BY DEF Rows
  <2>1. PICK f : f = row[o].frame
    OBVIOUS
  <2>2. Stageable(o, f)'
    BY <1>1, <1>2, <2>1, StageableStays, AloneStays DEF Rows
  <2>3. Stageable(o, row[o].frame)'
    BY <1>2, <2>1, <2>2
  <2> QED BY <1>1, <1>2, <1>4, <2>3, RowStays
<1>9. Recorded'
  BY <1>1, <1>2, <1>6 DEF Recorded, Happened, InExchange, Told
<1>10. Beginnings'
  <2>1. ASSUME NEW x \in Runs, input'[x] \in {"none", "queued"} PROVE Untouched(x)'
    <3>1. Untouched(x) /\ x # r
      BY <1>1, <1>2, <1>3, <2>1 DEF Beginnings, Controls
    <3> QED BY <1>2, <1>5, <3>1 DEF Untouched
  <2>2. InExchange(r)'
    BY <1>2, <1>3 DEF InExchange
  <2>3. pend' # NoExchange => /\ "tool" \notin pend'.started => effects'[pend'.run] = 0
                              /\ "task" \notin pend'.started => ~HasFile(pend.run)'
    <3>1. HasFile(pend.run)' = HasFile(pend.run)
      BY <1>2, <1>5
    <3> QED BY <1>1, <1>2, <1>3, <3>1 DEF Beginnings
  <2>4. live' # Nobody => InExchange(live)'
    BY <1>2, <2>2
  <2> QED BY <2>1, <2>3, <2>4 DEF Beginnings
<1>11. ChildFiles'
  BY <1>1, <1>2, <1>5 DEF ChildFiles
<1>12. Counted'
  BY <1>1, <1>2, <1>6 DEF Counted
<1>13. AnswersAreTrue'
  <2>1. \A x \in Runs : Told(x) => x # r
    BY <1>1, <1>3, ToldIsOver
  <2>2. \A x \in Runs : Told(x) => \A says : StaysTrue(x, says)
    BY <1>2, <1>4, <2>1, Names DEF StaysTrue, FaultsStay
  <2> QED BY <1>1, <1>2, <1>6, <2>2, AnswersStay
<1>14. FactsInOrder'
  BY <1>1, <1>6 DEF FactsInOrder
<1> QED BY <1>6, <1>7, <1>8, <1>9, <1>10, <1>11, <1>12, <1>13, <1>14 DEF Durable

\* A step that keeps all of an exchange keeps what the files of children say.
LEMMA ChildPartsStay ==
  ASSUME StagedTypeOK, Durable, UNCHANGED <<childBody, pend, child, effects, loaded>>,
         FaultsStay
  PROVE  /\ ChildFiles'
         /\ \A r \in Runs : KeptFile(r) /\ InExchange(r)' = InExchange(r)
                            /\ Untouched(r)' = Untouched(r) /\ \A says : StaysTrue(r, says)
<1>1. \A r \in Runs : KeptFile(r)
  BY Names DEF KeptFile, HasFile, FileOf
<1>2. \A r \in Runs : HasFile(r)' = HasFile(r) /\ FileOf(r)' = FileOf(r)
  BY <1>1 DEF KeptFile
<1>3. pend # NoExchange => pend.run \in Runs
  BY ExchangeOfRun
<1>4. ChildFiles'
  BY <1>2, <1>3 DEF Durable, ChildFiles
<1> QED BY <1>1, <1>2, <1>4 DEF InExchange, Untouched, StaysTrue

\* A compaction moves the session to a file that holds the same facts.
LEMMA CommitReplacementKeeps ==
  ASSUME StagedTypeOK, Position, Durable, CommitReplacement
  PROVE  /\ Durable' /\ row[Session] = NoRow
         /\ Visible(Session)' = Append(Visible(Session), Summary) /\ HasFile(Session)'
<1>1. Controls /\ Rows /\ Recorded /\ Beginnings /\ ChildFiles /\ Counted /\ AnswersAreTrue
      /\ FactsInOrder
  BY DEF Durable
<1>2. /\ row[Session] = NoRow /\ candidate \in DOMAIN body /\ HasFile(Session)
      /\ body[candidate] = Append(FileOf(Session), Summary)
  BY DEF Position, CommitReplacement, At
<1>3. /\ UNCHANGED <<row, input, run, pend, child, body, childBody, effects, loaded, live,
                     faults>>
      /\ head' = [generation |-> candidate, count |-> Messages(body[candidate])]
  BY DEF CommitReplacement, files
<1> DEFINE V == Visible(Session)
<1>4. V = FileOf(Session) /\ V \in Seq(Frames)
  BY <1>1, <1>2, VisibleAtRest, VisibleHoldsFrames
<1>5. HasFile(Session)' /\ FileOf(Session)' = Append(V, Summary)
  <2>1. head'.generation = candidate
    BY <1>3
  <2> QED BY <1>2, <1>3, <1>4, <2>1 DEF HasFile, FileOf
<1>6. Visible(Session)' = Append(V, Summary)
  BY <1>2, <1>3, <1>5 DEF Visible
<1> HIDE DEF V
<1>7. /\ DOMAIN Append(V, Summary) = (DOMAIN V) \cup {Len(V) + 1}
      /\ \A i \in DOMAIN V : Append(V, Summary)[i] = V[i]
      /\ Append(V, Summary)[Len(V) + 1] = Summary
  BY <1>4, SummaryIsFrame, AppendIsWriting
<1>8. /\ ChildFiles'
      /\ \A r \in Runs : KeptFile(r) /\ InExchange(r)' = InExchange(r)
                         /\ Untouched(r)' = Untouched(r) /\ \A says : StaysTrue(r, says)
  BY <1>3, ChildPartsStay DEF FaultsStay
<1>9. \A r \in Runs : HasFile(r)' = HasFile(r)
  BY <1>8 DEF KeptFile
<1>10. pend # NoExchange => pend.run \in Runs
  BY ExchangeOfRun
<1>15. \A r : (Told(r) => Told(r)') /\ (GivenUp(r) => GivenUp(r)')
  BY <1>6, <1>7 DEF Told, GivenUp, V
<1>11. Controls'
  <2>1. ASSUME NEW x \in Runs, child'[x] # "none"
        PROVE  /\ run'[x] = "running"
               /\ Delegating(x)' \/ LeftBehind(x)'
               /\ (InExchange(x)' /\ pend'.state = "begun") \/ faults' > 0
               /\ loaded' => HasFile(x)'
    <3>1. /\ Delegating(x)' = Delegating(x) /\ InExchange(x)' = InExchange(x)
          /\ LeftBehind(x) => LeftBehind(x)'
      BY <1>2, <1>3, <1>15 DEF Delegating, LeftBehind, InExchange
    <3> QED BY <1>1, <1>3, <1>9, <2>1, <3>1 DEF Controls
  <2>2. \A x \in Runs : /\ run'[x] = "accepted" => input'[x] = "queued"
                        /\ run'[x] = "running" => input'[x] = "committed"
    BY <1>1, <1>3 DEF Controls
  <2>3. pend' # NoExchange => /\ run'[pend'.run] = "running"
                              /\ pend'.located => "task" \in pend'.started
    BY <1>1, <1>3, <1>10 DEF Controls
  <2> HIDE DEF Delegating, LeftBehind, InExchange
  <2> QED BY <2>1, <2>2, <2>3 DEF Controls
<1>12. Rows'
  <2> SUFFICES ASSUME NEW o \in Owners, row'[o] # NoRow
               PROVE  /\ Stageable(o, row[o].frame)'
                      /\ o = Session => HasFile(Session)' /\ row'[o].generation = head'.generation
                      /\ HasFile(o)' => Reconcilable(o)'
    BY DEF Rows
  <2>1. o \in Runs /\ o # Session
    BY <1>2, <1>3, Names
  <2>2. PICK f : f = row[o].frame
    OBVIOUS
  <2>3. Stageable(o, f)'
    BY <1>1, <1>3, <2>1, <2>2, StageableStays, AloneStays DEF Rows
  <2>4. Stageable(o, row[o].frame)'
    BY <1>3, <2>2, <2>3
  <2>5. HasFile(o)' => Reconcilable(o)'
    BY <1>1, <1>3, <1>8, <2>1 DEF Rows, KeptFile, Reconcilable, Staged
  <2> QED BY <2>1, <2>4, <2>5
<1>13. \A i \in DOMAIN Append(V, Summary) :
         Append(V, Summary)[i] # Summary => i \in DOMAIN V /\ Append(V, Summary)[i] = V[i]
  BY <1>7
<1>14. Recorded'
  <2>1. ASSUME NEW i \in DOMAIN Append(V, Summary) PROVE Happened(Visible(Session)[i])'
    <3>1. PICK g : g = Append(V, Summary)[i]
      OBVIOUS
    <3>2. Happened(g)
      BY <1>1, <1>13, <3>1 DEF Recorded, Happened, V
    <3>3. Happened(g)'
      BY <1>3, <1>15, <3>2 DEF Happened, InExchange
    <3> QED BY <1>6, <3>1, <3>3 DEF Happened, InExchange, Told
  <2> QED BY <1>6, <2>1 DEF Recorded
<1>16. Beginnings'
  <2>1. live' = live /\ (live # Nobody => live \in Runs)
    BY <1>3 DEF StagedTypeOK
  <2>2. live' # Nobody => Untouched(live)' \/ InExchange(live)' \/ Told(live)'
    <3> SUFFICES ASSUME live # Nobody PROVE Untouched(live)' \/ InExchange(live)' \/ Told(live)'
      BY <2>1
    <3>1. PICK r \in Runs : r = live
      BY <2>1
    <3>2. Untouched(r) \/ InExchange(r) \/ Told(r)
      BY <1>1, <3>1 DEF Beginnings
    <3>3. Untouched(r)' \/ InExchange(r)' \/ Told(r)'
      BY <1>8, <1>15, <3>2
    <3> QED BY <2>1, <3>1, <3>3
  <2>3. \A x \in Runs : input'[x] \in {"none", "queued"} => Untouched(x)'
    BY <1>1, <1>3, <1>8 DEF Beginnings
  <2> QED BY <1>1, <1>3, <1>9, <1>10, <2>2, <2>3 DEF Beginnings
<1>17. Counted'
  BY <1>2, <1>3, <1>4, <1>6 DEF Counted
<1>18. AnswersAreTrue'
  <2>1. \A r \in Runs : \A says : Truthful(r, says) => Truthful(r, says)'
    BY <1>8, TruthStays
  <2>2. pend'.state = "ready" => Truthful(pend.run, pend.answers)'
    <3> SUFFICES ASSUME pend.state = "ready" PROVE Truthful(pend.run, pend.answers)'
      BY <1>3
    <3>1. PICK r, says : r = pend.run /\ says = pend.answers
      OBVIOUS
    <3>2. r \in Runs /\ Truthful(r, says)
      BY <1>1, <1>10, <3>1, NoExchangeHasNoState DEF AnswersAreTrue
    <3>3. Truthful(r, says)'
      BY <2>1, <3>2
    <3> QED BY <1>3, <3>1, <3>3
  <2>3. ASSUME NEW i \in DOMAIN Append(V, Summary), Append(V, Summary)[i].kind = "exchange"
        PROVE  Truthful(Visible(Session)[i].run, Visible(Session)[i].says)'
    <3>1. PICK g : g = Append(V, Summary)[i]
      OBVIOUS
    <3>2. g # Summary
      BY <2>3, <3>1, SummaryIsFrame
    <3>3. Happened(g) /\ Truthful(g.run, g.says)
      BY <1>1, <1>13, <2>3, <3>1, <3>2 DEF Recorded, AnswersAreTrue, V
    <3>4. Truthful(g.run, g.says)'
      BY <2>1, <3>2, <3>3 DEF Happened
    <3> QED BY <1>6, <3>1, <3>4
  <2> QED BY <1>6, <2>2, <2>3 DEF AnswersAreTrue
<1>19. FactsInOrder'
  <2> SUFFICES ASSUME NEW i \in DOMAIN Append(V, Summary), NEW j \in DOMAIN Append(V, Summary),
                      i < j, Append(V, Summary)[i].run = Append(V, Summary)[j].run,
                      Append(V, Summary)[i] # Summary, Append(V, Summary)[j] # Summary
               PROVE  Place(Append(V, Summary)[i]) < Place(Append(V, Summary)[j])
    BY <1>6 DEF FactsInOrder, Place
  <2>1. /\ i \in DOMAIN V /\ Append(V, Summary)[i] = V[i]
        /\ j \in DOMAIN V /\ Append(V, Summary)[j] = V[j]
    BY <1>13
  <2> QED BY <1>1, <2>1 DEF FactsInOrder, V
<1>20. Durable'
  BY <1>8, <1>11, <1>12, <1>14, <1>16, <1>17, <1>18, <1>19 DEF Durable
<1> QED BY <1>2, <1>5, <1>6, <1>20 DEF V

\* When the session is idle, nothing is under way and no engine is live.
LEMMA IdleHasNothing ==
  ASSUME StagedTypeOK, Memory, SessionIsIdle
  PROVE  /\ pend = NoExchange /\ live = Nobody
         /\ \A r \in Runs : run[r] = "none" /\ child[r] = "none" /\ input[r] # "queued"
         /\ \A o \in Owners : row[o] = NoRow
<1>1. live # Nobody => live \in Runs /\ run[live] = "running"
  BY DEF StagedTypeOK, Memory
<1> QED BY <1>1 DEF SessionIsIdle

\* A clear moves an idle session to an empty file and starts with new inputs.
LEMMA SwitchToClearKeeps ==
  ASSUME StagedTypeOK, Memory, Position, Durable, SwitchToClear
  PROVE  /\ Durable' /\ row[Session] = NoRow /\ Visible(Session)' = <<>> /\ HasFile(Session)'
<1>1. Controls /\ Rows /\ Recorded /\ Beginnings /\ ChildFiles /\ Counted /\ AnswersAreTrue
      /\ FactsInOrder
  BY DEF Durable
<1>2. /\ pend = NoExchange /\ live = Nobody
      /\ \A r \in Runs : run[r] = "none" /\ child[r] = "none" /\ input[r] # "queued"
      /\ \A o \in Owners : row[o] = NoRow
  BY IdleHasNothing DEF SwitchToClear
<1>3. op.result \in DOMAIN body /\ body[op.result] = <<>>
  BY DEF Position, SwitchToClear, At
<1>4. /\ UNCHANGED <<row, run, pend, child, body, childBody, effects, loaded, live, faults>>
      /\ head' = [generation |-> op.result, count |-> 0]
      /\ input' = [r \in Runs |-> IF input[r] = "none" THEN "none" ELSE "cleared"]
  BY DEF SwitchToClear, files
<1>5. HasFile(Session)' /\ FileOf(Session)' = <<>>
  <2>1. head'.generation = op.result
    BY <1>4
  <2> QED BY <1>3, <1>4, <2>1 DEF HasFile, FileOf
<1>6. Visible(Session)' = <<>>
  BY <1>2, <1>4, <1>5, Names DEF Visible
<1>7. \A r \in Runs : Untouched(r)' = Untouched(r)
  BY <1>1, <1>4, ChildPartsStay DEF FaultsStay
<1>8. Controls'
  BY <1>2, <1>4 DEF Controls
<1>9. Rows'
  BY <1>2, <1>4 DEF Rows
<1>10. Beginnings'
  <2>1. \A r \in Runs : input'[r] \in {"none", "queued"} => input[r] = "none"
    BY <1>4
  <2>2. \A r \in Runs : input'[r] \in {"none", "queued"} => Untouched(r)'
    BY <1>1, <1>7, <2>1 DEF Beginnings
  <2> QED BY <1>2, <1>4, <2>2 DEF Beginnings
<1>11. ChildFiles'
  BY <1>2, <1>4 DEF ChildFiles
<1>12. Counted'
  BY <1>4, <1>6, MessagesOfEmpty DEF Counted
<1>13. AnswersAreTrue'
  BY <1>2, <1>4, <1>6 DEF AnswersAreTrue, NoExchange
<1>14. Recorded' /\ FactsInOrder'
  BY <1>6 DEF Recorded, FactsInOrder
<1> QED BY <1>2, <1>5, <1>6, <1>8, <1>9, <1>10, <1>11, <1>12, <1>13, <1>14, Names DEF Durable

\* When every run is settled, no exchange, child or staged append is left.
LEMMA AllSettled ==
  ASSUME StagedTypeOK, Durable, \A r \in Runs : run[r] = "none"
  PROVE  /\ pend = NoExchange /\ \A r \in Runs : child[r] = "none"
         /\ \A o \in Owners : row[o] = NoRow
<1>1. Controls /\ Rows
  BY DEF Durable
<1>2. pend = NoExchange
  BY <1>1, ExchangeOfRun DEF Controls
<1>3. \A r \in Runs : child[r] = "none"
  BY <1>1 DEF Controls
<1>4. \A r \in Runs : row[r] = NoRow
  BY <1>1, <1>3, ChildRowHasChild
<1>5. row[Session] = NoRow
  <2> SUFFICES ASSUME row[Session] # NoRow PROVE FALSE
    OBVIOUS
  <2>1. PICK f : f = row[Session].frame
    OBVIOUS
  <2>2. Stageable(Session, f)
    BY <1>1, <2>1, Names DEF Rows
  <2>3. /\ f.run \in Runs /\ f.kind \in {"start", "exchange", "settle", "directory"}
        /\ Applies(Session, f)
    BY <2>2 DEF Stageable
  <2> QED BY <1>2, <1>3, <2>3 DEF Applies, NoExchange
<1> QED BY <1>2, <1>3, <1>4, <1>5, Names

\* A session is taken into use when nothing is left to prepare.
LEMMA InstallPreparedKeeps ==
  ASSUME StagedTypeOK, Memory, Durable, InstallPrepared
  PROVE  Durable' /\ Visible(Session)' = Visible(Session)
<1>1. Controls /\ Rows /\ Recorded /\ Beginnings /\ ChildFiles /\ Counted /\ AnswersAreTrue
      /\ FactsInOrder
  BY DEF Durable
<1>2. /\ UNCHANGED <<head, row, input, run, pend, child, body, childBody, effects, live,
                   faults>>
      /\ \A r \in Runs : run[r] = "none"
  BY DEF InstallPrepared, tables, files
<1>3. /\ pend = NoExchange /\ \A r \in Runs : child[r] = "none"
      /\ \A o \in Owners : row[o] = NoRow
  BY <1>2, AllSettled
<1>4. live = Nobody
  <2>1. live # Nobody => live \in Runs /\ run[live] = "running"
    BY DEF StagedTypeOK, Memory
  <2> QED BY <1>2, <2>1
<1>5. \A o \in Owners : KeptFile(o)
  BY <1>2, SameFiles DEF FilesStay
<1>6. Visible(Session)' = Visible(Session) /\ HasFile(Session)' = HasFile(Session)
  BY <1>2, <1>5, SameView
<1>7. Controls'
  BY <1>1, <1>2, <1>3 DEF Controls
<1>8. Rows'
  BY <1>2, <1>3 DEF Rows
<1>9. Recorded'
  BY <1>1, <1>2, <1>6 DEF Recorded, Happened, InExchange, Told
<1>10. Beginnings'
  <2>1. \A r \in Runs : Untouched(r)' = Untouched(r)
    BY <1>2, <1>5, Names DEF Untouched, KeptFile
  <2> QED BY <1>1, <1>2, <1>3, <1>4, <2>1 DEF Beginnings
<1>11. ChildFiles'
  BY <1>2, <1>3 DEF ChildFiles
<1>12. Counted'
  BY <1>1, <1>2, <1>6 DEF Counted
<1>13. AnswersAreTrue'
  <2>1. \A r \in Runs : \A says : StaysTrue(r, says)
    BY <1>2, <1>5, Names DEF StaysTrue, FaultsStay
  <2> QED BY <1>1, <1>2, <1>6, <2>1, AnswersStay
<1>14. FactsInOrder'
  BY <1>1, <1>6 DEF FactsInOrder
<1> QED BY <1>6, <1>7, <1>8, <1>9, <1>10, <1>11, <1>12, <1>13, <1>14 DEF Durable

-----------------------------------------------------------------------------
(* ---- what the steps do to files -------------------------------------------*)
FilesTyped ==
  /\ DOMAIN body \subseteq Generations /\ body \in [DOMAIN body -> Seq(Frames)]
  /\ DOMAIN childBody \subseteq Runs /\ childBody \in [DOMAIN childBody -> Seq(Frames)]

\* A file is replaced by another one.
LEMMA PutKeeps ==
  ASSUME StagedTypeOK, NEW o \in Owners, HasFile(o), NEW t \in Seq(Frames), PutFile(o, t),
         head' = head
  PROVE  /\ FilesTyped' /\ HasFile(o)' /\ FileOf(o)' = t
         /\ \A x \in Owners : x # o => KeptFile(x)
<1>1. CASE o = Session
  <2>1. /\ body' = [body EXCEPT ![head.generation] = t] /\ childBody' = childBody
        /\ head.generation \in DOMAIN body
    BY <1>1, SessionFile DEF PutFile
  <2>2. /\ DOMAIN body' = DOMAIN body /\ body'[head.generation] = t
        /\ \A g \in DOMAIN body : body'[g] \in Seq(Frames)
    BY <2>1 DEF StagedTypeOK
  <2>3. FilesTyped'
    <3>1. body' = [g \in DOMAIN body |-> body'[g]]
      BY <2>1 DEF StagedTypeOK
    <3>2. body' \in [DOMAIN body -> Seq(Frames)]
      BY <2>2, <3>1
    <3> QED BY <2>1, <2>2, <3>2 DEF StagedTypeOK, FilesTyped
  <2>4. HasFile(Session)' /\ FileOf(Session)' = t
    BY <2>1, <2>2 DEF HasFile, FileOf
  <2>5. \A x \in Runs : KeptFile(x)
    BY <2>1, Names DEF KeptFile, HasFile, FileOf
  <2> QED BY <1>1, <2>3, <2>4, <2>5, Names
<1>2. CASE o \in Runs
  <2>1. /\ childBody' = [childBody EXCEPT ![o] = t] /\ body' = body
        /\ o \in DOMAIN childBody
    BY <1>2, ChildFile, Names DEF PutFile
  <2>2. /\ DOMAIN childBody' = DOMAIN childBody /\ childBody'[o] = t
        /\ \A x \in DOMAIN childBody : childBody'[x] \in Seq(Frames)
        /\ \A x \in DOMAIN childBody : x # o => childBody'[x] = childBody[x]
    BY <2>1 DEF StagedTypeOK
  <2>3. FilesTyped'
    <3>1. childBody' = [x \in DOMAIN childBody |-> childBody'[x]]
      BY <2>1 DEF StagedTypeOK
    <3>2. childBody' \in [DOMAIN childBody -> Seq(Frames)]
      BY <2>2, <3>1
    <3> QED BY <2>1, <2>2, <3>2 DEF StagedTypeOK, FilesTyped
  <2>4. HasFile(o)' /\ FileOf(o)' = t
    BY <1>2, <2>1, <2>2, Names DEF HasFile, FileOf
  <2>5. KeptFile(Session)
    BY <2>1 DEF KeptFile, HasFile, FileOf
  <2>6. \A x \in Runs : x # o => KeptFile(x)
    BY <2>1, <2>2, Names DEF KeptFile, HasFile, FileOf
  <2> QED BY <2>3, <2>4, <2>5, <2>6, Names
<1> QED BY <1>1, <1>2, Names

\* What is staged, written after what was there before, in whole or in part.
LEMMA WriteRewrites ==
  ASSUME StagedTypeOK, NEW o \in Owners, row[o] # NoRow, Reconcilable(o),
         NEW tail \in {<<>>, <<row[o].frame>>, <<Torn(row[o].frame)>>},
         PutFile(o, Prefix(o) \o tail), UNCHANGED <<head, row>>
  PROVE  /\ FilesTyped' /\ RewrittenFile(o) /\ FileOf(o)' = Prefix(o) \o tail
         /\ \A x \in Owners : x # o => KeptFile(x)
<1>1. row[o].frame \in Frames /\ row[o].base \in Nat /\ Torn(row[o].frame) \in Frames
  BY RowsHoldFrames, TornIsFrame
<1>2. HasFile(o) /\ FileOf(o) \in Seq(Frames) /\ row[o].base <= Len(FileOf(o))
  BY FilesHoldFrames, PrefixHoldsFrames DEF Reconcilable
<1>3. tail \in Seq(Frames)
  <2>1. <<>> \in Seq(Frames) /\ <<row[o].frame>> \in Seq(Frames)
        /\ <<Torn(row[o].frame)>> \in Seq(Frames)
    BY <1>1
  <2> QED BY <2>1
<1> DEFINE s == FileOf(o)
           b == row[o].base
           t == SubSeq(s, 1, b) \o tail
<1>4. /\ t \in Seq(Frames) /\ Len(t) >= b
      /\ SubSeq(t, 1, b) = SubSeq(s, 1, b)
      /\ SubSeq(t, b + 1, Len(t)) = tail
  <2>1. s \in Seq(Frames) /\ b \in Nat /\ b <= Len(s)
    BY <1>1, <1>2
  <2> HIDE DEF s, b
  <2> QED BY <1>3, <2>1, WrittenFile
<1>5. t = Prefix(o) \o tail
  BY DEF Prefix
<1> HIDE DEF t
<1>6. /\ FilesTyped' /\ HasFile(o)' /\ FileOf(o)' = t
      /\ \A x \in Owners : x # o => KeptFile(x)
  BY <1>2, <1>4, <1>5, PutKeeps
<1>7. row'[o] = row[o]
  OBVIOUS
<1>8. Prefix(o)' = Prefix(o)
  BY <1>4, <1>6, <1>7 DEF Prefix
<1>9. Staged(o)' = tail
  BY <1>4, <1>6, <1>7 DEF Staged
<1>10. Reconcilable(o)'
  BY <1>4, <1>6, <1>7, <1>9 DEF Reconcilable
<1> QED BY <1>2, <1>5, <1>6, <1>8, <1>10 DEF RewrittenFile

\* Files of generations other than the session's come and go.
LEMMA OtherGenerations ==
  ASSUME UNCHANGED <<head, childBody>>,
         head.generation \in DOMAIN body' <=> head.generation \in DOMAIN body,
         head.generation \in DOMAIN body => body'[head.generation] = body[head.generation]
  PROVE  \A o \in Owners : KeptFile(o)
BY Names DEF KeptFile, HasFile, FileOf

\* A generation is added; the others stay.
LEMMA AddedIsTyped ==
  ASSUME StagedTypeOK, NEW g \in Generations, NEW t \in Seq(Frames), body' = Added(g, t),
         childBody' = childBody
  PROVE  /\ FilesTyped' /\ DOMAIN body' = DOMAIN body \cup {g} /\ body'[g] = t
         /\ \A x \in DOMAIN body : x # g => body'[x] = body[x]
BY DEF StagedTypeOK, FilesTyped, Added

\* Generations are removed; the others stay.
LEMMA WithoutIsTyped ==
  ASSUME StagedTypeOK, NEW gs, body' = Without(gs), childBody' = childBody
  PROVE  /\ FilesTyped' /\ DOMAIN body' = DOMAIN body \ gs
         /\ \A x \in DOMAIN body \ gs : body'[x] = body[x]
BY DEF StagedTypeOK, FilesTyped, Without

\* Leftover generations are removed; the session keeps its file.
LEMMA WithoutOthers ==
  ASSUME StagedTypeOK, NEW gs, head.generation \notin gs, body' = Without(gs),
         UNCHANGED <<head, childBody>>
  PROVE  FilesTyped' /\ \A o \in Owners : KeptFile(o)
BY WithoutIsTyped, OtherGenerations

\* Files that stay stay files.
LEMMA FilesStayTyped ==
  ASSUME StagedTypeOK, UNCHANGED <<body, childBody>>
  PROVE  FilesTyped'
BY DEF StagedTypeOK, FilesTyped

\* After a step that stages nothing, finishes nothing and loses no file of the session,
\* readers see what they saw.
Unseen == Visible(Session)' = Visible(Session) /\ row'[Session] = row[Session]
AcceptsFact == /\ Visible(Session)' = Visible(Session)
               /\ row[Session] = NoRow /\ row'[Session] # NoRow
PublishesFact == /\ Visible(Session)' = Append(Visible(Session), row[Session].frame)
                 /\ row[Session] # NoRow /\ row'[Session] = NoRow
                 /\ row[Session].frame # Summary
Summarizes == /\ Visible(Session)' = Append(Visible(Session), Summary)
              /\ row'[Session] = row[Session]
ClearsFacts == /\ Visible(Session)' = <<>>
               /\ row[Session] = NoRow /\ row'[Session] = NoRow
StoryGoesOn == Unseen \/ AcceptsFact \/ PublishesFact \/ Summarizes \/ ClearsFacts

\* Steps after which the worker rests and that changed no row.
LEMMA RestKeeps ==
  ASSUME StoreInv, FilesChange, StagedTypeOK', at' = Idle, loaded' => phase' = "off",
         \/ live' = Nobody
         \/ loaded' = loaded /\ (at.do \notin {"write", "finalize"} \/ at.who # Session),
         Receipts', Spared'
  PROVE  StoreInv' /\ StoryGoesOn
<1> USE DEF StoreInv, Process
<1>1. Durable'
  BY FilesChangeKeeps
<1>2. StoryGoesOn
  BY VisibleStays DEF FilesChange, RowsStay, StoryGoesOn, Unseen, ClearsFacts
<1>3. Position'
  BY DEF Position, Idle
<1>5. at'.who # Session
  BY Names DEF Idle
<1>4. Memory'
  <2>1. live' # Nobody => /\ live' = live /\ loaded' = loaded
                          /\ at.do \notin {"write", "finalize"} \/ at.who # Session
    BY DEF FilesChange
  <2>2. live' # Nobody => row[Session] = NoRow
    BY <2>1, NothingStaged
  <2>3. row' = row /\ run' = run
    BY DEF FilesChange, RowsStay
  <2> QED BY <1>5, <2>1, <2>2, <2>3 DEF Memory
<1>6. SingleRun'
  BY DEF FilesChange, RowsStay, SingleRun
<1> QED BY <1>1, <1>2, <1>3, <1>4, <1>6

\* What is lost by failures only is kept by steps that keep the files.
LEMMA SparedStays ==
  ASSUME Spared, \A o \in Owners : HasFile(o) => HasFile(o)', child' = child,
         "cleanup" \notin Faults =>
             op'.state # "cleanup" \/ (op' = op /\ (op.state = "cleanup" =>
                at'.do = "cleanup" \/ (~loaded' /\ phase' \in {"off", "operations"})))
  PROVE  Spared'
BY Names DEF Spared

\* A clear is cleaned up by its command or by the next preparation's first step.
LEMMA NoCleanUpDue ==
  ASSUME StoreInv, "cleanup" \notin Faults, at.do # "cleanup",
         loaded \/ phase \notin {"off", "operations"} \/ at # Idle
  PROVE  op.state # "cleanup"
BY DEF StoreInv, Process, Spared, Memory

-----------------------------------------------------------------------------
(* ---- what the process remembers -------------------------------------------*)
Operations == [kind : {"none", "compact", "clear"}, state : {"none", "preparing", "cleanup"},
               source : 0 .. MaxGeneration, result : 0 .. MaxGeneration]
MemoryTyped ==
  /\ at \in [do : Steps, who : Owners \cup {Nobody}]
  /\ candidate \in 0 .. MaxGeneration /\ phase \in Phases
  /\ sick \in BOOLEAN /\ bad \in BOOLEAN /\ loaded \in BOOLEAN
  /\ badChildren \subseteq Runs /\ live \in Runs \cup {Nobody}
  /\ faults \in 0 .. MaxFaults
RowsTyped ==
  /\ head \in [generation : Generations, count : Nat]
  /\ row \in [Owners -> {NoRow} \cup [step : {"staged"}, frame : Frames, base : Nat,
                                      generation : Generations]]
  /\ input \in [Runs -> {"none", "queued", "committed", "cleared"}]
  /\ run \in [Runs -> {"none", "accepted", "running"}]
  /\ child \in [Runs -> {"none", "accepted", "running"}]
  /\ pend \in {NoExchange} \cup [state : {"begun", "ready"}, run : Runs,
                                  started : SUBSET Calls, located : BOOLEAN,
                                  answers : [Calls -> Words]]
  /\ effects \in [Runs -> 0 .. 1]

\* The type invariant by what a step changes: rows, files, the receipt and memory.
LEMMA TypesTogether ==
  StagedTypeOK <=> RowsTyped /\ FilesTyped /\ op \in Operations /\ MemoryTyped
BY DEF StagedTypeOK, RowsTyped, FilesTyped, Operations, MemoryTyped

LEMMA TypesTogetherNext ==
  RowsTyped' /\ FilesTyped' /\ op' \in Operations /\ MemoryTyped' => StagedTypeOK'
BY DEF StagedTypeOK, RowsTyped, FilesTyped, Operations, MemoryTyped

\* Rows that stay stay rows.
LEMMA RowsStayTyped ==
  ASSUME StagedTypeOK, RowsStay
  PROVE  RowsTyped'
BY DEF StagedTypeOK, RowsStay, RowsTyped

\* No receipt is one of the values of op.
LEMMA NoOperationIsTyped ==
  NoOperation \in Operations /\ NoOperation.state = "none" /\ NoOperation.kind = "none"
BY StagedHistoryAssumption DEF NoOperation, Operations

\* Failures are counted up to their bound.
LEMMA FaultsAreCounted ==
  ASSUME StagedTypeOK, faults' = faults \/ (faults < MaxFaults /\ faults' = faults + 1)
  PROVE  faults' \in 0 .. MaxFaults
BY StagedHistoryAssumption DEF StagedTypeOK

\* Every place of the worker is one of the values of at.
LEMMA IdleIsTyped ==
  /\ Idle \in [do : Steps, who : Owners \cup {Nobody}] /\ Idle.do = "idle" /\ Idle.who = Nobody
  /\ \A step \in Steps : \A o \in Owners :
       /\ At(step, o) \in [do : Steps, who : Owners \cup {Nobody}]
       /\ At(step, o).do = step /\ At(step, o).who = o
       /\ step # "idle" => At(step, o) # Idle
BY DEF Idle, Steps, At

\* A phase is followed by a phase.
LEMMA PhasesFollow == phase \in Phases => PhaseAfter(phase) \in Phases
BY DEF Phases, PhaseAfter

\* Once something has failed, that stays so.
LEMMA FaultsGrow ==
  ASSUME StagedTypeOK, faults' = faults \/ faults' = faults + 1
  PROVE  FaultsStay
<1>1. faults \in Nat
  BY StagedHistoryAssumption DEF StagedTypeOK
<1> QED BY <1>1 DEF FaultsStay

\* A command that fails.
LEMMA FailedKeeps ==
  ASSUME StoreInv, NEW o \in Owners, Failed(o), at.who = o \/ (o = Session /\ phase = "exchange"),
         at.do # "cleanup", at # Idle \/ phase = "exchange",
         FilesChange, FilesTyped', \A x \in Owners : HasFile(x) => HasFile(x)', op' = op,
         faults' = faults \/ (faults < MaxFaults /\ faults' = faults + 1)
  PROVE  StoreInv' /\ StoryGoesOn
<1> USE DEF StoreInv, Process
<1>1. /\ at' = Idle
      /\ phase' = IF phase \in {"rows", "childrows", "exchange"} THEN PhaseAfter(phase) ELSE "off"
      /\ sick' = (sick \/ phase \in {"rows", "exchange"})
      /\ badChildren' = IF phase # "childrows" THEN badChildren
                        ELSE badChildren \cup {IF o = Session THEN row[o].frame.run ELSE o}
      /\ live' = IF o = Session THEN Nobody ELSE live
      /\ UNCHANGED <<candidate, bad, loaded>>
  BY DEF Failed
<1>2. phase \in Phases /\ phase' \in Phases
  BY <1>1, PhasesFollow DEF StagedTypeOK, Phases
<1>3. badChildren' \subseteq Runs
  <2>1. phase = "childrows" /\ o = Session => row[o].frame.run \in Runs
    <3> SUFFICES ASSUME phase = "childrows", o = Session PROVE row[o].frame.run \in Runs
      OBVIOUS
    <3>1. row[o] # NoRow
      BY DEF Memory
    <3>2. PICK f : f = row[o].frame
      OBVIOUS
    <3>3. Stageable(o, f)
      BY <3>1, <3>2 DEF Durable, Rows
    <3>4. f.run \in Runs
      BY <3>3 DEF Stageable
    <3> QED BY <3>2, <3>4
  <2>2. badChildren \subseteq Runs /\ (o # Session => o \in Runs)
    BY Names DEF StagedTypeOK
  <2> QED BY <1>1, <2>1, <2>2
<1>4. MemoryTyped'
  BY <1>1, <1>2, <1>3, FaultsAreCounted, IdleIsTyped DEF StagedTypeOK, MemoryTyped
<1>5. StagedTypeOK'
  BY <1>4, RowsStayTyped, TypesTogether, TypesTogetherNext DEF FilesChange
<1>6. loaded' => phase' = "off"
  BY <1>1 DEF Memory
<1>7. "cleanup" \notin Faults => op.state # "cleanup"
  BY NoCleanUpDue
<1>8. Spared'
  BY <1>7, SparedStays DEF FilesChange, RowsStay
<1>9. Receipts'
  BY DEF Receipts
<1>10. live' = Nobody \/ (loaded' = loaded /\ at.who # Session)
  BY <1>1
<1> QED BY <1>1, <1>5, <1>6, <1>8, <1>9, <1>10, RestKeeps

\* To change nothing of rows and files is one of the changes considered.
LEMMA FilesStayChange ==
  ASSUME StagedTypeOK, UNCHANGED <<head, row, input, run, pend, child, effects, body, childBody>>,
         loaded' => loaded, live' \in {live, Nobody},
         faults' = faults \/ faults' = faults + 1
  PROVE  FilesChange /\ \A x \in Owners : HasFile(x) => HasFile(x)'
<1>1. \A x \in Owners : KeptFile(x)
  BY SameFiles DEF FilesStay
<1> QED BY <1>1, FaultsGrow DEF FilesChange, RowsStay, KeptFile

\* A write fails: what it left behind is still a tail recovery accepts.
LEMMA WriteFailsKeeps ==
  ASSUME StoreInv, NEW o \in Owners, WriteFails(o)
  PROVE  StoreInv' /\ StoryGoesOn
<1>1. /\ at = At("write", o) /\ Failed(o)
      /\ UNCHANGED <<head, row, input, run, pend, child, op, effects>>
      /\ loaded' = loaded /\ live' \in {live, Nobody}
  BY DEF WriteFails, tables, Failed
<1>2. at # Idle /\ at.do # "cleanup" /\ at.who = o /\ row[o] # NoRow
      /\ StagedTypeOK /\ Durable
  BY <1>1 DEF StoreInv, Process, Memory, Position, At, Idle
<1>3. CASE Writable(o)
  <2>1. Fails("io") /\ WrittenInPart(o)
    BY <1>3 DEF WriteFails
  <2>2. PICK tail \in {<<>>, <<row[o].frame>>, <<Torn(row[o].frame)>>} :
          PutFile(o, Prefix(o) \o tail)
    BY <2>1 DEF WrittenInPart
  <2>3. FilesTyped' /\ RewrittenFile(o) /\ \A x \in Owners : x # o => KeptFile(x)
    BY <1>1, <1>2, <1>3, <2>2, WriteRewrites DEF Writable
  <2>4. FilesChange
    <3>1. FaultsStay
      BY <1>2, <2>1, FaultsGrow DEF Fails
    <3> QED BY <1>1, <2>3, <3>1 DEF FilesChange, RowsStay
  <2>5. \A x \in Owners : HasFile(x) => HasFile(x)'
    BY <2>3 DEF RewrittenFile, KeptFile
  <2> QED BY <1>1, <1>2, <2>1, <2>3, <2>4, <2>5, FailedKeeps DEF Fails, MayFail
<1>4. CASE ~Writable(o)
  <2>1. UNCHANGED <<body, childBody, faults>>
    BY <1>4 DEF WriteFails, files
  <2> QED BY <1>1, <1>2, <2>1, FilesStayChange, FilesStayTyped, FailedKeeps
<1> QED BY <1>3, <1>4

\* The transaction that finishes an append fails: the row stays for recovery.
LEMMA FinalizeFailsKeeps ==
  ASSUME StoreInv, NEW o \in Owners, FinalizeFails(o)
  PROVE  StoreInv' /\ StoryGoesOn
<1>1. /\ at = At("finalize", o) /\ Failed(o)
      /\ UNCHANGED <<head, row, input, run, pend, child, op, effects, body, childBody>>
      /\ loaded' = loaded /\ live' \in {live, Nobody}
      /\ faults' = faults \/ (faults < MaxFaults /\ faults' = faults + 1)
  BY DEF FinalizeFails, tables, files, Failed, Fails, MayFail
<1>2. at # Idle /\ at.do # "cleanup" /\ at.who = o
      /\ StagedTypeOK
  BY <1>1 DEF StoreInv, Process, Memory, At, Idle
<1> QED BY <1>1, <1>2, FilesStayChange, FilesStayTyped, FailedKeeps

\* The exchange cannot be staged: its answers stay frozen.
LEMMA StageExchangeFailsKeeps ==
  ASSUME StoreInv, StageExchangeFails
  PROVE  StoreInv' /\ StoryGoesOn
<1>1. /\ at = At("stage", Session) /\ Failed(Session)
      /\ UNCHANGED <<head, row, input, run, pend, child, op, effects, body, childBody>>
      /\ loaded' = loaded /\ live' = Nobody
      /\ faults' = faults \/ (faults < MaxFaults /\ faults' = faults + 1)
  BY DEF StageExchangeFails, tables, files, Failed, Fails, MayFail
<1>2. at # Idle /\ at.do # "cleanup" /\ at.who = Session
      /\ StagedTypeOK
  BY <1>1 DEF StoreInv, Process, Memory, At, Idle
<1> QED BY <1>1, <1>2, Names, FilesStayChange, FilesStayTyped, FailedKeeps

\* The entry of a child that was left behind cannot be staged.
LEMMA StageDirectoryFailsKeeps ==
  ASSUME StoreInv, NEW r \in Runs, StageDirectoryFails(r)
  PROVE  StoreInv' /\ StoryGoesOn
<1>1. /\ at = At("directory", r) /\ Failed(r)
      /\ UNCHANGED <<head, row, input, run, pend, child, op, effects, body, childBody>>
      /\ loaded' = loaded /\ live' \in {live, Nobody}
      /\ faults' = faults \/ (faults < MaxFaults /\ faults' = faults + 1)
  BY DEF StageDirectoryFails, tables, files, Failed, Fails, MayFail
<1>2. at # Idle /\ at.do # "cleanup" /\ at.who = r /\ StagedTypeOK
  BY <1>1 DEF StoreInv, Process, At, Idle
<1> QED BY <1>1, <1>2, Names, FilesStayChange, FilesStayTyped, FailedKeeps

\* Recovery cannot answer the exchange and marks the session.
LEMMA ExchangeUnrecoverableKeeps ==
  ASSUME StoreInv, ExchangeUnrecoverable
  PROVE  StoreInv' /\ StoryGoesOn
<1>1. /\ at = Idle /\ phase = "exchange" /\ Failed(Session)
      /\ UNCHANGED <<head, row, input, run, pend, child, op, effects, body, childBody>>
      /\ loaded' = loaded /\ live' = Nobody
      /\ faults' = faults \/ (faults < MaxFaults /\ faults' = faults + 1)
  BY DEF ExchangeUnrecoverable, InPhase, tables, files, Failed, Fails, MayFail
<1>2. at.do # "cleanup" /\ StagedTypeOK
  BY <1>1 DEF StoreInv, Process, Idle
<1> QED BY <1>1, <1>2, Names, FilesStayChange, FilesStayTyped, FailedKeeps


-----------------------------------------------------------------------------
(* ---- the steps of the worker that change no row ---------------------------*)
\* All files are kept.
LEMMA KeptChange ==
  ASSUME StagedTypeOK, RowsStay, \A o \in Owners : KeptFile(o), loaded' => loaded,
         live' \in {live, Nobody}, faults' = faults \/ faults' = faults + 1
  PROVE  FilesChange /\ \A x \in Owners : HasFile(x) => HasFile(x)'
BY FaultsGrow DEF FilesChange, KeptFile

\* Steps after which the worker rests and that lose no file.
LEMMA KeptRestKeeps ==
  ASSUME StoreInv, RowsStay, \A o \in Owners : KeptFile(o), FilesTyped', op' \in Operations,
         MemoryTyped', at' = Idle, loaded' => loaded /\ phase' = "off",
         faults' = faults \/ faults' = faults + 1,
         live' = Nobody \/ (live' = live /\ loaded' = loaded /\ at.do \notin {"write", "finalize"}),
         op' = op \/ op'.kind # "clear",
         "cleanup" \notin Faults =>
             \/ op'.state # "cleanup"
             \/ op' = op /\ (op.state = "cleanup" => ~loaded' /\ phase' \in {"off", "operations"})
  PROVE  StoreInv' /\ StoryGoesOn
<1> USE DEF StoreInv, Process
<1>1. FilesChange /\ \A x \in Owners : HasFile(x) => HasFile(x)'
  BY KeptChange
<1>2. StagedTypeOK'
  BY RowsStayTyped, TypesTogetherNext
<1>3. Spared'
  BY <1>1, SparedStays DEF RowsStay
<1>4. Receipts'
  BY DEF Receipts
<1> QED BY <1>1, <1>2, <1>3, <1>4, RestKeeps

\* A session that is served has no clear to clean up.
LEMMA ServedIsClean ==
  ASSUME StoreInv, at.do # "cleanup", loaded \/ phase \notin {"off", "operations"}
  PROVE  "cleanup" \notin Faults => op.state # "cleanup"
BY NoCleanUpDue

\* The engine of a run stops; the run stays where it is.
LEMMA EngineStopsKeeps ==
  ASSUME StoreInv, EngineStops
  PROVE  StoreInv' /\ StoryGoesOn
<1> USE DEF StoreInv, Process
<1>1. /\ at = Idle /\ loaded /\ phase = "off" /\ live' = Nobody
      /\ faults < MaxFaults /\ faults' = faults + 1
      /\ UNCHANGED <<head, row, input, run, pend, child, op, body, childBody, at, candidate,
                     phase, sick, bad, badChildren, loaded, effects>>
  BY DEF EngineStops, Serving, tables, files, Fails, MayFail
<1>2. \A o \in Owners : KeptFile(o)
  BY <1>1, SameFiles DEF FilesStay
<1>3. MemoryTyped'
  BY <1>1, FaultsAreCounted DEF StagedTypeOK, MemoryTyped
<1>4. RowsStay /\ op' \in Operations /\ FilesTyped'
  BY <1>1, FilesStayTyped, TypesTogether DEF RowsStay
<1>5. "cleanup" \notin Faults => op.state # "cleanup"
  BY <1>1, IdleIsTyped, ServedIsClean
<1> QED BY <1>1, <1>2, <1>3, <1>4, <1>5, KeptRestKeeps

\* The settlement of a run with a child left behind is refused.
LEMMA SettlementRefusedKeeps ==
  ASSUME StoreInv, NEW r \in Runs, SettlementRefused(r)
  PROVE  StoreInv' /\ StoryGoesOn
<1> USE DEF StoreInv, Process
<1>1. /\ at = Idle /\ loaded /\ phase = "off" /\ live' = Nobody
      /\ UNCHANGED <<head, row, input, run, pend, child, op, body, childBody, at, candidate,
                     phase, sick, bad, badChildren, loaded, effects, faults>>
  BY DEF SettlementRefused, Serving, tables, files
<1>2. \A o \in Owners : KeptFile(o)
  BY <1>1, SameFiles DEF FilesStay
<1>3. MemoryTyped'
  BY <1>1 DEF StagedTypeOK, MemoryTyped
<1>4. RowsStay /\ op' \in Operations /\ FilesTyped'
  BY <1>1, FilesStayTyped, TypesTogether DEF RowsStay
<1>5. "cleanup" \notin Faults => op.state # "cleanup"
  BY <1>1, IdleIsTyped, ServedIsClean
<1> QED BY <1>1, <1>2, <1>3, <1>4, <1>5, KeptRestKeeps

\* The worker is replacing or clearing only in a session that is prepared.
LEMMA ReplacingIsServed ==
  ASSUME StoreInv, at.do \in {"switch", "remove", "clearfile", "clearswitch"}
  PROVE  /\ loaded /\ phase = "off"
         /\ "cleanup" \notin Faults => op.state # "cleanup"
         /\ at.do \in {"switch", "remove"} =>
              row[Session] = NoRow /\ candidate # head.generation
         /\ at.do \in {"clearfile", "clearswitch"} =>
              SessionIsIdle /\ op.result \in Generations /\ op.result # head.generation
<1>1. loaded /\ phase = "off"
  BY DEF StoreInv, Process, Position, Memory
<1>2. "cleanup" \notin Faults => op.state # "cleanup"
  BY <1>1, ServedIsClean
<1> QED BY <1>1, <1>2 DEF StoreInv, Process, Position

\* A replacement fails: its candidate is not the generation in use.
LEMMA ReplacementFailsKeeps ==
  ASSUME StoreInv, ReplacementFails
  PROVE  StoreInv' /\ StoryGoesOn
<1> USE DEF StoreInv, Process
<1>1. /\ at = At("switch", Session) /\ body' = Without({candidate})
      /\ candidate' = 0 /\ at' = Idle /\ live' = Nobody
      /\ faults' = faults \/ (faults < MaxFaults /\ faults' = faults + 1)
      /\ UNCHANGED <<head, row, input, run, pend, child, op, childBody, phase, sick, bad,
                     badChildren, loaded, effects>>
  BY DEF ReplacementFails, tables, Fails, MayFail
<1>2. /\ loaded /\ phase = "off" /\ candidate # head.generation
      /\ "cleanup" \notin Faults => op.state # "cleanup"
  BY <1>1, ReplacingIsServed DEF At
<1>3. FilesTyped' /\ \A o \in Owners : KeptFile(o)
  BY <1>1, <1>2, WithoutOthers
<1>4. MemoryTyped'
  BY <1>1, FaultsAreCounted, IdleIsTyped, StagedHistoryAssumption DEF StagedTypeOK, MemoryTyped
<1>5. RowsStay /\ op' \in Operations
  BY <1>1, TypesTogether DEF RowsStay
<1> QED BY <1>1, <1>2, <1>3, <1>4, <1>5, KeptRestKeeps

\* A clear fails before its switch: only its own file is removed.
LEMMA SwitchToClearFailsKeeps ==
  ASSUME StoreInv, SwitchToClearFails
  PROVE  StoreInv' /\ StoryGoesOn
<1> USE DEF StoreInv, Process
<1>1. /\ at = At("clearswitch", Session) /\ body' = Without({op.result})
      /\ op' = NoOperation /\ at' = Idle
      /\ faults < MaxFaults /\ faults' = faults + 1
      /\ UNCHANGED <<head, row, input, run, pend, child, childBody, candidate, phase, sick, bad,
                     badChildren, loaded, live, effects>>
  BY DEF SwitchToClearFails, Fails, MayFail
<1>2. at.do = "clearswitch" /\ loaded /\ phase = "off" /\ op.result # head.generation
  BY <1>1, ReplacingIsServed DEF At
<1>3. FilesTyped' /\ \A o \in Owners : KeptFile(o)
  BY <1>1, <1>2, WithoutOthers
<1>4. MemoryTyped'
  BY <1>1, FaultsAreCounted, IdleIsTyped DEF StagedTypeOK, MemoryTyped
<1>5. RowsStay
  BY <1>1 DEF RowsStay
<1> QED BY <1>1, <1>2, <1>3, <1>4, <1>5, NoOperationIsTyped, KeptRestKeeps

\* Steps that change a receipt or a phase and nothing else.
LEMMA ReceiptKeeps ==
  ASSUME StoreInv, at.do \in {"idle", "clearfile"}, at' = Idle, op' \in Operations,
         loaded, phase = "off", op'.kind # "clear", op'.state # "cleanup",
         UNCHANGED <<head, row, input, run, pend, child, body, childBody, candidate, phase,
                     sick, bad, badChildren, loaded, live, effects, faults>>
  PROVE  StoreInv' /\ StoryGoesOn
<1> USE DEF StoreInv, Process
<1>1. \A o \in Owners : KeptFile(o)
  BY SameFiles DEF FilesStay
<1>2. MemoryTyped'
  BY IdleIsTyped DEF StagedTypeOK, MemoryTyped
<1>3. RowsStay /\ FilesTyped'
  BY FilesStayTyped DEF RowsStay
<1> QED BY <1>1, <1>2, <1>3, KeptRestKeeps

\* The receipt of a compaction comes and goes.
LEMMA CompactionReceiptsKeep ==
  ASSUME StoreInv, PrepareSessionCompaction \/ FinishSessionCompaction
  PROVE  StoreInv' /\ StoryGoesOn
<1>1. /\ at = Idle /\ loaded /\ phase = "off"
      /\ UNCHANGED <<head, row, input, run, pend, child, body, childBody, at, candidate, phase,
                     sick, bad, badChildren, loaded, live, effects, faults>>
  BY DEF PrepareSessionCompaction, FinishSessionCompaction, Serving, files, memory
<1>2. op' \in Operations /\ op'.kind # "clear" /\ op'.state # "cleanup"
  <2>1. CASE op' = NoOperation
    BY <2>1, NoOperationIsTyped
  <2>2. CASE op' = [kind |-> "compact", state |-> "preparing", source |-> head.generation,
                    result |-> 0]
    <3>1. head.generation \in 0 .. MaxGeneration /\ 0 \in 0 .. MaxGeneration
      BY StagedHistoryAssumption DEF StoreInv, Process, StagedTypeOK, Generations
    <3> QED BY <2>2, <3>1 DEF Operations
  <2> QED BY <2>1, <2>2 DEF PrepareSessionCompaction, FinishSessionCompaction
<1> QED BY <1>1, <1>2, IdleIsTyped, ReceiptKeeps

\* The preparation goes on, or gives up, without touching rows or files.
LEMMA PhaseChangeKeeps ==
  ASSUME StoreInv, at = Idle, phase \notin {"off", "operations"}, phase' \in Phases,
         bad' \in BOOLEAN,
         UNCHANGED <<tables, files, at, candidate, sick, badChildren, loaded, live, effects,
                     faults>>
  PROVE  StoreInv' /\ StoryGoesOn
<1> USE DEF StoreInv, Process
<1>1. UNCHANGED <<head, row, input, run, pend, child, op, body, childBody, candidate,
                  sick, badChildren, loaded, live, effects, faults>>
  BY DEF tables, files
<1>2. ~loaded /\ at.do = "idle"
  BY IdleIsTyped DEF Memory
<1>3. \A o \in Owners : KeptFile(o)
  BY <1>1, SameFiles DEF FilesStay
<1>4. MemoryTyped'
  BY <1>1 DEF StagedTypeOK, MemoryTyped
<1>5. RowsStay /\ op' \in Operations /\ FilesTyped'
  BY <1>1, FilesStayTyped, TypesTogether DEF RowsStay
<1>6. "cleanup" \notin Faults => op.state # "cleanup"
  BY <1>2, ServedIsClean
<1> QED BY <1>1, <1>2, <1>3, <1>4, <1>5, <1>6, KeptRestKeeps

\* So do the steps of the preparation that find nothing to do.
LEMMA PreparationGoesOn ==
  ASSUME StoreInv,
         \/ NothingToResume \/ NoChildToInterrupt \/ NoExchangeToRecover \/ LoadExecutionWindow
         \/ /\ InPhase("children") \/ InPhase("settle")
            /\ GoTo("off") /\ UNCHANGED <<tables, files, effects, faults>>
  PROVE  StoreInv' /\ StoryGoesOn
<1>1. /\ at = Idle /\ phase \notin {"off", "operations"}
      /\ UNCHANGED <<tables, files, at, candidate, sick, badChildren, loaded, live, effects,
                     faults>>
  BY DEF NothingToResume, NoChildToInterrupt, NoExchangeToRecover, LoadExecutionWindow,
         InPhase, GoTo
<1>2. phase' \in Phases /\ bad' \in BOOLEAN
  BY PhasesFollow DEF NothingToResume, NoChildToInterrupt, NoExchangeToRecover,
     LoadExecutionWindow, InPhase, GoTo, Phases, StoreInv, Process, StagedTypeOK
<1> QED BY <1>1, <1>2, PhaseChangeKeeps

\* A preparation begins only when the worker rests.
LEMMA PrepareKeeps ==
  ASSUME StoreInv, Prepare
  PROVE  StoreInv' /\ StoryGoesOn
<1> USE DEF StoreInv, Process
<1>1. /\ ~loaded /\ at = Idle /\ phase' = "operations" /\ sick' = FALSE
      /\ UNCHANGED <<head, row, input, run, pend, child, op, body, childBody, at, candidate, bad,
                     badChildren, loaded, live, effects, faults>>
  BY DEF Prepare, tables, files
<1>2. \A o \in Owners : KeptFile(o)
  BY <1>1, SameFiles DEF FilesStay
<1>3. MemoryTyped'
  BY <1>1 DEF StagedTypeOK, MemoryTyped, Phases
<1>4. RowsStay /\ op' \in Operations /\ FilesTyped'
  BY <1>1, FilesStayTyped, TypesTogether DEF RowsStay
<1> QED BY <1>1, <1>2, <1>3, <1>4, IdleIsTyped, KeptRestKeeps

\* Steps after which the worker rests and that lose files.
LEMMA LosingKeeps ==
  ASSUME StoreInv, RowsStay, FilesTyped', \A o \in Owners : KeptFile(o) \/ LostFile(o),
         op' \in Operations, MemoryTyped', at' = Idle, loaded' => loaded /\ phase' = "off",
         faults' = faults \/ faults' = faults + 1,
         live' = Nobody \/ (live' = live /\ loaded' = loaded /\ at.do \notin {"write", "finalize"}),
         op' = op \/ op'.kind # "clear", Spared'
  PROVE  StoreInv' /\ StoryGoesOn
<1> USE DEF StoreInv, Process
<1>1. FilesChange
  BY FaultsGrow DEF FilesChange
<1>2. StagedTypeOK'
  BY RowsStayTyped, TypesTogetherNext
<1>3. Receipts'
  BY DEF Receipts
<1> QED BY <1>1, <1>2, <1>3, RestKeeps

\* The previous generation is removed; only a failing synchronization takes the new one.
LEMMA RemovePreviousKeeps ==
  ASSUME StoreInv, RemovePrevious
  PROVE  StoreInv' /\ StoryGoesOn
<1> USE DEF StoreInv, Process
<1>1. /\ at = At("remove", Session) /\ candidate' = 0 /\ at' = Idle
      /\ UNCHANGED <<head, row, input, run, pend, child, op, childBody, phase, sick, bad,
                     badChildren, loaded, effects>>
      /\ faults' = faults \/ (faults < MaxFaults /\ faults' = faults + 1)
      /\ live' \in {live, Nobody}
  BY DEF RemovePrevious, tables, Fails, MayFail
<1>2. /\ at.do = "remove" /\ loaded /\ phase = "off" /\ candidate # head.generation
      /\ row[Session] = NoRow
      /\ "cleanup" \notin Faults => op.state # "cleanup"
  BY <1>1, ReplacingIsServed DEF At
<1>3. MemoryTyped'
  BY <1>1, FaultsAreCounted, IdleIsTyped, StagedHistoryAssumption DEF StagedTypeOK, MemoryTyped
<1>4. RowsStay /\ op' \in Operations
  BY <1>1, TypesTogether DEF RowsStay
<1>5. CASE body' = Without({candidate}) \/ body' = body
  <2>1. FilesTyped' /\ \A o \in Owners : KeptFile(o)
    <3>1. CASE body' = Without({candidate})
      BY <1>1, <1>2, <3>1, WithoutOthers
    <3>2. CASE body' = body
      BY <1>1, <3>2, SameFiles, FilesStayTyped DEF FilesStay
    <3> QED BY <1>5, <3>1, <3>2
  <2> QED BY <1>1, <1>2, <1>3, <1>4, <2>1, KeptRestKeeps
<1>6. CASE Fails("sync") /\ body' = Without({candidate, head.generation}) /\ live' = Nobody
  <2>1. FilesTyped' /\ head.generation \notin DOMAIN body'
    <3>1. PICK gs : gs = {candidate, head.generation}
      OBVIOUS
    <3>2. body' = Without(gs) /\ childBody' = childBody
      BY <1>1, <1>6, <3>1
    <3>3. FilesTyped' /\ DOMAIN body' = DOMAIN body \ gs
      BY <3>2, WithoutIsTyped
    <3> QED BY <3>1, <3>3
  <2>2. ~HasFile(Session)'
    BY <1>1, <2>1 DEF HasFile
  <2>3. LostFile(Session)
    BY <1>2, <1>6, <2>2 DEF LostFile
  <2>4. \A o \in Runs : KeptFile(o)
    BY <1>1, Names DEF KeptFile, HasFile, FileOf
  <2>5. Spared'
    <3>1. "sync" \in Faults
      BY <1>6 DEF Fails, MayFail
    <3>2. \A o \in Runs : HasFile(o)' = HasFile(o)
      BY <2>4 DEF KeptFile
    <3> QED BY <1>1, <1>2, <3>1, <3>2 DEF Spared
  <2> QED BY <1>1, <1>2, <1>3, <1>4, <1>6, <2>1, <2>3, <2>4, <2>5, Names, LosingKeeps
<1> QED BY <1>5, <1>6 DEF RemovePrevious

\* The clean-up of a clear.
LEMMA CleaningKeeps ==
  ASSUME StoreInv, CleanUp, op.state = "cleanup", RowsStay, at' = Idle,
         loaded => SessionIsIdle,
         UNCHANGED <<candidate, sick, bad, badChildren, loaded, live>>,
         phase' \in Phases, loaded => phase' = "off", at.do \in {"idle", "cleanup"}
  PROVE  StoreInv' /\ StoryGoesOn
<1> USE DEF StoreInv, Process
<1>1. faults' = faults \/ (faults < MaxFaults /\ faults' = faults + 1)
  BY DEF CleanUp, Fails, MayFail
<1>2. MemoryTyped'
  BY <1>1, FaultsAreCounted, IdleIsTyped DEF StagedTypeOK, MemoryTyped
<1>3. CASE /\ body' = Without(DOMAIN body \ {head.generation})
           /\ childBody' = [r \in {} |-> <<>>] /\ op' = NoOperation
  <2>1. head.generation \in Generations
    BY DEF StagedTypeOK
  <2>2. /\ DOMAIN body' = DOMAIN body \cap {head.generation}
        /\ \A g \in DOMAIN body' : body'[g] = body[g]
        /\ body' = [g \in DOMAIN body' |-> body'[g]]
    BY <1>3 DEF Without
  <2>3. FilesTyped'
    <3>1. body' \in [DOMAIN body' -> Seq(Frames)] /\ DOMAIN body' \subseteq Generations
      BY <2>2 DEF StagedTypeOK
    <3>2. DOMAIN childBody' = {} /\ childBody' \in [{} -> Seq(Frames)]
      BY <1>3
    <3> QED BY <3>1, <3>2 DEF FilesTyped
  <2>4. KeptFile(Session)
    BY <2>2 DEF RowsStay, KeptFile, HasFile, FileOf
  <2>5. \A r \in Runs : ~HasFile(r)'
    BY <1>3, Names DEF HasFile
  <2>6. \A r \in Runs : LostFile(r)
    <3>1. loaded => pend = NoExchange /\ \A r \in Runs : child[r] = "none"
      BY DEF SessionIsIdle
    <3> QED BY <2>5, <3>1, Names DEF LostFile, InExchange
  <2>7. op' \in Operations /\ op'.state # "cleanup" /\ op'.kind # "clear"
    BY <1>3, NoOperationIsTyped
  <2>8. Spared'
    <3>1. HasFile(Session)' = HasFile(Session) /\ child' = child
      BY <2>4 DEF KeptFile, RowsStay
    <3> QED BY <2>7, <3>1 DEF Spared
  <2> QED BY <1>1, <1>2, <2>3, <2>4, <2>6, <2>7, <2>8, Names, LosingKeeps
<1>4. CASE Fails("cleanup") /\ UNCHANGED <<files, op>>
  <2>1. \A o \in Owners : KeptFile(o)
    BY <1>4, SameFiles DEF FilesStay, RowsStay, files
  <2>2. FilesTyped' /\ op' \in Operations /\ "cleanup" \in Faults
    BY <1>4, FilesStayTyped, TypesTogether DEF files, Fails, MayFail
  <2> QED BY <1>1, <1>2, <1>4, <2>1, <2>2, KeptRestKeeps
<1> QED BY <1>3, <1>4 DEF CleanUp

\* The clear's own clean-up: the session is idle, so no child loses its file.
LEMMA CleanUpAfterClearKeeps ==
  ASSUME StoreInv, CleanUpAfterClear
  PROVE  StoreInv' /\ StoryGoesOn
<1>1. /\ at = At("cleanup", Session) /\ CleanUp /\ at' = Idle /\ RowsStay
      /\ UNCHANGED <<candidate, phase, sick, bad, badChildren, loaded, live>>
  BY DEF CleanUpAfterClear, RowsStay
<1>2. at.do = "cleanup" /\ loaded /\ SessionIsIdle /\ op.state = "cleanup" /\ phase = "off"
  BY <1>1 DEF StoreInv, Process, Position, Memory, At
<1> QED BY <1>1, <1>2, CleaningKeeps DEF Phases

\* Recovery of a receipt: a clear under way loses its candidate, never the file in use.
LEMMA RecoverOperationsKeeps ==
  ASSUME StoreInv, RecoverOperations
  PROVE  StoreInv' /\ StoryGoesOn
<1> USE DEF StoreInv, Process
<1>1. /\ phase = "operations" /\ at = Idle /\ at' = Idle
      /\ UNCHANGED <<head, row, input, run, pend, child, effects, candidate, sick, bad,
                     badChildren, loaded, live>>
      /\ phase' \in {"off", "rows"}
  BY DEF RecoverOperations, InPhase, GoTo
<1>2. ~loaded /\ at.do = "idle"
  BY <1>1, IdleIsTyped DEF Memory
<1>3. RowsStay /\ phase' \in Phases
  BY <1>1 DEF RowsStay, Phases
<1>4. CASE Mismatched
  <2>1. phase' = "off" /\ UNCHANGED <<body, childBody, op, faults>>
    BY <1>4 DEF RecoverOperations, GoTo, files
  <2>2. \A o \in Owners : KeptFile(o)
    BY <1>1, <2>1, SameFiles DEF FilesStay
  <2>3. MemoryTyped' /\ FilesTyped' /\ op' \in Operations
    BY <1>1, <1>3, <2>1, FilesStayTyped, TypesTogether DEF StagedTypeOK, MemoryTyped
  <2> QED BY <1>1, <1>2, <1>3, <2>1, <2>2, <2>3, KeptRestKeeps
<1>5. CASE ~Mismatched /\ op.state = "cleanup"
  <2>1. CleanUp
    BY <1>5 DEF RecoverOperations
  <2> QED BY <1>1, <1>2, <1>3, <1>5, <2>1, CleaningKeeps
<1>6. CASE ~Mismatched /\ op.state # "cleanup"
  <2>1. /\ body' = IF op.kind = "clear" THEN Without({op.result}) ELSE body
        /\ op' = NoOperation /\ UNCHANGED <<childBody, faults>>
    BY <1>6 DEF RecoverOperations
  <2>2. op.kind = "clear" => op.result # head.generation
    <3>1. op.kind = "clear" => op.source = head.generation /\ op.result = op.source + 1
      BY <1>6 DEF Receipts, Mismatched
    <3>2. head.generation \in Nat
      BY StagedHistoryAssumption DEF StagedTypeOK, Generations
    <3> QED BY <3>1, <3>2
  <2>3. FilesTyped' /\ \A o \in Owners : KeptFile(o)
    <3>1. CASE op.kind = "clear"
      BY <1>1, <2>1, <2>2, <3>1, WithoutOthers
    <3>2. CASE op.kind # "clear"
      BY <1>1, <2>1, <3>2, SameFiles, FilesStayTyped DEF FilesStay
    <3> QED BY <3>1, <3>2
  <2>4. MemoryTyped'
    BY <1>1, <1>3, <2>1 DEF StagedTypeOK, MemoryTyped
  <2> QED BY <1>1, <1>2, <1>3, <2>1, <2>3, <2>4, NoOperationIsTyped, KeptRestKeeps
<1> QED BY <1>4, <1>5, <1>6

\* The process ends: the worker's step is done in part or not at all.
LEMMA CrashKeeps ==
  ASSUME StoreInv, Crash
  PROVE  StoreInv' /\ StoryGoesOn
<1> USE DEF StoreInv, Process
<1>1. /\ faults < MaxFaults /\ faults' = faults + 1
      /\ at' = Idle /\ candidate' = 0 /\ phase' = "off" /\ sick' = FALSE /\ bad' = FALSE
      /\ badChildren' = {} /\ loaded' = FALSE /\ live' = Nobody
      /\ UNCHANGED <<head, row, input, run, pend, child, op, effects>>
  BY DEF Crash, tables, Fails, MayFail
<1>2. MemoryTyped'
  <2>1. faults' \in 0 .. MaxFaults
    BY <1>1, FaultsAreCounted
  <2>2. 0 \in 0 .. MaxGeneration /\ "off" \in Phases
    BY StagedHistoryAssumption DEF Phases
  <2> QED BY <1>1, <2>1, <2>2, IdleIsTyped DEF MemoryTyped
<1>3. RowsStay /\ op' \in Operations
  BY <1>1, TypesTogether DEF RowsStay
<1>4. FilesTyped' => StagedTypeOK'
  BY <1>2, <1>3, RowsStayTyped, TypesTogetherNext
<1>5. CASE FilesTyped' /\ \A o \in Owners : KeptFile(o)
  BY <1>1, <1>2, <1>3, <1>5, KeptRestKeeps
<1>6. CASE at.do = "write"
  <2>1. at.who \in Owners /\ row[at.who] # NoRow
    BY <1>6 DEF Position
  <2>2. PICK o \in Owners : o = at.who
    BY <2>1
  <2>3. CASE Writable(o)
    <3>1. WrittenInPart(o)
      BY <1>6, <2>2, <2>3 DEF Crash
    <3>2. PICK tail \in {<<>>, <<row[o].frame>>, <<Torn(row[o].frame)>>} :
            PutFile(o, Prefix(o) \o tail)
      BY <3>1 DEF WrittenInPart
    <3>3. FilesTyped' /\ RewrittenFile(o) /\ \A x \in Owners : x # o => KeptFile(x)
      BY <1>1, <2>1, <2>2, <2>3, <3>2, WriteRewrites DEF Writable
    <3>4. FilesChange
      BY <1>1, <1>3, <3>3, FaultsGrow DEF FilesChange
    <3>5. \A x \in Owners : HasFile(x) => HasFile(x)'
      BY <3>3 DEF RewrittenFile, KeptFile
    <3>6. Spared' /\ Receipts'
      BY <1>1, <3>5, SparedStays DEF Receipts
    <3> QED BY <1>1, <1>4, <3>3, <3>4, <3>6, RestKeeps
  <2>4. CASE ~Writable(o)
    <3>1. UNCHANGED <<body, childBody>>
      BY <1>6, <2>2, <2>4 DEF Crash, files
    <3> QED BY <1>1, <1>5, <3>1, SameFiles, FilesStayTyped DEF FilesStay
  <2> QED BY <2>3, <2>4
<1>7. CASE at.do \in {"remove", "clearswitch"}
  <2>1. PICK g : g = IF at.do = "remove" THEN candidate ELSE op.result
    OBVIOUS
  <2>2. (body' = body \/ body' = Without({g})) /\ childBody' = childBody
    BY <1>7, <2>1 DEF Crash
  <2>3. g # head.generation
    BY <1>7, <2>1, ReplacingIsServed
  <2>4. FilesTyped' /\ \A o \in Owners : KeptFile(o)
    <3>1. CASE body' = body
      BY <1>1, <2>2, <3>1, SameFiles, FilesStayTyped DEF FilesStay
    <3>2. CASE body' = Without({g})
      BY <1>1, <2>2, <2>3, <3>2, WithoutOthers
    <3> QED BY <2>2, <3>1, <3>2
  <2> QED BY <1>5, <2>4
<1>8. CASE at.do \notin {"write", "remove", "clearswitch"}
  <2>1. UNCHANGED <<body, childBody>>
    BY <1>8 DEF Crash, files
  <2> QED BY <1>1, <1>5, <2>1, SameFiles, FilesStayTyped DEF FilesStay
<1> QED BY <1>6, <1>7, <1>8

\* Steps after which the worker is somewhere else and that changed no row.
LEMMA MovingKeeps ==
  ASSUME StoreInv, FilesChange, FilesTyped', op' \in Operations, MemoryTyped',
         loaded' = loaded, phase' = phase, live' = live,
         loaded \/ phase \notin {"off", "operations", "childrows"},
         at.do \notin {"write", "finalize"}, Position', Receipts', Spared'
  PROVE  StoreInv' /\ StoryGoesOn
<1> USE DEF StoreInv, Process
<1>1. Durable'
  BY FilesChangeKeeps
<1>2. StoryGoesOn
  BY VisibleStays DEF FilesChange, RowsStay, StoryGoesOn, Unseen, ClearsFacts
<1>3. StagedTypeOK' /\ SingleRun'
  BY RowsStayTyped, TypesTogetherNext DEF FilesChange, RowsStay, SingleRun
<1>4. Memory'
  <2>1. live # Nobody => row[Session] = NoRow
    BY NothingStaged
  <2>2. phase # "childrows"
    BY DEF Memory
  <2> QED BY <2>1, <2>2 DEF Memory, FilesChange, RowsStay
<1> QED BY <1>1, <1>2, <1>3, <1>4

\* The candidate holds what readers see and the summary, in a generation not in use.
LEMMA BeginReplacementKeeps ==
  ASSUME StoreInv, BeginReplacement
  PROVE  StoreInv' /\ StoryGoesOn
<1> USE DEF StoreInv, Process
<1>1. /\ at = Idle /\ loaded /\ phase = "off" /\ row[Session] = NoRow /\ HasFile(Session)
      /\ at' = At("switch", Session)
      /\ UNCHANGED <<head, row, input, run, pend, child, op, childBody, phase, sick, bad,
                     badChildren, loaded, live, effects, faults>>
  BY DEF BeginReplacement, Serving, tables
<1>2. PICK g \in Generations : /\ g > head.generation /\ g \notin DOMAIN body
                               /\ body' = Added(g, Merged) /\ candidate' = g
  BY DEF BeginReplacement
<1>3. head.generation \in DOMAIN body /\ head.generation \in Generations /\ g # head.generation
  BY <1>1, <1>2, SessionFile DEF StagedTypeOK, Generations
<1>4. Merged \in Seq(Frames) /\ Merged = Append(FileOf(Session), Summary)
  BY <1>1, SessionFile, Names, FilesHoldFrames, SummaryIsFrame DEF Merged
<1>5. /\ FilesTyped' /\ DOMAIN body' = DOMAIN body \cup {g} /\ body'[g] = Merged
      /\ \A x \in DOMAIN body : x # g => body'[x] = body[x]
  BY <1>1, <1>2, <1>4, AddedIsTyped
<1>6. \A o \in Owners : KeptFile(o)
  BY <1>1, <1>3, <1>5, OtherGenerations
<1>7. FilesChange /\ \A o \in Owners : HasFile(o) => HasFile(o)'
  BY <1>1, <1>6, KeptChange DEF RowsStay
<1>8. MemoryTyped' /\ op' \in Operations
  <2>1. g \in 0 .. MaxGeneration
    BY <1>2 DEF Generations
  <2>2. "switch" \in Steps
    BY DEF Steps
  <2> QED BY <1>1, <1>2, <2>1, <2>2, IdleIsTyped, Names, TypesTogether
      DEF StagedTypeOK, MemoryTyped
<1>9. Position'
  <2>1. HasFile(Session)' /\ FileOf(Session)' = FileOf(Session)
    BY <1>1, <1>6, Names DEF KeptFile
  <2>2. at'.do = "switch"
    BY <1>1 DEF At
  <2> QED BY <1>1, <1>2, <1>3, <1>4, <1>5, <2>1, <2>2 DEF Position
<1>10. at.do = "idle"
  BY <1>1, IdleIsTyped
<1>11. Spared'
  BY <1>1, <1>7, <1>10, ServedIsClean, SparedStays
<1> QED BY <1>1, <1>5, <1>7, <1>8, <1>9, <1>10, <1>11, MovingKeeps DEF Receipts

\* A clear begins in an idle session, with the next generation.
LEMMA BeginClearKeeps ==
  ASSUME StoreInv, BeginClear
  PROVE  StoreInv' /\ StoryGoesOn
<1> USE DEF StoreInv, Process
<1>1. /\ at = Idle /\ loaded /\ phase = "off" /\ SessionIsIdle
      /\ head.generation < MaxGeneration
      /\ op' = [kind |-> "clear", state |-> "preparing", source |-> head.generation,
                result |-> head.generation + 1]
      /\ at' = At("clearfile", Session)
      /\ UNCHANGED <<head, row, input, run, pend, child, body, childBody, candidate, phase, sick,
                     bad, badChildren, loaded, live, effects, faults>>
  BY DEF BeginClear, Serving, files
<1>2. /\ head.generation + 1 \in Generations /\ head.generation + 1 # head.generation
      /\ head.generation \in 0 .. MaxGeneration /\ head.generation + 1 \in 0 .. MaxGeneration
  BY <1>1, StagedHistoryAssumption DEF StagedTypeOK, Generations
<1>3. op' \in Operations
  BY <1>1, <1>2 DEF Operations
<1>4. FilesChange /\ \A o \in Owners : HasFile(o) => HasFile(o)'
  BY <1>1, FilesStayChange
<1>5. MemoryTyped' /\ FilesTyped'
  <2>1. "clearfile" \in Steps
    BY DEF Steps
  <2> QED BY <1>1, <2>1, IdleIsTyped, Names, FilesStayTyped DEF StagedTypeOK, MemoryTyped
<1>6. Position'
  <2>1. at'.do = "clearfile" /\ op'.kind = "clear" /\ op'.result = head.generation + 1
    BY <1>1 DEF At
  <2>2. SessionIsIdle'
    BY <1>1 DEF SessionIsIdle
  <2> QED BY <1>1, <1>2, <2>1, <2>2 DEF Position
<1>7. Receipts' /\ op'.state # "cleanup" /\ at.do = "idle"
  BY <1>1, IdleIsTyped DEF Receipts
<1>8. Spared'
  BY <1>1, <1>4, <1>7, SparedStays
<1> QED BY <1>1, <1>3, <1>4, <1>5, <1>6, <1>7, <1>8, MovingKeeps

\* Its file is new and empty, or the clear ends.
LEMMA CreateClearFileKeeps ==
  ASSUME StoreInv, CreateClearFile
  PROVE  StoreInv' /\ StoryGoesOn
<1> USE DEF StoreInv, Process
<1>1. /\ at = At("clearfile", Session) /\ at.do = "clearfile"
      /\ UNCHANGED <<head, row, input, run, pend, child, childBody, candidate, phase, sick,
                     bad, badChildren, loaded, live, effects, faults>>
  BY DEF CreateClearFile, At
<1>2. /\ loaded /\ phase = "off" /\ SessionIsIdle
      /\ op.result \in Generations /\ op.result # head.generation /\ op.kind = "clear"
  BY <1>1, ReplacingIsServed DEF Position
<1>3. CASE op.result \in DOMAIN body
  <2>1. at' = Idle /\ op' = NoOperation /\ UNCHANGED body
    BY <1>3 DEF CreateClearFile
  <2> QED BY <1>1, <1>2, <2>1, NoOperationIsTyped, ReceiptKeeps
<1>4. CASE op.result \notin DOMAIN body
  <2>1. at' = At("clearswitch", Session) /\ body' = Added(op.result, <<>>) /\ UNCHANGED op
    BY <1>4 DEF CreateClearFile
  <2>2. /\ FilesTyped' /\ DOMAIN body' = DOMAIN body \cup {op.result}
        /\ body'[op.result] = <<>>
        /\ \A x \in DOMAIN body : x # op.result => body'[x] = body[x]
    <3>1. <<>> \in Seq(Frames)
      OBVIOUS
    <3>2. PICK g \in Generations : g = op.result
      BY <1>2
    <3>3. PICK t \in Seq(Frames) : t = <<>>
      BY <3>1
    <3>4. body' = Added(g, t) /\ childBody' = childBody
      BY <1>1, <2>1, <3>2, <3>3
    <3>5. /\ FilesTyped' /\ DOMAIN body' = DOMAIN body \cup {g} /\ body'[g] = t
          /\ \A x \in DOMAIN body : x # g => body'[x] = body[x]
      BY <3>4, AddedIsTyped
    <3> QED BY <3>2, <3>3, <3>5
  <2>3. \A o \in Owners : KeptFile(o)
    BY <1>1, <1>2, <2>2, OtherGenerations
  <2>4. FilesChange /\ \A o \in Owners : HasFile(o) => HasFile(o)'
    BY <1>1, <2>3, KeptChange DEF RowsStay
  <2>5. MemoryTyped' /\ op' \in Operations
    <3>1. "clearswitch" \in Steps
      BY DEF Steps
    <3> QED BY <1>1, <2>1, <3>1, IdleIsTyped, Names, TypesTogether DEF StagedTypeOK, MemoryTyped
  <2>6. Position'
    <3>1. at'.do = "clearswitch" /\ SessionIsIdle'
      BY <1>1, <1>2, <2>1 DEF At, SessionIsIdle
    <3> QED BY <1>1, <1>2, <2>1, <2>2, <3>1 DEF Position
  <2>7. Spared'
    BY <1>1, <1>2, <2>1, <2>4, ServedIsClean, SparedStays
  <2> QED BY <1>1, <1>2, <2>1, <2>2, <2>4, <2>5, <2>6, <2>7, MovingKeeps DEF Receipts
<1> QED BY <1>3, <1>4

\* A child's file is made before its row, for a call marked as started.
LEMMA CreateChildFileKeeps ==
  ASSUME StoreInv, NEW r \in Runs, CreateChildFile(r)
  PROVE  StoreInv' /\ StoryGoesOn
<1> USE DEF StoreInv, Process
<1>1. /\ at = Idle /\ loaded /\ phase = "off" /\ pend.state = "begun" /\ pend.run = r
      /\ "task" \in pend.started /\ r \notin DOMAIN childBody
      /\ childBody' = [x \in DOMAIN childBody \cup {r} |-> IF x = r THEN <<>> ELSE childBody[x]]
      /\ at' = At("childrow", r)
      /\ UNCHANGED <<head, row, input, run, pend, child, op, body, candidate, phase, sick, bad,
                     badChildren, loaded, live, effects, faults>>
  BY DEF CreateChildFile, Exchanging, Serving, tables
<1>2. pend # NoExchange /\ InExchange(r)
  BY <1>1, NoExchangeHasNoState DEF InExchange
<1>3. ~HasFile(r)
  BY <1>1, Names DEF HasFile
<1>4. child[r] = "none" /\ ~pend.located
  BY <1>1, <1>2, <1>3 DEF Durable, Controls, ChildFiles
<1>5. /\ DOMAIN childBody' = DOMAIN childBody \cup {r} /\ childBody'[r] = <<>>
      /\ \A x \in DOMAIN childBody : x # r => childBody'[x] = childBody[x]
  BY <1>1
<1>6. FilesTyped'
  <2>1. \A x \in DOMAIN childBody' : childBody'[x] \in Seq(Frames)
    <3>1. <<>> \in Seq(Frames)
      OBVIOUS
    <3>2. \A x \in DOMAIN childBody : childBody[x] \in Seq(Frames)
      BY DEF StagedTypeOK
    <3> QED BY <1>5, <3>1, <3>2
  <2>2. childBody' = [x \in DOMAIN childBody' |-> childBody'[x]]
    BY <1>1
  <2>3. childBody' \in [DOMAIN childBody' -> Seq(Frames)]
    BY <2>1, <2>2
  <2> QED BY <1>1, <1>5, <2>3 DEF StagedTypeOK, FilesTyped
<1>7. HasFile(r)' /\ FileOf(r)' = <<>>
  BY <1>5, Names DEF HasFile, FileOf
<1>8. CreatedFile(r)
  BY <1>1, <1>2, <1>3, <1>4, <1>7 DEF CreatedFile
<1>9. \A o \in Owners : o # r => KeptFile(o)
  BY <1>1, <1>5, Names DEF KeptFile, HasFile, FileOf
<1>10. FilesChange /\ \A o \in Owners : HasFile(o) => HasFile(o)'
  BY <1>1, <1>3, <1>8, <1>9, FaultsGrow DEF FilesChange, RowsStay, KeptFile
<1>11. MemoryTyped' /\ op' \in Operations
  <2>1. "childrow" \in Steps
    BY DEF Steps
  <2> QED BY <1>1, <2>1, IdleIsTyped, Names, TypesTogether DEF StagedTypeOK, MemoryTyped
<1>12. Position'
  <2>1. at'.do = "childrow" /\ at'.who = r
    BY <1>1 DEF At
  <2> QED BY <1>1, <1>4, <1>7, <2>1 DEF Position
<1>13. at.do = "idle"
  BY <1>1, IdleIsTyped
<1>14. Spared'
  BY <1>1, <1>10, <1>13, ServedIsClean, SparedStays
<1> QED BY <1>1, <1>6, <1>10, <1>11, <1>12, <1>13, <1>14, MovingKeeps DEF Receipts

\* A frozen exchange is staged again.
LEMMA ResumeExchangeKeeps ==
  ASSUME StoreInv, ResumeExchange
  PROVE  StoreInv' /\ StoryGoesOn
<1> USE DEF StoreInv, Process
<1>1. /\ at = Idle /\ phase = "exchange" /\ pend.state = "ready" /\ at' = At("stage", Session)
      /\ UNCHANGED <<head, row, input, run, pend, child, op, body, childBody, candidate, phase,
                     sick, bad, badChildren, loaded, live, effects, faults>>
  BY DEF ResumeExchange, InPhase, tables, files
<1>2. FilesChange /\ \A o \in Owners : HasFile(o) => HasFile(o)'
  BY <1>1, FilesStayChange
<1>3. MemoryTyped' /\ op' \in Operations /\ FilesTyped'
  <2>1. "stage" \in Steps
    BY DEF Steps
  <2> QED BY <1>1, <2>1, IdleIsTyped, Names, FilesStayTyped, TypesTogether
      DEF StagedTypeOK, MemoryTyped
<1>4. Position'
  BY <1>1 DEF Position, At
<1>5. at.do = "idle"
  BY <1>1, IdleIsTyped
<1>6. Spared'
  BY <1>1, <1>2, <1>5, ServedIsClean, SparedStays
<1> QED BY <1>1, <1>2, <1>3, <1>4, <1>5, <1>6, MovingKeeps DEF Receipts

\* The preparation resumes the append of a child, or of the session, where it was staged.
LEMMA ResumeKeeps ==
  ASSUME StoreInv, NEW o \in Owners, NEW p, Resume(o, p),
         (p = "rows" /\ o = Session) \/ (p = "childrows" /\ o # Session)
  PROVE  StoreInv' /\ StoryGoesOn
<1> USE DEF StoreInv, Process
<1>1. /\ at = Idle /\ phase = p /\ row[o] # NoRow /\ at' = FirstStep(o, row[o].frame)
      /\ UNCHANGED <<head, row, input, run, pend, child, op, body, childBody, candidate, phase,
                     sick, bad, badChildren, loaded, live, effects, faults>>
  BY DEF Resume, InPhase, tables, files
<1>2. FilesChange /\ \A x \in Owners : HasFile(x) => HasFile(x)'
  BY <1>1, FilesStayChange
<1>3. Stageable(o, row[o].frame)
  BY <1>1 DEF Durable, Rows
<1>4. \E x \in Owners :
         /\ row[x] # NoRow
         /\ \/ at' = At("directory", x) /\ Alone(x) /\ x \in Runs
            \/ at' = At("write", x) /\ ~Alone(x)
            \/ /\ at' = At("write", x) /\ x \in Runs
               /\ row[Session] # NoRow /\ row[Session].frame = Directory(x)
         /\ phase = "childrows" => x # Session
  <2>1. PICK f : f = row[o].frame
    OBVIOUS
  <2>2. CASE o = Session
    <3>1. f.run \in Runs /\ f.kind \in {"start", "exchange", "settle", "directory"}
          /\ (f.kind = "directory" => f = Directory(f.run) /\ Alone(f.run))
      BY <1>3, <2>1, <2>2 DEF Stageable, Applies
    <3>2. CASE f.kind = "directory"
      <4>1. at' = At("write", f.run) /\ f.run \in Owners /\ row[f.run] # NoRow
        BY <1>1, <2>1, <3>1, <3>2, Names DEF FirstStep, Alone
      <4>2. phase # "childrows"
        BY <1>1, <2>2
      <4> QED BY <1>1, <2>1, <2>2, <3>1, <3>2, <4>1, <4>2
    <3>3. CASE f.kind # "directory"
      <4>1. at' = At("write", o) /\ ~Alone(o)
        BY <1>1, <2>1, <2>2, <3>1, <3>3, Names DEF FirstStep, Alone
      <4> QED BY <1>1, <2>2, <4>1
    <3> QED BY <3>2, <3>3
  <2>3. CASE o \in Runs
    <3>1. f.kind \in {"start", "settle", "alone"} /\ o # Session
      BY <1>3, <2>1, <2>3, Names DEF Stageable
    <3>2. CASE f.kind = "alone"
      BY <1>1, <2>1, <2>3, <3>1, <3>2 DEF FirstStep, Alone
    <3>3. CASE f.kind # "alone"
      BY <1>1, <2>1, <2>3, <3>1, <3>3 DEF FirstStep, Alone
    <3> QED BY <3>2, <3>3
  <2> QED BY <2>2, <2>3, Names
<1>5. PICK x \in Owners :
         /\ row[x] # NoRow
         /\ \/ at' = At("directory", x) /\ Alone(x) /\ x \in Runs
            \/ at' = At("write", x) /\ ~Alone(x)
            \/ /\ at' = At("write", x) /\ x \in Runs
               /\ row[Session] # NoRow /\ row[Session].frame = Directory(x)
         /\ phase = "childrows" => x # Session
  BY <1>4
<1>6. /\ at'.do \in {"write", "directory"} /\ at'.who = x /\ at.do = "idle"
      /\ at'.do = "directory" => Alone(x) /\ x \in Runs
      /\ at'.do = "write" => ~Alone(x) \/ (row[Session] # NoRow /\ row[Session].frame = Directory(x))
  BY <1>1, <1>5, IdleIsTyped DEF At
<1>7. MemoryTyped' /\ op' \in Operations /\ FilesTyped'
  <2>1. "write" \in Steps /\ "directory" \in Steps
    BY DEF Steps
  <2> QED BY <1>1, <1>5, <2>1, IdleIsTyped, Names, FilesStayTyped, TypesTogether
      DEF StagedTypeOK, MemoryTyped
<1>8. Position'
  <2>1. Alone(x)' = Alone(x) /\ Directory(x)' = Directory(x)
    BY <1>1, AloneStays DEF Directory
  <2> QED BY <1>1, <1>5, <1>6, <2>1 DEF Position
<1>9. Spared'
  BY <1>1, <1>2, <1>6, ServedIsClean, SparedStays
<1>10. Durable' /\ StoryGoesOn
  BY <1>1, <1>2, FilesChangeKeeps, VisibleStays
  DEF FilesChange, RowsStay, StoryGoesOn, Unseen, ClearsFacts
<1>11. StagedTypeOK' /\ SingleRun' /\ Receipts'
  BY <1>1, <1>2, <1>7, RowsStayTyped, TypesTogetherNext
  DEF FilesChange, RowsStay, SingleRun, Receipts
<1>12. Memory'
  BY <1>1, <1>5, <1>6 DEF Memory
<1> QED BY <1>8, <1>9, <1>10, <1>11, <1>12

\* A write puts the frame after what was there before the append was staged.
LEMMA WriteKeeps ==
  ASSUME StoreInv, NEW o \in Owners, Write(o)
  PROVE  StoreInv' /\ StoryGoesOn
<1> USE DEF StoreInv, Process
<1>1. /\ at = At("write", o) /\ Reconcilable(o) /\ PutFile(o, Append(Prefix(o), row[o].frame))
      /\ at' = AfterWrite(o)
      /\ UNCHANGED <<head, row, input, run, pend, child, op, candidate, phase, sick, bad,
                     badChildren, loaded, live, effects, faults>>
  BY DEF Write, Writable, tables
<1>2. /\ at.do = "write" /\ at.who = o /\ row[o] # NoRow
      /\ ~Alone(o) => at' = At("finalize", o)
      /\ Alone(o) => /\ at' = At("write", Session) /\ row[Session] # NoRow
                     /\ o \in Runs /\ row[o].frame.kind = "alone"
  BY <1>1 DEF Position, At, AfterWrite, Alone
<1>3. Prefix(o) \in Seq(Frames) /\ row[o].frame \in Frames
  BY <1>1, <1>2, PrefixHoldsFrames, RowsHoldFrames
<1>4. PICK tail \in {<<>>, <<row[o].frame>>, <<Torn(row[o].frame)>>} : tail = <<row[o].frame>>
  OBVIOUS
<1>5. Append(Prefix(o), row[o].frame) = Prefix(o) \o tail
  BY <1>3, <1>4, AppendIsWriting
<1>6. /\ FilesTyped' /\ RewrittenFile(o) /\ FileOf(o)' = Prefix(o) \o tail
      /\ \A x \in Owners : x # o => KeptFile(x)
  BY <1>1, <1>2, <1>5, WriteRewrites
<1>7. FilesChange /\ \A x \in Owners : HasFile(x) => HasFile(x)'
  BY <1>1, <1>6, FaultsGrow DEF FilesChange, RowsStay, KeptFile, RewrittenFile
<1>8. MemoryTyped' /\ op' \in Operations
  <2>1. "finalize" \in Steps /\ "write" \in Steps
    BY DEF Steps
  <2>2. at' \in [do : Steps, who : Owners \cup {Nobody}]
    BY <1>2, <2>1, IdleIsTyped, Names
  <2> QED BY <1>1, <2>2, TypesTogether DEF StagedTypeOK, MemoryTyped
<1>9. Position'
  <2>1. /\ HasFile(o)' /\ Prefix(o)' = Prefix(o) /\ row'[o] = row[o]
        /\ FileOf(o)' = Append(Prefix(o), row[o].frame)
    BY <1>1, <1>5, <1>6 DEF RewrittenFile
  <2>2. Alone(o)' = Alone(o) /\ ~Alone(Session)' /\ row' = row
    BY <1>1, AloneStays, Names DEF Alone
  <2>3. CASE Alone(o)
    <3>1. at'.do = "write" /\ at'.who = Session
      BY <1>2, <2>3 DEF At
    <3> QED BY <1>2, <2>2, <2>3, <3>1, Names DEF Position
  <2>4. CASE ~Alone(o)
    <3>1. at'.do = "finalize" /\ at'.who = o
      BY <1>2, <2>4 DEF At
    <3> QED BY <1>2, <2>1, <2>2, <2>4, <3>1 DEF Position
  <2> QED BY <2>3, <2>4
<1>10. ~(~loaded /\ phase \in {"off", "operations"})
  BY <1>2, IdleIsTyped DEF Memory
<1>11. Spared'
  BY <1>1, <1>2, <1>7, <1>10, ServedIsClean, SparedStays
<1>12. Durable' /\ StoryGoesOn
  BY <1>1, <1>7, FilesChangeKeeps, VisibleStays
  DEF FilesChange, RowsStay, StoryGoesOn, Unseen, ClearsFacts
<1>13. StagedTypeOK' /\ SingleRun' /\ Receipts'
  BY <1>1, <1>6, <1>7, <1>8, RowsStayTyped, TypesTogetherNext
  DEF FilesChange, RowsStay, SingleRun, Receipts
<1>14. Memory'
  <2>1. Alone(o) => ~loaded
    BY <1>2, ChildRowHasChild DEF Durable
  <2>2. phase = "childrows" /\ at'.who = Session => row[Session] # NoRow
    BY <1>2 DEF Memory, At
  <2>3. live # Nobody => ~Alone(o) /\ (row[Session] # NoRow => o = Session)
    BY <1>1, <1>2, <2>1, Names DEF Memory, At
  <2>4. live # Nobody /\ row[Session] # NoRow => at' = At("finalize", Session)
    BY <1>2, <2>3
  <2> QED BY <1>1, <1>10, <2>2, <2>4 DEF Memory
<1> QED BY <1>9, <1>11, <1>12, <1>13, <1>14

\* Nothing happens.
LEMMA StutterKeeps ==
  ASSUME StoreInv, UNCHANGED stagedVars
  PROVE  StoreInv' /\ StoryGoesOn
<1> USE DEF StoreInv, Process
<1>1. UNCHANGED <<head, body, childBody, row, input, run, pend, child, op, at, candidate, phase,
                  sick, bad, badChildren, loaded, live, effects, faults>>
  BY DEF stagedVars, tables, files, memory
<1>2. FilesChange /\ \A x \in Owners : HasFile(x) => HasFile(x)'
  BY <1>1, FilesStayChange
<1>3. Durable' /\ StoryGoesOn
  BY <1>1, <1>2, FilesChangeKeeps, VisibleStays
  DEF FilesChange, RowsStay, StoryGoesOn, Unseen, ClearsFacts
<1>4. StagedTypeOK'
  BY <1>1 DEF StagedTypeOK
<1>5. Memory' /\ Receipts' /\ SingleRun'
  BY <1>1 DEF Memory, Receipts, SingleRun
<1>6. Position'
  BY <1>1 DEF Position, HasFile, FileOf, Prefix, SessionIsIdle, Alone, Directory
<1>7. Spared'
  BY <1>1 DEF Spared, HasFile
<1> QED BY <1>3, <1>4, <1>5, <1>6, <1>7

-----------------------------------------------------------------------------
(* ---- the steps that stage an append ---------------------------------------*)
\* The row of a staged append.
LEMMA RowIsTyped ==
  ASSUME StagedTypeOK, NEW o \in Owners, NEW f \in Frames
  PROVE  [row EXCEPT ![o] = StagedRow(f, Len(FileOf(o)), head.generation)]
           \in [Owners -> {NoRow} \cup [step : {"staged"}, frame : Frames, base : Nat,
                                        generation : Generations]]
<1>1. Len(FileOf(o)) \in Nat /\ head.generation \in Generations
  BY FilesHoldFrames DEF StagedTypeOK
<1>2. StagedRow(f, Len(FileOf(o)), head.generation)
        \in [step : {"staged"}, frame : Frames, base : Nat, generation : Generations]
  BY <1>1 DEF StagedRow
<1>3. row \in [Owners -> {NoRow} \cup [step : {"staged"}, frame : Frames, base : Nat,
                                       generation : Generations]]
  BY DEF StagedTypeOK
<1> QED BY <1>2, <1>3

\* An append is staged while nothing else is, and what it needs is there.
LEMMA StagingKeeps ==
  ASSUME StoreInv, NEW o \in Owners, NEW f \in Frames, Stageable(o, f), Stage(o, f), Staging,
         UNCHANGED <<pend, live>>, at.do \in {"idle", "stage", "directory"},
         loaded \/ phase \notin {"off", "operations"}
  PROVE  StoreInv' /\ StoryGoesOn /\ pend' = pend
<1> USE DEF StoreInv, Process
<1>1. /\ CanStage(o) /\ at' = FirstStep(o, f)
      /\ row' = [row EXCEPT ![o] = StagedRow(f, Len(FileOf(o)), head.generation)]
      /\ UNCHANGED <<head, input, run, pend, child, op, body, childBody, candidate, phase, sick,
                     bad, badChildren, loaded, live, effects, faults>>
  BY DEF Stage, Staging, files
<1>2. /\ Durable' /\ Visible(Session)' = Visible(Session)
      /\ row[o] = NoRow /\ row'[o] # NoRow /\ row'[o].frame = f
      /\ \A x \in Owners : x # o => row'[x] = row[x]
  BY <1>1, StageKeeps DEF FilesStay, FaultsStay
<1>3. StoryGoesOn
  BY <1>2, Names DEF StoryGoesOn, Unseen, AcceptsFact
<1>4. \/ f.kind = "directory" /\ at' = At("write", f.run)
      \/ f.kind = "alone" /\ at' = At("directory", o)
      \/ f.kind \notin {"alone", "directory"} /\ at' = At("write", o)
  BY <1>1 DEF FirstStep
<1>5. /\ f.run \in Runs
      /\ f.kind = "directory" =>
           o = Session /\ f = Directory(f.run) /\ Alone(f.run) /\ row[f.run] # NoRow /\ ~loaded
      /\ f.kind = "alone" => o \in Runs
  <2>1. f.run \in Runs /\ (f.kind = "directory" => f = Directory(f.run))
    BY DEF Stageable
  <2>2. f.kind = "alone" => o \in Runs
    BY Names DEF Stageable
  <2>3. ASSUME f.kind = "directory"
        PROVE  o = Session /\ Alone(f.run) /\ row[f.run] # NoRow /\ ~loaded
    <3>1. o = Session /\ Applies(o, f)
      BY <2>3 DEF Stageable
    <3>2. Alone(f.run)
      BY <2>3, <3>1 DEF Applies
    <3>3. row[f.run] # NoRow /\ row[f.run].frame.kind = "alone"
      BY <3>2 DEF Alone
    <3> QED BY <2>1, <3>1, <3>2, <3>3, ChildRowHasChild DEF Durable
  <2> QED BY <2>1, <2>2, <2>3
<1>6. StagedTypeOK'
  <2>1. "write" \in Steps /\ "directory" \in Steps
    BY DEF Steps
  <2>2. RowsTyped'
    BY <1>1, RowIsTyped DEF StagedTypeOK, RowsTyped
  <2>3. MemoryTyped' /\ op' \in Operations /\ FilesTyped'
    <3>1. at' \in [do : Steps, who : Owners \cup {Nobody}]
      BY <1>4, <1>5, <2>1, IdleIsTyped, Names
    <3> QED BY <1>1, <3>1, FilesStayTyped, TypesTogether DEF StagedTypeOK, MemoryTyped
  <2> QED BY <2>2, <2>3, TypesTogetherNext
<1>7. /\ at'.do \in {"write", "directory"} /\ at'.who \in Owners
      /\ at'.do = "directory" => f.kind = "alone" /\ at'.who = o
      /\ at'.do = "write" =>
           \/ f.kind = "directory" /\ at'.who = f.run
           \/ f.kind # "alone" /\ at'.who = o
  BY <1>4, <1>5, Names DEF At
<1>8. Memory'
  <2>1. ASSUME live # Nobody, row'[Session] # NoRow PROVE at' = At("write", Session)
    <3>1. row[Session] = NoRow /\ loaded
      BY <2>1, NothingStaged DEF Memory
    <3>2. o = Session
      BY <1>2, <2>1, <3>1, Names
    <3> QED BY <1>4, <1>5, <3>1, <3>2, Names
  <2>2. at'.who = Session => row'[Session] # NoRow
    <3>1. at'.who = Session => o = Session
      BY <1>5, <1>7, Names
    <3> QED BY <1>2, <3>1
  <2> QED BY <1>1, <2>1, <2>2 DEF Memory
<1>9. Position'
  <2>1. /\ f.kind = "alone" => Alone(o)'
        /\ f.kind # "alone" => ~Alone(o)'
    BY <1>2, <1>5 DEF Alone
  <2>2. f.kind = "directory" =>
          /\ row'[f.run] # NoRow /\ row'[Session] # NoRow
          /\ row'[Session].frame = Directory(f.run)
    BY <1>2, <1>5, Names
  <2>3. PICK x \in Owners : x = at'.who
    BY <1>7
  <2>4. at'.do = "directory" => x \in Runs /\ Alone(x)'
    BY <1>5, <1>7, <2>1, <2>3
  <2>5. at'.do = "write" =>
          /\ row'[x] # NoRow
          /\ Alone(x)' => row'[Session] # NoRow /\ row'[Session].frame = Directory(x)
    BY <1>2, <1>7, <2>1, <2>2, <2>3
  <2> QED BY <1>7, <2>3, <2>4, <2>5 DEF Position, Directory, Alone
<1>10. Receipts' /\ SingleRun'
  BY <1>1 DEF Receipts, SingleRun
<1>11. Spared'
  BY <1>1, ServedIsClean DEF Spared, HasFile
<1> QED BY <1>1, <1>2, <1>3, <1>6, <1>8, <1>9, <1>10, <1>11

\* The frames of messages and settlements.
LEMMA FactsCanBeStaged ==
  ASSUME NEW o \in Owners, NEW r \in Runs, o = Session \/ o = r,
         NEW kind \in {"start", "settle"}, NEW w \in Words, NEW n \in Nat, NEW f,
         f = Frame(kind, r, [c \in Calls |-> w], n), Applies(o, f),
         o # Session /\ kind = "settle" => w \in Outcomes
  PROVE  f \in Frames /\ Stageable(o, f)
<1>1. PICK says \in [Calls -> Words] : says = [c \in Calls |-> w]
  OBVIOUS
<1>2. f = Frame(kind, r, says, n) /\ says["task"] = w
  BY <1>1 DEF Calls
<1>3. /\ f \in Frames /\ f.kind = kind /\ f.run = r /\ f.whole = TRUE
      /\ f.says["task"] = w
  BY <1>2 DEF Frame, Frames
<1>4. o # Session => child[o] # "none" /\ (kind = "start" => child[o] = "accepted")
  <2> SUFFICES ASSUME o # Session
               PROVE  child[o] # "none" /\ (kind = "start" => child[o] = "accepted")
    OBVIOUS
  <2>1. kind = "start" => child[r] = "accepted"
    BY <1>3 DEF Applies
  <2>2. kind = "settle" => child[r] # "none"
    BY <1>3 DEF Applies
  <2> QED BY <2>1, <2>2
<1> QED BY <1>3, <1>4 DEF Stageable

\* The steps that stage: a user message,
LEMMA CommitUserMessageKeeps ==
  ASSUME StoreInv, NEW r \in Runs, CommitUserMessage(r)
  PROVE  StoreInv' /\ StoryGoesOn /\ pend' = pend
<1>1. PICK f : f = Frame("start", r, [c \in Calls |-> "start"], 1)
  OBVIOUS
<1>2. /\ at = Idle /\ loaded /\ Applies(Session, f) /\ Stage(Session, f)
      /\ Staging /\ UNCHANGED <<pend, live>>
  BY <1>1 DEF CommitUserMessage, Serving
<1>3. f \in Frames /\ Stageable(Session, f)
  <2>1. "start" \in Words
    BY DEF Words
  <2> QED BY <1>1, <1>2, <2>1, Names, FactsCanBeStaged
<1> QED BY <1>2, <1>3, Names, IdleIsTyped, StagingKeeps

\* the start of a child,
LEMMA StartChildKeeps ==
  ASSUME StoreInv, NEW r \in Runs, StartChild(r)
  PROVE  StoreInv' /\ StoryGoesOn /\ pend' = pend
<1>1. PICK f : f = Frame("start", r, [c \in Calls |-> "start"], 1)
  OBVIOUS
<1>2. /\ at = Idle /\ loaded /\ Applies(r, f) /\ Stage(r, f)
      /\ Staging /\ UNCHANGED <<pend, live>>
  BY <1>1 DEF StartChild, Exchanging, Serving
<1>3. f \in Frames /\ Stageable(r, f)
  <2>1. "start" \in Words
    BY DEF Words
  <2> QED BY <1>1, <1>2, <2>1, Names, FactsCanBeStaged
<1> QED BY <1>2, <1>3, Names, IdleIsTyped, StagingKeeps

\* Settlements of children and runs can be staged when they apply.
LEMMA SettlementsCanBeStaged ==
  ASSUME NEW r \in Runs, NEW w \in {"completed", "failed", "interrupted"}
  PROVE  /\ Applies(r, ChildSettlement(r, w)) =>
              ChildSettlement(r, w) \in Frames /\ Stageable(r, ChildSettlement(r, w))
         /\ Applies(Session, RunSettlement(r, w)) =>
              RunSettlement(r, w) \in Frames /\ Stageable(Session, RunSettlement(r, w))
<1>1. w \in Words
  BY Zenon DEF Words
<1>6. w \in Outcomes
  BY DEF Outcomes
<1>2. PICK n \in Nat : n = IF w = "completed" THEN 1 ELSE 0
  OBVIOUS
<1>3. PICK m \in Nat : m = IF w = "completed" \/ input[r] = "queued" THEN 1 ELSE 0
  OBVIOUS
<1>4. ChildSettlement(r, w) = Frame("settle", r, [c \in Calls |-> w], n)
  BY <1>2 DEF ChildSettlement
<1>5. RunSettlement(r, w) = Frame("settle", r, [c \in Calls |-> w], m)
  BY <1>3 DEF RunSettlement
<1> QED BY <1>1, <1>6, <1>4, <1>5, Names, FactsCanBeStaged

\* its end,
LEMMA SettleChildKeeps ==
  ASSUME StoreInv, NEW r \in Runs, NEW outcome \in {"completed", "failed"},
         SettleChild(r, outcome)
  PROVE  StoreInv' /\ StoryGoesOn /\ pend' = pend
<1>1. PICK f : f = ChildSettlement(r, outcome)
  OBVIOUS
<1>2. /\ at = Idle /\ loaded /\ Applies(r, f) /\ Stage(r, f)
      /\ Staging /\ UNCHANGED <<pend, live>>
  BY <1>1 DEF SettleChild, Exchanging, Serving
<1>3. f \in Frames /\ Stageable(r, f)
  BY <1>1, <1>2, SettlementsCanBeStaged
<1> QED BY <1>2, <1>3, Names, IdleIsTyped, StagingKeeps

\* the end of a run,
LEMMA SettleRunKeeps ==
  ASSUME StoreInv, NEW r \in Runs, SettleRun(r)
  PROVE  StoreInv' /\ StoryGoesOn /\ pend' = pend
<1>1. PICK w \in {"completed", "failed"} : w = IF live = r THEN "completed" ELSE "failed"
  OBVIOUS
<1>2. PICK f : f = RunSettlement(r, w)
  OBVIOUS
<1>3. /\ at = Idle /\ loaded /\ Applies(Session, f) /\ Stage(Session, f)
      /\ Staging /\ UNCHANGED <<pend, live>>
  BY <1>1, <1>2 DEF SettleRun, Serving
<1>4. f \in Frames /\ Stageable(Session, f)
  BY <1>2, <1>3, SettlementsCanBeStaged
<1> QED BY <1>3, <1>4, Names, IdleIsTyped, StagingKeeps

\* the frozen answers of an exchange,
LEMMA StageExchangeKeeps ==
  ASSUME StoreInv, StageExchange
  PROVE  StoreInv' /\ StoryGoesOn /\ pend' = pend
<1> USE DEF StoreInv, Process
<1>1. /\ at.do = "stage" /\ Stage(Session, ExchangeFrame) /\ Staging /\ UNCHANGED <<pend, live>>
      /\ at.who = Session
  BY DEF StageExchange, ExchangeFrame, At
<1>2. pend.state = "ready" /\ pend # NoExchange
  BY <1>1, NoExchangeHasNoState DEF Position
<1>3. pend.run \in Runs /\ pend.answers \in [Calls -> Words]
  BY <1>2, ExchangeOfRun
<1>4. 1 + Cardinality(Calls) \in Nat
  <2>1. IsFiniteSet({"tool"})
    BY FS_Singleton
  <2>2. IsFiniteSet({"tool"} \cup {"task"})
    BY <2>1, FS_AddElement
  <2>3. Calls = {"tool"} \cup {"task"}
    BY DEF Calls
  <2> QED BY <2>2, <2>3, FS_CardinalityType
<1>5. /\ ExchangeFrame \in Frames /\ ExchangeFrame.kind = "exchange"
      /\ ExchangeFrame.run = pend.run /\ ExchangeFrame.whole = TRUE
  <2>1. PICK n \in Nat : n = 1 + Cardinality(Calls)
    BY <1>4
  <2>2. ExchangeFrame = Frame("exchange", pend.run, pend.answers, n)
    BY <2>1 DEF ExchangeFrame
  <2> QED BY <1>3, <2>2 DEF Frame, Frames
<1>6. Applies(Session, ExchangeFrame)
  BY <1>2, <1>5 DEF Applies
<1>7. Stageable(Session, ExchangeFrame)
  BY <1>3, <1>5, <1>6 DEF Stageable
<1>8. loaded \/ phase \notin {"off", "operations"}
  BY <1>1, IdleIsTyped DEF Memory
<1>9. PICK f \in Frames : f = ExchangeFrame
  BY <1>5
<1> QED BY <1>1, <1>7, <1>8, <1>9, Names, StagingKeeps

\* The frames of a child that is settled on its own.
LEMMA InterruptedFrames ==
  ASSUME NEW r \in Runs, NEW kind \in {"alone", "directory"}
  PROVE  /\ Frame(kind, r, [c \in Calls |-> "interrupted"], 0) \in Frames
         /\ Frame(kind, r, [c \in Calls |-> "interrupted"], 0).kind = kind
         /\ Frame(kind, r, [c \in Calls |-> "interrupted"], 0).run = r
         /\ Frame(kind, r, [c \in Calls |-> "interrupted"], 0).whole = TRUE
<1>1. "interrupted" \in Words
  BY DEF Words
<1>2. PICK says \in [Calls -> Words] : says = [c \in Calls |-> "interrupted"]
  BY <1>1
<1>3. PICK n \in Nat : n = 0
  OBVIOUS
<1>4. /\ Frame(kind, r, says, n) \in Frames
      /\ Frame(kind, r, says, n).kind = kind /\ Frame(kind, r, says, n).run = r
      /\ Frame(kind, r, says, n).whole = TRUE
  BY DEF Frame, Frames
<1> QED BY <1>2, <1>3, <1>4

\* and, after a restart, the interruption of a child
LEMMA InterruptChildKeeps ==
  ASSUME StoreInv, NEW r \in Runs, InterruptChild(r)
  PROVE  StoreInv' /\ StoryGoesOn /\ pend' = pend
<1> DEFINE alone == Frame("alone", r, [c \in Calls |-> "interrupted"], 0)
<1>1. PICK f : f = IF pend # NoExchange THEN ChildSettlement(r, "interrupted") ELSE alone
  OBVIOUS
<1>2. at = Idle /\ phase = "children" /\ child[r] # "none"
  BY DEF InterruptChild, InPhase
<1>3. CASE Applies(r, f) /\ CanStage(r)
  <2>1. Stage(r, f) /\ Staging /\ UNCHANGED <<pend, live>>
    BY <1>1, <1>3 DEF InterruptChild
  <2>2. f \in Frames /\ Stageable(r, f)
    <3>1. CASE pend # NoExchange
      BY <1>1, <1>3, <3>1, SettlementsCanBeStaged
    <3>2. CASE pend = NoExchange
      <4>3. f \in Frames /\ f.kind = "alone" /\ f.run = r /\ f.whole = TRUE
        BY <1>1, <3>2, InterruptedFrames
      <4>4. ~loaded
        BY <1>2 DEF StoreInv, Process, Memory
      <4> QED BY <1>2, <3>2, <4>3, <4>4, Names DEF Stageable
    <3> QED BY <3>1, <3>2
  <2> QED BY <1>2, <2>1, <2>2, Names, IdleIsTyped, StagingKeeps
<1>4. CASE ~(Applies(r, f) /\ CanStage(r))
  <2>1. InPhase("children") /\ GoTo("off") /\ UNCHANGED <<tables, files, effects, faults>>
    BY <1>1, <1>4 DEF InterruptChild
  <2> QED BY <2>1, PreparationGoesOn DEF tables
<1> QED BY <1>3, <1>4

\* (its settlement may need an entry in the session's file, staged by now or earlier)
LEMMA StageDirectoryKeeps ==
  ASSUME StoreInv, NEW r \in Runs, StageDirectory(r)
  PROVE  StoreInv' /\ StoryGoesOn /\ pend' = pend
<1> USE DEF StoreInv, Process
<1>1. /\ at = At("directory", r) /\ at.do = "directory" /\ at.who = r /\ CanStageDirectory(r)
      /\ Staging /\ UNCHANGED <<pend, live>>
  BY DEF StageDirectory, At
<1>2. Alone(r) /\ row[r] # NoRow /\ (loaded \/ phase \notin {"off", "operations"})
  BY <1>1, IdleIsTyped DEF Position, Alone, Memory
<1>3. child[r] # "none"
  BY <1>2, ChildRowHasChild DEF Durable
<1>4. CASE row[Session] = NoRow
  <2>1. Stage(Session, Directory(r))
    BY <1>4 DEF StageDirectory
  <2>4. PICK f \in Frames : /\ f = Directory(r) /\ f.kind = "directory" /\ f.run = r
                            /\ f.whole = TRUE
    BY InterruptedFrames DEF Directory
  <2>5. Applies(Session, f)
    BY <1>2, <1>3, <2>4 DEF Applies
  <2>6. Stageable(Session, f)
    BY <2>4, <2>5 DEF Stageable
  <2> QED BY <1>1, <1>2, <2>1, <2>4, <2>6, Names, StagingKeeps
<1>5. CASE row[Session] # NoRow
  <2>1. /\ row[Session].frame = Directory(r) /\ at' = At("write", r)
        /\ UNCHANGED <<head, row, input, run, pend, child, op, body, childBody, candidate,
                       phase, sick, bad, badChildren, loaded, live, effects, faults>>
    BY <1>1, <1>5 DEF StageDirectory, CanStageDirectory, Staging, files
  <2>2. FilesChange /\ \A x \in Owners : HasFile(x) => HasFile(x)'
    BY <2>1, FilesStayChange
  <2>3. MemoryTyped' /\ op' \in Operations /\ FilesTyped'
    <3>1. "write" \in Steps
      BY DEF Steps
    <3> QED BY <2>1, <3>1, IdleIsTyped, Names, FilesStayTyped, TypesTogether
        DEF StagedTypeOK, MemoryTyped
  <2>4. at'.do = "write" /\ at'.who = r
    BY <2>1 DEF At
  <2>5. Position'
    BY <1>2, <1>5, <2>1, <2>4, Names DEF Position, Directory
  <2>6. Spared'
    BY <1>1, <1>2, <2>1, <2>2, ServedIsClean, SparedStays
  <2>7. Durable' /\ StoryGoesOn
    BY <2>1, <2>2, FilesChangeKeeps, VisibleStays
    DEF FilesChange, RowsStay, StoryGoesOn, Unseen, ClearsFacts
  <2>8. StagedTypeOK' /\ SingleRun' /\ Receipts'
    BY <2>1, <2>2, <2>3, RowsStayTyped, TypesTogetherNext
    DEF FilesChange, RowsStay, SingleRun, Receipts
  <2>9. Memory'
    <3>1. live = Nobody
      BY <1>5, <1>1 DEF Memory, At
    <3> QED BY <1>2, <1>5, <2>1, <3>1 DEF Memory
  <2> QED BY <2>1, <2>5, <2>6, <2>7, <2>8, <2>9
<1> QED BY <1>4, <1>5

\* and of a run.
LEMMA SettleInterruptedKeeps ==
  ASSUME StoreInv, NEW r \in Runs, SettleInterrupted(r)
  PROVE  StoreInv' /\ StoryGoesOn /\ pend' = pend
<1>1. PICK f : f = RunSettlement(r, "interrupted")
  OBVIOUS
<1>2. at = Idle /\ phase = "settle"
  BY DEF SettleInterrupted, InPhase
<1>3. CASE Applies(Session, f) /\ CanStage(Session)
  <2>1. Stage(Session, f) /\ Staging /\ UNCHANGED <<pend, live>>
    BY <1>1, <1>3 DEF SettleInterrupted
  <2>2. f \in Frames /\ Stageable(Session, f)
    BY <1>1, <1>3, SettlementsCanBeStaged
  <2> QED BY <1>2, <2>1, <2>2, Names, IdleIsTyped, StagingKeeps
<1>4. CASE ~(Applies(Session, f) /\ CanStage(Session))
  <2>1. InPhase("settle") /\ GoTo("off") /\ UNCHANGED <<tables, files, effects, faults>>
    BY <1>1, <1>4 DEF SettleInterrupted
  <2> QED BY <2>1, PreparationGoesOn DEF tables
<1> QED BY <1>3, <1>4

-----------------------------------------------------------------------------
(* ---- the steps that change rows -------------------------------------------*)
\* Commands that change rows in one transaction and leave the worker at rest.
LEMMA ServingKeeps ==
  ASSUME StoreInv, at = Idle, RowsTyped', Durable', Visible(Session)' = Visible(Session),
         UNCHANGED <<op, body, childBody, head, row, child, at, candidate, phase, sick, bad,
                     badChildren, loaded, live, faults>>,
         SingleRun', live # Nobody => run'[live] = "running"
  PROVE  StoreInv' /\ StoryGoesOn
<1> USE DEF StoreInv, Process
<1>1. StagedTypeOK'
  <2>1. MemoryTyped' /\ op' \in Operations /\ FilesTyped'
    BY FilesStayTyped, TypesTogether DEF StagedTypeOK, MemoryTyped
  <2> QED BY <2>1, TypesTogetherNext
<1>2. Memory'
  BY DEF Memory
<1>3. Position'
  BY DEF Position, Idle
<1>4. Receipts'
  BY DEF Receipts
<1>5. Spared'
  BY DEF Spared, HasFile
<1>6. StoryGoesOn
  BY DEF StoryGoesOn, Unseen
<1> QED BY <1>1, <1>2, <1>3, <1>4, <1>5, <1>6

\* An input is accepted.
LEMMA AcceptInputKeeps ==
  ASSUME StoreInv, NEW r \in Runs, AcceptInput(r)
  PROVE  StoreInv' /\ StoryGoesOn
<1> USE DEF StoreInv, Process
<1>1. /\ at = Idle /\ input[r] = "none" /\ input' = [input EXCEPT ![r] = "queued"]
      /\ UNCHANGED <<head, row, run, pend, child, op, body, childBody, at, candidate, phase, sick,
                     bad, badChildren, loaded, live, effects, faults>>
  BY DEF AcceptInput, Serving, files, memory
<1>2. RowsTyped'
  BY <1>1 DEF StagedTypeOK, RowsTyped
<1>3. QueueStep(r)
  BY <1>1 DEF QueueStep, StagedTypeOK
<1>4. Durable' /\ Visible(Session)' = Visible(Session)
  BY <1>3, QueueStepKeeps
<1>5. SingleRun' /\ (live # Nobody => run'[live] = "running")
  BY <1>1 DEF SingleRun, Memory
<1> QED BY <1>1, <1>2, <1>4, <1>5, ServingKeeps

\* It is claimed only when no other run is under way.
LEMMA ClaimInputKeeps ==
  ASSUME StoreInv, NEW r \in Runs, ClaimInput(r)
  PROVE  StoreInv' /\ StoryGoesOn
<1> USE DEF StoreInv, Process
<1>1. /\ at = Idle /\ input[r] = "queued" /\ run' = [run EXCEPT ![r] = "accepted"]
      /\ row[Session] = NoRow /\ \A other \in Runs : run[other] = "none"
      /\ UNCHANGED <<head, row, input, pend, child, op, body, childBody, at, candidate, phase, sick,
                     bad, badChildren, loaded, live, effects, faults>>
  BY DEF ClaimInput, Serving, files, memory
<1>2. RowsTyped'
  BY <1>1 DEF StagedTypeOK, RowsTyped
<1>3. QueueStep(r)
  BY <1>1 DEF QueueStep, StagedTypeOK
<1>4. Durable' /\ Visible(Session)' = Visible(Session)
  BY <1>3, QueueStepKeeps
<1>5. SingleRun'
  BY <1>1 DEF SingleRun, StagedTypeOK
<1>6. live = Nobody
  BY <1>1 DEF Memory, StagedTypeOK
<1> QED BY <1>1, <1>2, <1>4, <1>5, <1>6, ServingKeeps

\* An exchange begins.
LEMMA BeginExchangeGoesOn ==
  ASSUME StoreInv, NEW r \in Runs, BeginExchange(r)
  PROVE  StoreInv' /\ StoryGoesOn
<1> USE DEF StoreInv, Process
<1>1. /\ at = Idle
      /\ pend' = [state |-> "begun", run |-> r, started |-> {}, located |-> FALSE,
                  answers |-> Unanswered]
      /\ UNCHANGED <<head, row, input, run, child, op, body, childBody, at, candidate, phase, sick,
                     bad, badChildren, loaded, live, effects, faults>>
  BY DEF BeginExchange, Serving, files, memory
<1>2. RowsTyped'
  <2>1. Unanswered \in [Calls -> Words]
    BY DEF Unanswered, Words
  <2>2. pend' \in [state : {"begun", "ready"}, run : Runs, started : SUBSET Calls,
                   located : BOOLEAN, answers : [Calls -> Words]]
    BY <1>1, <2>1
  <2> QED BY <1>1, <2>2 DEF StagedTypeOK, RowsTyped
<1>3. Durable' /\ Visible(Session)' = Visible(Session)
  BY BeginExchangeKeeps
<1>4. SingleRun' /\ (live # Nobody => run'[live] = "running")
  BY <1>1 DEF SingleRun, Memory
<1> QED BY <1>1, <1>2, <1>3, <1>4, ServingKeeps

\* A call is marked before it does anything.
LEMMA MarkStartedGoesOn ==
  ASSUME StoreInv, NEW r \in Runs, NEW c \in Calls, MarkStarted(r, c)
  PROVE  StoreInv' /\ StoryGoesOn
<1> USE DEF StoreInv, Process
<1>1. /\ at = Idle /\ pend.state = "begun"
      /\ pend' = [pend EXCEPT !.started = @ \cup {c}]
      /\ UNCHANGED <<head, row, input, run, child, op, body, childBody, at, candidate, phase, sick,
                     bad, badChildren, loaded, live, effects, faults>>
  BY DEF MarkStarted, Exchanging, Serving, files, memory
<1>2. RowsTyped'
  <2>1. pend \in [state : {"begun", "ready"}, run : Runs, started : SUBSET Calls,
                  located : BOOLEAN, answers : [Calls -> Words]]
    BY <1>1, NoExchangeHasNoState DEF StagedTypeOK
  <2>2. pend' \in [state : {"begun", "ready"}, run : Runs, started : SUBSET Calls,
                   located : BOOLEAN, answers : [Calls -> Words]]
    BY <1>1, <2>1
  <2> QED BY <1>1, <2>2 DEF StagedTypeOK, RowsTyped
<1>3. Durable' /\ Visible(Session)' = Visible(Session)
  BY MarkStartedKeeps
<1>4. SingleRun' /\ (live # Nobody => run'[live] = "running")
  BY <1>1 DEF SingleRun, Memory
<1> QED BY <1>1, <1>2, <1>3, <1>4, ServingKeeps

\* A tool takes effect once, and only when its call is marked.
LEMMA ToolTakesEffectGoesOn ==
  ASSUME StoreInv, NEW r \in Runs, ToolTakesEffect(r)
  PROVE  StoreInv' /\ StoryGoesOn
<1> USE DEF StoreInv, Process
<1>1. /\ effects[r] = 0 /\ effects' = [effects EXCEPT ![r] = @ + 1]
      /\ UNCHANGED <<head, row, input, run, pend, child, op, body, childBody, at, candidate, phase,
                     sick, bad, badChildren, loaded, live, faults>>
  BY DEF ToolTakesEffect, tables, files, memory
<1>2. StagedTypeOK'
  <2>1. effects' \in [Runs -> 0 .. 1]
    BY <1>1 DEF StagedTypeOK
  <2> QED BY <1>1, <2>1 DEF StagedTypeOK
<1>3. Durable' /\ Visible(Session)' = Visible(Session)
  BY ToolTakesEffectKeeps
<1>4. Memory' /\ Receipts' /\ SingleRun'
  BY <1>1 DEF Memory, Receipts, SingleRun
<1>5. Position'
  BY <1>1 DEF Position, HasFile, FileOf, Prefix, SessionIsIdle, Alone, Directory
<1>6. Spared'
  BY <1>1 DEF Spared, HasFile
<1> QED BY <1>1, <1>2, <1>3, <1>4, <1>5, <1>6 DEF StoryGoesOn, Unseen

\* The child's row is inserted, or its file removed again.
LEMMA InsertChildGoesOn ==
  ASSUME StoreInv, NEW r \in Runs, InsertChild(r)
  PROVE  StoreInv' /\ StoryGoesOn
<1> USE DEF StoreInv, Process
<1>1. /\ at = At("childrow", r) /\ at.do = "childrow" /\ at.who = r /\ at' = Idle
      /\ UNCHANGED <<head, row, input, run, pend, op, body, candidate, phase, sick, bad,
                     badChildren, loaded, live, effects>>
  BY DEF InsertChild, At
<1>2. /\ loaded /\ pend.state = "begun" /\ pend.run = r /\ ~pend.located /\ child[r] = "none"
      /\ HasFile(r) /\ phase = "off"
  BY <1>1 DEF Position, Memory
<1>3. "cleanup" \notin Faults => op.state # "cleanup"
  BY <1>1, <1>2, ServedIsClean
<1>4. CASE child' = [child EXCEPT ![r] = "accepted"] /\ UNCHANGED <<childBody, faults>>
  <2>1. Durable' /\ Visible(Session)' = Visible(Session)
    BY <1>1, <1>4, InsertChildKeeps
  <2>2. StagedTypeOK'
    <3>1. RowsTyped'
      BY <1>1, <1>4 DEF StagedTypeOK, RowsTyped
    <3>2. MemoryTyped' /\ op' \in Operations /\ FilesTyped'
      BY <1>1, <1>4, IdleIsTyped, FilesStayTyped, TypesTogether DEF StagedTypeOK, MemoryTyped
    <3> QED BY <3>1, <3>2, TypesTogetherNext
  <2>3. Memory'
    <3>1. live # Nobody => row[Session] = NoRow
      BY <1>1, NothingStaged
    <3> QED BY <1>1, <1>2, <3>1 DEF Memory
  <2>4. Position' /\ Receipts' /\ SingleRun'
    BY <1>1 DEF Position, Receipts, SingleRun, Idle
  <2>5. Spared'
    <3>1. \A x \in Runs : child'[x] # "none" => child[x] # "none" \/ HasFile(x)
      BY <1>2, <1>4 DEF StagedTypeOK
    <3>2. \A x \in Owners : HasFile(x)' = HasFile(x)
      BY <1>1, <1>4 DEF HasFile
    <3> QED BY <1>1, <1>3, <3>1, <3>2, Names DEF Spared
  <2> QED BY <1>1, <2>1, <2>2, <2>3, <2>4, <2>5 DEF StoryGoesOn, Unseen
<1>5. CASE /\ Fails("io") /\ UNCHANGED child
           /\ childBody' = [x \in DOMAIN childBody \ {r} |-> childBody[x]]
  <2>1. /\ DOMAIN childBody' = DOMAIN childBody \ {r}
        /\ \A x \in DOMAIN childBody' : childBody'[x] = childBody[x]
    BY <1>5
  <2>2. FilesTyped'
    <3>1. \A x \in DOMAIN childBody' : childBody'[x] \in Seq(Frames)
      BY <2>1 DEF StagedTypeOK
    <3>2. childBody' = [x \in DOMAIN childBody' |-> childBody'[x]]
      BY <1>5
    <3>3. childBody' \in [DOMAIN childBody' -> Seq(Frames)]
      BY <3>1, <3>2
    <3> QED BY <1>1, <2>1, <3>3 DEF StagedTypeOK, FilesTyped
  <2>3. ~HasFile(r)'
    BY <2>1, Names DEF HasFile
  <2>4. LostFile(r)
    BY <1>2, <2>3, Names DEF LostFile
  <2>5. \A o \in Owners : o # r => KeptFile(o)
    BY <1>1, <2>1, Names DEF KeptFile, HasFile, FileOf
  <2>6. MemoryTyped'
    BY <1>1, <1>5, IdleIsTyped, FaultsAreCounted DEF StagedTypeOK, MemoryTyped, Fails, MayFail
  <2>7. RowsStay /\ op' \in Operations
    BY <1>1, <1>5, TypesTogether DEF RowsStay
  <2>8. Spared'
    <3>1. \A x \in Owners : x # r => HasFile(x)' = HasFile(x)
      BY <2>5 DEF KeptFile
    <3> QED BY <1>1, <1>2, <1>3, <1>5, <3>1, Names DEF Spared
  <2>9. faults' = faults + 1 /\ UNCHANGED <<live, loaded, op>> /\ at.do = "childrow" /\ at' = Idle
    BY <1>1, <1>5 DEF Fails, At
  <2> QED BY <1>1, <1>2, <2>2, <2>4, <2>5, <2>6, <2>7, <2>8, <2>9, LosingKeeps
<1> QED BY <1>4, <1>5 DEF InsertChild

\* The answers are frozen.
LEMMA FreezingKeeps ==
  ASSUME StoreInv, pend.state = "begun", child[pend.run] # "none" => faults' > 0,
         NEW says, Answering(pend.run, says), Freeze(says), at = Idle,
         loaded \/ phase = "exchange",
         faults' = faults \/ (faults < MaxFaults /\ faults' = faults + 1),
         UNCHANGED <<head, row, input, run, child, op, body, childBody, candidate, phase, sick, bad,
                     badChildren, loaded, live, effects>>
  PROVE  StoreInv' /\ StoryGoesOn
<1> USE DEF StoreInv, Process
<1>1. /\ pend' = [pend EXCEPT !.state = "ready", !.answers = says]
      /\ at' = At("stage", Session)
  BY DEF Freeze
<1>2. Durable' /\ Visible(Session)' = Visible(Session)
  <2>1. FaultsStay
    BY FaultsGrow
  <2>2. pend' = [pend EXCEPT !.state = "ready", !.answers = says]
    BY <1>1
  <2> QED BY <2>1, <2>2, FreezeKeeps, ZenonT(30)
<1>3. pend \in [state : {"begun", "ready"}, run : Runs, started : SUBSET Calls,
                located : BOOLEAN, answers : [Calls -> Words]]
  BY NoExchangeHasNoState DEF StagedTypeOK
<1>4. /\ pend' \in [state : {"begun", "ready"}, run : Runs, started : SUBSET Calls,
                    located : BOOLEAN, answers : [Calls -> Words]]
      /\ pend'.state = "ready"
  <2>1. says \in [Calls -> Words]
    BY ZenonT(20) DEF Answering
  <2> QED BY <1>1, <1>3, <2>1
<1>5. StagedTypeOK'
  <2>1. RowsTyped'
    BY <1>4 DEF StagedTypeOK, RowsTyped
  <2>2. "stage" \in Steps
    BY DEF Steps
  <2>3. MemoryTyped' /\ op' \in Operations /\ FilesTyped'
    BY <1>1, <2>2, FaultsAreCounted, IdleIsTyped, Names, FilesStayTyped, TypesTogether
    DEF StagedTypeOK, MemoryTyped
  <2> QED BY <2>1, <2>3, TypesTogetherNext
<1>6. at'.do = "stage" /\ at'.who = Session /\ at.do = "idle"
  BY <1>1, IdleIsTyped DEF At
<1>7. Memory'
  <2>1. live # Nobody => row[Session] = NoRow
    BY <1>6, NothingStaged
  <2> QED BY <2>1 DEF Memory
<1>8. Position'
  BY <1>4, <1>6 DEF Position
<1>9. Receipts' /\ SingleRun'
  BY DEF Receipts, SingleRun
<1>10. Spared'
  BY <1>6, ServedIsClean DEF Spared, HasFile
<1> QED BY <1>2, <1>5, <1>7, <1>8, <1>9, <1>10 DEF StoryGoesOn, Unseen

\* What a located child answers.
LEMMA OutcomeIsAWord ==
  ASSUME StagedTypeOK, Durable, pend # NoExchange, pend.located, HasFile(pend.run)
  PROVE  ChildOutcome(pend.run) \in Words
<1>1. PICK r \in Runs : r = pend.run
  BY ExchangeOfRun
<1>2. FileOf(r) # <<>>
  BY <1>1 DEF Durable, ChildFiles
<1>3. ChildOutcome(r) \in Words
  BY <1>2, OutcomeOfFile, LastIsRecorded
<1> QED BY <1>1, <1>3

\* The engine freezes its answers; a child that is still there has had a failure.
LEMMA CompleteExchangeKeeps ==
  ASSUME StoreInv, Faultless, NEW r \in Runs, CompleteExchange(r)
  PROVE  StoreInv' /\ StoryGoesOn
<1> USE DEF StoreInv, Process
<1>1. /\ at = Idle /\ loaded /\ pend.state = "begun" /\ pend.run = r
      /\ Freeze([c \in Calls |-> Answer(r, c)])
      /\ UNCHANGED <<head, row, input, run, child, op, body, childBody, candidate, phase, sick, bad,
                     badChildren, loaded, live, effects>>
      /\ faults' = faults \/ (faults < MaxFaults /\ faults' = faults + 1)
  BY DEF CompleteExchange, Exchanging, Serving, files, Fails, MayFail
<1>2. pend # NoExchange /\ InExchange(r)
  BY <1>1, NoExchangeHasNoState DEF InExchange
<1>3. pend.located => ChildOutcome(r) \in Words
  BY <1>1, <1>2, OutcomeIsAWord DEF Durable, ChildFiles
<1>4. PICK says : says = [c \in Calls |-> Answer(r, c)]
  OBVIOUS
<1>5. says \in [Calls -> Words]
  <2>1. /\ "refused" \in Words /\ "done" \in Words /\ "cancelled" \in Words /\ "error" \in Words
    BY Zenon DEF Words
  <2>2. \A c \in Calls : Answer(r, c) \in Words
    BY <1>3, <2>1 DEF Answer
  <2> QED BY <1>4, <2>2
<1>6. says["tool"] = Answer(r, "tool") /\ says["task"] = Answer(r, "task")
  BY <1>4 DEF Calls
<1>7. effects[r] > 0 => effects[r] = 1
  <2>1. effects[r] \in 0 .. 1
    BY DEF StagedTypeOK
  <2> QED BY <2>1
<1>8. child[r] # "none" => faults' > 0 /\ "task" \in pend.started /\ ~pend.located
  <2> SUFFICES ASSUME child[r] # "none"
               PROVE  faults' > 0 /\ "task" \in pend.started /\ ~pend.located
    OBVIOUS
  <2>1. "task" \in pend.started /\ ~pend.located
    BY <1>2, ChildIsUnanswered DEF Durable
  <2>2. faults \in Nat
    BY StagedHistoryAssumption DEF StagedTypeOK
  <2>3. CASE row[r] = NoRow
    <3>1. faults' = faults + 1
      BY <2>3 DEF CompleteExchange, Fails
    <3> QED BY <2>1, <2>2, <3>1
  <2>4. CASE row[r] # NoRow
    <3>1. at # At("write", r) /\ at # At("finalize", r)
      BY <1>1 DEF At, Idle
    <3>2. faults # 0
      BY <2>4, <3>1 DEF Faultless
    <3> QED BY <1>1, <2>1, <2>2, <3>2
  <2> QED BY <2>3, <2>4
<1>9. Answering(r, says)
  <2>1. says["tool"] = IF "tool" \notin pend.started THEN "refused"
                       ELSE IF effects[r] > 0 THEN "done" ELSE "cancelled"
    BY <1>6 DEF Answer
  <2>2. says["task"] = IF "task" \notin pend.started THEN "refused"
                       ELSE IF pend.located THEN ChildOutcome(r) ELSE "error"
    BY <1>6 DEF Answer
  <2>3. says["tool"] \in {"refused", "not started"} => "tool" \notin pend.started
    BY <2>1
  <2>4. says["tool"] = "done" => effects[r] = 1
    BY <2>1, <1>7
  <2>5. child[r] # "none" => says["task"] = "error"
    BY <1>8, <2>2
  <2>6. "task" \notin pend.started => says["task"] \in {"refused", "not started"}
    BY <2>2, ZenonT(20)
  <2>7. "task" \in pend.started /\ pend.located => says["task"] = ChildOutcome(r)
    BY <2>2, ZenonT(20)
  <2>8. "task" \in pend.started /\ ~pend.located => says["task"] \in {"no child", "error"}
    BY <2>2, ZenonT(20)
  <2> QED BY <1>5, <2>3, <2>4, <2>5, <2>6, <2>7, <2>8, ZenonT(20) DEF Answering
<1> QED BY <1>1, <1>4, <1>8, <1>9, FreezingKeeps

\* Recovery freezes its own from the marks and the child's file.
LEMMA RecoverExchangeKeeps ==
  ASSUME StoreInv, RecoverExchange
  PROVE  StoreInv' /\ StoryGoesOn
<1> USE DEF StoreInv, Process
<1>1. /\ at = Idle /\ phase = "exchange" /\ pend.state = "begun" /\ Answerable
      /\ Freeze([c \in Calls |-> RecoveredAnswer(c)])
      /\ UNCHANGED <<head, row, input, run, child, op, body, childBody, candidate, phase, sick, bad,
                     badChildren, loaded, live, effects, faults>>
  BY DEF RecoverExchange, InPhase, files
<1>2. PICK r \in Runs : r = pend.run
  BY <1>1, NoExchangeHasNoState, ExchangeOfRun
<1>3. pend # NoExchange /\ child[r] = "none"
  <2>1. pend # NoExchange /\ InExchange(r)
    BY <1>1, <1>2, NoExchangeHasNoState DEF InExchange
  <2>2. child[r] # "none" => "task" \in pend.started /\ ~pend.located
    BY <2>1, ChildIsUnanswered DEF Durable
  <2> QED BY <1>1, <1>2, <2>1, <2>2 DEF Answerable
<1>4. "task" \in pend.started /\ pend.located => ChildOutcome(r) \in Words
  BY <1>1, <1>2, <1>3, OutcomeIsAWord DEF Answerable
<1>5. PICK says : says = [c \in Calls |-> RecoveredAnswer(c)]
  OBVIOUS
<1>6. says \in [Calls -> Words]
  <2>1. \A c \in Calls : c # "tool" => c = "task"
    BY DEF Calls
  <2>2. "not started" \in Words /\ "unknown" \in Words /\ "no child" \in Words
    BY Zenon DEF Words
  <2>3. \A c \in Calls : RecoveredAnswer(c) \in Words
    BY <1>2, <1>4, <2>1, <2>2, ZenonT(30) DEF RecoveredAnswer
  <2> QED BY <1>5, <2>3
<1>7. says["tool"] = RecoveredAnswer("tool") /\ says["task"] = RecoveredAnswer("task")
  BY <1>5 DEF Calls
<1>8. Answering(r, says)
  <2>1. says["tool"] = IF "tool" \notin pend.started THEN "not started" ELSE "unknown"
    BY <1>7, ZenonT(30) DEF RecoveredAnswer
  <2>2. says["task"] = IF "task" \notin pend.started THEN "not started"
                       ELSE IF pend.located THEN ChildOutcome(r) ELSE "no child"
    BY <1>2, <1>7, ZenonT(30) DEF RecoveredAnswer
  <2>3. says["tool"] \in {"refused", "not started"} => "tool" \notin pend.started
    BY <2>1, ZenonT(30)
  <2>4. says["tool"] # "done"
    BY <2>1, ZenonT(30)
  <2>5. "task" \notin pend.started => says["task"] \in {"refused", "not started"}
    BY <2>2, ZenonT(20)
  <2>6. "task" \in pend.started /\ pend.located => says["task"] = ChildOutcome(r)
    BY <2>2, ZenonT(20)
  <2>7. "task" \in pend.started /\ ~pend.located => says["task"] \in {"no child", "error"}
    BY <2>2, ZenonT(20)
  <2> QED BY <1>3, <1>6, <2>3, <2>4, <2>5, <2>6, <2>7, ZenonT(20) DEF Answering
<1> QED BY <1>1, <1>2, <1>3, <1>5, <1>8, FreezingKeeps

\* The session moves to another generation of its file.
LEMMA CommitReplacementGoesOn ==
  ASSUME StoreInv, CommitReplacement
  PROVE  StoreInv' /\ StoryGoesOn
<1> USE DEF StoreInv, Process
<1>1. /\ at.do = "switch" /\ candidate' = head.generation /\ at' = At("remove", Session)
      /\ head' = [generation |-> candidate, count |-> Messages(body[candidate])]
      /\ op' = (IF live = Nobody THEN NoOperation ELSE op)
      /\ UNCHANGED <<row, input, run, pend, child, body, childBody, phase, sick, bad, badChildren,
                     loaded, live, effects, faults>>
  BY DEF CommitReplacement, files, At
<1>2. /\ loaded /\ phase = "off" /\ candidate # head.generation
      /\ row[Session] = NoRow /\ candidate \in DOMAIN body
      /\ "cleanup" \notin Faults => op.state # "cleanup"
  BY <1>1, ReplacingIsServed DEF Position
<1>3. /\ Durable' /\ Visible(Session)' = Append(Visible(Session), Summary)
      /\ HasFile(Session)'
  BY CommitReplacementKeeps
<1>4. candidate \in Generations /\ Messages(body[candidate]) \in Nat
  <2>1. candidate \in Generations /\ body[candidate] \in Seq(Frames)
    BY <1>2 DEF StagedTypeOK
  <2> QED BY <2>1, MessagesAreCounted
<1>5. op' \in Operations /\ (op'.kind = "clear" \/ op'.state = "cleanup" => op' = op)
  BY <1>1, NoOperationIsTyped, TypesTogether
<1>6. StagedTypeOK'
  <2>1. RowsTyped'
    BY <1>1, <1>4 DEF StagedTypeOK, RowsTyped
  <2>2. "remove" \in Steps
    BY DEF Steps
  <2>3. head.generation \in 0 .. MaxGeneration
    BY DEF StagedTypeOK, Generations
  <2>4. MemoryTyped' /\ FilesTyped'
    BY <1>1, <2>2, <2>3, IdleIsTyped, Names, FilesStayTyped DEF StagedTypeOK, MemoryTyped
  <2> QED BY <1>5, <2>1, <2>4, TypesTogetherNext
<1>7. at'.do = "remove"
  BY <1>1 DEF At
<1>8. Memory'
  <2>1. live # Nobody => row[Session] = NoRow
    BY <1>1, NothingStaged
  <2> QED BY <1>1, <1>2, <2>1 DEF Memory
<1>9. Position'
  BY <1>1, <1>2, <1>7 DEF Position
<1>10. Receipts' /\ SingleRun'
  BY <1>1, <1>5 DEF Receipts, SingleRun
<1>11. Spared'
  <2>1. \A r \in Runs : HasFile(r)' = HasFile(r)
    BY <1>1, Names DEF HasFile
  <2>2. "cleanup" \notin Faults => op'.state # "cleanup"
    BY <1>2, <1>5
  <2> QED BY <1>1, <1>3, <2>1, <2>2 DEF Spared
<1> QED BY <1>1, <1>3, <1>6, <1>8, <1>9, <1>10, <1>11 DEF StoryGoesOn, Summarizes

\* A clear switches an idle session to an empty file.
LEMMA SwitchToClearGoesOn ==
  ASSUME StoreInv, SwitchToClear
  PROVE  StoreInv' /\ StoryGoesOn
<1> USE DEF StoreInv, Process
<1>1. /\ at.do = "clearswitch" /\ SessionIsIdle /\ at' = At("cleanup", Session)
      /\ head' = [generation |-> op.result, count |-> 0]
      /\ input' = [r \in Runs |-> IF input[r] = "none" THEN "none" ELSE "cleared"]
      /\ op' = [op EXCEPT !.state = "cleanup"]
      /\ UNCHANGED <<row, run, pend, child, body, childBody, candidate, phase, sick, bad,
                     badChildren, loaded, live, effects, faults>>
  BY DEF SwitchToClear, files, At
<1>2. loaded /\ phase = "off" /\ op.result \in Generations
  BY <1>1, ReplacingIsServed
<1>3. Durable' /\ row[Session] = NoRow /\ Visible(Session)' = <<>> /\ HasFile(Session)'
  BY SwitchToClearKeeps
<1>4. /\ live = Nobody
      /\ \A r \in Runs : child[r] = "none" /\ input[r] # "queued"
  BY <1>1, IdleHasNothing
<1>5. op' \in Operations /\ op'.state = "cleanup"
  <2>1. op \in Operations
    BY TypesTogether
  <2> QED BY <1>1, <2>1 DEF Operations
<1>6. StagedTypeOK'
  <2>1. RowsTyped'
    BY <1>1, <1>2 DEF StagedTypeOK, RowsTyped
  <2>2. "cleanup" \in Steps
    BY DEF Steps
  <2>3. MemoryTyped' /\ FilesTyped'
    BY <1>1, <2>2, IdleIsTyped, Names, FilesStayTyped DEF StagedTypeOK, MemoryTyped
  <2> QED BY <1>5, <2>1, <2>3, TypesTogetherNext
<1>7. at'.do = "cleanup"
  BY <1>1 DEF At
<1>8. Memory' /\ Receipts' /\ SingleRun'
  BY <1>1, <1>2, <1>4, <1>5 DEF Memory, Receipts, SingleRun
<1>9. SessionIsIdle'
  BY <1>1 DEF SessionIsIdle
<1>10. Position'
  BY <1>1, <1>2, <1>5, <1>7, <1>9 DEF Position
<1>11. Spared'
  BY <1>1, <1>3, <1>4, <1>7 DEF Spared
<1> QED BY <1>1, <1>3, <1>6, <1>8, <1>10, <1>11 DEF StoryGoesOn, ClearsFacts

\* The session takes commands once no run is left.
LEMMA InstallPreparedGoesOn ==
  ASSUME StoreInv, InstallPrepared
  PROVE  StoreInv' /\ StoryGoesOn
<1> USE DEF StoreInv, Process
<1>1. /\ phase = "settle" /\ at = Idle /\ loaded' = TRUE /\ phase' = "off"
      /\ UNCHANGED <<head, row, input, run, pend, child, op, body, childBody, at, candidate, sick,
                     bad, badChildren, live, effects, faults>>
  BY DEF InstallPrepared, InPhase, tables, files
<1>2. Durable' /\ Visible(Session)' = Visible(Session)
  BY InstallPreparedKeeps
<1>3. StagedTypeOK'
  <2>1. "off" \in Phases
    BY DEF Phases
  <2> QED BY <1>1, <2>1 DEF StagedTypeOK
<1>4. ~loaded /\ live = Nobody
  BY <1>1 DEF Memory
<1>5. Memory' /\ Position' /\ Receipts' /\ SingleRun'
  BY <1>1, <1>4 DEF Memory, Position, Receipts, SingleRun, Idle
<1>6. Spared'
  BY <1>1, IdleIsTyped, ServedIsClean DEF Spared, HasFile
<1> QED BY <1>1, <1>2, <1>3, <1>5, <1>6 DEF StoryGoesOn, Unseen

\* An append is finished with its effects.
LEMMA FinalizeGoesOn ==
  ASSUME StoreInv, NEW o \in Owners, Finalize(o),
         Durable', RowsTyped', SingleRun', row'[o] = NoRow,
         live' # Nobody => /\ loaded /\ run'[live'] = "running"
                           /\ row'[Session] = NoRow,
         \A r \in Runs : child'[r] # "none" => child[r] # "none"
  PROVE  StoreInv'
<1> USE DEF StoreInv, Process
<1>1. /\ at.do = "finalize" /\ at' = Idle /\ phase' = PhaseAfter(phase)
      /\ head'.generation = head.generation
      /\ UNCHANGED <<op, body, childBody, candidate, sick, bad, badChildren, loaded, faults>>
      /\ live' \in Runs \cup {Nobody}
  <2>1. at = At("finalize", o) /\ Succeeded /\ UNCHANGED <<op, files, faults>>
        /\ head'.generation = head.generation
    BY DEF Finalize, StagedTypeOK
  <2>2. live' \in Runs \cup {Nobody}
    <3>1. CASE o = Session
      <4>1. row[o].frame.run = live' \/ live' = live \/ live' = Nobody
        BY <3>1 DEF Finalize, Effect
      <4>2. row[o].frame.run \in Runs
        BY <2>1 DEF At, Position, Durable, Rows, Stageable
      <4> QED BY <4>1, <4>2 DEF StagedTypeOK
    <3>2. CASE o # Session
      BY <3>2 DEF Finalize, Effect, StagedTypeOK
    <3> QED BY <3>1, <3>2
  <2> QED BY <2>1, <2>2 DEF Succeeded, At, files
<1>2. loaded \/ phase \notin {"off", "operations"}
  BY <1>1, IdleIsTyped DEF Memory
<1>3. StagedTypeOK'
  <2>1. phase' \in Phases
    BY <1>1, PhasesFollow DEF StagedTypeOK
  <2>2. MemoryTyped' /\ op' \in Operations /\ FilesTyped'
    BY <1>1, <2>1, IdleIsTyped, FilesStayTyped, TypesTogether DEF StagedTypeOK, MemoryTyped
  <2> QED BY <2>2, TypesTogetherNext
<1>4. Memory'
  <2>1. loaded => phase' = "off"
    BY <1>1 DEF Memory, PhaseAfter
  <2> QED BY <1>1, <2>1, IdleIsTyped, Names DEF Memory
<1>5. Position' /\ Receipts'
  BY <1>1 DEF Position, Receipts, Idle
<1>6. Spared'
  <2>1. \A x \in Owners : HasFile(x)' = HasFile(x)
    BY <1>1 DEF HasFile
  <2>2. "cleanup" \notin Faults => op.state # "cleanup"
    BY <1>1, <1>2, ServedIsClean
  <2> QED BY <1>1, <2>1, <2>2, Names DEF Spared
<1> QED BY <1>3, <1>4, <1>5, <1>6

\* An append of the session is finished: readers see one fact more.
LEMMA FinalizeSessionGoesOn ==
  ASSUME StoreInv, Finalize(Session)
  PROVE  StoreInv' /\ StoryGoesOn
<1> USE DEF StoreInv, Process
<1>1. PICK f : f = row[Session].frame
  OBVIOUS
<1>2. SessionEffect(f) /\ SessionReady(f)
  BY <1>1, FinalizesSession
<1>3. Durable'
  BY <1>2, FinalizeSessionKeeps
<1>4. row'[Session] = NoRow /\ Visible(Session)' = Append(Visible(Session), f)
  BY <1>2, FinalizePublishes DEF SessionEffect
<1>5. at = At("finalize", Session) /\ at.do = "finalize" /\ row[Session] # NoRow
  BY DEF Finalize, At, Position
<1>6. StoryGoesOn
  BY <1>1, <1>2, <1>4, <1>5 DEF StoryGoesOn, PublishesFact, SessionReady
<1>7. /\ f.run \in Runs /\ f \in Frames
      /\ f.kind \in {"start", "exchange", "settle", "directory"}
  BY <1>2 DEF SessionReady
<1>8. /\ input' = IF f.kind \in {"start", "settle"}
                  THEN [input EXCEPT ![f.run] = "committed"] ELSE input
      /\ run' = CASE f.kind = "start" -> [run EXCEPT ![f.run] = "running"]
                  [] f.kind = "settle" -> [run EXCEPT ![f.run] = "none"]
                  [] OTHER -> run
      /\ pend' = IF f.kind = "exchange" THEN NoExchange ELSE pend
      /\ live' = IF phase # "off" THEN live
                 ELSE CASE f.kind = "start" -> f.run
                        [] f.kind = "settle" -> Nobody
                        [] OTHER -> live
      /\ child' = IF f.kind = "directory" THEN [child EXCEPT ![f.run] = "none"] ELSE child
      /\ row' = IF f.kind = "directory" THEN [row EXCEPT ![Session] = NoRow, ![f.run] = NoRow]
                ELSE [row EXCEPT ![Session] = NoRow]
      /\ effects' = effects
  BY <1>1 DEF Finalize, Effect
<1>9. RowsTyped'
  <2>1. head' \in [generation : Generations, count : Nat]
    <3>1. head.count + f.messages \in Nat
      BY <1>7 DEF StagedTypeOK, Frames
    <3> QED BY <1>2, <3>1 DEF SessionEffect, StagedTypeOK
  <2>2. row' \in [Owners -> {NoRow} \cup [step : {"staged"}, frame : Frames, base : Nat,
                                          generation : Generations]]
    BY <1>7, <1>8, Names DEF StagedTypeOK
  <2>3. input' \in [Runs -> {"none", "queued", "committed", "cleared"}]
    BY <1>7, <1>8 DEF StagedTypeOK
  <2>4. run' \in [Runs -> {"none", "accepted", "running"}]
    <3>1. CASE f.kind = "start"
      BY <1>7, <1>8, <3>1 DEF StagedTypeOK
    <3>2. CASE f.kind = "settle"
      BY <1>7, <1>8, <3>2 DEF StagedTypeOK
    <3>3. CASE f.kind \in {"exchange", "directory"}
      BY <1>7, <1>8, <3>3 DEF StagedTypeOK
    <3> QED BY <1>7, <3>1, <3>2, <3>3
  <2>5. child' \in [Runs -> {"none", "accepted", "running"}]
    BY <1>7, <1>8 DEF StagedTypeOK
  <2> QED BY <1>8, <2>1, <2>2, <2>3, <2>4, <2>5 DEF StagedTypeOK, RowsTyped
<1>10. SingleRun'
  <2>1. \A x \in Runs : run'[x] # "none" => run[x] # "none"
    BY <1>2 DEF SessionEffect, SessionReady
  <2> QED BY <2>1 DEF SingleRun
<1>11. live' # Nobody => /\ loaded /\ run'[live'] = "running"
                         /\ row'[Session] = NoRow
  <2> SUFFICES ASSUME live' # Nobody
               PROVE  loaded /\ run'[live'] = "running" /\ row'[Session] = NoRow
    OBVIOUS
  <2>1. loaded /\ phase = "off"
    <3>1. CASE phase = "off"
      BY <1>5, <3>1, IdleIsTyped DEF Memory
    <3>2. CASE phase # "off"
      BY <1>8, <3>2 DEF Memory
    <3> QED BY <3>1, <3>2
  <2>2. CASE f.kind = "start"
    <3>1. live' = f.run /\ run'[f.run] = "running"
      BY <1>2, <1>7, <1>8, <2>1, <2>2 DEF SessionEffect, SessionReady
    <3> QED BY <1>4, <2>1, <3>1
  <2>3. CASE f.kind = "settle"
    BY <1>8, <2>1, <2>3
  <2>4. CASE f.kind \in {"exchange", "directory"}
    <3>1. live' = live /\ run' = run
      BY <1>8, <2>1, <2>4
    <3> QED BY <1>4, <2>1, <3>1 DEF Memory
  <2> QED BY <1>7, <2>2, <2>3, <2>4
<1>12. StoreInv'
  <2>1. \A x \in Runs : child'[x] # "none" => child[x] # "none"
    BY <1>7, <1>8 DEF StagedTypeOK
  <2> QED BY <1>3, <1>4, <1>9, <1>10, <1>11, <2>1, Names, FinalizeGoesOn
<1> QED BY <1>6, <1>12

\* An append of a child is finished.
LEMMA FinalizeChildGoesOn ==
  ASSUME StoreInv, NEW r \in Runs, Finalize(r)
  PROVE  StoreInv' /\ StoryGoesOn
<1> USE DEF StoreInv, Process
<1>1. PICK f : f = row[r].frame
  OBVIOUS
<1>2. ChildEffect(r, f) /\ ChildReady(r, f)
  BY <1>1, FinalizesChild
<1>3. /\ Durable' /\ Visible(Session)' = Visible(Session) /\ row'[Session] = row[Session]
      /\ row'[r] = NoRow /\ \A x \in Owners : x # r => row'[x] = row[x]
  BY <1>2, FinalizeChildKeeps
<1>4. at = At("finalize", r)
  BY DEF Finalize
<1>5. RowsTyped'
  <2>1. row' \in [Owners -> {NoRow} \cup [step : {"staged"}, frame : Frames, base : Nat,
                                          generation : Generations]]
    BY <1>2, Names DEF ChildEffect, StagedTypeOK
  <2>2. child' \in [Runs -> {"none", "accepted", "running"}]
    BY <1>2 DEF ChildEffect, StagedTypeOK
  <2>4. pend' \in {NoExchange} \cup [state : {"begun", "ready"}, run : Runs,
                                      started : SUBSET Calls, located : BOOLEAN,
                                      answers : [Calls -> Words]]
    <3>1. CASE f.kind = "settle"
      <4>1. pend \in [state : {"begun", "ready"}, run : Runs, started : SUBSET Calls,
                      located : BOOLEAN, answers : [Calls -> Words]]
        BY <1>2, <3>1 DEF ChildReady, InExchange, StagedTypeOK
      <4> QED BY <1>2, <3>1, <4>1 DEF ChildEffect
    <3>2. CASE f.kind # "settle"
      BY <1>2, <3>2 DEF ChildEffect, StagedTypeOK
    <3> QED BY <3>1, <3>2
  <2> QED BY <1>2, <2>1, <2>2, <2>4 DEF ChildEffect, StagedTypeOK, RowsTyped
<1>6. SingleRun' /\ \A x \in Runs : child'[x] # "none" => child[x] # "none"
  BY <1>2 DEF ChildEffect, ChildReady, SingleRun, StagedTypeOK
<1>7. live' # Nobody => /\ loaded /\ run'[live'] = "running"
                        /\ row'[Session] = NoRow
  <2>1. live' = live /\ run' = run
    BY <1>2 DEF ChildEffect
  <2>2. live # Nobody => row[Session] = NoRow
    BY <1>4, Names DEF Memory, At
  <2> QED BY <1>3, <2>1, <2>2 DEF Memory
<1>8. StoreInv'
  BY <1>3, <1>5, <1>6, <1>7, Names, FinalizeGoesOn
<1> QED BY <1>3, <1>8 DEF StoryGoesOn, Unseen

-----------------------------------------------------------------------------
(* ---- every step -----------------------------------------------------------*)
\* The store that is new has an empty history.
LEMMA StagedInitKeeps == StagedInit => StoreInv
<1> SUFFICES ASSUME StagedInit PROVE StoreInv
  OBVIOUS
<1> USE DEF StagedInit
<1>1. 1 \in Generations /\ 0 \in 0 .. MaxGeneration /\ 0 \in 0 .. MaxFaults
  BY StagedHistoryAssumption DEF Generations
<1>2. body = [g \in {1} |-> <<>>] /\ DOMAIN body = {1} /\ body[1] = <<>> /\ DOMAIN childBody = {}
  OBVIOUS
<1>3. \A o \in Owners : row[o] = NoRow
  OBVIOUS
<1>4. HasFile(Session) /\ FileOf(Session) = <<>> /\ \A r \in Runs : ~HasFile(r)
  BY <1>2, Names DEF HasFile, FileOf
<1>5. Visible(Session) = <<>>
  BY <1>3, <1>4, Names DEF Visible
<1>6. StagedTypeOK
  <2>1. <<>> \in Seq(Frames)
    OBVIOUS
  <2>2. DOMAIN body \subseteq Generations /\ body \in [DOMAIN body -> Seq(Frames)]
    <3>1. \A g \in DOMAIN body : body[g] \in Seq(Frames)
      BY <1>2, <2>1
    <3>2. body = [g \in DOMAIN body |-> body[g]]
      BY <1>2
    <3> QED BY <1>1, <1>2, <3>1, <3>2
  <2>3. DOMAIN childBody \subseteq Runs /\ childBody \in [DOMAIN childBody -> Seq(Frames)]
    BY <1>2
  <2>4. RowsTyped
    <3>1. effects \in [Runs -> 0 .. 1]
      OBVIOUS
    <3>2. head \in [generation : Generations, count : Nat]
      BY <1>1
    <3> QED BY <3>1, <3>2 DEF RowsTyped
  <2>5. MemoryTyped
    BY <1>1, IdleIsTyped DEF MemoryTyped, Phases
  <2> QED BY <2>2, <2>3, <2>4, <2>5, NoOperationIsTyped, TypesTogether DEF FilesTyped
<1>7. Memory /\ Position /\ Receipts /\ SingleRun
  BY NoOperationIsTyped DEF Memory, Position, Receipts, SingleRun, Idle
<1>8. Spared
  BY <1>4, NoOperationIsTyped DEF Spared
<1>9. pend = NoExchange /\ pend.state = "none"
  BY DEF NoExchange
<1>10. Controls /\ Rows /\ ChildFiles /\ Beginnings
  BY <1>3, <1>4, <1>9 DEF Controls, Rows, ChildFiles, Beginnings, Untouched
<1>11. Recorded /\ AnswersAreTrue /\ FactsInOrder
  BY <1>5, <1>9 DEF Recorded, AnswersAreTrue, FactsInOrder
<1>12. Counted
  BY <1>5, MessagesOfEmpty DEF Counted
<1> QED BY <1>6, <1>7, <1>8, <1>10, <1>11, <1>12 DEF StoreInv, Process, Durable

\* Commands, appends, replacements and the preparation together.
LEMMA CommandKeeps ==
  ASSUME StoreInv, Faultless, Command
  PROVE  StoreInv' /\ StoryGoesOn
<1>1. CASE PrepareSessionCompaction \/ FinishSessionCompaction
  BY <1>1, CompactionReceiptsKeep
<1>2. ASSUME NEW r \in Runs,
             \/ AcceptInput(r) \/ ClaimInput(r) \/ CommitUserMessage(r)
             \/ BeginExchange(r) \/ ToolTakesEffect(r) \/ CreateChildFile(r)
             \/ StartChild(r) \/ CompleteExchange(r) \/ SettleRun(r)
             \/ SettlementRefused(r)
      PROVE  StoreInv' /\ StoryGoesOn
  BY <1>2, AcceptInputKeeps, ClaimInputKeeps, CommitUserMessageKeeps, BeginExchangeGoesOn,
     ToolTakesEffectGoesOn, CreateChildFileKeeps, StartChildKeeps, CompleteExchangeKeeps,
     SettleRunKeeps, SettlementRefusedKeeps
<1>3. ASSUME NEW r \in Runs, NEW c \in Calls, MarkStarted(r, c)
      PROVE  StoreInv' /\ StoryGoesOn
  BY <1>3, MarkStartedGoesOn
<1>4. ASSUME NEW r \in Runs, NEW outcome \in {"completed", "failed"}, SettleChild(r, outcome)
      PROVE  StoreInv' /\ StoryGoesOn
  BY <1>4, SettleChildKeeps
<1> QED BY <1>1, <1>2, <1>3, <1>4 DEF Command

LEMMA AppendKeeps ==
  ASSUME StoreInv, Append_
  PROVE  StoreInv' /\ StoryGoesOn
<1>1. PICK o \in Owners : Write(o) \/ WriteFails(o) \/ Finalize(o) \/ FinalizeFails(o)
  BY DEF Append_
<1>2. CASE Write(o) \/ WriteFails(o) \/ FinalizeFails(o)
  BY <1>2, WriteKeeps, WriteFailsKeeps, FinalizeFailsKeeps
<1>3. CASE Finalize(o)
  BY <1>3, Names, FinalizeSessionGoesOn, FinalizeChildGoesOn
<1> QED BY <1>1, <1>2, <1>3

LEMMA ReplacementGoesOn ==
  ASSUME StoreInv, Replacement
  PROVE  StoreInv' /\ StoryGoesOn
BY BeginReplacementKeeps, CommitReplacementGoesOn, ReplacementFailsKeeps, RemovePreviousKeeps,
   BeginClearKeeps, CreateClearFileKeeps, SwitchToClearGoesOn, SwitchToClearFailsKeeps,
   CleanUpAfterClearKeeps DEF Replacement

LEMMA PreparationKeeps ==
  ASSUME StoreInv, Preparation
  PROVE  StoreInv' /\ StoryGoesOn
<1>1. CASE ResumeAppend
  <2>1. CASE Resume(Session, "rows")
    BY <2>1, Names, ResumeKeeps
  <2>2. ASSUME NEW r \in Runs, Resume(r, "childrows") PROVE StoreInv' /\ StoryGoesOn
    BY <2>2, Names, ResumeKeeps
  <2> QED BY <1>1, <2>1, <2>2 DEF ResumeAppend
<1>2. CASE NothingToResume \/ NoChildToInterrupt \/ NoExchangeToRecover \/ LoadExecutionWindow
  BY <1>2, PreparationGoesOn
<1>3. CASE \/ RecoverOperations \/ RecoverExchange \/ ResumeExchange \/ ExchangeUnrecoverable
           \/ InstallPrepared
  BY <1>3, RecoverOperationsKeeps, RecoverExchangeKeeps, ResumeExchangeKeeps,
     ExchangeUnrecoverableKeeps, InstallPreparedGoesOn
<1>4. ASSUME NEW r \in Runs, InterruptChild(r) \/ SettleInterrupted(r)
      PROVE  StoreInv' /\ StoryGoesOn
  BY <1>4, InterruptChildKeeps, SettleInterruptedKeeps
<1> QED BY <1>1, <1>2, <1>3, <1>4 DEF Preparation

\* Every step.
LEMMA StagedNextKeeps ==
  ASSUME StoreInv, Faultless, [StagedNext]_stagedVars
  PROVE  StoreInv' /\ StoryGoesOn
<1>1. CASE Command
  BY <1>1, CommandKeeps
<1>2. CASE Worker
  <2>1. CASE Append_ \/ Replacement \/ StageExchange \/ StageExchangeFails
    BY <2>1, AppendKeeps, ReplacementGoesOn, StageExchangeKeeps, StageExchangeFailsKeeps
  <2>2. ASSUME NEW r \in Runs, InsertChild(r) \/ StageDirectory(r) \/ StageDirectoryFails(r)
        PROVE  StoreInv' /\ StoryGoesOn
    BY <2>2, InsertChildGoesOn, StageDirectoryKeeps, StageDirectoryFailsKeeps
  <2> QED BY <1>2, <2>1, <2>2 DEF Worker
<1>3. CASE Prepare \/ Preparation \/ EngineStops \/ Crash
  BY <1>3, PrepareKeeps, PreparationKeeps, EngineStopsKeeps, CrashKeeps
<1>4. CASE UNCHANGED stagedVars
  BY <1>4, StutterKeeps
<1> QED BY <1>1, <1>2, <1>3, <1>4 DEF StagedNext

\* After a failure there is nothing to show, and a step that neither fails nor begins or
\* disturbs an append of a child leaves things as they are.
LEMMA FailingIsFaulted ==
  ASSUME StagedTypeOK, faults' = faults + 1
  PROVE  Faultless'
<1>1. faults \in Nat
  BY StagedHistoryAssumption DEF StagedTypeOK
<1> QED BY <1>1 DEF Faultless

LEMMA QuietKeeps ==
  ASSUME Faultless, faults' = faults, loaded => loaded',
         ~loaded => run' = run, row' = row, at' = at \/ at.do \notin {"write", "finalize"}
  PROVE  Faultless'
<1> SUFFICES ASSUME faults' = 0
             PROVE  /\ ~loaded' => \A r \in Runs : run'[r] = "none"
                    /\ \A r \in Runs : row'[r] # NoRow =>
                         at' \in {At("write", r), At("finalize", r)}
  BY DEF Faultless, At
<1>1. /\ ~loaded => \A r \in Runs : run[r] = "none"
      /\ \A r \in Runs : row[r] # NoRow => at \in {At("write", r), At("finalize", r)}
  BY DEF Faultless
<1>2. \A r \in Runs : row[r] # NoRow => at.do \in {"write", "finalize"}
  BY <1>1 DEF At
<1> QED BY <1>1, <1>2

\* While nothing has failed an idle worker leaves no row of a child, and a session that is
\* not loaded has no run, no child and no row of one.
LEMMA NothingOfChildren ==
  ASSUME StoreInv, Faultless, faults = 0
  PROVE  /\ at.do \notin {"write", "finalize"} => \A r \in Runs : row[r] = NoRow
         /\ ~loaded => \A r \in Runs : run[r] = "none" /\ child[r] = "none" /\ row[r] = NoRow
         /\ \A r \in Runs : ~Alone(r)
         /\ \A r \in Runs : row[r] # NoRow =>
              /\ loaded /\ Writable(r) /\ Applies(r, row[r].frame)
              /\ at = At("write", r) \/ at = At("finalize", r)
<1> USE DEF StoreInv, Process
<1>1. /\ ~loaded => \A r \in Runs : run[r] = "none"
      /\ \A r \in Runs : row[r] # NoRow => at \in {At("write", r), At("finalize", r)}
  BY DEF Faultless
<1>2. at.do \notin {"write", "finalize"} => \A r \in Runs : row[r] = NoRow
  BY <1>1 DEF At
<1>3. ASSUME NEW r \in Runs, child[r] # "none"
      PROVE  /\ loaded /\ HasFile(r) /\ InExchange(r) /\ pend.state = "begun"
             /\ "task" \in pend.started
  <2>1. /\ run[r] = "running"
        /\ Delegating(r) \/ LeftBehind(r)
        /\ InExchange(r) /\ pend.state = "begun"
        /\ loaded => HasFile(r)
    BY <1>3 DEF Durable, Controls
  <2>2. loaded
    BY <1>1, <2>1
  <2>3. pend # NoExchange
    BY <2>1 DEF InExchange
  <2> QED BY <2>1, <2>2, <2>3 DEF Delegating, LeftBehind
<1>4. ASSUME NEW r \in Runs, row[r] # NoRow
      PROVE  /\ loaded /\ Writable(r) /\ Applies(r, row[r].frame) /\ ~Alone(r)
  <2>1. Stageable(r, row[r].frame) /\ (HasFile(r) => Reconcilable(r))
    BY <1>4, Names DEF Durable, Rows
  <2>2. /\ row[r].frame.run = r /\ row[r].frame.kind \in {"start", "settle", "alone"}
        /\ child[r] # "none"
        /\ row[r].frame.kind = "start" => child[r] = "accepted"
        /\ row[r].frame.kind = "alone" => ~loaded
    BY <2>1, Names DEF Stageable
  <2>3. /\ loaded /\ HasFile(r) /\ InExchange(r) /\ pend.state = "begun"
        /\ "task" \in pend.started
    BY <1>3, <2>2
  <2>4. ~Alone(r)
    BY <2>2, <2>3 DEF Alone
  <2>5. Applies(r, row[r].frame)
    BY <2>2, <2>3, Names DEF Applies, InExchange
  <2> QED BY <2>1, <2>3, <2>4, <2>5, Names DEF Writable
<1>5. \A r \in Runs : ~Alone(r)
  BY <1>4 DEF Alone
<1> QED BY <1>1, <1>2, <1>3, <1>4, <1>5

\* An append of a child is only staged to be written at once.
LEMMA StagingKeepsFaultless ==
  ASSUME StoreInv, Faultless, NEW o \in Owners, NEW f, Stage(o, f), Staging, at.do \notin {"write", "finalize"},
         o = Session \/ (loaded /\ f.kind \in {"start", "settle"})
  PROVE  Faultless'
<1> SUFFICES ASSUME faults' = 0
             PROVE  /\ ~loaded' => \A r \in Runs : run'[r] = "none"
                    /\ \A r \in Runs : row'[r] # NoRow =>
                         at' \in {At("write", r), At("finalize", r)}
  BY DEF Faultless, At
<1>1. faults = 0 /\ loaded' = loaded /\ run' = run
  BY DEF Staging
<1>2. /\ \A r \in Runs : row[r] = NoRow
      /\ ~loaded => \A r \in Runs : run[r] = "none"
  BY <1>1, NothingOfChildren
<1>3. \A r \in Runs : r # o => row'[r] = row[r]
  BY Names DEF Stage, StoreInv, Process, StagedTypeOK
<1>4. CASE o = Session
  BY <1>1, <1>2, <1>3, <1>4, Names
<1>5. CASE loaded /\ f.kind \in {"start", "settle"}
  <2>1. at' = At("write", o)
    BY <1>5 DEF Stage, FirstStep
  <2> QED BY <1>1, <1>2, <1>3, <1>5, <2>1
<1> QED BY <1>4, <1>5

\* The steps of an append.
LEMMA AppendKeepsFaultless ==
  ASSUME StoreInv, Faultless, Append_
  PROVE  Faultless'
<1> USE DEF StoreInv, Process
<1>1. PICK o \in Owners : Write(o) \/ WriteFails(o) \/ Finalize(o) \/ FinalizeFails(o)
  BY DEF Append_
<1>2. faults' = faults \/ faults' = faults + 1
  BY <1>1 DEF Write, WriteFails, Finalize, FinalizeFails, Fails, MayFail
<1>3. CASE faults' = faults + 1
  BY <1>3, FailingIsFaulted
<1>4. CASE faults' = faults
  <2> SUFFICES ASSUME faults' = 0
               PROVE  /\ ~loaded' => \A r \in Runs : run'[r] = "none"
                      /\ \A r \in Runs : row'[r] # NoRow =>
                           at' \in {At("write", r), At("finalize", r)}
    BY DEF Faultless, At
  <2>1. faults = 0
    BY <1>4
  <2>2. /\ ~loaded => \A r \in Runs : run[r] = "none" /\ child[r] = "none" /\ row[r] = NoRow
        /\ \A r \in Runs : ~Alone(r)
        /\ \A r \in Runs : row[r] # NoRow =>
              /\ loaded /\ Writable(r) /\ Applies(r, row[r].frame)
              /\ at = At("write", r) \/ at = At("finalize", r)
    BY <2>1, NothingOfChildren
  <2>3. faults # faults + 1
    BY <2>1
  <2>4. at = At("write", o) \/ at = At("finalize", o)
    BY <1>1 DEF Write, WriteFails, Finalize, FinalizeFails
  <2>5. \A r \in Runs : row[r] # NoRow => r = o
    BY <2>2, <2>4 DEF At
  <2>6. row[o] # NoRow
    BY <2>4 DEF Position, At
  <2>7. Writable(o) /\ Applies(o, row[o].frame)
    <3>1. CASE o = Session
      <4>1. Stageable(o, row[o].frame) /\ HasFile(o) /\ row[o].generation = head.generation
            /\ Reconcilable(o)
        BY <2>6, <3>1 DEF Durable, Rows
      <4> QED BY <3>1, <4>1, Names DEF Stageable, Writable, Alone
    <3>2. CASE o \in Runs
      BY <2>2, <2>6, <3>2
    <3> QED BY <3>1, <3>2, Names
  <2>8. CASE Write(o)
    <3>1. at' = At("finalize", o) /\ UNCHANGED <<row, run, loaded>>
      <4>1. ~Alone(o)
        BY <2>2, Names DEF Alone
      <4> QED BY <2>8, <4>1 DEF Write, AfterWrite, tables
    <3> QED BY <2>2, <2>5, <3>1
  <2>9. CASE WriteFails(o)
    BY <2>3, <1>4, <2>7, <2>9 DEF WriteFails, Fails
  <2>10. CASE FinalizeFails(o)
    BY <2>3, <1>4, <2>7, <2>10 DEF FinalizeFails, Fails
  <2>11. CASE Finalize(o) /\ o = Session
    <3>1. SessionEffect(row[Session].frame) /\ SessionReady(row[Session].frame)
      BY <2>11, FinalizesSession
    <3>2. loaded /\ loaded' = loaded
      BY <2>2, <3>1 DEF SessionEffect, SessionReady
    <3>3. \A r \in Runs : row'[r] = NoRow
      BY <2>5, <2>11, <3>1, Names DEF SessionEffect
    <3> QED BY <3>2, <3>3
  <2>12. CASE Finalize(o) /\ o \in Runs
    <3>1. ChildEffect(o, row[o].frame)
      BY <2>12, FinalizesChild
    <3>2. /\ row' = [row EXCEPT ![o] = NoRow] /\ loaded' = loaded /\ run' = run
      BY <3>1 DEF ChildEffect
    <3>3. \A r \in Runs : row'[r] = NoRow
      BY <2>5, <2>12, <3>2, Names DEF StagedTypeOK
    <3> QED BY <2>2, <2>6, <2>12, <3>2, <3>3
  <2> QED BY <1>1, <2>8, <2>9, <2>10, <2>11, <2>12, Names
<1> QED BY <1>2, <1>3, <1>4

\* The commands.
LEMMA CommandKeepsFaultless ==
  ASSUME StoreInv, Faultless, Command
  PROVE  Faultless'
<1> USE DEF StoreInv, Process
<1>1. Serving => loaded /\ at.do \notin {"write", "finalize"}
  BY DEF Serving, Idle
<1>2. CASE PrepareSessionCompaction \/ FinishSessionCompaction
  BY <1>2, QuietKeeps DEF PrepareSessionCompaction, FinishSessionCompaction, memory
<1>3. ASSUME NEW r \in Runs, AcceptInput(r) \/ BeginExchange(r) \/ ToolTakesEffect(r)
      PROVE  Faultless'
  BY <1>3, QuietKeeps DEF AcceptInput, BeginExchange, ToolTakesEffect, memory, tables
<1>4. ASSUME NEW r \in Runs, ClaimInput(r) \/ CreateChildFile(r) \/ SettlementRefused(r)
      PROVE  Faultless'
  BY <1>1, <1>4, QuietKeeps
  DEF ClaimInput, CreateChildFile, SettlementRefused, Exchanging, memory, tables
<1>5. ASSUME NEW r \in Runs, CompleteExchange(r) PROVE Faultless'
  <2>1. faults' = faults \/ faults' = faults + 1
    BY <1>5 DEF CompleteExchange, Fails, MayFail
  <2>2. UNCHANGED <<row, run, loaded>> /\ at.do \notin {"write", "finalize"}
    BY <1>1, <1>5 DEF CompleteExchange, Exchanging
  <2> QED BY <2>1, <2>2, QuietKeeps, FailingIsFaulted
<1>6. ASSUME NEW r \in Runs, CommitUserMessage(r) PROVE Faultless'
  <2>1. PICK f : f = Frame("start", r, [c \in Calls |-> "start"], 1)
    OBVIOUS
  <2>2. Stage(Session, f) /\ Staging /\ Serving
    BY <1>6, <2>1 DEF CommitUserMessage
  <2> QED BY <1>1, <2>2, Names, StagingKeepsFaultless
<1>7. ASSUME NEW r \in Runs, SettleRun(r) PROVE Faultless'
  <2>1. PICK f : f = RunSettlement(r, IF live = r THEN "completed" ELSE "failed")
    OBVIOUS
  <2>2. Stage(Session, f) /\ Staging /\ Serving
    BY <1>7, <2>1 DEF SettleRun
  <2> QED BY <1>1, <2>2, Names, StagingKeepsFaultless
<1>8. ASSUME NEW r \in Runs, StartChild(r) PROVE Faultless'
  <2>1. PICK f : f = Frame("start", r, [c \in Calls |-> "start"], 1)
    OBVIOUS
  <2>2. Stage(r, f) /\ Staging /\ Serving
    BY <1>8, <2>1 DEF StartChild, Exchanging
  <2>3. f.kind = "start"
    BY <2>1 DEF Frame
  <2> QED BY <1>1, <2>2, <2>3, Names, StagingKeepsFaultless
<1>9. ASSUME NEW r \in Runs, NEW outcome \in {"completed", "failed"}, SettleChild(r, outcome)
      PROVE  Faultless'
  <2>1. PICK f : f = ChildSettlement(r, outcome)
    OBVIOUS
  <2>2. Stage(r, f) /\ Staging /\ Serving
    BY <1>9, <2>1 DEF SettleChild, Exchanging
  <2>3. f.kind = "settle"
    BY <2>1 DEF ChildSettlement, Frame
  <2> QED BY <1>1, <2>2, <2>3, Names, StagingKeepsFaultless
<1>10. ASSUME NEW r \in Runs, NEW c \in Calls, MarkStarted(r, c) PROVE Faultless'
  BY <1>10, QuietKeeps DEF MarkStarted, memory
<1> QED BY <1>2, <1>3, <1>4, <1>5, <1>6, <1>7, <1>8, <1>9, <1>10 DEF Command

\* The other steps of the worker, and the preparation.
LEMMA WorkerKeepsFaultless ==
  ASSUME StoreInv, Faultless, Worker
  PROVE  Faultless'
<1> USE DEF StoreInv, Process
<1>1. CASE Append_
  BY <1>1, AppendKeepsFaultless
<1>2. CASE BeginReplacement \/ CommitReplacement \/ BeginClear \/ CreateClearFile \/ SwitchToClear
  BY <1>2, QuietKeeps
  DEF BeginReplacement, CommitReplacement, BeginClear, CreateClearFile, SwitchToClear, Serving,
      Idle, At, files, tables
<1>3. CASE ReplacementFails \/ RemovePrevious \/ SwitchToClearFails \/ CleanUpAfterClear
  <2>1. faults' = faults \/ faults' = faults + 1
    BY <1>3 DEF ReplacementFails, RemovePrevious, SwitchToClearFails, CleanUpAfterClear, CleanUp,
      Fails, MayFail
  <2>2. UNCHANGED <<row, run, loaded>> /\ at.do \notin {"write", "finalize"}
    BY <1>3 DEF ReplacementFails, RemovePrevious, SwitchToClearFails, CleanUpAfterClear, tables, At
  <2> QED BY <2>1, <2>2, QuietKeeps, FailingIsFaulted
<1>4. CASE StageExchange
  <2>1. PICK f : f = Frame("exchange", pend.run, pend.answers, 1 + Cardinality(Calls))
    OBVIOUS
  <2>2. Stage(Session, f) /\ Staging /\ at.do \notin {"write", "finalize"}
    BY <1>4, <2>1 DEF StageExchange, At
  <2> QED BY <2>2, Names, StagingKeepsFaultless
<1>5. CASE StageExchangeFails
  <2>1. faults' = faults \/ faults' = faults + 1
    BY <1>5 DEF StageExchangeFails, Fails, MayFail
  <2>2. UNCHANGED <<row, run, loaded>> /\ at.do \notin {"write", "finalize"}
    BY <1>5 DEF StageExchangeFails, Failed, tables, At
  <2> QED BY <2>1, <2>2, QuietKeeps, FailingIsFaulted
<1>6. ASSUME NEW r \in Runs, InsertChild(r) PROVE Faultless'
  <2>1. faults' = faults \/ faults' = faults + 1
    BY <1>6 DEF InsertChild, Fails, MayFail
  <2>2. UNCHANGED <<row, run, loaded>> /\ at.do \notin {"write", "finalize"}
    BY <1>6 DEF InsertChild, At
  <2> QED BY <2>1, <2>2, QuietKeeps, FailingIsFaulted
<1>7. ASSUME NEW r \in Runs, StageDirectory(r) \/ StageDirectoryFails(r) PROVE Faultless'
  <2>1. Alone(r)
    BY <1>7 DEF StageDirectory, StageDirectoryFails, Position, At
  <2>2. faults # 0
    BY <2>1, NothingOfChildren
  <2>3. faults' = faults \/ faults' = faults + 1
    BY <1>7 DEF StageDirectory, StageDirectoryFails, Staging, Fails, MayFail
  <2> QED BY <2>2, <2>3, FailingIsFaulted DEF Faultless
<1> QED BY <1>1, <1>2, <1>3, <1>4, <1>5, <1>6, <1>7 DEF Worker, Replacement

LEMMA PreparationKeepsFaultless ==
  ASSUME StoreInv, Faultless, Preparation
  PROVE  Faultless'
<1> USE DEF StoreInv, Process
<1>1. ~loaded /\ at.do \notin {"write", "finalize"}
  <2>1. at = Idle /\ phase # "off"
    BY DEF Preparation, RecoverOperations, ResumeAppend, Resume, NothingToResume,
       NoChildToInterrupt, RecoverExchange, ResumeExchange, ExchangeUnrecoverable,
       NoExchangeToRecover, LoadExecutionWindow, InstallPrepared, InterruptChild,
       SettleInterrupted, InPhase
  <2> QED BY <2>1 DEF Memory, Idle
<1>2. CASE RecoverOperations
  <2>1. faults' = faults \/ faults' = faults + 1
    BY <1>2 DEF RecoverOperations, CleanUp, Fails, MayFail
  <2>2. UNCHANGED <<row, run, loaded>>
    BY <1>2 DEF RecoverOperations, GoTo
  <2> QED BY <1>1, <2>1, <2>2, QuietKeeps, FailingIsFaulted
<1>3. CASE ResumeAppend \/ NothingToResume
  BY <1>1, <1>3, QuietKeeps DEF ResumeAppend, Resume, NothingToResume, GoTo, tables
<1>4. CASE NoChildToInterrupt \/ NoExchangeToRecover \/ RecoverExchange \/ ResumeExchange
  BY <1>1, <1>4, QuietKeeps
  DEF NoChildToInterrupt, NoExchangeToRecover, RecoverExchange, ResumeExchange, GoTo, tables
<1>5. CASE ExchangeUnrecoverable
  <2>1. faults' = faults \/ faults' = faults + 1
    BY <1>5 DEF ExchangeUnrecoverable, Fails, MayFail
  <2>2. UNCHANGED <<row, run, loaded>>
    BY <1>5 DEF ExchangeUnrecoverable, Failed, tables
  <2> QED BY <1>1, <2>1, <2>2, QuietKeeps, FailingIsFaulted
<1>6. CASE LoadExecutionWindow \/ InstallPrepared
  BY <1>1, <1>6, QuietKeeps DEF LoadExecutionWindow, InstallPrepared, tables
<1>7. ASSUME NEW r \in Runs, InterruptChild(r) \/ SettleInterrupted(r) PROVE Faultless'
  <2>1. child[r] # "none" \/ run[r] # "none"
    BY <1>7 DEF InterruptChild, SettleInterrupted
  <2>2. faults # 0
    BY <1>1, <2>1, NothingOfChildren
  <2>3. faults' = faults
    BY <1>7 DEF InterruptChild, SettleInterrupted, Staging
  <2> QED BY <2>2, <2>3 DEF Faultless
<1> QED BY <1>2, <1>3, <1>4, <1>5, <1>6, <1>7 DEF Preparation

\* Until something fails no session is prepared with anything to recover.
LEMMA FaultlessKeeps ==
  ASSUME StoreInv, Faultless, [StagedNext]_stagedVars
  PROVE  Faultless'
<1> USE DEF StoreInv, Process
<1>1. CASE Prepare \/ UNCHANGED stagedVars
  BY <1>1, QuietKeeps DEF Prepare, stagedVars, tables, memory
<1>2. CASE EngineStops \/ Crash
  BY <1>2, FailingIsFaulted DEF EngineStops, Crash, Fails
<1> QED
  BY <1>1, <1>2, CommandKeepsFaultless, WorkerKeepsFaultless, PreparationKeepsFaultless
  DEF StagedNext

\* The tables, the files and what the process knows of them agree, whatever is interrupted
\* where; a child that is left behind is one whose parent's history says that delegating
\* failed, and nothing is left behind before something has failed.
THEOREM StoreInvHolds == StagedSpec => [](StoreInv /\ Faultless)
<1>1. StagedInit => StoreInv /\ Faultless
  BY StagedInitKeeps, Names DEF StagedInit, Faultless
<1>2. StoreInv /\ Faultless /\ [StagedNext]_stagedVars => (StoreInv /\ Faultless)'
  BY StagedNextKeeps, FaultlessKeeps
<1> QED BY <1>1, <1>2, PTL DEF StagedSpec

\* Type correctness.
THEOREM StagedTypes == StagedSpec => []StagedTypeOK
<1>1. StoreInv => StagedTypeOK
  BY DEF StoreInv, Process
<1> QED BY <1>1, StoreInvHolds, PTL

\* What the history tells is true: no call is said to have had no effect, to be done or to
\* have ended as it did not, by the engine or by recovered_results after a crash; and the
\* facts of a run stand in its order, once each.
THEOREM TellsTheTruth == StagedSpec => []HistoryIsTrue
<1>1. StoreInv => HistoryIsTrue
  BY DEF StoreInv, Durable, HistoryIsTrue
<1> QED BY <1>1, StoreInvHolds, PTL

\* The count of the sessions row is the count of the messages in the file wherever there is
\* one, whatever fails.
THEOREM CountIsExact == StagedSpec => [](HasFile(Session) => CountMatchesFile)
<1>1. StoreInv => (HasFile(Session) => CountMatchesFile)
  BY DEF StoreInv, Durable, Counted, CountMatchesFile
<1> QED BY <1>1, StoreInvHolds, PTL

\* With no file lost by a failure, the database and the files agree.
LEMMA StoreMatches ==
  ASSUME "sync" \notin Faults, "cleanup" \notin Faults, StoreInv
  PROVE  DatabaseMatchesFiles
<1> USE DEF StoreInv, Process, Durable
<1>1. HasFile(Session) /\ \A r \in Runs : child[r] # "none" => HasFile(r)
  BY DEF Spared
<1>2. CountMatchesFile
  BY <1>1 DEF Counted, CountMatchesFile
<1>3. ASSUME NEW r \in Runs, child[r] # "none"
      PROVE  run[r] = "running" /\ (Delegating(r) \/ GivenUp(r))
  BY <1>1, <1>3 DEF Controls, LeftBehind
<1>4. ASSUME NEW o \in Owners, row[o] # NoRow
      PROVE  /\ Reconcilable(o)
             /\ Applies(o, row[o].frame) \/ (o # Session /\ GivenUp(o))
  <2>1. HasFile(o)
    BY <1>1, <1>4, ChildRowHasChild, Names
  <2>2. Stageable(o, row[o].frame) /\ Reconcilable(o)
    BY <1>4, <2>1 DEF Rows
  <2>3. CASE o = Session
    BY <2>2, <2>3 DEF Stageable
  <2>4. CASE o \in Runs
    <3>1. /\ row[o].frame.run = o
          /\ row[o].frame.kind \in {"start", "settle", "alone"}
          /\ child[o] # "none"
          /\ row[o].frame.kind = "start" => child[o] = "accepted"
      BY <2>2, <2>4, Names DEF Stageable
    <3>2. CASE Delegating(o)
      <4>1. pend.state # "none" /\ pend.run = o /\ "task" \in pend.started
        BY <3>2 DEF Delegating, StagedTypeOK
      <4> QED BY <2>2, <2>4, <3>1, <4>1, Names DEF Applies
    <3>3. CASE GivenUp(o)
      BY <2>2, <2>4, <3>3, Names
    <3> QED BY <1>3, <2>4, <3>1, <3>2, <3>3
  <2> QED BY <2>3, <2>4, Names
<1> QED BY <1>1, <1>2, <1>3, <1>4 DEF DatabaseMatchesFiles, StagedStaysCompletable

\* Unless the synchronization of a directory (commit_replacement) or the clean-up of
\* a clear fails, the database and the files agree in all their readers need, whatever else
\* fails and wherever the process dies.
THEOREM DatabaseKeepsUp ==
  ASSUME "sync" \notin Faults, "cleanup" \notin Faults
  PROVE  StagedSpec => []DatabaseMatchesFiles
<1>1. StoreInv => DatabaseMatchesFiles
  BY StoreMatches
<1> QED BY <1>1, StoreInvHolds, PTL

-----------------------------------------------------------------------------
(* ---- answers that are frozen ----------------------------------------------*)
Freezes == pend.state = "ready" =>
              \/ pend' # NoExchange /\ pend'.run = pend.run /\ pend'.answers = pend.answers
              \/ /\ pend' = NoExchange
                 /\ Last(FileOf(Session)) = Frame("exchange", pend.run, pend.answers,
                                                  1 + Cardinality(Calls))

LEMMA UntouchedFreezes ==
  ASSUME pend' = pend \/ pend.state # "ready"
  PROVE  Freezes
BY NoExchangeHasNoState DEF Freezes

\* Frozen answers go with the frame that holds them.
LEMMA FinalizeFreezes ==
  ASSUME StoreInv, NEW o \in Owners, Finalize(o)
  PROVE  Freezes
<1> USE DEF StoreInv, Process
<1>1. CASE o = Session
  <2>1. PICK f : f = row[Session].frame
    OBVIOUS
  <2>2. SessionEffect(f) /\ SessionReady(f)
    BY <1>1, <2>1, FinalizesSession
  <2>3. CASE f.kind = "exchange"
    <3>1. f = ExchangeFrame /\ FileOf(Session) = Append(Visible(Session), f) /\ f \in Frames
      BY <2>2, <2>3 DEF SessionReady
    <3>2. Visible(Session) \in Seq(Frames)
      BY VisibleHoldsFrames DEF Durable
    <3>3. Last(FileOf(Session)) = ExchangeFrame
      <4>1. PICK V \in Seq(Frames) : V = Visible(Session)
        BY <3>2
      <4>2. PICK g \in Frames : g = f
        BY <3>1
      <4>3. Last(Append(V, g)) = g
        <5>1. Len(Append(V, g)) = Len(V) + 1 /\ Append(V, g)[Len(V) + 1] = g
          OBVIOUS
        <5> QED BY <5>1 DEF Last
      <4>4. FileOf(Session) = Append(V, g) /\ g = ExchangeFrame
        BY <3>1, <4>1, <4>2
      <4> HIDE DEF Freezes
      <4> QED BY <4>3, <4>4
    <3> QED BY <2>2, <2>3, <3>3 DEF SessionEffect, ExchangeFrame, Freezes
  <2>4. CASE f.kind # "exchange"
    BY <2>2, <2>4, UntouchedFreezes DEF SessionEffect
  <2> QED BY <2>3, <2>4
<1>2. CASE o \in Runs
  <2>1. PICK f : f = row[o].frame
    OBVIOUS
  <2>2. ChildReady(o, f) /\ ChildEffect(o, f)
    BY <1>2, <2>1, FinalizesChild
  <2>3. CASE f.kind = "settle"
    <3>1. pend # NoExchange /\ pend' = [pend EXCEPT !.located = TRUE]
      BY <2>2, <2>3 DEF ChildReady, ChildEffect, InExchange
    <3>2. pend \in [state : {"begun", "ready"}, run : Runs, started : SUBSET Calls,
                    located : BOOLEAN, answers : [Calls -> Words]]
      BY <3>1 DEF StagedTypeOK
    <3>3. /\ pend'.state = pend.state /\ pend'.run = pend.run
          /\ pend'.answers = pend.answers
      BY <3>1, <3>2
    <3>4. pend.state = "ready" => pend' # NoExchange
      BY <3>3 DEF NoExchange
    <3> QED BY <3>3, <3>4 DEF Freezes
  <2>4. CASE f.kind # "settle"
    BY <2>2, <2>4, UntouchedFreezes DEF ChildEffect
  <2> QED BY <2>3, <2>4
<1> QED BY <1>1, <1>2, Names

\* No other step touches them.
LEMMA StagedNextFreezes ==
  ASSUME StoreInv, [StagedNext]_stagedVars
  PROVE  Freezes
<1> USE UntouchedFreezes DEF tables
<1>1. ASSUME NEW o \in Owners,
             \/ Write(o) \/ WriteFails(o) \/ Finalize(o) \/ FinalizeFails(o)
      PROVE  Freezes
  BY <1>1, FinalizeFreezes DEF Write, WriteFails, FinalizeFails
<1>2. CASE Replacement
  <2>1. CASE BeginReplacement \/ CommitReplacement \/ ReplacementFails \/ RemovePrevious
    BY <2>1 DEF BeginReplacement, CommitReplacement, ReplacementFails, RemovePrevious
  <2>2. CASE \/ BeginClear \/ CreateClearFile \/ SwitchToClear \/ SwitchToClearFails
             \/ CleanUpAfterClear
    BY <2>2 DEF BeginClear, CreateClearFile, SwitchToClear, SwitchToClearFails,
       CleanUpAfterClear
  <2> QED BY <1>2, <2>1, <2>2 DEF Replacement
<1>3. ASSUME NEW r \in Runs,
             \/ AcceptInput(r) \/ ClaimInput(r) \/ CommitUserMessage(r)
             \/ BeginExchange(r) \/ ToolTakesEffect(r) \/ CreateChildFile(r)
             \/ StartChild(r) \/ CompleteExchange(r) \/ SettleRun(r)
             \/ SettlementRefused(r)
      PROVE  Freezes
  <2>1. CASE BeginExchange(r) \/ CompleteExchange(r)
    BY <2>1 DEF BeginExchange, CompleteExchange, Exchanging, NoExchange
  <2>2. CASE AcceptInput(r) \/ ClaimInput(r) \/ ToolTakesEffect(r) \/ CreateChildFile(r)
    BY <2>2 DEF AcceptInput, ClaimInput, ToolTakesEffect, CreateChildFile
  <2>3. CASE CommitUserMessage(r) \/ StartChild(r) \/ SettleRun(r) \/ SettlementRefused(r)
    BY <2>3 DEF CommitUserMessage, StartChild, SettleRun, SettlementRefused
  <2> QED BY <1>3, <2>1, <2>2, <2>3
<1>4. ASSUME NEW r \in Runs, NEW c \in Calls, MarkStarted(r, c) PROVE Freezes
  BY <1>4 DEF MarkStarted, Exchanging
<1>5. ASSUME NEW r \in Runs, NEW outcome \in {"completed", "failed"}, SettleChild(r, outcome)
      PROVE  Freezes
  BY <1>5 DEF SettleChild
<1>6. CASE PrepareSessionCompaction \/ FinishSessionCompaction
  BY <1>6 DEF PrepareSessionCompaction, FinishSessionCompaction
<1>7. CASE Command
  BY <1>3, <1>4, <1>5, <1>6, <1>7 DEF Command
<1>8. CASE StageExchange \/ StageExchangeFails
  BY <1>8 DEF StageExchange, StageExchangeFails
<1>9. ASSUME NEW r \in Runs, InsertChild(r) \/ StageDirectory(r) \/ StageDirectoryFails(r)
      PROVE  Freezes
  BY <1>9, StageDirectoryKeeps DEF InsertChild, StageDirectoryFails
<1>10. CASE Worker
  BY <1>1, <1>2, <1>8, <1>9, <1>10 DEF Worker, Append_
<1>11. CASE Preparation
  <2>1. CASE RecoverOperations \/ ResumeAppend \/ NothingToResume
    BY <2>1 DEF RecoverOperations, ResumeAppend, Resume, NothingToResume
  <2>2. CASE NoChildToInterrupt \/ ResumeExchange \/ ExchangeUnrecoverable
    BY <2>2 DEF NoChildToInterrupt, ResumeExchange, ExchangeUnrecoverable
  <2>3. CASE NoExchangeToRecover \/ LoadExecutionWindow \/ InstallPrepared
    BY <2>3 DEF NoExchangeToRecover, LoadExecutionWindow, InstallPrepared
  <2>4. CASE RecoverExchange
    BY <2>4 DEF RecoverExchange
  <2>5. ASSUME NEW r \in Runs, InterruptChild(r) \/ SettleInterrupted(r) PROVE Freezes
    BY <2>5, InterruptChildKeeps, SettleInterruptedKeeps
  <2> QED BY <1>11, <2>1, <2>2, <2>3, <2>4, <2>5 DEF Preparation
<1>12. CASE Prepare \/ EngineStops \/ Crash
  BY <1>12 DEF Prepare, EngineStops, Crash
<1>13. CASE UNCHANGED stagedVars
  BY <1>13 DEF stagedVars
<1> QED BY <1>7, <1>10, <1>11, <1>12, <1>13 DEF StagedNext

\* Answers that were frozen (mark_exchange_ready) are not replaced and go only when the
\* history holds them, although freezing and committing are two transactions.
THEOREM FrozenAnswersStay == StagedSpec => FrozenAnswersAreCommitted
<1>1. StoreInv /\ [StagedNext]_stagedVars => Freezes
  BY StagedNextFreezes
<1> QED BY <1>1, StoreInvHolds, PTL DEF StagedSpec, FrozenAnswersAreCommitted, Freezes

-----------------------------------------------------------------------------
(* ---- the store keeps the promise of DurableHistory ------------------------*)
KeepsHistory == [History!HistoryNext]_History!historyVars

\* A step of the store publishes what it accepted, or accepts, or clears, or is not seen.
LEMMA StoryKeepsHistory ==
  ASSUME StoreInv, StoryGoesOn
  PROVE  KeepsHistory
<1> USE DEF StoreInv, Process
<1>1. Visible(Session) \in Seq(Frames)
  BY VisibleHoldsFrames DEF Durable
<1>2. Facts(Visible(Session)) \in Seq(Frames)
  BY <1>1, MinusElements DEF Facts
<1> USE DEF KeepsHistory, History!historyVars
<1>3. CASE Unseen
  BY <1>3 DEF Unseen
<1>4. CASE AcceptsFact
  <2>1. History!Accept
    BY <1>4 DEF AcceptsFact, History!Accept
  <2> QED BY <2>1 DEF History!HistoryNext
<1>5. CASE PublishesFact
  <2>1. PICK f : f = row[Session].frame
    OBVIOUS
  <2>2. /\ Visible(Session)' = Append(Visible(Session), f) /\ row[Session] # NoRow
        /\ row'[Session] = NoRow /\ f # Summary /\ f \in Frames
    BY <1>5, <2>1, Names, RowsHoldFrames DEF PublishesFact
  <2>3. Facts(Append(Visible(Session), f)) = Append(Facts(Visible(Session)), f)
    BY <1>1, <2>2, MinusOfAppend DEF Facts
  <2>4. Append(Facts(Visible(Session)), f) = Facts(Visible(Session)) \o <<f>>
    BY <1>2, <2>2, AppendIsWriting
  <2>5. History!Publish
    BY <2>1, <2>2, <2>3, <2>4 DEF History!Publish
  <2> QED BY <2>5 DEF History!HistoryNext
<1>6. CASE Summarizes
  <2>1. Facts(Append(Visible(Session), Summary)) = Facts(Visible(Session))
    BY <1>1, SummaryIsFrame, MinusOfAppend DEF Facts
  <2> QED BY <1>6, <2>1 DEF Summarizes
<1>7. CASE ClearsFacts
  <2>1. Facts(<<>>) = <<>>
    BY MinusOfEmpty DEF Facts
  <2>2. History!Clear
    BY <1>7, <2>1 DEF ClearsFacts, History!Clear
  <2> QED BY <2>2 DEF History!HistoryNext
<1> QED BY <1>3, <1>4, <1>5, <1>6, <1>7 DEF StoryGoesOn

\* The history begins empty.
LEMMA StagedInitStarts == StagedInit => History!HistoryInit
<1> SUFFICES ASSUME StagedInit PROVE History!HistoryInit
  OBVIOUS
<1>1. row[Session] = NoRow /\ FileOf(Session) = <<>>
  BY Names DEF StagedInit, FileOf, HasFile
<1>2. Facts(Visible(Session)) = <<>>
  BY <1>1, MinusOfEmpty DEF Visible, Facts
<1> QED BY <1>1, <1>2 DEF History!HistoryInit

\* Facts are published one by one, as they were accepted, and none is lost, changed, repeated
\* or invented, whatever crashes and I/O errors happen on the way.
THEOREM StoreKeepsHistory == StagedSpec => ImplementsDurableHistory
<1>1. StoreInv /\ Faultless /\ [StagedNext]_stagedVars => KeepsHistory
  BY StagedNextKeeps, StoryKeepsHistory
<1> QED
  BY <1>1, StagedInitStarts, StoreInvHolds, PTL
  DEF StagedSpec, KeepsHistory, ImplementsDurableHistory, History!HistorySpec
=============================================================================
