------------------------------ MODULE QueueOrder ------------------------------
(***************************************************************************)
(* The order of one session's input queue, kept twice: in the memory of    *)
(* the runtime (SessionState::queue_item_ids) and as priorities in SQLite  *)
(* (inputs.priority_order), from which a restart rebuilds it.              *)
(*                                                                         *)
(* Handlers run one at a time under the session's mutation gate; the       *)
(* exceptions are steps of their own.  Pausing, resuming and interrupting  *)
(* only gate the consumer: here an item may be taken whenever it is first. *)
(* Goal inputs have a queue of their own and retries own no queued row.    *)
(***************************************************************************)
EXTENDS Integers, Sequences, FiniteSets, SequencesExt, Retain

CONSTANTS
  Roles,        \* roles the session may have: plain, hosted or controller
  MaxRows,      \* bound on the inputs the session ever accepts
  MaxPriority   \* bound on the priorities that promotions push up

ASSUME RolesAssumption  == Roles \subseteq {"plain", "hosted", "controller"}
ASSUME BoundsAssumption == MaxRows \in Nat /\ MaxPriority \in Nat

VARIABLES
  role,         \* plain and hosted sessions are standard ones
  hosted,       \* a controller session is the proxy of this one
  rows,         \* table inputs; the index is queue_order (other sessions' rows leave gaps)
  queue,        \* queue_item_ids
  executing,    \* executing_command, at most one
  active,       \* active_run is Some
  asking,       \* a feedback request waits for the user's answer
  unprojected,  \* reports stored with their source's settlement, not yet in memory
  current,      \* what clients hold with the current queue_revision (older is refused)
  promoted      \* history: rows that were ever moved to the front

gateVars == <<role, hosted, active, asking>>
vars == <<gateVars, rows, queue, executing, unprojected, current, promoted>>

Kinds == {"user", "command", "delivery", "report"}

Row == [kind: Kinds, state: {"queued", "committed", "deleted"}, priority: Nat]

Waiting(r) == {n \in DOMAIN r : r[n].state = "queued"}

\* COALESCE(priority_order, queue_order): committing a row clears its priority.
Order(r, n) == IF r[n].state = "committed" THEN n ELSE r[n].priority

\* COALESCE(MAX(COALESCE(priority_order, queue_order)), -1) + 1 over the session's rows.
NextPriority(r) ==
  Max({-1} \cup {Order(r, n) : n \in {m \in DOMAIN r : r[m].state # "deleted"}}) + 1

Accepted(r, kind, priority) ==
  Append(r, [kind |-> kind, state |-> "queued", priority |-> priority])

Shifted(r, S) ==
  [n \in DOMAIN r |-> IF n \in S THEN [r[n] EXCEPT !.priority = @ + 1] ELSE r[n]]

WithState(r, S, state) ==
  [n \in DOMAIN r |-> IF n \in S THEN [r[n] EXCEPT !.state = state] ELSE r[n]]

\* Rows prioritize_queued_input may shift or promote.
Promotable(r) == {n \in Waiting(r) : r[n].kind \in {"user", "command"}}

\* The order load_session_state and SessionController::recovered agree on: priority,
\* then messages before commands, then insertion.
Before(r, a, b) ==
  LET command(n) == IF r[n].kind = "command" THEN 1 ELSE 0
  IN  \/ r[a].priority < r[b].priority
      \/ r[a].priority = r[b].priority /\ command(a) < command(b)
      \/ r[a].priority = r[b].priority /\ command(a) = command(b) /\ a < b

Sorted(r, s) == \A j, k \in DOMAIN s : j < k => Before(r, s[j], s[k])

\* Mutant of Recovered: inputs that no user wrote are not restored.
RecoveredPromotable(r) == {s \in SetToSeqs(Promotable(r)) : Sorted(r, s)}

\* What waits in the store, sorted.
Recovered(r) == {s \in SetToSeqs(Waiting(r)) : Sorted(r, s)}

Snapshot == [items |-> queue, executing |-> executing]

\* queue_revision + 1: no snapshot carries the new revision yet.
NextRevision == current' = {}

Room == Len(rows) < MaxRows

-----------------------------------------------------------------------------
Init ==
  /\ role \in Roles /\ hosted = FALSE
  /\ rows = <<>> /\ queue = <<>>
  /\ executing = {} /\ active = FALSE /\ asking = FALSE
  /\ unprojected = {} /\ current = {} /\ promoted = {}

\* The user writes to the session: the controller loses it and its waiting deliveries.
TakenOver == {n \in Waiting(rows) : rows[n].kind = "delivery"}

AcceptUser ==
  /\ Room /\ ~asking
  /\ LET kept == WithState(rows, TakenOver, "deleted")
     IN  rows' = Accepted(kept, "user", NextPriority(kept))
  /\ queue' = Append(Minus(queue, TakenOver), Len(rows) + 1)
  /\ hosted' = FALSE
  /\ NextRevision
  /\ UNCHANGED <<role, executing, active, asking, unprojected, promoted>>

\* The answer to a feedback request that ended its run's turn goes to the front.
AcceptAnswer ==
  /\ Room /\ asking /\ ~active
  /\ LET kept == WithState(rows, TakenOver, "deleted")
     IN  rows' = Accepted(Shifted(kept, Waiting(kept)), "user", 0)
  /\ queue' = <<Len(rows) + 1>> \o Minus(queue, TakenOver)
  /\ hosted' = FALSE /\ asking' = FALSE
  /\ NextRevision
  /\ promoted' = promoted \cup {Len(rows) + 1}
  /\ UNCHANGED <<role, executing, active, unprojected>>

\* Mutant of AcceptCommand: it overtakes what waits in memory.
AcceptCommandFirst ==
  /\ Room
  /\ rows' = Accepted(rows, "command", NextPriority(rows))
  /\ queue' = <<Len(rows) + 1>> \o queue
  /\ NextRevision
  /\ UNCHANGED <<gateVars, executing, unprojected, promoted>>

AcceptCommand ==
  /\ Room
  /\ rows' = Accepted(rows, "command", NextPriority(rows))
  /\ queue' = Append(queue, Len(rows) + 1)
  /\ NextRevision
  /\ UNCHANGED <<gateVars, executing, unprojected, promoted>>

\* A controller delivers to a session it hosts while nothing waits there.
AcceptDelivery ==
  /\ Room /\ hosted /\ Waiting(rows) = {}
  /\ rows' = Accepted(rows, "delivery", NextPriority(rows))
  /\ queue' = Append(queue, Len(rows) + 1)
  /\ NextRevision
  /\ UNCHANGED <<gateVars, executing, unprojected, promoted>>

SetProxy ==
  /\ role = "hosted"
  /\ hosted' = ~hosted
  /\ UNCHANGED <<role, active, asking, rows, queue, executing, unprojected, current, promoted>>

\* A report is stored in the transaction that settles the hosted session's run, under
\* that session's gate; the controller's memory follows under the controller's gate.
StoreReport ==
  /\ Room /\ role = "controller"
  /\ rows' = Accepted(rows, "report", NextPriority(rows))
  /\ unprojected' = unprojected \cup {Len(rows) + 1}
  /\ UNCHANGED <<gateVars, queue, executing, current, promoted>>

\* Mutant of ProjectReport: the revision is not advanced.
ProjectQuietly(n) ==
  /\ n \in unprojected
  /\ unprojected' = unprojected \ {n}
  /\ queue' = Append(queue, n)
  /\ UNCHANGED <<gateVars, rows, executing, promoted, current>>

ProjectReport(n) ==
  /\ n \in unprojected
  /\ unprojected' = unprojected \ {n}
  /\ queue' = Append(queue, n)
  /\ NextRevision
  /\ UNCHANGED <<gateVars, rows, executing, promoted>>

-----------------------------------------------------------------------------
(* Commands of a client that holds a snapshot *)

ReadQueue ==
  /\ current' = current \cup {Snapshot}
  /\ UNCHANGED <<gateVars, rows, queue, executing, unprojected, promoted>>

Movable(n) ==
  executing = {} /\ n \in Promotable(rows) \cap ToSet(queue) /\ n # Head(queue)

\* prioritize_queued_input, and resume_queued_input with a target.
Prioritize(n) ==
  /\ current # {} /\ Movable(n)     \* expected_revision
  /\ \A m \in Promotable(rows) : rows[m].priority < MaxPriority
  /\ rows' = [Shifted(rows, Promotable(rows)) EXCEPT ![n].priority = 0]
  /\ queue' = <<n>> \o Minus(queue, {n})
  /\ NextRevision
  /\ promoted' = promoted \cup {n}
  /\ UNCHANGED <<gateVars, executing, unprojected>>

\* resume_queued_input without a move, resume_session, interrupt_run: nothing moves.
TouchQueue ==
  /\ NextRevision
  /\ UNCHANGED <<gateVars, rows, queue, executing, unprojected, promoted>>

CancelInput(n) ==
  /\ n \in Waiting(rows) /\ rows[n].kind = "user"
  /\ rows' = WithState(rows, {n}, "deleted")
  /\ queue' = Minus(queue, {n})
  /\ NextRevision
  /\ UNCHANGED <<gateVars, executing, unprojected, promoted>>

-----------------------------------------------------------------------------
(* The queue driver *)

Takeable == queue # <<>> /\ ~active /\ ~asking /\ executing = {}

BeginCommand ==
  /\ Takeable /\ rows[Head(queue)].kind = "command"
  /\ executing' = {Head(queue)}
  /\ NextRevision
  /\ UNCHANGED <<gateVars, rows, queue, unprojected, promoted>>

\* The result is committed under the gate; meanwhile other inputs were accepted.
FinishCommand ==
  /\ executing # {} /\ queue # <<>> /\ executing = {Head(queue)}
  /\ rows' = WithState(rows, executing, "committed")
  /\ queue' = Tail(queue)
  /\ executing' = {}
  /\ NextRevision
  /\ UNCHANGED <<gateVars, unprojected, promoted>>

\* Claim and commit of a message, under one acquisition of the gate.
StartRun ==
  /\ Takeable /\ rows[Head(queue)].kind # "command"
  /\ rows' = WithState(rows, {Head(queue)}, "committed")
  /\ queue' = Tail(queue)
  /\ active' = TRUE
  /\ NextRevision
  /\ UNCHANGED <<role, hosted, asking, executing, unprojected, promoted>>

EndRun(asks) ==
  /\ active
  /\ active' = FALSE /\ asking' = asks
  /\ UNCHANGED <<role, hosted, rows, queue, executing, unprojected, current, promoted>>

\* The process dies, possibly after claiming the first message and before committing
\* it: the claimed run is then settled as interrupted and its input is committed.  An
\* executing command is queued again.  Clients read the queue anew.
Restart(claimed) ==
  /\ claimed = {} \/ (Takeable /\ rows[Head(queue)].kind # "command" /\ claimed = {Head(queue)})
  /\ rows' = WithState(rows, claimed, "committed")
  /\ queue' \in Recovered(rows')
  /\ executing' = {} /\ active' = FALSE /\ unprojected' = {}
  /\ current' = {}
  /\ UNCHANGED <<role, hosted, asking, promoted>>

Next ==
  \/ AcceptUser \/ AcceptAnswer \/ AcceptCommand \/ AcceptDelivery \/ SetProxy
  \/ StoreReport \/ \E n \in unprojected : ProjectReport(n)
  \/ ReadQueue \/ TouchQueue
  \/ \E n \in DOMAIN rows : Prioritize(n) \/ CancelInput(n)
  \/ BeginCommand \/ FinishCommand \/ StartRun
  \/ \E asks \in BOOLEAN : EndRun(asks)
  \/ \E claimed \in SUBSET ToSet(queue) : Restart(claimed)

Spec == Init /\ [][Next]_vars

-----------------------------------------------------------------------------
(* Correctness *)

TypeOK ==
  /\ role \in Roles /\ hosted \in BOOLEAN /\ active \in BOOLEAN /\ asking \in BOOLEAN
  /\ rows \in Seq(Row)
  /\ queue \in Seq(DOMAIN rows) /\ IsInjective(queue)
  /\ executing \subseteq DOMAIN rows /\ Cardinality(executing) <= 1
  /\ unprojected \subseteq DOMAIN rows /\ promoted \subseteq DOMAIN rows
  /\ Cardinality(current) <= 1

\* A restart at any moment rebuilds the queue memory has (session.rs:333-388): the same
\* inputs, a stored report that is still on its way apart, so that nothing accepted is
\* lost and nothing cancelled, taken over or consumed returns; and in the same order,
\* where all inputs are the user's (promotions do not shift deliveries and reports).
QueueIsRecoverable ==
  /\ TypeOK
  /\ Waiting(rows) = ToSet(queue) \cup unprojected
  /\ ToSet(queue) \cap unprojected = {}
  /\ role = "plain" => Sorted(rows, queue)

\* The user's inputs are served in the order they were accepted, across restarts; only a
\* promoted one overtakes.
FifoUnlessPromoted ==
  role = "plain" =>
    \A i, j \in DOMAIN queue : i < j /\ queue[i] > queue[j] => queue[i] \in promoted

\* queue_revision identifies the queue: a client whose expected_revision is accepted
\* acts on the very queue it saw (commands.rs:29-34).
RevisionIdentifiesQueue == current \subseteq {Snapshot}

=============================================================================
