---------------------------- MODULE Observation ----------------------------
(***************************************************************************)
(* How the runtime answers composite reads while everything goes on        *)
(* changing (observation.rs, runtime/product.rs).  Events get their number *)
(* and advance the watermarks of what they are about under one short lock. *)
(* A read notes the watermarks it depends on, collects its parts one after *)
(* the other without the lock, and is thrown away when one has advanced.   *)
(***************************************************************************)
EXTENDS Naturals, Sequences, FiniteSets

CONSTANTS Sessions,     \* sessions of one workspace
          Readers,      \* queries that may be under way together
          Attempts,     \* SNAPSHOT_ATTEMPTS
          MaxChanges,   \* bound: changes of one part
          MaxSequence   \* bound: events

NoSession == "no session"

ASSUME ObservationAssumption ==
    /\ Attempts \in Nat \ {0} /\ MaxChanges \in Nat /\ MaxSequence \in Nat
    /\ NoSession \notin Sessions /\ IsFiniteSet(Readers)

Part(kind, owner) == <<kind, owner>>
Configuration == Part("configuration", NoSession)
Workspace == Part("workspace", NoSession)
Mcp == Part("mcp", NoSession)
Body(s) == Part("body", s)
Live(s) == Part("live", s)
Parts == {Configuration, Workspace, Mcp} \cup {Body(s) : s \in Sessions}
           \cup {Live(s) : s \in Sessions}

(* The events, by what observe() does with them: the part they announce    *)
(* ("none" when no modelled query reads it) and the watermarks they        *)
(* advance.                                                                *)
Event(about, scope) == [about |-> about, scope |-> scope]
ConfigChanged == Event(Configuration, {"configuration", "application"})
McpRegistryChanged == Event(Mcp, {"mcp", "application"})
WorkspaceChanged == Event(Workspace, {"workspace", "application"})
ConversationCommitted(s) == Event(Body(s), {"session", "durable", "application"})
StepStarted(s) == Event(Live(s), {"session", "durable"})
TextDelta(s) == Event(Live(s), {"session"})
PermissionChanged == Event(Part("none", NoSession), {})

VARIABLES
    sequence,       \* ObservationState: number of the last event
    application, configuration, mcp,
    sessions,       \* sessions[s], workspace: WatchedScope; readers = 0: no entry
    workspace,
    store, told,    \* changes of a part that readers see, and announced ones
    reads,          \* queries under way
    gate,           \* sessions whose mutation gate a query holds
    reply           \* the last answer of each reader

watermarks == <<sequence, application, configuration, mcp, sessions, workspace>>
vars == <<watermarks, store, told, reads, gate, reply>>

Absent == [readers |-> 0, sequence |-> 0, durable_sequence |-> 0]
Kinds == {"application", "view", "history"}
Idle == [stage |-> "idle", kind |-> "application", of |-> NoSession,
         tries |-> 0, initial |-> <<0, 0, 0, 0>>, groups |-> 0,
         got |-> [p \in {} |-> 0], mine |-> FALSE]
NoReply == [kind |-> "none"]
Busy == [kind |-> "busy"]

Init == /\ sequence = 0 /\ application = 0 /\ configuration = 0 /\ mcp = 0
        /\ sessions = [s \in Sessions |-> Absent] /\ workspace = Absent
        /\ store = [p \in Parts |-> 0] /\ told = [p \in Parts |-> 0]
        /\ reads = [r \in Readers |-> Idle]
        /\ gate = {}
        /\ reply = [r \in Readers |-> NoReply]
-----------------------------------------------------------------------------
(* ---- publishing: ObservationState::observe ----------------------------- *)
Advanced(watch, s, e) ==
    IF watch.readers = 0 THEN watch
    ELSE [watch EXCEPT !.sequence = s,
                       !.durable_sequence = IF "durable" \in e.scope THEN s ELSE @]

(* What a query collects, in this order; a view adds the live runs when it *)
(* is captured.                                                            *)
ReadOrder(kind, s) ==
    CASE kind = "application" -> <<{Configuration}, {Workspace},
                                   {Body(x) : x \in Sessions}, {Mcp}>>
      [] kind = "view" -> <<{Configuration}, {Workspace}, {Body(s)}, {Mcp}>>
      [] kind = "history" -> <<{Body(s)}, {Mcp}>>

(* Ghost: an event about what the query returns, other than output that    *)
(* only the live runs contain.                                             *)
Concerns(rd, e) ==
    /\ rd.stage = "reading"
    /\ \/ e.about \in UNION {ReadOrder(rd.kind, rd.of)[i] :
                               i \in 1 .. Len(ReadOrder(rd.kind, rd.of))}
       \/ rd.kind = "view" /\ e = StepStarted(rd.of)

Observe(e) ==
    LET s == sequence + 1 IN
    /\ sequence < MaxSequence
    /\ sequence' = s
    /\ application' = IF "application" \in e.scope THEN s ELSE application
    /\ configuration' = IF "configuration" \in e.scope THEN s ELSE configuration
    /\ mcp' = IF "mcp" \in e.scope THEN s ELSE mcp
    /\ workspace' = IF "workspace" \in e.scope THEN Advanced(workspace, s, e)
                    ELSE workspace
    /\ sessions' = [x \in Sessions |->
                      IF "session" \in e.scope /\ e.about[2] = x
                      THEN Advanced(sessions[x], s, e) ELSE sessions[x]]
    /\ reads' = [r \in Readers |->
                    [reads[r] EXCEPT !.mine = @ \/ Concerns(reads[r], e)]]

(* publish_transition: the value and its event become visible together.    *)
PublishTransition(e) ==
    /\ store[e.about] < MaxChanges
    /\ store' = [store EXCEPT ![e.about] = @ + 1]
    /\ told' = [told EXCEPT ![e.about] = @ + 1]
    /\ Observe(e)
    /\ UNCHANGED <<gate, reply>>

(* A settlement or a recorded step reaches store and journal under the     *)
(* mutation gate of its session ...                                        *)
CommitBody(s) ==
    /\ s \notin gate
    /\ store[Body(s)] < MaxChanges
    /\ store' = [store EXCEPT ![Body(s)] = @ + 1]
    /\ UNCHANGED <<watermarks, told, reads, gate, reply>>

(* ... and is announced afterwards; a settlement has let go of the gate.   *)
SendCommitted(s) ==
    /\ told[Body(s)] < store[Body(s)]
    /\ told' = [told EXCEPT ![Body(s)] = @ + 1]
    /\ Observe(ConversationCommitted(s))
    /\ UNCHANGED <<store, gate, reply>>

SendOther == Observe(PermissionChanged) /\ UNCHANGED <<store, told, gate, reply>>
-----------------------------------------------------------------------------
(* ---- reading ------------------------------------------------------------ *)
(* Mutant of Stamp: a view depends on the streamed output as well.         *)
StampOfOutput(kind, session, space) ==
    CASE kind = "application" -> <<application, 0, 0, 0>>
      [] kind = "view" -> <<session.sequence, space.sequence, configuration, mcp>>
      [] kind = "history" -> <<0, 0, 0, mcp>>

(* ObservationState::stamp: of a session only what is not mere output.     *)
Stamp(kind, session, space) ==
    CASE kind = "application" -> <<application, 0, 0, 0>>
      [] kind = "view" -> <<session.durable_sequence, space.sequence,
                            configuration, mcp>>
      [] kind = "history" -> <<0, 0, 0, mcp>>
SessionOf(rd) == IF rd.of = NoSession THEN Absent ELSE sessions[rd.of]

Registered(watch) ==
    IF watch.readers = 0 THEN [readers |-> 1, sequence |-> sequence,
                               durable_sequence |-> sequence]
    ELSE [watch EXCEPT !.readers = @ + 1]
(* Mutant of Released: the entry of a scope goes with any of its readers.  *)
ReleasedAtOnce(watch) == Absent
Released(watch) == IF watch.readers = 1 THEN Absent ELSE [watch EXCEPT !.readers = @ - 1]

(* The handler takes the session's gate; the application query takes none. *)
(* Bound: a reader asks until it has been answered.                        *)
Ask(r, kind, s) ==
    /\ reads[r].stage = "idle" /\ reply[r] = NoReply
    /\ (kind = "application") = (s = NoSession)
    /\ s \notin gate
    /\ gate' = gate \cup ({s} \ {NoSession})
    /\ reads' = [reads EXCEPT ![r] = [Idle EXCEPT !.stage = "begin", !.kind = kind,
                                                  !.of = s]]
    /\ UNCHANGED <<watermarks, store, told, reply>>

(* begin_read: the watched scopes are registered and stamped in one lock.  *)
BeginRead(r) ==
    LET rd == reads[r]
        view == rd.kind = "view"
        session == IF view THEN Registered(sessions[rd.of]) ELSE Absent
        space == IF view THEN Registered(workspace) ELSE workspace IN
    /\ rd.stage = "begin"
    /\ sessions' = IF view THEN [sessions EXCEPT ![rd.of] = session] ELSE sessions
    /\ workspace' = space
    /\ reads' = [reads EXCEPT ![r] =
                   [@ EXCEPT !.stage = "reading", !.groups = 0, !.got = Idle.got,
                             !.mine = FALSE,
                             !.initial = Stamp(rd.kind, session, space)]]
    /\ UNCHANGED <<sequence, application, configuration, mcp, store, told, gate, reply>>

ReadGroup(r) ==
    LET rd == reads[r]
        group == ReadOrder(rd.kind, rd.of)[rd.groups + 1] IN
    /\ rd.stage = "reading"
    /\ rd.groups < Len(ReadOrder(rd.kind, rd.of))
    /\ reads' = [reads EXCEPT ![r].groups = @ + 1,
                              ![r].got = [p \in DOMAIN @ \cup group |->
                                             IF p \in group THEN store[p] ELSE @[p]]]
    /\ UNCHANGED <<watermarks, store, told, gate, reply>>

(* Drop of ObservationRead.                                                *)
Release(rd) ==
    IF rd.kind = "view" /\ rd.stage = "reading"
    THEN /\ sessions' = [sessions EXCEPT ![rd.of] = Released(@)]
         /\ workspace' = Released(workspace)
    ELSE UNCHANGED <<sessions, workspace>>

Value(rd) ==
    [p \in DOMAIN rd.got \cup (IF rd.kind = "view" THEN {Live(rd.of)} ELSE {}) |->
        IF p \in DOMAIN rd.got THEN rd.got[p] ELSE store[p]]

Collected(rd) == rd.stage = "reading" /\ rd.groups = Len(ReadOrder(rd.kind, rd.of))
(* Mutant of Unchanged: parts are answered as they were collected.         *)
UnchangedUnasked(rd) == TRUE
Unchanged(rd) == Stamp(rd.kind, SessionOf(rd), workspace) = rd.initial

(* Nothing it depends on has moved: live runs are copied under the lock,   *)
(* the answer carries the number of the last event, whatever it is about.  *)
Capture(r) ==
    LET rd == reads[r] IN
    /\ Collected(rd) /\ Unchanged(rd)
    /\ reply' = [reply EXCEPT ![r] = [kind |-> "snapshot", sequence |-> sequence,
                                      value |-> Value(rd)]]
    /\ Release(rd)
    /\ reads' = [reads EXCEPT ![r] = Idle]
    /\ gate' = gate \ {rd.of}
    /\ UNCHANGED <<sequence, application, configuration, mcp, store, told>>

CaptureNone(r) ==
    LET rd == reads[r] IN
    /\ Collected(rd) /\ ~Unchanged(rd)
    /\ Release(rd)
    /\ reads' = [reads EXCEPT ![r].stage = "discarded", ![r].tries = @ + 1]
    /\ UNCHANGED <<sequence, application, configuration, mcp, store, told, gate, reply>>

Again(r) ==
    /\ reads[r].stage = "discarded"
    /\ reads[r].tries < Attempts
    /\ reads' = [reads EXCEPT ![r].stage = "begin"]
    /\ UNCHANGED <<watermarks, store, told, gate, reply>>

SnapshotBusy(r) ==
    /\ reads[r].stage = "discarded"
    /\ reads[r].tries >= Attempts
    /\ reply' = [reply EXCEPT ![r] = Busy]
    /\ reads' = [reads EXCEPT ![r] = Idle]
    /\ gate' = gate \ {reads[r].of}
    /\ UNCHANGED <<watermarks, store, told>>

(* The client hangs up and the handler's future is dropped where it waits. *)
HangUp(r) ==
    /\ reads[r].stage # "idle"
    /\ Release(reads[r])
    /\ reads' = [reads EXCEPT ![r] = Idle]
    /\ gate' = gate \ {reads[r].of}
    /\ UNCHANGED <<sequence, application, configuration, mcp, store, told, reply>>

Atomic == {ConfigChanged, McpRegistryChanged, WorkspaceChanged}
            \cup {StepStarted(s) : s \in Sessions} \cup {TextDelta(s) : s \in Sessions}
Continue(r) == BeginRead(r) \/ ReadGroup(r) \/ Capture(r) \/ CaptureNone(r)
                 \/ Again(r) \/ SnapshotBusy(r)
Next == \/ \E e \in Atomic : PublishTransition(e)
        \/ \E s \in Sessions : CommitBody(s) \/ SendCommitted(s)
        \/ SendOther
        \/ \E r \in Readers :
             \/ \E kind \in Kinds, s \in Sessions \cup {NoSession} : Ask(r, kind, s)
             \/ Continue(r) \/ HangUp(r)

Spec == Init /\ [][Next]_vars
-----------------------------------------------------------------------------
(* ---- properties --------------------------------------------------------- *)
Watches == [readers : 0 .. Cardinality(Readers), sequence : 0 .. MaxSequence,
            durable_sequence : 0 .. MaxSequence]

(* Every variable keeps its type; no watermark is ahead of the events.     *)
TypeOK ==
    /\ sequence \in 0 .. MaxSequence
    /\ {application, configuration, mcp} \subseteq 0 .. sequence
    /\ sessions \in [Sessions -> Watches] /\ workspace \in Watches
    /\ \A p \in Parts : told[p] <= store[p] /\ store[p] <= MaxChanges
    /\ \A r \in Readers :
         /\ reads[r].stage \in {"idle", "begin", "reading", "discarded"}
         /\ reads[r].kind \in Kinds /\ reads[r].tries <= Attempts
         /\ reply[r].kind \in {"none", "busy", "snapshot"}
    /\ gate \subseteq Sessions

(* Queries hold exactly what they use: a session's and a workspace's entry *)
(* is kept while a view reads them and goes with the last one, and a gate  *)
(* belongs to one query, however it ends.                                  *)
HeldBy(s) == {r \in Readers : reads[r].stage = "reading" /\ reads[r].kind = "view"
                                /\ reads[r].of = s}
EntriesAreGivenBack ==
    /\ TypeOK
    /\ \A s \in Sessions : sessions[s].readers = Cardinality(HeldBy(s))
    /\ workspace.readers = Cardinality(UNION {HeldBy(s) : s \in Sessions})
    /\ \A s \in Sessions :
         Cardinality({r \in Readers : reads[r].stage # "idle" /\ reads[r].of = s})
            = IF s \in gate THEN 1 ELSE 0

(* Output of the same run and events of other sessions never make a        *)
(* query start again, so that they cannot starve it.                       *)
OnlyItsOwnEventsDisturb ==
    \A r \in Readers : Collected(reads[r]) /\ ~Unchanged(reads[r]) =>
        reads[r].mine \/ reads[r].kind = "application"

(* The promise of the snapshots: an answer misses nothing announced up to  *)
(* its watermark, although it is collected in pieces from facts that       *)
(* change before, with and after their events.                             *)
Promise == INSTANCE Snapshots WITH
    Scopes <- {{Configuration, Workspace, Mcp} \cup {Body(s) : s \in Sessions}}
                \cup {{Configuration, Workspace, Mcp, Body(s), Live(s)} : s \in Sessions}
                \cup {{Body(s), Mcp} : s \in Sessions}
ImplementsSnapshots == Promise!SnapshotsSpec
=============================================================================
