----------------------------- MODULE ClientSync -----------------------------
(***************************************************************************)
(* A desktop client follows one selected session of a runtime: it reads    *)
(* snapshots, applies the events above their watermarks and refreshes what *)
(* the events do not carry (RuntimeLifecycleCoordinator.ts and its stores; *)
(* http/events.rs for the stream).  Connections break, subscribers lag     *)
(* behind, the runtime restarts, answers arrive late.                      *)
(*                                                                         *)
(* The runtime answers as module Snapshots promises (Observation shows     *)
(* that it does): with everything announced up to the watermark, perhaps   *)
(* with a committed step whose event is still to come.                     *)
(***************************************************************************)
EXTENDS Integers, Sequences, FiniteSets

CONSTANTS Capacity,     \* events the broadcast channel keeps
          MaxBuffer,    \* MAX_SNAPSHOT_EVENTS
          Retries,      \* SNAPSHOT_RETRY_DELAYS.length
          Faults,       \* what may go wrong: a subset of "drop" (the connection),
                        \* "restart" (of the runtime), "frame" (cannot be decoded),
                        \* "open" (the user opens the session while connecting)
          MaxFaults,    \* bound: things that go wrong, each once
          MaxSequence,  \* bound: events of an instance
          MaxSteps,     \* bound: steps of the run
          MaxDeltas     \* bound: pieces of text of a step

ASSUME ClientSyncAssumption ==
    /\ Capacity \in Nat \ {0} /\ MaxBuffer \in Nat \ {0} /\ Retries \in Nat
    /\ Faults \subseteq {"drop", "restart", "frame", "open"} /\ MaxFaults \in Nat
    /\ MaxSequence \in Nat /\ MaxSteps \in Nat /\ MaxDeltas \in Nat

VARIABLES
    instance,   \* which process of the runtime is alive
    log,        \* its events; an event's number is its position
    store,      \* configuration, body: steps committed; committed ones announced
    live,       \* the active step of the run, its text, pieces still to project
    stream,     \* the client's subscription: position, closed by the host?
    view,       \* what the client holds and shows
    faults      \* what has gone wrong

vars == <<instance, log, store, live, stream, view, faults>>

Steps == 1 .. MaxSteps
Reads == {"application", "session"}
Event(type, step) == [type |-> type, step |-> step]
NoReply == [sequence |-> 0, configuration |-> 0, body |-> 0, step |-> 0, text |-> 0]
NoRead == [stage |-> "none", reply |-> NoReply, events |-> <<>>, overflow |-> FALSE,
           pending |-> FALSE, attempt |-> 0]
Nothing == [known |-> FALSE, sealed |-> {}, text |-> [s \in Steps |-> 0]]
EmptyView ==
    [conn |-> "down", instance |-> 0, observed |-> 0, rebase |-> FALSE,
     application |-> [configuration |-> 0, body |-> 0, sequence |-> 0],
     session |-> [configuration |-> 0, body |-> 0, sequence |-> 0],
     shown |-> Nothing, buffered |-> <<>>, overflow |-> FALSE,
     reads |-> [k \in Reads |-> NoRead], timer |-> {}, errors |-> {},
     rebased |-> FALSE]

Init == /\ instance = 0
        /\ log = <<>>
        /\ store = [configuration |-> 0, body |-> 0, announced |-> 0]
        /\ live = [step |-> 0, text |-> 0, owed |-> 0]
        /\ stream = [position |-> 0, closed |-> TRUE]
        /\ view = EmptyView
        /\ faults = {}
-----------------------------------------------------------------------------
(* ---- the runtime --------------------------------------------------------- *)
Fault(kind) == /\ kind \in Faults \ faults /\ Cardinality(faults) < MaxFaults
               /\ faults' = faults \cup {kind}

Publish(type, step) == log' = Append(log, Event(type, step))
(* Bound: what has begun can still be announced.                           *)
Room == Len(log) + live.owed + (store.body - store.announced) < MaxSequence

ChangeConfiguration ==
    /\ Room
    /\ store' = [store EXCEPT !.configuration = @ + 1]
    /\ Publish("config_changed", 0)
    /\ UNCHANGED <<instance, live, stream, view, faults>>

(* The next model call begins when the step before is recorded and told.   *)
StartStep ==
    /\ Room
    /\ live.step < MaxSteps
    /\ live.step = store.announced /\ live.owed = 0
    /\ live' = [step |-> live.step + 1, text |-> 0, owed |-> 0]
    /\ Publish("step_started", live.step + 1)
    /\ UNCHANGED <<instance, store, stream, view, faults>>

(* The engine's events go through a channel of their own: a piece of text  *)
(* may be projected after its step has been recorded.                      *)
EmitDelta ==
    /\ Room
    /\ live.step = store.body + 1
    /\ live.text + live.owed < MaxDeltas
    /\ live' = [live EXCEPT !.owed = @ + 1]
    /\ UNCHANGED <<instance, log, store, stream, view, faults>>

ProjectDelta ==
    /\ live.owed > 0
    /\ live' = [live EXCEPT !.owed = @ - 1, !.text = @ + 1]
    /\ Publish("text_delta", live.step)
    /\ UNCHANGED <<instance, store, stream, view, faults>>

CommitStep ==
    /\ Room
    /\ live.step = store.body + 1
    /\ store' = [store EXCEPT !.body = @ + 1]
    /\ UNCHANGED <<instance, log, live, stream, view, faults>>

(* conversation_committed and step_committed, sent one after the other.    *)
AnnounceStep ==
    /\ store.announced < store.body
    /\ store' = [store EXCEPT !.announced = @ + 1]
    /\ Publish("step_committed", store.body)
    /\ UNCHANGED <<instance, live, stream, view, faults>>

(* The stream of the old process ends; what was not recorded is lost.      *)
RestartRuntime ==
    /\ Fault("restart")
    /\ instance' = instance + 1
    /\ log' = <<>>
    /\ store' = [store EXCEPT !.announced = store.body]
    /\ live' = [step |-> store.body, text |-> 0, owed |-> 0]
    /\ stream' = [stream EXCEPT !.closed = TRUE]
    /\ UNCHANGED view
-----------------------------------------------------------------------------
(* ---- what the client shows: RuntimeProjectionStore, LiveExecutionStore -- *)
LiveApplied(shown, e) ==
    CASE e.type = "step_committed" ->
            IF shown.known THEN [shown EXCEPT !.sealed = @ \cup {e.step},
                                              !.text[e.step] = 0]
            ELSE Nothing
      [] e.type = "step_started" /\ e.step \notin shown.sealed ->
            [shown EXCEPT !.text[e.step] = 0]
      [] e.type = "text_delta" /\ e.step \notin shown.sealed ->
            [shown EXCEPT !.text[e.step] = @ + 1]
      [] OTHER -> shown

(* rebaseSession: the snapshot's run, then the events above its watermark. *)
Baseline(answer) ==
    LET sealed == (1 .. answer.body) \cup (1 .. answer.step - 1)
    IN  [known |-> TRUE, sealed |-> sealed,
         text |-> [s \in Steps |->
                    IF s = answer.step /\ s \notin sealed THEN answer.text ELSE 0]]
Rebased(answer, events) ==
    LET shown[i \in 0 .. Len(events)] ==
            IF i = 0 THEN Baseline(answer)
            ELSE IF events[i].sequence <= answer.sequence THEN shown[i - 1]
            ELSE LiveApplied(shown[i - 1], events[i])
    IN  shown[Len(events)]
-----------------------------------------------------------------------------
(* ---- RuntimeLifecycleCoordinator: one operator per method --------------- *)
(* #bufferSnapshotEvent, for the reads that are under way.                 *)
WithEvent(read, e) ==
    IF Len(read.events) >= MaxBuffer THEN [read EXCEPT !.overflow = TRUE, !.events = <<>>]
    ELSE [read EXCEPT !.events = Append(@, e)]
Buffered(v, e, kinds) ==
    [v EXCEPT !.reads = [k \in Reads |->
        IF k \notin kinds \/ v.reads[k].stage = "none" \/ v.reads[k].overflow
        THEN v.reads[k] ELSE WithEvent(v.reads[k], e)]]

(* Mutant of Scheduled: a read under way is taken to be good enough.       *)
ScheduledOnlyIdle(v, kinds) ==
    [v EXCEPT !.timer = @ \cup {k \in kinds : v.reads[k].stage = "none"}]

(* #scheduleRefresh: a read under way is repeated once it has ended well,  *)
(* otherwise the timer of 80 ms starts one.                                *)
Scheduled(v, kinds) ==
    [v EXCEPT !.timer = @ \cup {k \in kinds : v.reads[k].stage = "none"},
              !.reads = [k \in Reads |->
                 IF k \in kinds /\ v.reads[k].stage # "none"
                 THEN [v.reads[k] EXCEPT !.pending = TRUE]
                 ELSE v.reads[k]]]

(* #readSnapshot joins a read of the same kind that is under way.          *)
Loaded(v, k) ==
    IF v.reads[k].stage # "none" THEN v
    ELSE [v EXCEPT !.reads[k] = [NoRead EXCEPT !.stage = "asked"], !.errors = @ \ {k}]

(* Mutant of Ended: the refresh that was asked for meanwhile is forgotten.   *)
EndedForgetting(v, k, succeeded) == [v EXCEPT !.reads[k] = NoRead]

(* finally: only a read that succeeded passes its refresh on.              *)
Ended(v, k, succeeded) ==
    LET gone == [v EXCEPT !.reads[k] = NoRead] IN
    IF succeeded /\ v.reads[k].pending THEN Scheduled(gone, {k}) ELSE gone

(* #cancelSnapshotReads                                                    *)
Cancelled(v) == [v EXCEPT !.reads = [k \in Reads |-> NoRead]]

(* #handleStreamGap                                                        *)
Gap(v) ==
    IF v.rebase THEN v
    ELSE Loaded(Loaded(
           [v EXCEPT !.rebase = TRUE, !.shown = Nothing, !.rebased = FALSE,
                     !.reads = [k \in Reads |-> [v.reads[k] EXCEPT !.overflow = TRUE,
                                                                 !.events = <<>>]]],
           "application"), "session")

RefreshOf(e) == CASE e.type \in {"config_changed", "step_committed"} -> Reads
                  [] e.type = "step_started" -> {"session"}
                  [] OTHER -> {}

(* #eventIsInOwnerSnapshot                                                 *)
InOwnerSnapshot(v, e) == e.type # "config_changed" /\ e.sequence <= v.session.sequence

(* #applyEvent and acceptEvent.                                            *)
Applied(v, e) ==
    IF v.rebase THEN Buffered(v, e, {"application"})
    ELSE IF e.sequence <= v.observed THEN v
    ELSE IF e.sequence # v.observed + 1 THEN Gap(v)
    ELSE LET accepted == Buffered([v EXCEPT !.observed = e.sequence], e,
                            IF e.type = "config_changed" THEN {} ELSE {"session"})
             projected == IF InOwnerSnapshot(v, e) THEN accepted
                          ELSE [accepted EXCEPT !.shown = LiveApplied(@, e)]
         IN Scheduled(projected, RefreshOf(e))
(* The events above the watermark of an answer, in their order.            *)
AllApplied(v, watermark, events) ==
    LET after[i \in 0 .. Len(events)] ==
            IF i = 0 THEN v
            ELSE IF events[i].sequence <= watermark THEN after[i - 1]
            ELSE Applied(after[i - 1], events[i])
    IN  after[Len(events)]

(* applyApplicationSnapshot; refreshApplicationSnapshot leaves the position *)
(* in the stream alone and ignores an older answer.                        *)
ApplicationOf(answer) == [configuration |-> answer.configuration, body |-> answer.body,
                          sequence |-> answer.sequence]
Based(v, answer) == [v EXCEPT !.application = ApplicationOf(answer),
                              !.observed = answer.sequence]
Refreshed(v, answer) ==
    IF answer.sequence < v.application.sequence THEN v
    ELSE [v EXCEPT !.application = ApplicationOf(answer)]

(* loadApplication's apply: after a gap the position is taken anew.        *)
ApplicationApplied(v, answer, events) ==
    IF v.rebase
    THEN AllApplied([Based(v, answer) EXCEPT !.rebase = FALSE], answer.sequence, events)
    ELSE Refreshed(v, answer)

(* Mutant of SessionApplied: what arrived while it was read is forgotten.  *)
SessionAppliedAlone(v, answer, events) ==
    IF answer.sequence < v.session.sequence THEN v
    ELSE [v EXCEPT !.session = ApplicationOf(answer),
                   !.rebased = TRUE,
                   !.shown = Rebased(answer, <<>>)]

(* applySessionSnapshot and rebaseSession                                  *)
SessionApplied(v, answer, events) ==
    IF answer.sequence < v.session.sequence THEN v
    ELSE [v EXCEPT !.session = ApplicationOf(answer),
                   !.rebased = TRUE,
                   !.shown = Rebased(answer, events)]

Repeated(read) == [read EXCEPT !.stage = "asked", !.reply = NoReply, !.events = <<>>,
                               !.overflow = FALSE, !.attempt = @ + 1]
Retried(v, k) == [v EXCEPT !.reads[k] = Repeated(v.reads[k])]

(* The catch clauses: without a rebased application there is no connection *)
(* any more, otherwise an error is shown and what is shown stays.          *)
Failed(v, k) ==
    IF k = "application" /\ (v.rebase \/ v.conn = "loading")
    THEN [Cancelled(v) EXCEPT !.conn = "failed"]
    ELSE [Ended(v, k, FALSE) EXCEPT !.errors = @ \cup {k}]
-----------------------------------------------------------------------------
(* ---- the client's steps --------------------------------------------------- *)
Same == UNCHANGED <<instance, log, store, live>>

(* #establishConnection: subscribe first, then ask for the application.    *)
(* The 80 ms of a refresh are over before a reconnect's 500 ms.            *)
Connect ==
    /\ view.conn = "down" /\ view.timer = {}
    /\ stream' = [position |-> Len(log), closed |-> FALSE]
    /\ view' = Loaded([Cancelled(IF view.instance = instance THEN view
                                 ELSE [EmptyView EXCEPT !.instance = instance,
                                                        !.reads = view.reads])
                         EXCEPT !.conn = "loading", !.rebase = FALSE, !.rebased = FALSE,
                                !.buffered = <<>>, !.overflow = FALSE],
                      "application")
    /\ Same /\ UNCHANGED faults

(* The button of the user.                                                 *)
RetryConnection ==
    /\ view.conn = "failed"
    /\ view' = [view EXCEPT !.conn = "down"]
    /\ Same /\ UNCHANGED <<stream, faults>>

Numbered(n) == [sequence |-> n, type |-> log[n].type, step |-> log[n].step]
Lagging == Len(log) - stream.position > Capacity

(* onEvent                                                                 *)
Received(v, e) ==
    IF v.conn = "live" THEN Applied(v, e)
    ELSE IF v.overflow THEN v
    ELSE IF Len(v.buffered) < MaxBuffer THEN [v EXCEPT !.buffered = Append(@, e)]
    ELSE [v EXCEPT !.overflow = TRUE, !.buffered = <<>>]

(* onGap                                                                   *)
Gapped(v) == IF v.conn = "live" THEN Gap(v) ELSE [v EXCEPT !.overflow = TRUE]

Receive ==
    /\ view.conn \in {"loading", "live"}
    /\ ~stream.closed /\ stream.position < Len(log) /\ ~Lagging
    /\ stream' = [stream EXCEPT !.position = @ + 1]
    /\ view' = Received(view, Numbered(stream.position + 1))
    /\ Same /\ UNCHANGED faults

(* dispatchFrame: a frame that cannot be decoded counts as a gap.          *)
ReceiveBadFrame ==
    /\ Fault("frame")
    /\ view.conn \in {"loading", "live"}
    /\ ~stream.closed /\ stream.position < Len(log) /\ ~Lagging
    /\ stream' = [stream EXCEPT !.position = @ + 1]
    /\ view' = Gapped(view)
    /\ Same

(* project_events: stream_gap, then the end of the stream.                 *)
Lag ==
    /\ view.conn \in {"loading", "live"} /\ ~stream.closed /\ Lagging
    /\ stream' = [stream EXCEPT !.closed = TRUE]
    /\ view' = Gapped(view)
    /\ Same /\ UNCHANGED faults

Drop ==
    /\ Fault("drop")
    /\ view.conn \in {"loading", "live"} /\ ~stream.closed
    /\ stream' = [stream EXCEPT !.closed = TRUE]
    /\ Same /\ UNCHANGED view

(* #handleStreamClosed and #scheduleReconnect                              *)
StreamClosed ==
    /\ view.conn = "live" /\ stream.closed
    /\ view' = [Cancelled(view) EXCEPT !.conn = "down"]
    /\ Same /\ UNCHANGED <<stream, faults>>

(* What the runtime promises: see Snapshots.  A read that was asked after   *)
(* the answer to another does not find less than that one did.             *)
Answer(k) ==
    /\ view.reads[k].stage = "asked" /\ view.instance = instance
    /\ \E body \in store.announced .. store.body :
         /\ body >= view[k].body
         /\ view' = [view EXCEPT !.reads[k] =
              [view.reads[k] EXCEPT !.stage = "replied",
                 !.reply = [sequence |-> Len(log), configuration |-> store.configuration,
                            body |-> body,
                            step |-> IF k = "session" THEN live.step ELSE 0,
                            text |-> IF k = "session" THEN live.text ELSE 0]]]
    /\ Same /\ UNCHANGED <<stream, faults>>

(* Busy until the retries are used up, or out of time.                     *)
AnswerFails(k) ==
    /\ view.reads[k].stage = "asked"
    /\ view' = Failed(view, k)
    /\ Same /\ UNCHANGED <<stream, faults>>

(* A request to a process that is gone breaks; while connecting that is a  *)
(* reason to try again by itself.                                          *)
AnswerLost(k) ==
    /\ view.reads[k].stage = "asked" /\ view.instance # instance
    /\ view' = IF view.conn = "loading" THEN [Cancelled(view) EXCEPT !.conn = "down"]
               ELSE Failed(view, k)
    /\ Same /\ UNCHANGED <<stream, faults>>

(* A reply to the first read of a connection.                              *)
Opened(v, answer) ==
    Loaded(AllApplied([Based(Ended(v, "application", TRUE), answer)
                          EXCEPT !.conn = "live", !.buffered = <<>>],
                      answer.sequence, v.buffered),
           "session")
ReplyWhileLoading ==
    LET rd == view.reads["application"] IN
    /\ view.conn = "loading" /\ rd.stage = "replied"
    /\ view' = IF view.overflow
               THEN IF rd.attempt < Retries
                    THEN [Retried(view, "application") EXCEPT !.buffered = <<>>,
                                                             !.overflow = FALSE]
                    ELSE Failed(view, "application")
               ELSE IF stream.closed THEN [Cancelled(view) EXCEPT !.conn = "down"]
               ELSE Opened(view, rd.reply)
    /\ Same /\ UNCHANGED <<stream, faults>>

(* A reply to any other read.                                              *)
Reply(k) ==
    LET rd == view.reads[k] IN
    /\ rd.stage = "replied" /\ ~(k = "application" /\ view.conn = "loading")
    /\ view' = IF rd.overflow
               THEN IF rd.attempt < Retries THEN Retried(view, k) ELSE Failed(view, k)
               ELSE Ended(IF k = "application"
                          THEN ApplicationApplied(view, rd.reply, rd.events)
                          ELSE SessionApplied(view, rd.reply, rd.events), k, TRUE)
    /\ Same /\ UNCHANGED <<stream, faults>>

RefreshTimer ==
    /\ view.timer # {}
    /\ view' = LET off == [view EXCEPT !.timer = {}] IN
               IF view.conn = "failed" THEN off
               ELSE LET a == IF "application" \in view.timer
                             THEN Loaded(off, "application") ELSE off
                    IN IF "session" \in view.timer THEN Loaded(a, "session") ELSE a
    /\ Same /\ UNCHANGED <<stream, faults>>

(* The user opens the session; nothing keeps it back while connecting.     *)
OpenSession ==
    /\ Fault("open")
    /\ view.conn = "loading"
    /\ view.reads["session"].stage = "none"
    /\ view' = Loaded(view, "session")
    /\ Same /\ UNCHANGED stream
Progress == \/ ProjectDelta \/ AnnounceStep \/ Connect \/ Receive \/ Lag \/ StreamClosed
            \/ ReplyWhileLoading \/ RefreshTimer
            \/ \E k \in Reads : Answer(k) \/ AnswerLost(k) \/ Reply(k)
Next == \/ Progress
        \/ ChangeConfiguration \/ StartStep \/ EmitDelta \/ CommitStep
        \/ RestartRuntime \/ RetryConnection \/ ReceiveBadFrame \/ Drop \/ OpenSession
        \/ \E k \in Reads : AnswerFails(k)

(* Nothing stands still that only waits for the program: neither the       *)
(* runtime's tasks, nor the stream, nor an answer, nor a timer.            *)
Spec == Init /\ [][Next]_vars /\ WF_vars(Progress)
-----------------------------------------------------------------------------
(* ---- properties ------------------------------------------------------------ *)
Snapshot == [configuration : Nat, body : 0 .. MaxSteps, sequence : 0 .. MaxSequence]

(* Every variable keeps its type, and no buffer exceeds its limit.         *)
TypeOK ==
    /\ instance \in 0 .. 1 /\ faults \subseteq Faults /\ Len(log) <= MaxSequence
    /\ store.announced <= store.body /\ store.body <= live.step
    /\ live.step <= MaxSteps /\ live.text + live.owed <= MaxDeltas
    /\ stream.position <= MaxSequence
    /\ view.conn \in {"down", "loading", "live", "failed"}
    /\ view.application \in Snapshot /\ view.session \in Snapshot
    /\ view.timer \subseteq Reads /\ view.errors \subseteq Reads
    /\ Len(view.buffered) <= MaxBuffer
    /\ \A k \in Reads : /\ view.reads[k].stage \in {"none", "asked", "replied"}
                        /\ view.reads[k].attempt <= Retries
                        /\ Len(view.reads[k].events) <= MaxBuffer

ApplicationInSync == /\ view.application.configuration = store.configuration
                     /\ view.application.body = store.body
SessionInSync == /\ view.session.configuration = store.configuration
                 /\ view.session.body = store.body
Quiet == /\ view.conn = "live" /\ ~stream.closed /\ stream.position = Len(log)
         /\ view.timer = {} /\ \A k \in Reads : view.reads[k].stage = "none"
         /\ store.announced = store.body

(* Neither was the session read before the first application snapshot of a *)
(* connection, nor was a gap reported on a stream that went on.            *)
InOrder == faults \cap {"open", "frame"} = {}

(* When a connected client has nothing left to do and has shown no error,  *)
(* what it shows is what the runtime has: no change was overlooked between *)
(* an answer, the events before and after it, and a refresh.               *)
NothingIsForgotten ==
    /\ TypeOK
    /\ Quiet /\ view.errors = {} /\ InOrder =>
         ApplicationInSync /\ SessionInSync /\ ~view.rebase

Deltas(s, n) == Cardinality({i \in 1 .. n : log[i] = Event("text_delta", s)})
Latest == IF view.observed > view.session.sequence THEN view.observed
          ELSE view.session.sequence

(* While a stream is open and the session has been read on it, the text    *)
(* that is still being written has no hole and no piece twice, however     *)
(* snapshots and pieces of it have overtaken each other.                   *)
TextIsAlwaysExact ==
    view.conn = "live" /\ ~stream.closed /\ view.rebased =>
        \A s \in Steps \ view.shown.sealed : view.shown.text[s] = Deltas(s, Latest)

(* A recorded step is not shown a second time as text being written, once  *)
(* the live projection has a snapshot to start from.                       *)
NoTextTwice ==
    view.shown.known => \A s \in Steps : s <= view.session.body => view.shown.text[s] = 0

(* So it is, unless a session was read before its connection had a         *)
(* position in the stream, or a gap reported on a stream that went on.     *)
TextIsExact == InOrder => TextIsAlwaysExact /\ NoTextTwice

(* Once the runtime is quiet, the client shows what it has, or tells the   *)
(* user that it does not.                                                  *)
Settled == \/ Quiet /\ ApplicationInSync /\ SessionInSync
           \/ view.conn = "failed" \/ view.errors # {}
Settles == []<>(InOrder => Settled)
=============================================================================
