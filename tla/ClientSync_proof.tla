-------------------------- MODULE ClientSync_proof --------------------------
EXTENDS ClientSync, SequenceFacts

EventTypes == {"config_changed", "step_started", "text_delta", "step_committed"}
EventRecord == [type : EventTypes, step : Nat]
NumberedEvent == [sequence : Nat, type : EventTypes, step : Nat]
Held == [configuration : Nat, body : Nat, sequence : Nat]
Reported == [sequence : Nat, configuration : Nat, body : Nat, step : Nat, text : Nat]
Shown == [known : BOOLEAN, sealed : SUBSET Nat, text : [Steps -> Nat]]
Read == [stage : {"none", "asked", "replied"}, reply : Reported, events : Seq(NumberedEvent),
         overflow : BOOLEAN, pending : BOOLEAN, attempt : Nat]
View == [conn : {"down", "loading", "live", "failed"}, instance : Nat, observed : Nat,
         rebase : BOOLEAN, application : Held, session : Held, shown : Shown,
         buffered : Seq(NumberedEvent), overflow : BOOLEAN, reads : [Reads -> Read],
         timer : SUBSET Reads, errors : SUBSET Reads, rebased : BOOLEAN]

InstanceState == instance = IF "restart" \in faults THEN 1 ELSE 0

\* The runtime keeps to its bounds.
RuntimeBounds ==
  /\ instance \in Nat /\ log \in Seq(EventRecord)
  /\ store \in [configuration : Nat, body : Nat, announced : Nat]
  /\ live \in [step : Nat, text : Nat, owed : Nat]
  /\ store.announced <= store.body /\ store.body <= live.step /\ live.step <= MaxSteps
  /\ live.text + live.owed <= MaxDeltas
  /\ Len(log) + live.owed + (store.body - store.announced) <= MaxSequence

\* What a client holds fits.
ReadFits(x, body) ==
  /\ x.attempt <= Retries /\ Len(x.events) <= MaxBuffer
  /\ x.reply.body <= body /\ x.reply.sequence <= MaxSequence
Fits(v, body) ==
  /\ Len(v.buffered) <= MaxBuffer
  /\ v.application.body <= body /\ v.session.body <= body
  /\ v.application.sequence <= MaxSequence /\ v.session.sequence <= MaxSequence
  /\ \A k \in Reads : ReadFits(v.reads[k], body)

\* The log tells the text of a step after its start, and no text of steps to come.
Written ==
  /\ live.text = Deltas(live.step, Len(log))
  /\ \A i \in DOMAIN log : log[i].step <= live.step
  /\ \A i, j \in DOMAIN log :
       log[i] = Event("step_started", log[j].step) /\ log[j].type = "text_delta" => i < j

\* x has everything that the first n events announced.
Covers(x, n) ==
  /\ (\A i \in DOMAIN log : i > n => log[i].type # "config_changed")
       => x.configuration = store.configuration
  /\ (\A i \in DOMAIN log : i > n => log[i].type # "step_committed")
       => x.body >= store.announced

\* The text of a reply is the log's up to its watermark.
Tells(x) ==
  \A s \in Steps : s >= x.step => Deltas(s, x.sequence) = IF s = x.step THEN x.text ELSE 0

AnswersOf(v) ==
  v.instance = instance =>
    \A k \in Reads :
      /\ v[k].sequence <= Len(log)
      /\ v.reads[k].stage = "replied" =>
           LET x == v.reads[k].reply IN
           /\ v[k].sequence <= x.sequence /\ x.sequence <= Len(log)
           /\ Covers(x, x.sequence)
           /\ k = "session" => Tells(x)

\* A recorded step has no text being written.
Sealing(v) ==
  /\ \A s \in Steps : s \in v.shown.sealed => v.shown.text[s] = 0
  /\ v.shown.known => 1 .. v.session.body \subseteq v.shown.sealed

Ordered(f) == f \cap {"open", "frame"} = {}

\* A client that connects has every event after its subscription, until it has too many.
Opening(v, st, f) ==
  Ordered(f) /\ v.conn = "loading" /\ ~st.closed =>
    /\ v.instance = instance /\ ~v.rebase /\ ~v.rebased /\ v.timer = {}
    /\ st.position <= Len(log)
    /\ v.reads["session"].stage = "none"
    /\ v.reads["application"].stage # "none" /\ ~v.reads["application"].pending
    /\ ~v.overflow =>
         LET n == st.position - Len(v.buffered)  x == v.reads["application"] IN
         /\ n >= 0
         /\ \A i \in DOMAIN v.buffered : v.buffered[i] = Numbered(n + i)
         /\ x.stage = "replied" => x.reply.sequence >= n

\* What the events have announced is held, asked for, or was not to be had.
Owed(v, k) ==
  \/ k \in v.errors
  \/ v.reads[k].stage = "none" /\ (k \in v.timer \/ Covers(v[k], v.observed))
  \/ /\ v.reads[k].stage # "none"
     /\ \/ v.reads[k].pending
        \/ v.reads[k].stage = "asked"
        \/ Covers(v.reads[k].reply, v.observed)

Heard(v, x) ==
  x.stage # "none" /\ ~x.overflow =>
    /\ \A i \in DOMAIN x.events :
         /\ x.events[i].sequence \in 1 .. v.observed
         /\ x.events[i] = Numbered(x.events[i].sequence)
    /\ \A i, j \in DOMAIN x.events : i < j => x.events[i].sequence < x.events[j].sequence
    /\ x.stage = "replied" =>
         \A n \in x.reply.sequence + 1 .. v.observed :
           log[n].type # "config_changed" => \E i \in DOMAIN x.events : x.events[i].sequence = n

ExactAt(shown, n) == \A s \in Steps \ shown.sealed : shown.text[s] = Deltas(s, n)
LatestOf(v) == IF v.observed > v.session.sequence THEN v.observed ELSE v.session.sequence

Stands(v) ==
  /\ v.instance = instance /\ ~v.rebase
  /\ v.observed <= Len(log)
  /\ Owed(v, "application")
  /\ v.rebased => v.shown.known /\ ExactAt(v.shown, LatestOf(v))

Following(v, st, f) ==
  Ordered(f) /\ v.conn = "live" /\ ~st.closed =>
    /\ Stands(v) /\ st.position <= v.observed
    /\ Owed(v, "session")
    /\ Heard(v, v.reads["session"])

\* A client as it may be when the runtime has recorded b steps.
Sound(b) == {v \in View : Fits(v, b) /\ Sealing(v)}

Client(v, st, f) ==
  /\ v \in Sound(store.body) /\ v.instance <= instance
  /\ st \in [position : Nat, closed : BOOLEAN] /\ st.position <= MaxSequence
  /\ AnswersOf(v) /\ Opening(v, st, f) /\ Following(v, st, f)

IInv == /\ faults \subseteq Faults /\ InstanceState
        /\ RuntimeBounds /\ Written
        /\ Client(view, stream, faults)

-----------------------------------------------------------------------------
(* What an event does to the text that is shown *)

LEMMA TextGoesOn ==
  ASSUME NEW shown \in Shown, NEW e \in NumberedEvent,
         \A s \in Steps : s \in shown.sealed => shown.text[s] = 0
  PROVE  LET w == LiveApplied(shown, e) IN
         /\ w \in Shown
         /\ \A s \in Steps : s \in w.sealed => w.text[s] = 0
         /\ w.known => shown.known /\ shown.sealed \subseteq w.sealed
         /\ shown.known => w.known
<1> DEFINE w == LiveApplied(shown, e)
           Right(x) == /\ x \in Shown
                       /\ \A s \in Steps : s \in x.sealed => x.text[s] = 0
                       /\ x.known => shown.known /\ shown.sealed \subseteq x.sealed
                       /\ shown.known => x.known
<1>1. /\ shown.known \in BOOLEAN /\ shown.sealed \in SUBSET Nat /\ shown.text \in [Steps -> Nat]
      /\ e.step \in Nat /\ e.type \in EventTypes
  BY DEF Shown, NumberedEvent
<1>2. CASE e.type = "step_committed" /\ shown.known
  <2> DEFINE x == [shown EXCEPT !.sealed = @ \cup {e.step}, !.text[e.step] = 0]
  <2>1. w = x
    BY <1>2 DEF LiveApplied
  <2>2. /\ x.known = shown.known /\ x.sealed = shown.sealed \cup {e.step}
        /\ x.text = [shown.text EXCEPT ![e.step] = 0] /\ x \in Shown
    BY <1>1 DEF Shown
  <2>3. Right(x)
    BY <1>1, <2>2
  <2> QED BY <2>1, <2>3
<1>3. CASE e.type = "step_committed" /\ ~shown.known
  <2>1. w = Nothing
    BY <1>3 DEF LiveApplied
  <2>2. Nothing \in Shown /\ Nothing.known = FALSE /\ Nothing.sealed = {}
    BY DEF Nothing, Shown
  <2>3. Right(Nothing)
    BY <1>3, <2>2
  <2> QED BY <2>1, <2>3
<1>4. CASE e.type = "step_started" /\ e.step \notin shown.sealed
  <2> DEFINE x == [shown EXCEPT !.text[e.step] = 0]
  <2>1. w = x
    BY <1>4 DEF LiveApplied
  <2>2. /\ x.known = shown.known /\ x.sealed = shown.sealed
        /\ x.text = [shown.text EXCEPT ![e.step] = 0] /\ x \in Shown
    BY <1>1 DEF Shown
  <2>3. Right(x)
    BY <1>1, <2>2
  <2> QED BY <2>1, <2>3
<1>5. CASE e.type = "text_delta" /\ e.step \notin shown.sealed
  <2> DEFINE x == [shown EXCEPT !.text[e.step] = @ + 1]
  <2>1. w = x
    BY <1>5 DEF LiveApplied
  <2>2. /\ x.known = shown.known /\ x.sealed = shown.sealed
        /\ x.text = [shown.text EXCEPT ![e.step] = @ + 1] /\ x \in Shown
    BY <1>1 DEF Shown
  <2>3. Right(x)
    BY <1>1, <1>5, <2>2
  <2> QED BY <2>1, <2>3
<1>6. CASE \/ e.type = "config_changed"
           \/ e.type \in {"step_started", "text_delta"} /\ e.step \in shown.sealed
  <2>1. w = shown
    BY <1>6 DEF LiveApplied
  <2> QED BY <2>1
<1> HIDE DEF w, Right
<1>7. Right(w)
  BY <1>1, <1>2, <1>3, <1>4, <1>5, <1>6 DEF EventTypes, w, Right
<1> QED BY <1>7 DEF Right, w

-----------------------------------------------------------------------------
(* The reads under way *)

\* w is v some steps later: what is held is the same, an answer is one that had come before.
Later(v, w) ==
  /\ w.instance = v.instance /\ w.application = v.application /\ w.session = v.session
  /\ \A k \in Reads : w.reads[k].stage = "replied" =>
       v.reads[k].stage = "replied" /\ w.reads[k].reply = v.reads[k].reply

\* w differs from v in the reads, the timer and the errors only.
Alike(v, w) ==
  /\ w.conn = v.conn /\ w.instance = v.instance /\ w.observed = v.observed
  /\ w.rebase = v.rebase /\ w.application = v.application /\ w.session = v.session
  /\ w.shown = v.shown /\ w.buffered = v.buffered /\ w.overflow = v.overflow
  /\ w.rebased = v.rebased

LEMMA AlikeSound ==
  ASSUME NEW b, NEW v \in Sound(b), NEW w \in View, Alike(v, w),
         \A k \in Reads : ReadFits(w.reads[k], b)
  PROVE  w \in Sound(b)
<1>1. v \in View /\ Fits(v, b) /\ Sealing(v)
  BY DEF Sound
<1>2. Fits(w, b) /\ Sealing(w)
  BY <1>1 DEF Fits, Sealing, Alike
<1> QED BY <1>2 DEF Sound

LEMMA NewReads ==
  ASSUME NEW b, NEW v \in Sound(b), NEW R \in [Reads -> Read], \A k \in Reads : ReadFits(R[k], b)
  PROVE  LET w == [v EXCEPT !.reads = R] IN
         w \in Sound(b) /\ Alike(v, w) /\ w.reads = R /\ w.timer = v.timer /\ w.errors = v.errors
<1> DEFINE w == [v EXCEPT !.reads = R]
<1>1. v \in View
  BY DEF Sound
<1>2. w \in View /\ w.reads = R /\ w.timer = v.timer /\ w.errors = v.errors
  BY <1>1 DEF View
<1>3. Alike(v, w)
  BY <1>1 DEF View, Alike
<1> HIDE DEF w
<1>4. w \in Sound(b)
  BY <1>2, <1>3, AlikeSound
<1> QED BY <1>2, <1>3, <1>4 DEF w

LEMMA NoReadIs == /\ NoRead \in Read /\ NoRead.stage = "none" /\ NoRead.events = <<>>
                  /\ NoRead.reply = NoReply /\ ~NoRead.pending /\ ~NoRead.overflow
                  /\ NoRead.attempt = 0 /\ NoReply.body = 0 /\ NoReply.sequence = 0
                  /\ Len(<<>>) = 0 /\ <<>> \in Seq(NumberedEvent)
<1>1. NoReply \in Reported /\ NoReply.body = 0 /\ NoReply.sequence = 0
  BY DEF NoReply, Reported
<1>2. <<>> \in Seq(NumberedEvent) /\ Len(<<>>) = 0
  OBVIOUS
<1>3. /\ NoRead.stage = "none" /\ NoRead.reply = NoReply /\ NoRead.events = <<>>
      /\ NoRead.overflow = FALSE /\ NoRead.pending = FALSE /\ NoRead.attempt = 0
  BY DEF NoRead
<1>4. NoRead \in Read
  BY <1>1, <1>2 DEF NoRead, Read
<1> QED BY <1>1, <1>2, <1>3, <1>4

\* An event is put beside the reads of these kinds that are under way, as far as they have room.
LEMMA BufferedIs ==
  ASSUME NEW b \in Nat, NEW v \in Sound(b), NEW e \in NumberedEvent, NEW kinds \in SUBSET Reads
  PROVE  LET w == Buffered(v, e, kinds) IN
         /\ w \in Sound(b) /\ Later(v, w)
         /\ Alike(v, w) /\ w.timer = v.timer /\ w.errors = v.errors
         /\ \A k \in Reads :
              /\ w.reads[k].stage = v.reads[k].stage /\ w.reads[k].reply = v.reads[k].reply
              /\ w.reads[k].pending = v.reads[k].pending
              /\ k \notin kinds => w.reads[k] = v.reads[k]
              /\ v.reads[k].overflow => w.reads[k].overflow
              /\ k \in kinds /\ w.reads[k].stage # "none" /\ ~w.reads[k].overflow =>
                   w.reads[k].events = Append(v.reads[k].events, e)
<1> DEFINE Next1(x) == WithEvent(x, e)
           R == [k \in Reads |->
                  IF k \notin kinds \/ v.reads[k].stage = "none" \/ v.reads[k].overflow
                  THEN v.reads[k] ELSE Next1(v.reads[k])]
           w == [v EXCEPT !.reads = R]
<1>1. v \in View /\ \A k \in Reads : v.reads[k] \in Read /\ ReadFits(v.reads[k], b)
  BY DEF Sound, View, Fits
<1>2. MaxBuffer \in Nat
  BY ClientSyncAssumption
<1>3. ASSUME NEW x \in Read, ReadFits(x, b)
      PROVE  /\ Next1(x) \in Read /\ ReadFits(Next1(x), b)
             /\ Next1(x).stage = x.stage /\ Next1(x).reply = x.reply
             /\ Next1(x).pending = x.pending /\ (x.overflow => Next1(x).overflow)
             /\ ~Next1(x).overflow => Next1(x).events = Append(x.events, e)
  <2>1. x.events \in Seq(NumberedEvent) /\ Len(x.events) \in Nat /\ Len(<<>>) = 0
        /\ <<>> \in Seq(NumberedEvent)
    BY DEF Read
  <2>2. CASE Len(x.events) >= MaxBuffer
    <3> DEFINE y == [x EXCEPT !.overflow = TRUE, !.events = <<>>]
    <3>1. /\ y \in Read /\ y.stage = x.stage /\ y.reply = x.reply /\ y.pending = x.pending
          /\ y.attempt = x.attempt /\ y.overflow = TRUE /\ y.events = <<>>
      BY <2>1 DEF Read
    <3>2. Next1(x) = y
      BY <2>2 DEF WithEvent
    <3> HIDE DEF y, Next1
    <3> QED BY <1>2, <1>3, <2>1, <3>1, <3>2 DEF ReadFits
  <2>3. CASE Len(x.events) < MaxBuffer
    <3> DEFINE y == [x EXCEPT !.events = Append(@, e)]
    <3>1. Append(x.events, e) \in Seq(NumberedEvent)
          /\ Len(Append(x.events, e)) = Len(x.events) + 1
      BY <2>1
    <3>2. /\ y \in Read /\ y.stage = x.stage /\ y.reply = x.reply /\ y.pending = x.pending
          /\ y.attempt = x.attempt /\ y.overflow = x.overflow /\ y.events = Append(x.events, e)
      BY <3>1 DEF Read
    <3>3. Next1(x) = y
      BY <1>2, <2>1, <2>3 DEF WithEvent
    <3> HIDE DEF y, Next1
    <3> QED BY <1>2, <1>3, <2>1, <2>3, <3>1, <3>2, <3>3 DEF ReadFits
  <2> QED BY <1>2, <2>1, <2>2, <2>3
<1> HIDE DEF Next1
<1>4. R \in [Reads -> Read] /\ \A k \in Reads : ReadFits(R[k], b)
  BY <1>1, <1>3
<1>5. \A k \in Reads :
        /\ R[k].stage = v.reads[k].stage /\ R[k].reply = v.reads[k].reply
        /\ R[k].pending = v.reads[k].pending
        /\ k \notin kinds => R[k] = v.reads[k]
        /\ v.reads[k].overflow => R[k].overflow
        /\ k \in kinds /\ R[k].stage # "none" /\ ~R[k].overflow =>
             R[k].events = Append(v.reads[k].events, e)
  BY <1>1, <1>3
<1>6. Buffered(v, e, kinds) = w
  BY DEF Buffered, Next1
<1> HIDE DEF R
<1>7. w \in Sound(b) /\ Alike(v, w) /\ w.reads = R /\ w.timer = v.timer /\ w.errors = v.errors
  BY <1>4, NewReads
<1> HIDE DEF w
<1>8. Later(v, w)
  BY <1>5, <1>7 DEF Later, Alike
<1> QED BY <1>5, <1>6, <1>7, <1>8

\* Every read under way is repeated, the others start with the timer.
LEMMA ScheduledIs ==
  ASSUME NEW b \in Nat, NEW v \in Sound(b), NEW kinds \in SUBSET Reads
  PROVE  LET w == Scheduled(v, kinds) IN
         /\ w \in Sound(b) /\ Later(v, w) /\ Alike(v, w) /\ w.errors = v.errors
         /\ v.timer \subseteq w.timer
         /\ \A k \in kinds : IF v.reads[k].stage = "none" THEN k \in w.timer
                             ELSE w.reads[k].pending
         /\ \A k \in Reads :
              /\ w.reads[k].stage = v.reads[k].stage /\ w.reads[k].reply = v.reads[k].reply
              /\ w.reads[k].events = v.reads[k].events
              /\ w.reads[k].overflow = v.reads[k].overflow
              /\ v.reads[k].pending => w.reads[k].pending
<1> DEFINE Waiting(x) == [x EXCEPT !.pending = TRUE]
           R == [k \in Reads |-> IF k \in kinds /\ v.reads[k].stage # "none"
                                 THEN Waiting(v.reads[k]) ELSE v.reads[k]]
           T == v.timer \cup {k \in kinds : v.reads[k].stage = "none"}
           w == [v EXCEPT !.timer = T, !.reads = R]
<1>1. v \in View /\ \A k \in Reads : v.reads[k] \in Read /\ ReadFits(v.reads[k], b)
  BY DEF Sound, View, Fits
<1>2. ASSUME NEW x \in Read
      PROVE  LET y == Waiting(x) IN
             /\ y \in Read /\ y.stage = x.stage /\ y.reply = x.reply /\ y.events = x.events
             /\ y.overflow = x.overflow /\ y.attempt = x.attempt /\ y.pending = TRUE
  BY DEF Read
<1> HIDE DEF Waiting
<1>3. R \in [Reads -> Read] /\ \A k \in Reads : ReadFits(R[k], b)
  BY <1>1, <1>2 DEF ReadFits
<1>4. \A k \in Reads :
        /\ R[k].stage = v.reads[k].stage /\ R[k].reply = v.reads[k].reply
        /\ R[k].events = v.reads[k].events /\ R[k].overflow = v.reads[k].overflow
        /\ v.reads[k].pending => R[k].pending
        /\ k \in kinds /\ v.reads[k].stage # "none" => R[k].pending
  BY <1>1, <1>2
<1>5. T \in SUBSET Reads /\ v.timer \subseteq T
      /\ \A k \in kinds : v.reads[k].stage = "none" => k \in T
  BY <1>1 DEF View
<1>6. Scheduled(v, kinds) = w
  BY DEF Scheduled, Waiting
<1> HIDE DEF R, T
<1>7. w \in View /\ w.reads = R /\ w.timer = T /\ w.errors = v.errors
  BY <1>1, <1>3, <1>5 DEF View
<1>8. Alike(v, w)
  BY <1>1 DEF View, Alike
<1> HIDE DEF w
<1>9. w \in Sound(b)
  BY <1>3, <1>7, <1>8, AlikeSound
<1>10. Later(v, w)
  BY <1>4, <1>7, <1>8 DEF Later, Alike
<1> QED BY <1>4, <1>5, <1>6, <1>7, <1>8, <1>9, <1>10

\* A read begins, unless one of its kind is under way.
LEMMA LoadedIs ==
  ASSUME NEW b \in Nat, NEW v \in Sound(b), NEW k \in Reads
  PROVE  LET w == Loaded(v, k) IN
         /\ w \in Sound(b) /\ Later(v, w) /\ Alike(v, w) /\ w.timer = v.timer
         /\ w.errors \subseteq v.errors /\ v.errors \subseteq w.errors \cup {k}
         /\ \A j \in Reads : j # k => w.reads[j] = v.reads[j]
         /\ IF v.reads[k].stage # "none" THEN w = v
            ELSE w.reads[k].stage = "asked" /\ w.reads[k].events = <<>>
                 /\ ~w.reads[k].pending
<1> DEFINE x == [NoRead EXCEPT !.stage = "asked"]
           w == [v EXCEPT !.reads[k] = x, !.errors = @ \ {k}]
<1>1. v \in View /\ \A j \in Reads : v.reads[j] \in Read /\ ReadFits(v.reads[j], b)
  BY DEF Sound, View, Fits
<1>2. CASE v.reads[k].stage # "none"
  <2>1. Loaded(v, k) = v
    BY <1>2 DEF Loaded
  <2> QED BY <1>1, <1>2, <2>1 DEF Later, Alike
<1>3. CASE v.reads[k].stage = "none"
  <2>1. /\ x \in Read /\ x.stage = "asked" /\ x.events = <<>> /\ x.attempt = 0
        /\ x.reply.body = 0 /\ x.reply.sequence = 0 /\ Len(x.events) = 0 /\ ~x.pending
    BY NoReadIs DEF Read
  <2>2. ReadFits(x, b)
    BY <2>1, ClientSyncAssumption DEF ReadFits
  <2>3. Loaded(v, k) = w
    BY <1>3 DEF Loaded
  <2> HIDE DEF x
  <2>4. /\ w \in View /\ w.reads = [v.reads EXCEPT ![k] = x] /\ w.errors = v.errors \ {k}
        /\ w.timer = v.timer
    BY <1>1, <2>1 DEF View
  <2>5. Alike(v, w)
    BY <1>1 DEF View, Alike
  <2> HIDE DEF w
  <2>6. w.reads[k] = x /\ \A j \in Reads : j # k => w.reads[j] = v.reads[j]
    BY <1>1, <2>4 DEF View
  <2>7. w \in Sound(b)
    BY <1>1, <2>2, <2>4, <2>5, <2>6, AlikeSound
  <2>8. Later(v, w)
    BY <2>1, <2>5, <2>6 DEF Later, Alike
  <2> QED BY <1>3, <2>1, <2>3, <2>4, <2>5, <2>6, <2>7, <2>8
<1> QED BY <1>2, <1>3

\* All reads are given up.
LEMMA CancelledIs ==
  ASSUME NEW b \in Nat, NEW v \in Sound(b)
  PROVE  LET w == Cancelled(v) IN
         /\ w \in Sound(b) /\ Later(v, w) /\ Alike(v, w) /\ w.timer = v.timer
         /\ w.errors = v.errors /\ \A k \in Reads : w.reads[k] = NoRead
<1> DEFINE R == [k \in Reads |-> NoRead]
<1>1. R \in [Reads -> Read] /\ \A k \in Reads : R[k] = NoRead
  BY NoReadIs
<1>2. ReadFits(NoRead, b)
  BY NoReadIs, ClientSyncAssumption DEF ReadFits
<1> HIDE DEF R
<1>3. LET w == [v EXCEPT !.reads = R] IN
      w \in Sound(b) /\ Alike(v, w) /\ w.reads = R /\ w.timer = v.timer /\ w.errors = v.errors
  BY <1>1, <1>2, NewReads
<1>4. Cancelled(v) = [v EXCEPT !.reads = R]
  BY DEF Cancelled, R
<1>5. Later(v, Cancelled(v))
  BY <1>1, <1>3, <1>4, NoReadIs DEF Later, Alike
<1> QED BY <1>1, <1>3, <1>4, <1>5

\* A read is over; if it ended well and was asked for again meanwhile, it is repeated.
LEMMA EndedIs ==
  ASSUME NEW b \in Nat, NEW v \in Sound(b), NEW k \in Reads, NEW succeeded \in BOOLEAN
  PROVE  LET w == Ended(v, k, succeeded) IN
         /\ w \in Sound(b) /\ Later(v, w) /\ Alike(v, w) /\ w.errors = v.errors
         /\ w.reads[k].stage = "none"
         /\ v.timer \subseteq w.timer
         /\ IF succeeded /\ v.reads[k].pending THEN k \in w.timer ELSE w.timer = v.timer
         /\ \A j \in Reads : j # k =>
              /\ w.reads[j].stage = v.reads[j].stage /\ w.reads[j].reply = v.reads[j].reply
              /\ w.reads[j].events = v.reads[j].events
              /\ w.reads[j].overflow = v.reads[j].overflow
              /\ v.reads[j].pending => w.reads[j].pending
<1> DEFINE R == [v.reads EXCEPT ![k] = NoRead]
           gone == [v EXCEPT !.reads = R]
           w == Ended(v, k, succeeded)
<1>1. v \in View /\ \A j \in Reads : v.reads[j] \in Read /\ ReadFits(v.reads[j], b)
  BY DEF Sound, View, Fits
<1>2. ReadFits(NoRead, b) /\ NoRead \in Read
  BY NoReadIs, ClientSyncAssumption DEF ReadFits
<1>3. /\ R \in [Reads -> Read] /\ R[k] = NoRead
      /\ \A j \in Reads : j # k => R[j] = v.reads[j]
  BY <1>1, <1>2 DEF View
<1>4. \A j \in Reads : ReadFits(R[j], b)
  BY <1>1, <1>2, <1>3
<1>5. w = IF succeeded /\ v.reads[k].pending THEN Scheduled(gone, {k}) ELSE gone
  BY DEF Ended
<1> HIDE DEF R, w
<1>6. /\ gone \in Sound(b) /\ Alike(v, gone) /\ gone.reads = R /\ gone.timer = v.timer
      /\ gone.errors = v.errors
  BY <1>3, <1>4, NewReads
<1> HIDE DEF gone
<1>7. Later(v, gone)
  BY <1>3, <1>6, NoReadIs DEF Later, Alike
<1>8. CASE ~(succeeded /\ v.reads[k].pending)
  BY <1>3, <1>5, <1>6, <1>7, <1>8, NoReadIs DEF w
<1>9. CASE succeeded /\ v.reads[k].pending
  <2> DEFINE x == Scheduled(gone, {k})
  <2>1. /\ x \in Sound(b) /\ Later(gone, x) /\ Alike(gone, x) /\ x.errors = gone.errors
        /\ gone.timer \subseteq x.timer
        /\ \A j \in {k} : IF gone.reads[j].stage = "none" THEN j \in x.timer
                          ELSE x.reads[j].pending
        /\ \A j \in Reads :
             /\ x.reads[j].stage = gone.reads[j].stage /\ x.reads[j].reply = gone.reads[j].reply
             /\ x.reads[j].events = gone.reads[j].events
             /\ x.reads[j].overflow = gone.reads[j].overflow
             /\ gone.reads[j].pending => x.reads[j].pending
    BY <1>6, ScheduledIs
  <2>2. w = x
    BY <1>5, <1>9
  <2> HIDE DEF x
  <2>3. Later(v, x) /\ Alike(v, x)
    BY <1>6, <1>7, <2>1 DEF Later, Alike
  <2>4. gone.reads[k].stage = "none" /\ k \in x.timer
    BY <1>3, <1>6, <2>1, NoReadIs
  <2>5. ASSUME NEW j \in Reads, j # k
        PROVE  /\ x.reads[j].stage = v.reads[j].stage /\ x.reads[j].reply = v.reads[j].reply
               /\ x.reads[j].events = v.reads[j].events
               /\ x.reads[j].overflow = v.reads[j].overflow
               /\ v.reads[j].pending => x.reads[j].pending
    <3>1. gone.reads[j] = v.reads[j]
      BY <1>3, <1>6, <2>5
    <3> QED BY <2>1, <3>1
  <2>6. x.reads[k].stage = "none" /\ v.timer \subseteq x.timer /\ x.errors = v.errors
    BY <1>6, <2>1, <2>4
  <2> QED BY <1>9, <2>1, <2>2, <2>3, <2>4, <2>5, <2>6 DEF w
<1> QED BY <1>8, <1>9

-----------------------------------------------------------------------------
(* What an event does to a client *)

\* A gap: everything is read anew.
LEMMA GapIs ==
  ASSUME NEW b \in Nat, NEW v \in Sound(b)
  PROVE  LET w == Gap(v) IN
         w \in Sound(b) /\ Later(v, w) /\ w.conn = v.conn
<1> DEFINE Late(x) == [x EXCEPT !.overflow = TRUE, !.events = <<>>]
           R == [k \in Reads |-> Late(v.reads[k])]
           g == [v EXCEPT !.rebase = TRUE, !.shown = Nothing, !.rebased = FALSE, !.reads = R]
<1>1. v \in View /\ Fits(v, b) /\ \A k \in Reads : v.reads[k] \in Read /\ ReadFits(v.reads[k], b)
  BY DEF Sound, View, Fits
<1>2. ASSUME NEW x \in Read, ReadFits(x, b)
      PROVE  /\ Late(x) \in Read /\ ReadFits(Late(x), b)
             /\ Late(x).stage = x.stage /\ Late(x).reply = x.reply
  <2>1. /\ Late(x) \in Read /\ Late(x).stage = x.stage /\ Late(x).reply = x.reply
        /\ Late(x).attempt = x.attempt /\ Late(x).events = <<>>
    BY NoReadIs DEF Read
  <2> HIDE DEF Late
  <2>2. Len(<<>>) = 0
    OBVIOUS
  <2> QED BY <1>2, <2>1, <2>2, ClientSyncAssumption DEF ReadFits
<1>3. CASE v.rebase
  <2>1. Gap(v) = v
    BY <1>3 DEF Gap
  <2> QED BY <2>1 DEF Later
<1>4. CASE ~v.rebase
  <2>1. Gap(v) = Loaded(Loaded(g, "application"), "session")
    BY <1>4 DEF Gap
  <2> HIDE DEF Late
  <2>2. /\ R \in [Reads -> Read]
        /\ \A k \in Reads : R[k].stage = v.reads[k].stage /\ R[k].reply = v.reads[k].reply
                            /\ ReadFits(R[k], b)
    BY <1>1, <1>2
  <2> HIDE DEF R
  <2>3. /\ Nothing \in Shown /\ ~Nothing.known
        /\ \A s \in Steps : s \in Nothing.sealed => Nothing.text[s] = 0
    BY DEF Nothing, Shown
  <2>4. /\ g \in View /\ g.reads = R /\ g.shown = Nothing /\ g.buffered = v.buffered
        /\ g.application = v.application /\ g.session = v.session /\ g.instance = v.instance
        /\ g.conn = v.conn
    BY <1>1, <2>2, <2>3 DEF View
  <2> HIDE DEF g
  <2>5. Fits(g, b) /\ Sealing(g)
    BY <1>1, <2>2, <2>3, <2>4 DEF Fits, Sealing
  <2>6. g \in Sound(b) /\ Later(v, g)
    BY <2>2, <2>4, <2>5 DEF Sound, Later
  <2> DEFINE a == Loaded(g, "application")
             z == Loaded(a, "session")
  <2>7. a \in Sound(b) /\ Later(g, a) /\ Alike(g, a)
    BY <2>6, LoadedIs DEF Reads
  <2> HIDE DEF a
  <2>8. z \in Sound(b) /\ Later(a, z) /\ Alike(a, z)
    BY <2>7, LoadedIs DEF Reads
  <2> HIDE DEF z
  <2>9. Later(v, z) /\ z.conn = v.conn
    BY <2>4, <2>6, <2>7, <2>8 DEF Later, Alike
  <2> QED BY <2>1, <2>8, <2>9 DEF a, z
<1> QED BY <1>3, <1>4

\* The next event is shown, put beside the reads under way and answered with a refresh.
LEMMA AppliedNext ==
  ASSUME NEW b \in Nat, NEW v \in Sound(b), NEW e \in NumberedEvent,
         ~v.rebase, e.sequence = v.observed + 1
  PROVE  LET w == Applied(v, e) IN
         /\ w \in Sound(b) /\ Later(v, w)
         /\ w.conn = v.conn /\ ~w.rebase /\ w.rebased = v.rebased /\ w.observed = e.sequence
         /\ w.shown = IF InOwnerSnapshot(v, e) THEN v.shown ELSE LiveApplied(v.shown, e)
         /\ w.errors = v.errors /\ v.timer \subseteq w.timer
         /\ \A k \in RefreshOf(e) : IF v.reads[k].stage = "none" THEN k \in w.timer
                                    ELSE w.reads[k].pending
         /\ \A k \in Reads :
              /\ w.reads[k].stage = v.reads[k].stage /\ w.reads[k].reply = v.reads[k].reply
              /\ v.reads[k].pending => w.reads[k].pending
         /\ LET x == v.reads["session"]  y == w.reads["session"] IN
            /\ x.overflow => y.overflow
            /\ y.stage # "none" /\ ~y.overflow =>
                 y.events = IF e.type = "config_changed" THEN x.events ELSE Append(x.events, e)
<1> DEFINE at == [v EXCEPT !.observed = e.sequence]
           kinds == IF e.type = "config_changed" THEN {} ELSE {"session"}
           accepted == Buffered(at, e, kinds)
           projected == IF InOwnerSnapshot(v, e) THEN accepted
                        ELSE [accepted EXCEPT !.shown = LiveApplied(accepted.shown, e)]
           w == Scheduled(projected, RefreshOf(e))
<1>1. v \in View /\ Fits(v, b) /\ Sealing(v) /\ v.observed \in Nat /\ e.sequence \in Nat
  BY DEF Sound, View, NumberedEvent
<1>2. Applied(v, e) = w
  <2>1. ~(e.sequence <= v.observed) /\ ~(e.sequence # v.observed + 1)
    BY <1>1
  <2> QED BY <2>1 DEF Applied
<1>3. /\ at \in View /\ at.observed = e.sequence /\ at.conn = v.conn /\ at.instance = v.instance
      /\ at.rebase = v.rebase /\ at.application = v.application /\ at.session = v.session
      /\ at.shown = v.shown /\ at.buffered = v.buffered /\ at.overflow = v.overflow
      /\ at.rebased = v.rebased /\ at.reads = v.reads /\ at.timer = v.timer /\ at.errors = v.errors
  BY <1>1 DEF View
<1> HIDE DEF at
<1>4. at \in Sound(b)
  BY <1>1, <1>3 DEF Sound, Fits, Sealing
<1>5. kinds \in SUBSET Reads /\ (e.type # "config_changed" => "session" \in kinds)
      /\ (e.type = "config_changed" => "session" \notin kinds) /\ "session" \in Reads
  BY DEF Reads
<1> HIDE DEF kinds
<1>6. /\ accepted \in Sound(b) /\ Later(at, accepted)
      /\ Alike(at, accepted) /\ accepted.timer = at.timer /\ accepted.errors = at.errors
      /\ \A k \in Reads :
           /\ accepted.reads[k].stage = at.reads[k].stage
           /\ accepted.reads[k].reply = at.reads[k].reply
           /\ accepted.reads[k].pending = at.reads[k].pending
           /\ k \notin kinds => accepted.reads[k] = at.reads[k]
           /\ at.reads[k].overflow => accepted.reads[k].overflow
           /\ k \in kinds /\ accepted.reads[k].stage # "none" /\ ~accepted.reads[k].overflow =>
                accepted.reads[k].events = Append(at.reads[k].events, e)
  BY <1>4, <1>5, BufferedIs
<1> HIDE DEF accepted
<1>7. accepted \in View /\ Fits(accepted, b) /\ Sealing(accepted) /\ accepted.shown = v.shown
  BY <1>3, <1>6 DEF Sound, Alike
<1>8. /\ projected \in View /\ projected.observed = accepted.observed
      /\ projected.conn = accepted.conn /\ projected.instance = accepted.instance
      /\ projected.rebase = accepted.rebase /\ projected.application = accepted.application
      /\ projected.session = accepted.session /\ projected.buffered = accepted.buffered
      /\ projected.rebased = accepted.rebased /\ projected.reads = accepted.reads
      /\ projected.timer = accepted.timer /\ projected.errors = accepted.errors
      /\ projected.shown = IF InOwnerSnapshot(v, e) THEN v.shown ELSE LiveApplied(v.shown, e)
      /\ Sealing(projected)
  <2>1. CASE InOwnerSnapshot(v, e)
    BY <1>7, <2>1
  <2>2. CASE ~InOwnerSnapshot(v, e)
    <3> DEFINE text == LiveApplied(accepted.shown, e)
               p == [accepted EXCEPT !.shown = text]
    <3>1. projected = p
      BY <2>2
    <3>2. accepted.shown \in Shown
          /\ \A s \in Steps : s \in accepted.shown.sealed => accepted.shown.text[s] = 0
      BY <1>7 DEF View, Sealing
    <3>3. /\ text \in Shown
          /\ \A s \in Steps : s \in text.sealed => text.text[s] = 0
          /\ text.known => accepted.shown.known /\ accepted.shown.sealed \subseteq text.sealed
      BY <3>2, TextGoesOn
    <3> HIDE DEF text, projected
    <3>4. /\ p \in View /\ p.observed = accepted.observed
          /\ p.conn = accepted.conn /\ p.instance = accepted.instance
          /\ p.rebase = accepted.rebase /\ p.application = accepted.application
          /\ p.session = accepted.session /\ p.buffered = accepted.buffered
          /\ p.rebased = accepted.rebased /\ p.reads = accepted.reads
          /\ p.timer = accepted.timer /\ p.errors = accepted.errors /\ p.shown = text
      BY <1>7, <3>3 DEF View
    <3> HIDE DEF p
    <3>5. Sealing(p)
      BY <1>7, <3>3, <3>4 DEF Sealing
    <3>6. text = LiveApplied(v.shown, e)
      BY <1>7 DEF text
    <3> QED BY <2>2, <3>1, <3>4, <3>5, <3>6
  <2> QED BY <2>1, <2>2
<1> HIDE DEF projected
<1>9. projected \in Sound(b)
  BY <1>7, <1>8 DEF Sound, Fits
<1>10. RefreshOf(e) \in SUBSET Reads
  BY DEF RefreshOf, Reads
<1>11. /\ w \in Sound(b) /\ Later(projected, w) /\ Alike(projected, w)
       /\ w.errors = projected.errors /\ projected.timer \subseteq w.timer
       /\ \A k \in RefreshOf(e) : IF projected.reads[k].stage = "none" THEN k \in w.timer
                                  ELSE w.reads[k].pending
       /\ \A k \in Reads :
            /\ w.reads[k].stage = projected.reads[k].stage
            /\ w.reads[k].reply = projected.reads[k].reply
            /\ w.reads[k].events = projected.reads[k].events
            /\ w.reads[k].overflow = projected.reads[k].overflow
            /\ projected.reads[k].pending => w.reads[k].pending
  BY <1>9, <1>10, ScheduledIs
<1> HIDE DEF w
<1>12. /\ w.instance = v.instance /\ w.application = v.application /\ w.session = v.session
       /\ w.conn = v.conn /\ w.rebase = v.rebase /\ w.rebased = v.rebased
       /\ w.observed = e.sequence /\ w.shown = projected.shown
       /\ w.errors = v.errors /\ v.timer \subseteq w.timer
  BY <1>3, <1>6, <1>8, <1>11 DEF Alike
<1>13. \A k \in Reads :
         /\ w.reads[k].stage = v.reads[k].stage /\ w.reads[k].reply = v.reads[k].reply
         /\ v.reads[k].pending => w.reads[k].pending
         /\ v.reads[k].overflow => w.reads[k].overflow
         /\ k \in RefreshOf(e) => IF v.reads[k].stage = "none" THEN k \in w.timer
                                  ELSE w.reads[k].pending
         /\ k \notin kinds => w.reads[k].events = v.reads[k].events
         /\ k \in kinds /\ w.reads[k].stage # "none" /\ ~w.reads[k].overflow =>
              w.reads[k].events = Append(v.reads[k].events, e)
  <2> TAKE k \in Reads
  <2>1. /\ accepted.reads[k].stage = v.reads[k].stage
        /\ accepted.reads[k].reply = v.reads[k].reply
        /\ accepted.reads[k].pending = v.reads[k].pending
        /\ k \notin kinds => accepted.reads[k].events = v.reads[k].events
        /\ v.reads[k].overflow => accepted.reads[k].overflow
        /\ k \in kinds /\ accepted.reads[k].stage # "none" /\ ~accepted.reads[k].overflow =>
             accepted.reads[k].events = Append(v.reads[k].events, e)
    BY <1>3, <1>6
  <2>2. /\ w.reads[k].stage = accepted.reads[k].stage
        /\ w.reads[k].reply = accepted.reads[k].reply
        /\ w.reads[k].events = accepted.reads[k].events
        /\ w.reads[k].overflow = accepted.reads[k].overflow
        /\ accepted.reads[k].pending => w.reads[k].pending
    BY <1>8, <1>11
  <2>3. k \in RefreshOf(e) => IF accepted.reads[k].stage = "none" THEN k \in w.timer
                              ELSE w.reads[k].pending
    BY <1>8, <1>11
  <2> QED BY <2>1, <2>2, <2>3
<1>14. Later(v, w)
  BY <1>12, <1>13 DEF Later
<1>15. LET x == v.reads["session"]  y == w.reads["session"] IN
       /\ x.overflow => y.overflow
       /\ y.stage # "none" /\ ~y.overflow =>
            y.events = IF e.type = "config_changed" THEN x.events ELSE Append(x.events, e)
  BY <1>5, <1>13
<1>16. \A k \in RefreshOf(e) : IF v.reads[k].stage = "none" THEN k \in w.timer
                               ELSE w.reads[k].pending
  BY <1>10, <1>13
<1>17. w.shown = IF InOwnerSnapshot(v, e) THEN v.shown ELSE LiveApplied(v.shown, e)
  BY <1>8, <1>12
<1>18. \A k \in Reads :
         /\ w.reads[k].stage = v.reads[k].stage /\ w.reads[k].reply = v.reads[k].reply
         /\ v.reads[k].pending => w.reads[k].pending
  BY <1>13
<1>19. ~w.rebase /\ w \in Sound(b)
  BY <1>11, <1>12
<1> QED BY <1>2, <1>12, <1>14, <1>15, <1>16, <1>17, <1>18, <1>19

LEMMA AppliedSound ==
  ASSUME NEW b \in Nat, NEW v \in Sound(b), NEW e \in NumberedEvent
  PROVE  LET w == Applied(v, e) IN
         w \in Sound(b) /\ Later(v, w) /\ w.conn = v.conn
<1>1. v \in View /\ v.observed \in Nat /\ e.sequence \in Nat
  BY DEF Sound, View, NumberedEvent
<1>2. CASE v.rebase
  <2> DEFINE w == Buffered(v, e, {"application"})
  <2>1. Applied(v, e) = w
    BY <1>2 DEF Applied
  <2>2. w \in Sound(b) /\ Later(v, w) /\ Alike(v, w)
    BY BufferedIs DEF Reads
  <2> HIDE DEF w
  <2> QED BY <2>1, <2>2 DEF Alike
<1>3. CASE ~v.rebase /\ e.sequence <= v.observed
  <2>1. Applied(v, e) = v
    BY <1>3 DEF Applied
  <2> QED BY <2>1 DEF Later
<1>4. CASE ~v.rebase /\ e.sequence > v.observed + 1
  <2>1. Applied(v, e) = Gap(v)
    BY <1>1, <1>4 DEF Applied
  <2> QED BY <2>1, GapIs
<1>5. CASE ~v.rebase /\ e.sequence = v.observed + 1
  BY <1>5, AppliedNext
<1> QED BY <1>1, <1>2, <1>3, <1>4, <1>5

\* One event of those that are applied one after another.
AppliedAbove(v, watermark, e) == IF e.sequence <= watermark THEN v ELSE Applied(v, e)

\* AllApplied by the clients on the way.
Steps1(after, v, watermark, events) ==
  [i \in 0..Len(events) |->
     IF i = 0 THEN v
     ELSE IF events[i].sequence <= watermark THEN after[i - 1]
     ELSE Applied(after[i - 1], events[i])]

LEMMA AllAppliedOf ==
  ASSUME NEW b \in Nat, NEW v \in Sound(b), NEW watermark,
         NEW events \in Seq(NumberedEvent)
  PROVE  \E after :
           /\ after[0] = v
           /\ \A i \in 1..Len(events) :
                after[i] = AppliedAbove(after[i - 1], watermark, events[i])
           /\ AllApplied(v, watermark, events) = after[Len(events)]
<1> DEFINE n == Len(events)
           S == Sound(b)
           step(i) == [w \in S |-> AppliedAbove(w, watermark, events[i])]
           g == [i \in 1..n |-> step(i)]
           Solves(f) == f = Steps1(f, v, watermark, events)
           after == CHOOSE f : Solves(f)
<1>1. n \in Nat /\ \A i \in 1..n : events[i] \in NumberedEvent
  OBVIOUS
<1> HIDE DEF n
<1>2. g \in [1..n -> [S -> S]]
  <2>1. ASSUME NEW i \in 1..n PROVE step(i) \in [S -> S]
    <3>1. ASSUME NEW w \in S PROVE AppliedAbove(w, watermark, events[i]) \in S
      BY <1>1, AppliedSound DEF AppliedAbove
    <3> QED BY <3>1
  <2> HIDE DEF step
  <2> QED BY <2>1
<1>3. \A i \in 1..n : \A w \in S : g[i][w] = AppliedAbove(w, watermark, events[i])
  OBVIOUS
<1> HIDE DEF g, S
<1>4. \E f : Solves(f)
  <2>1. v \in S
    BY DEF S
  <2>2. PICK f : Iterates(f, S, v, n, g)
    BY <1>1, <1>2, <2>1, Iterated
  <2>3. f \in [0..n -> S] /\ f[0] = v /\ \A i \in 1..n : f[i] = g[i][f[i - 1]]
    BY <2>2 DEF Iterates
  <2>4. \A i \in 0..n : i # 0 => i \in 1..n /\ i - 1 \in 0..n
    BY <1>1
  <2>5. ASSUME NEW i \in 0..n
        PROVE  f[i] = IF i = 0 THEN v
                      ELSE IF events[i].sequence <= watermark THEN f[i - 1]
                      ELSE Applied(f[i - 1], events[i])
    <3>1. CASE i = 0
      BY <2>3, <3>1
    <3>2. CASE i # 0
      <4>1. i \in 1..n /\ f[i - 1] \in S
        BY <2>3, <2>4, <3>2
      <4>2. f[i] = AppliedAbove(f[i - 1], watermark, events[i])
        BY <1>3, <2>3, <4>1
      <4> QED BY <3>2, <4>2 DEF AppliedAbove
    <3> QED BY <3>1, <3>2
  <2>6. f = [i \in 0..n |-> f[i]]
    BY <2>3
  <2>7. Solves(f)
    BY <2>5, <2>6 DEF Steps1, n
  <2> QED BY <2>7
<1>5. Solves(after)
  <2> HIDE DEF Solves
  <2> QED BY <1>4
<1>6. AllApplied(v, watermark, events) = after[n]
  BY DEF AllApplied, Steps1, n
<1>7. \A i \in 0..n : after[i] = IF i = 0 THEN v
                                 ELSE IF events[i].sequence <= watermark THEN after[i - 1]
                                 ELSE Applied(after[i - 1], events[i])
  BY <1>5 DEF Steps1, n
<1> HIDE DEF after
<1>8. \A i \in 1..n : i \in 0..n /\ i # 0
  BY <1>1
<1>9. \A i \in 1..n : after[i] = AppliedAbove(after[i - 1], watermark, events[i])
  BY <1>7, <1>8 DEF AppliedAbove
<1>10. after[0] = v
  BY <1>1, <1>7
<1> QED BY <1>6, <1>9, <1>10 DEF n

\* What every event preserves, all of them preserve.
LEMMA AllAppliedKeep ==
  ASSUME NEW b \in Nat, NEW v \in Sound(b), NEW watermark,
         NEW events \in Seq(NumberedEvent),
         NEW P, <<v, 0>> \in P,
         \A w \in Sound(b), i \in 1..Len(events) :
            <<w, i - 1>> \in P => <<AppliedAbove(w, watermark, events[i]), i>> \in P
  PROVE  /\ AllApplied(v, watermark, events) \in Sound(b)
         /\ <<AllApplied(v, watermark, events), Len(events)>> \in P
<1> DEFINE n == Len(events)
<1>1. n \in Nat /\ \A i \in 1..n : events[i] \in NumberedEvent
  OBVIOUS
<1>2. PICK after :
        /\ after[0] = v
        /\ \A i \in 1..n : after[i] = AppliedAbove(after[i - 1], watermark, events[i])
        /\ AllApplied(v, watermark, events) = after[n]
  BY AllAppliedOf
<1> DEFINE T == {i \in Nat : i <= n => after[i] \in Sound(b) /\ <<after[i], i>> \in P}
<1>3. 0 \in T
  BY <1>2
<1>4. ASSUME NEW i \in T PROVE i + 1 \in T
  <2> SUFFICES ASSUME i + 1 <= n
               PROVE  after[i + 1] \in Sound(b) /\ <<after[i + 1], i + 1>> \in P
    OBVIOUS
  <2>1. i \in Nat /\ i + 1 \in 1..n /\ (i + 1) - 1 = i
    BY <1>1
  <2>2. after[i] \in Sound(b) /\ <<after[i], i>> \in P
    BY <1>1, <2>1
  <2>3. after[i + 1] = AppliedAbove(after[i], watermark, events[i + 1])
    BY <1>2, <2>1
  <2>4. AppliedAbove(after[i], watermark, events[i + 1]) \in Sound(b)
    BY <1>1, <2>1, <2>2, AppliedSound DEF AppliedAbove
  <2>5. <<AppliedAbove(after[i], watermark, events[i + 1]), i + 1>> \in P
    BY <2>1, <2>2
  <2> QED BY <2>3, <2>4, <2>5
<1>5. T \in SUBSET Nat
  OBVIOUS
<1> HIDE DEF T
<1>6. \A i \in Nat : i \in T
  BY <1>3, <1>4, <1>5, EveryNat
<1>7. n \in T
  BY <1>1, <1>6
<1> QED BY <1>1, <1>2, <1>7 DEF T

LEMMA AllAppliedSound ==
  ASSUME NEW b \in Nat, NEW v \in Sound(b), NEW watermark,
         NEW events \in Seq(NumberedEvent)
  PROVE  LET w == AllApplied(v, watermark, events) IN
         w \in Sound(b) /\ Later(v, w) /\ w.conn = v.conn
<1> DEFINE P == {p \in Sound(b) \X (0..Len(events)) : Later(v, p[1]) /\ p[1].conn = v.conn}
           w == AllApplied(v, watermark, events)
<1>1. Len(events) \in Nat /\ \A i \in 1..Len(events) : events[i] \in NumberedEvent
  OBVIOUS
<1>2. <<v, 0>> \in P
  BY <1>1 DEF Later
<1>3. ASSUME NEW x \in Sound(b), NEW i \in 1..Len(events), <<x, i - 1>> \in P
      PROVE  <<AppliedAbove(x, watermark, events[i]), i>> \in P
  <2> DEFINE y == AppliedAbove(x, watermark, events[i])
  <2>1. y \in Sound(b) /\ Later(x, y) /\ y.conn = x.conn
    BY <1>1, AppliedSound DEF AppliedAbove, Later
  <2>2. Later(v, x) /\ x.conn = v.conn /\ i \in 0..Len(events)
    BY <1>1, <1>3
  <2> HIDE DEF y
  <2>3. Later(v, y) /\ y.conn = v.conn
    BY <2>1, <2>2 DEF Later
  <2> QED BY <2>1, <2>2, <2>3 DEF y
<1> HIDE DEF P
<1>4. w \in Sound(b) /\ <<w, Len(events)>> \in P
  BY <1>2, <1>3, AllAppliedKeep
<1> HIDE DEF w
<1> QED BY <1>4 DEF P, w

-----------------------------------------------------------------------------
(* The text in the log *)

\* The pieces of the text of step s among the first n events of a log.
Pieces(l, s, n) == {i \in 1..n : l[i] = Event("text_delta", s)}

LEMMA PiecesCount ==
  ASSUME NEW l, NEW s, NEW n \in Nat
  PROVE  /\ IsFiniteSet(Pieces(l, s, n)) /\ Cardinality(Pieces(l, s, n)) \in Nat
         /\ Deltas(s, n) = Cardinality(Pieces(log, s, n))
<1>1. IsFiniteSet(1..n)
  BY FS_Interval
<1>2. Pieces(l, s, n) \subseteq 1..n
  BY DEF Pieces
<1>3. IsFiniteSet(Pieces(l, s, n))
  BY <1>1, <1>2, FS_Subset
<1>4. Cardinality(Pieces(l, s, n)) \in Nat
  BY <1>3, FS_CardinalityType
<1>5. Deltas(s, n) = Cardinality(Pieces(log, s, n))
  BY DEF Deltas, Pieces
<1> QED BY <1>3, <1>4, <1>5

\* One more event is one more piece, or none.
LEMMA NextPiece ==
  ASSUME NEW l, NEW s, NEW n \in Nat
  PROVE  Cardinality(Pieces(l, s, n + 1)) =
           IF l[n + 1] = Event("text_delta", s) THEN Cardinality(Pieces(l, s, n)) + 1
           ELSE Cardinality(Pieces(l, s, n))
<1> DEFINE A == Pieces(l, s, n)  B == Pieces(l, s, n + 1)
<1>1. IsFiniteSet(A) /\ n + 1 \notin A
  <2>1. n + 1 \notin A
    BY DEF Pieces
  <2> QED BY <2>1, PiecesCount
<1>2. \A i : i \in 1..(n + 1) <=> i \in 1..n \/ i = n + 1
  OBVIOUS
<1>3. CASE l[n + 1] = Event("text_delta", s)
  <2>1. B = A \cup {n + 1}
    BY <1>2, <1>3 DEF Pieces
  <2> HIDE DEF A, B
  <2>2. Cardinality(A \cup {n + 1}) = Cardinality(A) + 1
    BY <1>1, FS_AddElement
  <2> QED BY <1>3, <2>1, <2>2 DEF A, B
<1>4. CASE l[n + 1] # Event("text_delta", s)
  <2>1. B = A
    BY <1>2, <1>4 DEF Pieces
  <2> QED BY <1>4, <2>1
<1> QED BY <1>3, <1>4

\* Events of other kinds do not count.
LEMMA SamePieces ==
  ASSUME NEW s, NEW n \in Nat, NEW m \in Nat, n <= m,
         \A i \in n + 1 .. m : log[i] # Event("text_delta", s)
  PROVE  Deltas(s, m) = Deltas(s, n)
<1>1. \A i \in 1..m : i \in 1..n \/ i \in n + 1 .. m
  OBVIOUS
<1>2. \A i \in 1..n : i \in 1..m
  OBVIOUS
<1>3. Pieces(log, s, m) = Pieces(log, s, n)
  BY <1>1, <1>2 DEF Pieces
<1> QED BY <1>3, PiecesCount

LEMMA NoPieces ==
  ASSUME NEW s, NEW n \in Nat, \A i \in 1..n : log[i] # Event("text_delta", s)
  PROVE  Deltas(s, n) = 0
<1>1. Pieces(log, s, n) = {}
  BY DEF Pieces
<1> QED BY <1>1, PiecesCount, FS_EmptySet

LEMMA NumberedIs ==
  ASSUME log \in Seq(EventRecord), NEW n \in 1..Len(log)
  PROVE  /\ Numbered(n) \in NumberedEvent /\ Numbered(n).sequence = n
         /\ Numbered(n).type = log[n].type /\ Numbered(n).step = log[n].step
         /\ log[n] \in EventRecord
         /\ \A s : log[n] = Event("text_delta", s)
                     <=> Numbered(n).type = "text_delta" /\ Numbered(n).step = s
<1>1. log[n] \in EventRecord /\ n \in Nat
  OBVIOUS
<1>2. log[n] = [type |-> log[n].type, step |-> log[n].step]
  BY <1>1 DEF EventRecord
<1> QED BY <1>1, <1>2 DEF EventRecord, NumberedEvent, Numbered, Event

\* The next event keeps an exact text exact.
LEMMA ExactNext ==
  ASSUME RuntimeBounds, Written, NEW shown \in Shown, NEW n \in Nat, n + 1 <= Len(log),
         shown.known, \A s \in Steps : s \in shown.sealed => shown.text[s] = 0,
         ExactAt(shown, n)
  PROVE  ExactAt(LiveApplied(shown, Numbered(n + 1)), n + 1)
<1> DEFINE e == Numbered(n + 1)  w == LiveApplied(shown, e)
<1>1. log \in Seq(EventRecord) /\ Len(log) \in Nat /\ n + 1 \in 1..Len(log) /\ DOMAIN log = 1..Len(log)
  BY DEF RuntimeBounds
<1>2. /\ e \in NumberedEvent /\ e.type = log[n + 1].type /\ e.step = log[n + 1].step
      /\ \A s : log[n + 1] = Event("text_delta", s) <=> e.type = "text_delta" /\ e.step = s
  BY <1>1, NumberedIs
<1>3. \A s \in Steps : Deltas(s, n) \in Nat
        /\ Deltas(s, n + 1) = IF e.type = "text_delta" /\ e.step = s THEN Deltas(s, n) + 1
                              ELSE Deltas(s, n)
  <2> TAKE s \in Steps
  <2> HIDE DEF e
  <2>1. Deltas(s, n) = Cardinality(Pieces(log, s, n)) /\ Cardinality(Pieces(log, s, n)) \in Nat
    BY PiecesCount
  <2>2. Deltas(s, n + 1) = Cardinality(Pieces(log, s, n + 1))
    BY PiecesCount, n + 1 \in Nat
  <2>3. Cardinality(Pieces(log, s, n + 1)) =
          IF log[n + 1] = Event("text_delta", s) THEN Cardinality(Pieces(log, s, n)) + 1
          ELSE Cardinality(Pieces(log, s, n))
    BY NextPiece
  <2> QED BY <1>2, <2>1, <2>2, <2>3
<1>4. /\ shown.known \in BOOLEAN /\ shown.sealed \in SUBSET Nat /\ shown.text \in [Steps -> Nat]
      /\ e.step \in Nat /\ e.type \in EventTypes
  BY <1>2 DEF Shown, NumberedEvent
<1>5. \A s \in Steps \ shown.sealed : shown.text[s] = Deltas(s, n)
  BY DEF ExactAt
<1>6. ASSUME e.type = "step_started" PROVE Deltas(e.step, n) = 0
  <2>1. log[n + 1] = Event("step_started", e.step)
    <3>1. log[n + 1] \in EventRecord
      BY <1>1
    <3> QED BY <1>2, <1>6, <3>1 DEF EventRecord, Event
  <2>2. ASSUME NEW j \in 1..n PROVE log[j] # Event("text_delta", e.step)
    <3>1. j \in 1..Len(log) /\ ~(n + 1 < j)
      BY <1>1
    <3> QED BY <1>1, <2>1, <3>1 DEF Written, Event
  <2> QED BY <2>2, NoPieces
<1> HIDE DEF e
<1>7. CASE e.type = "step_committed"
  <2> DEFINE x == [shown EXCEPT !.sealed = @ \cup {e.step}, !.text[e.step] = 0]
  <2>1. w = x
    BY <1>7 DEF LiveApplied
  <2>2. x.sealed = shown.sealed \cup {e.step} /\ x.text = [shown.text EXCEPT ![e.step] = 0]
    BY <1>4 DEF Shown
  <2> HIDE DEF x, w
  <2>3. ASSUME NEW s \in Steps \ x.sealed PROVE x.text[s] = Deltas(s, n + 1)
    BY <1>3, <1>4, <1>5, <1>7, <2>2
  <2> QED BY <2>1, <2>3 DEF ExactAt, w, e
<1>8. CASE e.type = "step_started" /\ e.step \notin shown.sealed
  <2> DEFINE x == [shown EXCEPT !.text[e.step] = 0]
  <2>1. w = x
    BY <1>8 DEF LiveApplied
  <2>2. x.sealed = shown.sealed /\ x.text = [shown.text EXCEPT ![e.step] = 0]
    BY <1>4 DEF Shown
  <2> HIDE DEF x, w
  <2>3. ASSUME NEW s \in Steps \ x.sealed PROVE x.text[s] = Deltas(s, n + 1)
    BY <1>3, <1>4, <1>5, <1>6, <1>8, <2>2
  <2> QED BY <2>1, <2>3 DEF ExactAt, w, e
<1>9. CASE e.type = "text_delta" /\ e.step \notin shown.sealed
  <2> DEFINE x == [shown EXCEPT !.text[e.step] = @ + 1]
  <2>1. w = x
    BY <1>9 DEF LiveApplied
  <2>2. x.sealed = shown.sealed /\ x.text = [shown.text EXCEPT ![e.step] = @ + 1]
    BY <1>4 DEF Shown
  <2> HIDE DEF x, w
  <2>3. ASSUME NEW s \in Steps \ x.sealed PROVE x.text[s] = Deltas(s, n + 1)
    BY <1>3, <1>4, <1>5, <1>9, <2>2
  <2> QED BY <2>1, <2>3 DEF ExactAt, w, e
<1>10. CASE \/ e.type = "config_changed"
            \/ e.type \in {"step_started", "text_delta"} /\ e.step \in shown.sealed
  <2>1. w = shown
    BY <1>10 DEF LiveApplied
  <2> HIDE DEF w
  <2>2. ASSUME NEW s \in Steps \ shown.sealed PROVE shown.text[s] = Deltas(s, n + 1)
    BY <1>3, <1>4, <1>5, <1>10
  <2> QED BY <2>1, <2>2 DEF ExactAt, w, e
<1> QED BY <1>4, <1>7, <1>8, <1>9, <1>10 DEF EventTypes

-----------------------------------------------------------------------------
(* What is shown when the session has been read *)

\* No text is shown of a step that is recorded.
Texts == {x \in Shown : \A s \in Steps : s \in x.sealed => x.text[s] = 0}

ShownAbove(shown, watermark, e) ==
  IF e.sequence <= watermark THEN shown ELSE LiveApplied(shown, e)

\* Rebased by what is shown on the way.
ShownOnTheWay(shown, answer, events) ==
  [i \in 0..Len(events) |->
     IF i = 0 THEN Baseline(answer)
     ELSE IF events[i].sequence <= answer.sequence THEN shown[i - 1]
     ELSE LiveApplied(shown[i - 1], events[i])]

LEMMA BaselineIs ==
  ASSUME NEW answer \in Reported
  PROVE  LET x == Baseline(answer) IN
         /\ x \in Texts /\ x.known /\ 1..answer.body \subseteq x.sealed
         /\ \A s \in Steps \ x.sealed :
              s >= answer.step /\ x.text[s] = IF s = answer.step THEN answer.text ELSE 0
<1> DEFINE sealed == (1 .. answer.body) \cup (1 .. answer.step - 1)
           text == [s \in Steps |->
                      IF s = answer.step /\ s \notin sealed THEN answer.text ELSE 0]
           x == [known |-> TRUE, sealed |-> sealed, text |-> text]
<1>1. answer.body \in Nat /\ answer.step \in Nat /\ answer.text \in Nat
  BY DEF Reported
<1>2. sealed \in SUBSET Nat /\ 1..answer.body \subseteq sealed
  BY <1>1
<1>3. text \in [Steps -> Nat]
  BY <1>1
<1>4. \A s \in Steps : s \in sealed => text[s] = 0
  OBVIOUS
<1>5. \A s \in Steps \ sealed :
        s >= answer.step /\ text[s] = IF s = answer.step THEN answer.text ELSE 0
  BY <1>1, ClientSyncAssumption DEF Steps
<1> HIDE DEF sealed, text
<1>6. x \in Texts /\ x.known = TRUE /\ x.sealed = sealed /\ x.text = text
  BY <1>2, <1>3, <1>4 DEF Texts, Shown
<1>7. Baseline(answer) = x
  BY DEF Baseline, sealed, text
<1> QED BY <1>2, <1>5, <1>6, <1>7

LEMMA ShownAboveIs ==
  ASSUME NEW x \in Texts, NEW watermark, NEW e \in NumberedEvent
  PROVE  LET y == ShownAbove(x, watermark, e) IN
         y \in Texts /\ (y.known => x.sealed \subseteq y.sealed) /\ (x.known => y.known)
<1>1. x \in Shown /\ \A s \in Steps : s \in x.sealed => x.text[s] = 0
  BY DEF Texts
<1>2. CASE e.sequence <= watermark
  BY <1>2 DEF ShownAbove
<1>3. CASE ~(e.sequence <= watermark)
  <2> DEFINE w == LiveApplied(x, e)
  <2>1. /\ w \in Shown /\ \A s \in Steps : s \in w.sealed => w.text[s] = 0
        /\ w.known => x.known /\ x.sealed \subseteq w.sealed
        /\ x.known => w.known
    BY <1>1, TextGoesOn
  <2>2. ShownAbove(x, watermark, e) = w
    BY <1>3 DEF ShownAbove
  <2> HIDE DEF w
  <2> QED BY <2>1, <2>2 DEF Texts
<1> QED BY <1>2, <1>3

LEMMA RebasedOf ==
  ASSUME NEW answer \in Reported, NEW events \in Seq(NumberedEvent)
  PROVE  \E shown :
           /\ shown[0] = Baseline(answer)
           /\ \A i \in 1..Len(events) :
                shown[i] = ShownAbove(shown[i - 1], answer.sequence, events[i])
           /\ Rebased(answer, events) = shown[Len(events)]
<1> DEFINE n == Len(events)
           step(i) == [x \in Texts |-> ShownAbove(x, answer.sequence, events[i])]
           g == [i \in 1..n |-> step(i)]
           Solves(f) == f = ShownOnTheWay(f, answer, events)
           shown == CHOOSE f : Solves(f)
<1>1. n \in Nat /\ \A i \in 1..n : events[i] \in NumberedEvent
  OBVIOUS
<1> HIDE DEF n
<1>2. g \in [1..n -> [Texts -> Texts]]
  <2>1. ASSUME NEW i \in 1..n PROVE step(i) \in [Texts -> Texts]
    <3>1. ASSUME NEW x \in Texts PROVE ShownAbove(x, answer.sequence, events[i]) \in Texts
      BY <1>1, ShownAboveIs
    <3> QED BY <3>1
  <2> HIDE DEF step
  <2> QED BY <2>1
<1>3. \A i \in 1..n : \A x \in Texts : g[i][x] = ShownAbove(x, answer.sequence, events[i])
  OBVIOUS
<1> HIDE DEF g
<1>4. \E f : Solves(f)
  <2>1. Baseline(answer) \in Texts
    BY BaselineIs
  <2>2. PICK f : Iterates(f, Texts, Baseline(answer), n, g)
    BY <1>1, <1>2, <2>1, Iterated
  <2>3. f \in [0..n -> Texts] /\ f[0] = Baseline(answer) /\ \A i \in 1..n : f[i] = g[i][f[i - 1]]
    BY <2>2 DEF Iterates
  <2>4. \A i \in 0..n : i # 0 => i \in 1..n /\ i - 1 \in 0..n
    BY <1>1
  <2>5. ASSUME NEW i \in 0..n
        PROVE  f[i] = IF i = 0 THEN Baseline(answer)
                      ELSE IF events[i].sequence <= answer.sequence THEN f[i - 1]
                      ELSE LiveApplied(f[i - 1], events[i])
    <3>1. CASE i = 0
      BY <2>3, <3>1
    <3>2. CASE i # 0
      <4>1. i \in 1..n /\ f[i - 1] \in Texts
        BY <2>3, <2>4, <3>2
      <4>2. f[i] = ShownAbove(f[i - 1], answer.sequence, events[i])
        BY <1>3, <2>3, <4>1
      <4> QED BY <3>2, <4>2 DEF ShownAbove
    <3> QED BY <3>1, <3>2
  <2>6. f = [i \in 0..n |-> f[i]]
    BY <2>3
  <2>7. Solves(f)
    BY <2>5, <2>6 DEF ShownOnTheWay, n
  <2> QED BY <2>7
<1>5. Solves(shown)
  <2> HIDE DEF Solves
  <2> QED BY <1>4
<1>6. Rebased(answer, events) = shown[n]
  BY DEF Rebased, ShownOnTheWay, n
<1>7. \A i \in 0..n : shown[i] = IF i = 0 THEN Baseline(answer)
                                 ELSE IF events[i].sequence <= answer.sequence THEN shown[i - 1]
                                 ELSE LiveApplied(shown[i - 1], events[i])
  BY <1>5 DEF ShownOnTheWay, n
<1> HIDE DEF shown
<1>8. \A i \in 1..n : i \in 0..n /\ i # 0
  BY <1>1
<1>9. \A i \in 1..n : shown[i] = ShownAbove(shown[i - 1], answer.sequence, events[i])
  BY <1>7, <1>8 DEF ShownAbove
<1>10. shown[0] = Baseline(answer)
  BY <1>1, <1>7
<1> QED BY <1>6, <1>9, <1>10 DEF n

\* What every event preserves, all of them preserve.
LEMMA RebasedKeep ==
  ASSUME NEW answer \in Reported, NEW events \in Seq(NumberedEvent),
         NEW P, <<Baseline(answer), 0>> \in P,
         \A x \in Texts, i \in 1..Len(events) :
            <<x, i - 1>> \in P => <<ShownAbove(x, answer.sequence, events[i]), i>> \in P
  PROVE  /\ Rebased(answer, events) \in Texts
         /\ <<Rebased(answer, events), Len(events)>> \in P
<1> DEFINE n == Len(events)
<1>1. n \in Nat /\ \A i \in 1..n : events[i] \in NumberedEvent
  OBVIOUS
<1>2. PICK shown :
        /\ shown[0] = Baseline(answer)
        /\ \A i \in 1..n : shown[i] = ShownAbove(shown[i - 1], answer.sequence, events[i])
        /\ Rebased(answer, events) = shown[n]
  BY RebasedOf
<1> DEFINE T == {i \in Nat : i <= n => shown[i] \in Texts /\ <<shown[i], i>> \in P}
<1>3. 0 \in T
  BY <1>2, BaselineIs
<1>4. ASSUME NEW i \in T PROVE i + 1 \in T
  <2> SUFFICES ASSUME i + 1 <= n
               PROVE  shown[i + 1] \in Texts /\ <<shown[i + 1], i + 1>> \in P
    OBVIOUS
  <2>1. i \in Nat /\ i + 1 \in 1..n /\ (i + 1) - 1 = i
    BY <1>1
  <2>2. shown[i] \in Texts /\ <<shown[i], i>> \in P
    BY <1>1, <2>1
  <2>3. shown[i + 1] = ShownAbove(shown[i], answer.sequence, events[i + 1])
    BY <1>2, <2>1
  <2>4. ShownAbove(shown[i], answer.sequence, events[i + 1]) \in Texts
    BY <1>1, <2>1, <2>2, ShownAboveIs
  <2>5. <<ShownAbove(shown[i], answer.sequence, events[i + 1]), i + 1>> \in P
    BY <2>1, <2>2
  <2> QED BY <2>3, <2>4, <2>5
<1>5. T \in SUBSET Nat
  OBVIOUS
<1> HIDE DEF T
<1>6. \A i \in Nat : i \in T
  BY <1>3, <1>4, <1>5, EveryNat
<1>7. n \in T
  BY <1>1, <1>6
<1> QED BY <1>1, <1>2, <1>7 DEF T

\* The recorded steps stay sealed.
LEMMA RebasedSound ==
  ASSUME NEW answer \in Reported, NEW events \in Seq(NumberedEvent)
  PROVE  LET x == Rebased(answer, events) IN
         x \in Texts /\ x.known /\ 1..answer.body \subseteq x.sealed
<1> DEFINE P == {p \in Texts \X (0..Len(events)) :
                   p[1].known /\ 1..answer.body \subseteq p[1].sealed}
           x == Rebased(answer, events)
<1>1. Len(events) \in Nat /\ \A i \in 1..Len(events) : events[i] \in NumberedEvent
  OBVIOUS
<1>2. <<Baseline(answer), 0>> \in P
  BY <1>1, BaselineIs
<1>3. ASSUME NEW y \in Texts, NEW i \in 1..Len(events), <<y, i - 1>> \in P
      PROVE  <<ShownAbove(y, answer.sequence, events[i]), i>> \in P
  <2> DEFINE z == ShownAbove(y, answer.sequence, events[i])
  <2>1. z \in Texts /\ (z.known => y.sealed \subseteq z.sealed) /\ (y.known => z.known)
    BY <1>1, ShownAboveIs
  <2>2. y.known /\ 1..answer.body \subseteq y.sealed /\ i \in 0..Len(events)
    BY <1>1, <1>3
  <2> HIDE DEF z
  <2> QED BY <2>1, <2>2 DEF z
<1> HIDE DEF P
<1>4. x \in Texts /\ <<x, Len(events)>> \in P
  BY <1>2, <1>3, RebasedKeep
<1> HIDE DEF x
<1> QED BY <1>4 DEF P, x

\* Text that is exact stays exact as long as only changes of the configuration follow.
LEMMA ExactLater ==
  ASSUME NEW shown, NEW n \in Nat, NEW m \in Nat, n <= m, ExactAt(shown, n),
         \A i \in n + 1 .. m : log[i].type = "config_changed"
  PROVE  ExactAt(shown, m)
<1>1. ASSUME NEW s PROVE Deltas(s, m) = Deltas(s, n)
  <2>1. \A i \in n + 1 .. m : log[i] # Event("text_delta", s)
    BY DEF Event
  <2> QED BY <2>1, SamePieces
<1> QED BY <1>1 DEF ExactAt

\* The events that arrived while the session was read bring its text up to date.
LEMMA RebasedExact ==
  ASSUME RuntimeBounds, Written,
         NEW answer \in Reported, Tells(answer), answer.sequence <= Len(log),
         NEW m \in Nat, m <= Len(log), NEW events \in Seq(NumberedEvent),
         \A i \in 1..Len(events) : /\ events[i].sequence \in 1..m
                                   /\ events[i] = Numbered(events[i].sequence),
         \A i, j \in 1..Len(events) : i < j => events[i].sequence < events[j].sequence,
         \A n \in answer.sequence + 1 .. m : log[n].type # "config_changed" =>
            \E i \in 1..Len(events) : events[i].sequence = n
  PROVE  ExactAt(Rebased(answer, events), IF m > answer.sequence THEN m ELSE answer.sequence)
<1> DEFINE N == answer.sequence
           l == Len(events)
           Top(i) == IF i = 0 THEN N
                     ELSE IF events[i].sequence <= N THEN N ELSE events[i].sequence
           P == {p \in Texts \X (0..l) : p[1].known /\ ExactAt(p[1], Top(p[2]))}
           x == Rebased(answer, events)
<1>1. /\ l \in Nat /\ N \in Nat /\ Len(log) \in Nat /\ log \in Seq(EventRecord)
      /\ \A i \in 1..l : events[i] \in NumberedEvent /\ events[i].sequence \in Nat
  <2>1. ASSUME NEW i \in 1..l PROVE events[i] \in NumberedEvent /\ events[i].sequence \in Nat
    <3>1. events[i] \in NumberedEvent
      OBVIOUS
    <3> QED BY <3>1 DEF NumberedEvent
  <2>2. l \in Nat /\ N \in Nat
    BY DEF Reported
  <2>3. log \in Seq(EventRecord)
    BY DEF RuntimeBounds
  <2> QED BY <2>1, <2>2, <2>3
<1>2. \A i \in 0..l : Top(i) \in Nat /\ Top(i) >= N /\ (Top(i) > N => i \in 1..l /\ Top(i) <= m)
  BY <1>1
<1>3. ASSUME NEW i \in 0..l, NEW n \in Top(i) + 1 .. m,
             \A j \in 1..l : j > i => n < events[j].sequence
      PROVE  log[n].type = "config_changed"
  <2> SUFFICES ASSUME log[n].type # "config_changed" PROVE FALSE
    OBVIOUS
  <2>1. n \in N + 1 .. m /\ n > Top(i)
    BY <1>1, <1>2
  <2>2. PICK j \in 1..l : events[j].sequence = n
    BY <2>1
  <2>3. j <= i /\ i # 0
    BY <1>1, <1>3, <2>2
  <2>4. i \in 1..l /\ events[j].sequence <= events[i].sequence
    BY <1>1, <2>2, <2>3
  <2>5. events[i].sequence <= Top(i)
    BY <1>1, <2>4
  <2> QED BY <1>1, <1>2, <2>1, <2>2, <2>4, <2>5
<1>4. <<Baseline(answer), 0>> \in P
  <2>1. /\ Baseline(answer) \in Texts /\ Baseline(answer).known
        /\ \A s \in Steps \ Baseline(answer).sealed :
             /\ s >= answer.step
             /\ Baseline(answer).text[s] = IF s = answer.step THEN answer.text ELSE 0
    BY BaselineIs
  <2>2. ExactAt(Baseline(answer), N)
    BY <2>1 DEF ExactAt, Tells
  <2> QED BY <1>1, <2>1, <2>2
<1>5. ASSUME NEW y \in Texts, NEW i \in 1..l, <<y, i - 1>> \in P
      PROVE  <<ShownAbove(y, N, events[i]), i>> \in P
  <2> DEFINE k == events[i].sequence
  <2>1. y.known /\ ExactAt(y, Top(i - 1)) /\ i \in 0..l /\ i - 1 \in 0..l /\ k \in 1..m
    BY <1>1, <1>5
  <2>2. i - 1 # 0 => i - 1 \in 1..l /\ events[i - 1].sequence < k
    BY <1>1
  <2>3. Top(i - 1) <= (IF k <= N THEN N ELSE k - 1)
    <3>1. CASE i - 1 = 0
      BY <1>1, <2>1, <3>1
    <3>2. CASE i - 1 # 0
      <4>1. events[i - 1].sequence \in Nat /\ events[i - 1].sequence < k
        BY <1>1, <2>2, <3>2
      <4> QED BY <1>1, <2>1, <3>2, <4>1
    <3> QED BY <3>1, <3>2
  <2>4. CASE k <= N
    <3>1. Top(i - 1) = N /\ Top(i) = N
      BY <1>1, <1>2, <2>1, <2>3, <2>4
    <3>2. ShownAbove(y, N, events[i]) = y
      BY <2>4 DEF ShownAbove
    <3> QED BY <2>1, <3>1, <3>2
  <2>5. CASE ~(k <= N)
    <3> DEFINE z == LiveApplied(y, Numbered(k))
    <3>1. Top(i) = k /\ k - 1 \in Nat /\ Top(i - 1) \in Nat /\ Top(i - 1) <= k - 1 /\ k - 1 + 1 = k
      BY <1>1, <1>2, <2>1, <2>3, <2>5
    <3>2. \A n \in Top(i - 1) + 1 .. k - 1 : log[n].type = "config_changed"
      <4> TAKE n \in Top(i - 1) + 1 .. k - 1
      <4>1. n \in Top(i - 1) + 1 .. m /\ n < k
        BY <1>1, <2>1, <3>1
      <4>2. ASSUME NEW j \in 1..l, j > i - 1 PROVE n < events[j].sequence
        <5>1. CASE j = i
          BY <1>1, <2>1, <4>1, <5>1
        <5>2. CASE j # i
          <6>1. i < j
            BY <4>2, <5>2
          <6>2. k < events[j].sequence /\ events[j].sequence \in Nat
            BY <1>1, <6>1
          <6>3. n \in Int /\ k \in Nat /\ n < k
            BY <1>1, <4>1
          <6> HIDE DEF k
          <6> QED BY <6>2, <6>3
        <5> QED BY <5>1, <5>2
      <4> HIDE DEF Top
      <4> QED BY <1>3, <2>1, <4>1, <4>2
    <3>3. ExactAt(y, k - 1)
      <4> HIDE DEF Top, k
      <4> QED BY <2>1, <3>1, <3>2, ExactLater
    <3>4. y \in Shown /\ \A s \in Steps : s \in y.sealed => y.text[s] = 0
      BY DEF Texts
    <3>5. ExactAt(z, k)
      <4>1. k - 1 + 1 <= Len(log)
        BY <1>1, <2>1, <3>1
      <4>2. ExactAt(LiveApplied(y, Numbered(k - 1 + 1)), k - 1 + 1)
        <5> HIDE DEF k
        <5> QED BY <2>1, <3>1, <3>3, <3>4, <4>1, ExactNext
      <4> QED BY <3>1, <4>2
    <3>6. ShownAbove(y, N, events[i]) = z
      BY <2>5 DEF ShownAbove
    <3>7. z \in Texts /\ z.known
      BY <1>1, <2>1, <3>6, ShownAboveIs
    <3> HIDE DEF z
    <3> QED BY <2>1, <3>1, <3>5, <3>6, <3>7
  <2> QED BY <2>4, <2>5
<1>6. x \in Texts /\ <<x, l>> \in P
  <2> HIDE DEF P
  <2> QED BY <1>4, <1>5, RebasedKeep
<1> HIDE DEF x
<1>7. ExactAt(x, Top(l)) /\ l \in 0..l
  BY <1>1, <1>6
<1>8. CASE m > Top(l)
  <2>1. \A n \in Top(l) + 1 .. m : log[n].type = "config_changed"
    BY <1>1, <1>3, <1>7
  <2>2. ExactAt(x, m)
    <3>1. Top(l) \in Nat
      BY <1>2, <1>7
    <3> HIDE DEF Top
    <3> QED BY <1>7, <1>8, <2>1, <3>1, ExactLater
  <2>3. m > N
    BY <1>1, <1>2, <1>7, <1>8
  <2> QED BY <2>2, <2>3 DEF x
<1>9. CASE ~(m > Top(l))
  <2>1. Top(l) = IF m > N THEN m ELSE N
    BY <1>1, <1>2, <1>7, <1>9
  <2> HIDE DEF Top
  <2> QED BY <1>7, <2>1 DEF x
<1> QED BY <1>8, <1>9

-----------------------------------------------------------------------------
(* What an answer does to a client *)

LEMMA ReplyIs ==
  ASSUME NEW b, NEW v \in Sound(b), NEW k \in Reads
  PROVE  LET x == v.reads[k] IN
         /\ x \in Read /\ ReadFits(x, b)
         /\ x.reply \in Reported /\ x.reply.body <= b /\ x.reply.sequence <= MaxSequence
         /\ x.reply.body \in Nat /\ x.reply.sequence \in Nat
         /\ x.events \in Seq(NumberedEvent)
         /\ x.stage \in {"none", "asked", "replied"} /\ x.attempt \in Nat
         /\ v[k] \in Held /\ v[k].sequence \in Nat /\ v[k].body \in Nat
<1>1. v.reads[k] \in Read /\ ReadFits(v.reads[k], b) /\ v \in View
  BY DEF Sound, View, Fits
<1>2. v.reads[k].reply \in Reported /\ v.reads[k].events \in Seq(NumberedEvent)
      /\ v.reads[k].stage \in {"none", "asked", "replied"} /\ v.reads[k].attempt \in Nat
  BY <1>1 DEF Read
<1>3. v.application \in Held /\ v.session \in Held
  BY <1>1 DEF View
<1>4. v[k] \in Held
  BY <1>3 DEF Reads
<1> QED BY <1>1, <1>2, <1>4 DEF ReadFits, Reported, Held

\* A read is repeated.
LEMMA RetriedIs ==
  ASSUME NEW b \in Nat, NEW v \in Sound(b), NEW k \in Reads, v.reads[k].attempt < Retries
  PROVE  LET w == Retried(v, k) IN
         /\ w \in Sound(b) /\ Later(v, w) /\ Alike(v, w)
         /\ w.timer = v.timer /\ w.errors = v.errors
         /\ w.reads[k].stage = "asked" /\ w.reads[k].events = <<>> /\ ~w.reads[k].overflow
         /\ w.reads[k].pending = v.reads[k].pending
         /\ \A j \in Reads : j # k => w.reads[j] = v.reads[j]
<1> DEFINE x == Repeated(v.reads[k])
           R == [v.reads EXCEPT ![k] = x]
           w == [v EXCEPT !.reads = R]
<1>1. v \in View /\ v.reads \in [Reads -> Read]
      /\ \A j \in Reads : v.reads[j] \in Read /\ ReadFits(v.reads[j], b)
  BY DEF Sound, View, Fits
<1>2. v.reads[k].attempt \in Nat /\ Retries \in Nat
  BY <1>1, ClientSyncAssumption DEF Read
<1>3. /\ x.stage = "asked" /\ x.reply = NoReply /\ x.events = <<>> /\ x.overflow = FALSE
      /\ x.pending = v.reads[k].pending /\ x.attempt = v.reads[k].attempt + 1 /\ x \in Read
  <2>1. NoReply \in Reported /\ <<>> \in Seq(NumberedEvent)
    BY DEF NoReply, Reported
  <2>2. ASSUME NEW y \in Read
        PROVE  LET z == Repeated(y) IN
               /\ z.stage = "asked" /\ z.reply = NoReply /\ z.events = <<>> /\ z.overflow = FALSE
               /\ z.pending = y.pending /\ z.attempt = y.attempt + 1 /\ z \in Read
    <3> DEFINE n == y.attempt + 1
               z == [y EXCEPT !.stage = "asked", !.reply = NoReply, !.events = <<>>,
                              !.overflow = FALSE, !.attempt = n]
    <3>1. n \in Nat
      BY DEF Read
    <3>2. Repeated(y) = z
      BY DEF Repeated
    <3>3. n = y.attempt + 1
      OBVIOUS
    <3> HIDE DEF n
    <3>4. /\ z.stage = "asked" /\ z.reply = NoReply /\ z.events = <<>> /\ z.overflow = FALSE
          /\ z.pending = y.pending /\ z.attempt = n /\ z \in Read
      BY <2>1, <3>1 DEF Read
    <3> QED BY <3>2, <3>3, <3>4
  <2> QED BY <1>1, <2>2
<1>4. Retried(v, k) = w
  BY DEF Retried
<1> HIDE DEF x
<1>5. ReadFits(x, b)
  BY <1>2, <1>3, NoReadIs, ClientSyncAssumption DEF ReadFits
<1>6. /\ R \in [Reads -> Read] /\ R[k] = x
      /\ \A j \in Reads : j # k => R[j] = v.reads[j]
  BY <1>1, <1>3
<1>7. \A j \in Reads : ReadFits(R[j], b)
  BY <1>1, <1>5, <1>6
<1> HIDE DEF R
<1>8. w \in Sound(b) /\ Alike(v, w) /\ w.reads = R /\ w.timer = v.timer /\ w.errors = v.errors
  BY <1>6, <1>7, NewReads
<1> HIDE DEF w
<1>9. Later(v, w)
  BY <1>3, <1>6, <1>8 DEF Later, Alike
<1> QED BY <1>3, <1>4, <1>6, <1>8, <1>9

\* A client whose connection is lost.
LEMMA OtherConnection ==
  ASSUME NEW b, NEW v \in Sound(b), NEW c \in {"down", "loading", "live", "failed"}
  PROVE  LET w == [v EXCEPT !.conn = c] IN
         /\ w \in Sound(b) /\ w.conn = c /\ Later(v, w)
         /\ w.reads = v.reads /\ w.timer = v.timer /\ w.instance = v.instance
<1> DEFINE w == [v EXCEPT !.conn = c]
<1>1. v \in View /\ Fits(v, b) /\ Sealing(v)
  BY DEF Sound
<1>2. /\ w \in View /\ w.conn = c /\ w.reads = v.reads /\ w.buffered = v.buffered
      /\ w.application = v.application /\ w.session = v.session /\ w.shown = v.shown
      /\ w.instance = v.instance /\ w.timer = v.timer
  BY <1>1 DEF View
<1> HIDE DEF w
<1>3. Fits(w, b) /\ Sealing(w) /\ Later(v, w)
  BY <1>1, <1>2 DEF Fits, Sealing, Later
<1> QED BY <1>2, <1>3 DEF Sound, w

\* A client that tells the user what went wrong.
LEMMA FailedIs ==
  ASSUME NEW b \in Nat, NEW v \in Sound(b), NEW k \in Reads
  PROVE  LET w == Failed(v, k) IN
         /\ w \in Sound(b) /\ Later(v, w)
         /\ \/ w.conn = "failed"
            \/ /\ ~(k = "application" /\ (v.rebase \/ v.conn = "loading"))
               /\ Alike(v, w) /\ w.timer = v.timer
               /\ k \in w.errors /\ v.errors \subseteq w.errors
               /\ w.reads[k].stage = "none"
               /\ \A j \in Reads : j # k =>
                    /\ w.reads[j].stage = v.reads[j].stage /\ w.reads[j].reply = v.reads[j].reply
                    /\ w.reads[j].events = v.reads[j].events
                    /\ w.reads[j].overflow = v.reads[j].overflow
                    /\ v.reads[j].pending => w.reads[j].pending
<1>1. CASE k = "application" /\ (v.rebase \/ v.conn = "loading")
  <2> DEFINE c == Cancelled(v)
             w == [c EXCEPT !.conn = "failed"]
  <2>1. Failed(v, k) = w
    BY <1>1 DEF Failed
  <2>2. c \in Sound(b) /\ Later(v, c)
    BY CancelledIs
  <2> HIDE DEF c
  <2>3. w \in Sound(b) /\ w.conn = "failed" /\ Later(c, w)
    BY <2>2, OtherConnection
  <2> HIDE DEF w
  <2>4. Later(v, w)
    BY <2>2, <2>3 DEF Later
  <2> QED BY <2>1, <2>3, <2>4
<1>2. CASE ~(k = "application" /\ (v.rebase \/ v.conn = "loading"))
  <2> DEFINE d == Ended(v, k, FALSE)
             w == [d EXCEPT !.errors = d.errors \cup {k}]
  <2>1. Failed(v, k) = w
    BY <1>2 DEF Failed
  <2>2. /\ d \in Sound(b) /\ Later(v, d) /\ Alike(v, d) /\ d.errors = v.errors
        /\ d.reads[k].stage = "none" /\ d.timer = v.timer
        /\ \A j \in Reads : j # k =>
             /\ d.reads[j].stage = v.reads[j].stage /\ d.reads[j].reply = v.reads[j].reply
             /\ d.reads[j].events = v.reads[j].events
             /\ d.reads[j].overflow = v.reads[j].overflow
             /\ v.reads[j].pending => d.reads[j].pending
    <3>1. FALSE \in BOOLEAN
      OBVIOUS
    <3>2. /\ d \in Sound(b) /\ Later(v, d) /\ Alike(v, d) /\ d.errors = v.errors
          /\ d.reads[k].stage = "none"
          /\ v.timer \subseteq d.timer
          /\ IF FALSE /\ v.reads[k].pending THEN k \in d.timer ELSE d.timer = v.timer
          /\ \A j \in Reads : j # k =>
               /\ d.reads[j].stage = v.reads[j].stage /\ d.reads[j].reply = v.reads[j].reply
               /\ d.reads[j].events = v.reads[j].events
               /\ d.reads[j].overflow = v.reads[j].overflow
               /\ v.reads[j].pending => d.reads[j].pending
      BY <3>1, EndedIs
    <3> HIDE DEF d
    <3> QED BY <3>2
  <2> HIDE DEF d
  <2>3. d \in View /\ \A j \in Reads : ReadFits(d.reads[j], b)
    BY <2>2 DEF Sound, Fits
  <2>4. w \in View /\ w.reads = d.reads /\ w.timer = d.timer /\ w.errors = d.errors \cup {k}
    BY <2>3 DEF View
  <2>5. Alike(d, w)
    BY <2>3 DEF View, Alike
  <2> HIDE DEF w
  <2>6. w \in Sound(b)
    BY <2>2, <2>3, <2>4, <2>5, AlikeSound
  <2>7. Later(v, w) /\ Alike(v, w)
    BY <2>2, <2>4, <2>5 DEF Later, Alike
  <2> QED BY <1>2, <2>1, <2>2, <2>4, <2>6, <2>7
<1> QED BY <1>1, <1>2

LEMMA ApplicationOfIs ==
  ASSUME NEW answer \in Reported
  PROVE  LET x == ApplicationOf(answer) IN
         /\ x \in Held /\ x.configuration = answer.configuration
         /\ x.body = answer.body /\ x.sequence = answer.sequence
BY DEF ApplicationOf, Held, Reported

\* The session is shown as an answer has it.
LEMMA SessionAppliedIs ==
  ASSUME NEW b \in Nat, NEW v \in Sound(b), NEW answer \in Reported,
         NEW events \in Seq(NumberedEvent), answer.body <= b, answer.sequence <= MaxSequence
  PROVE  LET w == SessionApplied(v, answer, events) IN
         /\ w \in Sound(b)
         /\ w.reads = v.reads /\ w.timer = v.timer /\ w.errors = v.errors
         /\ w.conn = v.conn /\ w.instance = v.instance /\ w.observed = v.observed
         /\ w.rebase = v.rebase /\ w.application = v.application
         /\ answer.sequence >= v.session.sequence =>
              /\ w.session = ApplicationOf(answer) /\ w.rebased
              /\ w.shown = Rebased(answer, events)
         /\ ~(answer.sequence >= v.session.sequence) => w = v
<1> DEFINE w == SessionApplied(v, answer, events)
<1>1. /\ v \in View /\ Fits(v, b) /\ Sealing(v)
      /\ v.session.sequence \in Nat /\ answer.sequence \in Nat
  BY DEF Sound, View, Held, Reported
<1>2. CASE answer.sequence < v.session.sequence
  <2>1. w = v
    BY <1>2 DEF SessionApplied
  <2> QED BY <1>1, <1>2, <2>1
<1>3. CASE ~(answer.sequence < v.session.sequence)
  <2> DEFINE x == Rebased(answer, events)
             a == ApplicationOf(answer)
             y == [v EXCEPT !.session = a, !.rebased = TRUE, !.shown = x]
  <2>1. w = y
    BY <1>3 DEF SessionApplied
  <2>2. x \in Texts /\ x.known /\ 1..answer.body \subseteq x.sealed
    BY RebasedSound
  <2>3. a \in Held /\ a.body = answer.body /\ a.sequence = answer.sequence
    BY ApplicationOfIs
  <2> HIDE DEF x, a, w
  <2>4. x \in Shown /\ \A s \in Steps : s \in x.sealed => x.text[s] = 0
    BY <2>2 DEF Texts
  <2>5. /\ y \in View /\ y.session = a /\ y.rebased = TRUE /\ y.shown = x /\ y.reads = v.reads
        /\ y.timer = v.timer /\ y.errors = v.errors /\ y.conn = v.conn
        /\ y.instance = v.instance /\ y.observed = v.observed /\ y.rebase = v.rebase
        /\ y.application = v.application /\ y.buffered = v.buffered
    BY <1>1, <2>3, <2>4 DEF View
  <2> HIDE DEF y
  <2>6. Fits(y, b)
    BY <1>1, <2>3, <2>5 DEF Fits
  <2>7. Sealing(y)
    BY <2>2, <2>3, <2>4, <2>5 DEF Sealing
  <2>8. y \in Sound(b)
    BY <2>5, <2>6, <2>7 DEF Sound
  <2>9. answer.sequence >= v.session.sequence
    BY <1>1, <1>3
  <2>10. w.session = ApplicationOf(answer) /\ w.rebased /\ w.shown = Rebased(answer, events)
    BY <2>1, <2>5 DEF a, x
  <2> HIDE DEF y
  <2> QED BY <2>1, <2>5, <2>8, <2>9, <2>10 DEF w
<1> QED BY <1>2, <1>3

\* The application is shown as an answer has it.
LEMMA RefreshedIs ==
  ASSUME NEW b \in Nat, NEW v \in Sound(b), NEW answer \in Reported,
         answer.body <= b, answer.sequence <= MaxSequence
  PROVE  LET w == Refreshed(v, answer) IN
         /\ w \in Sound(b)
         /\ w.reads = v.reads /\ w.timer = v.timer /\ w.errors = v.errors
         /\ w.conn = v.conn /\ w.instance = v.instance /\ w.observed = v.observed
         /\ w.rebase = v.rebase /\ w.session = v.session /\ w.rebased = v.rebased
         /\ w.shown = v.shown
         /\ answer.sequence >= v.application.sequence => w.application = ApplicationOf(answer)
         /\ ~(answer.sequence >= v.application.sequence) => w = v
<1> DEFINE w == Refreshed(v, answer)
<1>1. /\ v \in View /\ Fits(v, b) /\ Sealing(v)
      /\ v.application.sequence \in Nat /\ answer.sequence \in Nat
  BY DEF Sound, View, Held, Reported
<1>2. CASE answer.sequence < v.application.sequence
  <2>1. w = v
    BY <1>2 DEF Refreshed
  <2> QED BY <1>1, <1>2, <2>1
<1>3. CASE ~(answer.sequence < v.application.sequence)
  <2> DEFINE a == ApplicationOf(answer)
             y == [v EXCEPT !.application = a]
  <2>1. w = y
    BY <1>3 DEF Refreshed
  <2>2. a \in Held /\ a.body = answer.body /\ a.sequence = answer.sequence
    BY ApplicationOfIs
  <2> HIDE DEF a, w
  <2>3. /\ y \in View /\ y.application = a /\ y.rebased = v.rebased /\ y.shown = v.shown
        /\ y.reads = v.reads
        /\ y.timer = v.timer /\ y.errors = v.errors /\ y.conn = v.conn
        /\ y.instance = v.instance /\ y.observed = v.observed /\ y.rebase = v.rebase
        /\ y.session = v.session /\ y.buffered = v.buffered
    BY <1>1, <2>2 DEF View
  <2> HIDE DEF y
  <2>4. Fits(y, b) /\ Sealing(y)
    BY <1>1, <2>2, <2>3 DEF Fits, Sealing
  <2>5. y \in Sound(b)
    BY <2>3, <2>4 DEF Sound
  <2>6. answer.sequence >= v.application.sequence
    BY <1>1, <1>3
  <2>7. w.application = ApplicationOf(answer)
    BY <2>1, <2>3 DEF a
  <2> QED BY <2>1, <2>3, <2>5, <2>6, <2>7 DEF w
<1> QED BY <1>2, <1>3

-----------------------------------------------------------------------------
(* A client that follows the events *)

LEMMA AnswersLater ==
  ASSUME NEW v, NEW w, AnswersOf(v), Later(v, w)
  PROVE  AnswersOf(w)
<1> SUFFICES ASSUME w.instance = instance, NEW k \in Reads
             PROVE  /\ w[k].sequence <= Len(log)
                    /\ w.reads[k].stage = "replied" =>
                         LET x == w.reads[k].reply IN
                         /\ w[k].sequence <= x.sequence /\ x.sequence <= Len(log)
                         /\ Covers(x, x.sequence)
                         /\ k = "session" => Tells(x)
  BY DEF AnswersOf
<1>1. /\ v.instance = instance /\ w.application = v.application /\ w.session = v.session
      /\ w.reads[k].stage = "replied" =>
           v.reads[k].stage = "replied" /\ w.reads[k].reply = v.reads[k].reply
  BY DEF Later
<1>2. w[k] = v[k]
  BY <1>1 DEF Reads
<1>3. /\ v[k].sequence <= Len(log)
      /\ v.reads[k].stage = "replied" =>
           LET x == v.reads[k].reply IN
           /\ v[k].sequence <= x.sequence /\ x.sequence <= Len(log)
           /\ Covers(x, x.sequence)
           /\ k = "session" => Tells(x)
  BY <1>1 DEF AnswersOf
<1> QED BY <1>1, <1>2, <1>3

\* An event that announces no change leaves nothing to be asked for.
LEMMA CoversNext ==
  ASSUME NEW x, NEW n \in Nat, Covers(x, n), log[n + 1].type \notin {"config_changed", "step_committed"},
         log \in Seq(EventRecord)
  PROVE  Covers(x, n + 1)
<1>1. DOMAIN log = 1..Len(log) /\ Len(log) \in Nat
  OBVIOUS
<1>2. \A i \in DOMAIN log : i > n => i > n + 1 \/ i = n + 1
  BY <1>1
<1> QED BY <1>2 DEF Covers

\* The next event: what it changes is asked for, what it says is shown and heard.
LEMMA FollowsNext ==
  ASSUME RuntimeBounds, Written, NEW v \in Sound(store.body), Stands(v),
         v.observed + 1 <= Len(log)
  PROVE  LET w == Applied(v, Numbered(v.observed + 1)) IN
         /\ w \in Sound(store.body) /\ Later(v, w) /\ Stands(w)
         /\ w.conn = v.conn /\ w.observed = v.observed + 1 /\ w.rebased = v.rebased
         /\ \A k \in Reads : w.reads[k].stage = v.reads[k].stage
         /\ Owed(v, "session") => Owed(w, "session")
         /\ Heard(v, v.reads["session"]) => Heard(w, w.reads["session"])
<1> DEFINE n == v.observed
           e == Numbered(n + 1)
           w == Applied(v, e)
<1>1. /\ v \in View /\ Sealing(v) /\ n \in Nat /\ v.session.sequence \in Nat
      /\ v.instance = instance /\ ~v.rebase /\ store.body \in Nat
  BY DEF Sound, View, Held, Stands, RuntimeBounds
<1>2. log \in Seq(EventRecord) /\ Len(log) \in Nat /\ n + 1 \in 1..Len(log)
  BY <1>1 DEF RuntimeBounds
<1>3. /\ e \in NumberedEvent /\ e.sequence = n + 1 /\ e.type = log[n + 1].type
      /\ e.step = log[n + 1].step
      /\ \A s : log[n + 1] = Event("text_delta", s) <=> e.type = "text_delta" /\ e.step = s
  BY <1>2, NumberedIs
<1> HIDE DEF e
<1>4. /\ w \in Sound(store.body) /\ Later(v, w)
      /\ w.conn = v.conn /\ ~w.rebase /\ w.rebased = v.rebased /\ w.observed = e.sequence
      /\ w.shown = IF InOwnerSnapshot(v, e) THEN v.shown ELSE LiveApplied(v.shown, e)
      /\ w.errors = v.errors /\ v.timer \subseteq w.timer
      /\ \A k \in RefreshOf(e) : IF v.reads[k].stage = "none" THEN k \in w.timer
                                 ELSE w.reads[k].pending
      /\ \A k \in Reads :
           /\ w.reads[k].stage = v.reads[k].stage /\ w.reads[k].reply = v.reads[k].reply
           /\ v.reads[k].pending => w.reads[k].pending
      /\ LET x == v.reads["session"]  y == w.reads["session"] IN
         /\ x.overflow => y.overflow
         /\ y.stage # "none" /\ ~y.overflow =>
              y.events = IF e.type = "config_changed" THEN x.events ELSE Append(x.events, e)
  BY <1>1, <1>3, AppliedNext
<1> HIDE DEF w
<1>5. w.observed = n + 1 /\ w.instance = v.instance /\ w.application = v.application
      /\ w.session = v.session
  BY <1>3, <1>4 DEF Later
<1>6. ASSUME NEW k \in Reads, Owed(v, k) PROVE Owed(w, k)
  <2>1. w[k] = v[k]
    BY <1>5 DEF Reads
  <2>2. w.reads[k].stage = v.reads[k].stage /\ w.reads[k].reply = v.reads[k].reply
        /\ (v.reads[k].pending => w.reads[k].pending)
    BY <1>4
  <2>3. ASSUME NEW x, Covers(x, n), k \notin RefreshOf(e) PROVE Covers(x, n + 1)
    <3>1. e.type \notin {"config_changed", "step_committed"}
      BY <2>3 DEF RefreshOf
    <3> QED BY <1>1, <1>2, <1>3, <2>3, <3>1, CoversNext
  <2>4. CASE k \in v.errors
    BY <1>4, <2>4 DEF Owed
  <2>5. CASE v.reads[k].stage = "none" /\ k \in v.timer
    BY <1>4, <2>2, <2>5 DEF Owed
  <2>6. CASE v.reads[k].stage = "none" /\ Covers(v[k], v.observed)
    <3>1. CASE k \in RefreshOf(e)
      BY <1>4, <2>2, <2>6, <3>1 DEF Owed
    <3>2. CASE k \notin RefreshOf(e)
      <4>1. Covers(w[k], w.observed)
        BY <1>5, <2>1, <2>3, <2>6, <3>2
      <4> QED BY <2>2, <2>6, <4>1 DEF Owed
    <3> QED BY <3>1, <3>2
  <2>7. CASE v.reads[k].stage # "none" /\ (v.reads[k].pending \/ v.reads[k].stage = "asked")
    BY <2>2, <2>7 DEF Owed
  <2>8. CASE v.reads[k].stage # "none" /\ Covers(v.reads[k].reply, v.observed)
    <3>1. CASE k \in RefreshOf(e)
      BY <1>4, <2>2, <2>8, <3>1 DEF Owed
    <3>2. CASE k \notin RefreshOf(e)
      <4>1. Covers(w.reads[k].reply, w.observed)
        BY <1>5, <2>2, <2>3, <2>8, <3>2
      <4> QED BY <2>2, <2>8, <4>1 DEF Owed
    <3> QED BY <3>1, <3>2
  <2> QED BY <1>6, <2>4, <2>5, <2>6, <2>7, <2>8 DEF Owed
<1>7. ASSUME w.rebased PROVE w.shown.known /\ ExactAt(w.shown, LatestOf(w))
  <2>1. v.shown.known /\ ExactAt(v.shown, LatestOf(v))
    BY <1>4, <1>7 DEF Stands
  <2>2. v.shown \in Shown /\ \A s \in Steps : s \in v.shown.sealed => v.shown.text[s] = 0
    BY <1>1 DEF View, Sealing
  <2>3. CASE n + 1 <= v.session.sequence
    <3>1. LatestOf(w) = LatestOf(v)
      BY <1>1, <1>5, <2>3 DEF LatestOf
    <3>2. w.shown = v.shown
      <4>1. CASE InOwnerSnapshot(v, e)
        BY <1>4, <4>1
      <4>2. CASE ~InOwnerSnapshot(v, e)
        <5>1. e.type = "config_changed"
          BY <1>3, <2>3, <4>2 DEF InOwnerSnapshot
        <5>2. LiveApplied(v.shown, e) = v.shown
          BY <5>1 DEF LiveApplied
        <5> QED BY <1>4, <4>2, <5>2
      <4> QED BY <4>1, <4>2
    <3> QED BY <2>1, <3>1, <3>2
  <2>4. CASE ~(n + 1 <= v.session.sequence)
    <3>1. LatestOf(v) = n /\ LatestOf(w) = n + 1
      BY <1>1, <1>5, <2>4 DEF LatestOf
    <3>2. w.shown = LiveApplied(v.shown, e)
      BY <1>3, <1>4, <2>4 DEF InOwnerSnapshot
    <3>3. ExactAt(LiveApplied(v.shown, Numbered(n + 1)), n + 1)
      <4> HIDE DEF n
      <4> QED BY <1>1, <1>2, <2>1, <2>2, <3>1, ExactNext DEF n
    <3>4. LiveApplied(v.shown, e).known
      BY <1>3, <2>1, <2>2, TextGoesOn
    <3> QED BY <3>1, <3>2, <3>3, <3>4 DEF e
  <2> QED BY <2>3, <2>4
<1>8. ASSUME Heard(v, v.reads["session"]) PROVE Heard(w, w.reads["session"])
  <2> DEFINE x == v.reads["session"]  y == w.reads["session"]
  <2> SUFFICES ASSUME y.stage # "none", ~y.overflow PROVE Heard(w, y)
    BY DEF Heard
  <2>1. "session" \in Reads /\ x \in Read
    BY <1>1 DEF Reads, View
  <2>2. /\ x.stage = y.stage /\ x.reply = y.reply /\ ~x.overflow /\ x.events \in Seq(NumberedEvent)
        /\ y.events = IF e.type = "config_changed" THEN x.events ELSE Append(x.events, e)
    BY <1>4, <2>1 DEF Read
  <2> HIDE DEF x, y
  <2>3. /\ \A i \in 1..Len(x.events) : /\ x.events[i].sequence \in 1 .. n
                                       /\ x.events[i] = Numbered(x.events[i].sequence)
        /\ \A i, j \in 1..Len(x.events) :
             i < j => x.events[i].sequence < x.events[j].sequence
        /\ x.stage = "replied" =>
             \A m \in x.reply.sequence + 1 .. n : log[m].type # "config_changed" =>
                \E i \in 1..Len(x.events) : x.events[i].sequence = m
    <3>1. DOMAIN x.events = 1..Len(x.events)
      BY <2>2
    <3> QED BY <1>8, <2>2, <3>1 DEF Heard, x
  <2>4. x.reply.sequence \in Nat
    BY <2>1, ReplyIs DEF x
  <2>5. \A m \in x.reply.sequence + 1 .. n + 1 : m \in x.reply.sequence + 1 .. n \/ m = n + 1
    BY <1>1, <2>4
  <2>6. CASE e.type = "config_changed"
    <3>1. y.events = x.events /\ DOMAIN y.events = 1..Len(x.events)
      BY <2>2, <2>6
    <3>2. \A i \in DOMAIN y.events : /\ y.events[i].sequence \in 1 .. n + 1
                                     /\ y.events[i] = Numbered(y.events[i].sequence)
      BY <1>1, <2>3, <3>1
    <3>3. ASSUME y.stage = "replied",
                 NEW m \in y.reply.sequence + 1 .. n + 1, log[m].type # "config_changed"
          PROVE  \E i \in DOMAIN y.events : y.events[i].sequence = m
      <4>1. m \in x.reply.sequence + 1 .. n
        BY <1>3, <2>2, <2>5, <2>6, <3>3
      <4> QED BY <2>2, <2>3, <3>1, <3>3, <4>1
    <3> QED BY <1>5, <2>3, <3>1, <3>2, <3>3 DEF Heard
  <2>7. CASE e.type # "config_changed"
    <3> DEFINE l == Len(x.events)
    <3>1. /\ DOMAIN y.events = 1..(l + 1) /\ l \in Nat /\ y.events[l + 1] = e
          /\ \A i \in 1..l : y.events[i] = x.events[i]
      BY <1>3, <2>2, <2>7
    <3>2. \A i \in 1..(l + 1) : i \in 1..l \/ i = l + 1
      BY <3>1
    <3>3. \A i \in 1..l : y.events[i].sequence \in 1..n
      BY <2>3, <3>1
    <3>4. y.events[l + 1].sequence = n + 1
      BY <1>3, <3>1
    <3>5. \A i \in 1..(l + 1) : /\ y.events[i].sequence \in 1 .. n + 1
                                /\ y.events[i] = Numbered(y.events[i].sequence)
      <4> TAKE i \in 1..(l + 1)
      <4>1. CASE i \in 1..l
        <5>1. y.events[i] = x.events[i] /\ x.events[i] = Numbered(x.events[i].sequence)
          BY <2>3, <3>1, <4>1
        <5>2. x.events[i].sequence \in 1..n
          BY <2>3, <3>1, <4>1
        <5>3. x.events[i].sequence \in 1..n + 1
          BY <1>1, <5>2
        <5> HIDE DEF n
        <5> QED BY <5>1, <5>3
      <4>2. CASE i = l + 1
        BY <1>1, <1>2, <3>1, <3>4, <4>2 DEF e
      <4> QED BY <3>2, <4>1, <4>2
    <3>6. ASSUME NEW i \in 1..(l + 1), NEW j \in 1..(l + 1), i < j
          PROVE  y.events[i].sequence < y.events[j].sequence
      <4>1. i \in 1..l
        BY <3>1, <3>6
      <4>2. CASE j \in 1..l
        BY <2>3, <3>1, <3>6, <4>1, <4>2
      <4>3. CASE j = l + 1
        BY <1>1, <3>3, <3>4, <4>1, <4>3
      <4> QED BY <3>2, <4>2, <4>3
    <3>7. ASSUME y.stage = "replied",
                 NEW m \in y.reply.sequence + 1 .. n + 1, log[m].type # "config_changed"
          PROVE  \E i \in 1..(l + 1) : y.events[i].sequence = m
      <4>1. CASE m = n + 1
        BY <3>1, <3>4, <4>1
      <4>2. CASE m \in x.reply.sequence + 1 .. n
        <5>1. PICK i \in 1..l : x.events[i].sequence = m
          BY <2>2, <2>3, <3>7, <4>2
        <5>2. i \in 1..(l + 1) /\ y.events[i].sequence = m
          BY <3>1, <5>1
        <5> QED BY <5>2
      <4> QED BY <2>2, <2>5, <4>1, <4>2
    <3> HIDE DEF l
    <3> QED BY <1>5, <3>1, <3>5, <3>6, <3>7 DEF Heard
  <2> QED BY <2>6, <2>7
<1>9. Stands(w)
  <2>1. Owed(w, "application")
    BY <1>6 DEF Stands, Reads
  <2> QED BY <1>1, <1>2, <1>4, <1>5, <1>7, <2>1 DEF Stands
<1>10. "session" \in Reads
  BY DEF Reads
<1>11. w.observed = v.observed + 1
  BY <1>5
<1>12. \A k \in Reads : w.reads[k].stage = v.reads[k].stage
  BY <1>4
<1> QED BY <1>4, <1>6, <1>8, <1>9, <1>10, <1>11, <1>12 DEF w, e

-----------------------------------------------------------------------------
(* The steps of a client *)

Subscription == {st \in [position : Nat, closed : BOOLEAN] : st.position <= MaxSequence}

\* Nothing is claimed of a client that has no stream, or one that is out of order.
LEMMA OutOfStream ==
  ASSUME NEW v, NEW st, NEW f, Client(v, st, f),
         NEW w \in Sound(store.body), Later(v, w), NEW ts \in Subscription, NEW g,
         w.conn \in {"down", "failed"} \/ ts.closed \/ ~Ordered(g)
  PROVE  Client(w, ts, g)
<1>1. Opening(w, ts, g) /\ Following(w, ts, g)
  BY DEF Opening, Following
<1>2. AnswersOf(w)
  BY AnswersLater DEF Client
<1>3. w.instance <= instance
  BY DEF Client, Later
<1> QED BY <1>1, <1>2, <1>3 DEF Client, Subscription

LEMMA GappedSound ==
  ASSUME NEW b \in Nat, NEW v \in Sound(b)
  PROVE  Gapped(v) \in Sound(b) /\ Later(v, Gapped(v))
<1>1. CASE v.conn = "live"
  BY <1>1, GapIs DEF Gapped
<1>2. CASE v.conn # "live"
  <2> DEFINE w == [v EXCEPT !.overflow = TRUE]
  <2>1. Gapped(v) = w
    BY <1>2 DEF Gapped
  <2>2. v \in View /\ Fits(v, b) /\ Sealing(v)
    BY DEF Sound
  <2>3. /\ w \in View /\ w.reads = v.reads /\ w.buffered = v.buffered
        /\ w.application = v.application /\ w.session = v.session /\ w.shown = v.shown
        /\ w.instance = v.instance
    BY <2>2 DEF View
  <2> HIDE DEF w
  <2>4. Fits(w, b) /\ Sealing(w) /\ Later(v, w)
    BY <2>2, <2>3 DEF Fits, Sealing, Later
  <2> QED BY <2>1, <2>3, <2>4 DEF Sound
<1> QED BY <1>1, <1>2

\* An event for a client that connects is kept until there are too many.
LEMMA KeptAside ==
  ASSUME NEW b \in Nat, NEW v \in Sound(b), NEW e \in NumberedEvent, v.conn # "live"
  PROVE  LET w == Received(v, e) IN
         /\ w \in Sound(b) /\ Later(v, w)
         /\ w.conn = v.conn /\ w.rebase = v.rebase /\ w.rebased = v.rebased
         /\ w.timer = v.timer /\ w.reads = v.reads
         /\ v.overflow => w.overflow
         /\ ~w.overflow => w.buffered = Append(v.buffered, e)
<1>1. v \in View /\ Fits(v, b) /\ Sealing(v) /\ v.buffered \in Seq(NumberedEvent)
      /\ Len(v.buffered) \in Nat
  BY DEF Sound, View
<1>2. MaxBuffer \in Nat /\ Len(<<>>) = 0 /\ <<>> \in Seq(NumberedEvent)
  BY ClientSyncAssumption
<1>3. CASE v.overflow
  <2>1. Received(v, e) = v
    BY <1>3 DEF Received
  <2> QED BY <1>3, <2>1 DEF Later
<1>4. CASE ~v.overflow /\ Len(v.buffered) < MaxBuffer
  <2> DEFINE l == Append(v.buffered, e)
             w == [v EXCEPT !.buffered = l]
  <2>1. Received(v, e) = w
    BY <1>4 DEF Received
  <2>2. l \in Seq(NumberedEvent) /\ Len(l) = Len(v.buffered) + 1
    BY <1>1
  <2> HIDE DEF l
  <2>3. /\ w \in View /\ w.reads = v.reads /\ w.buffered = l
        /\ w.application = v.application /\ w.session = v.session /\ w.shown = v.shown
        /\ w.instance = v.instance /\ w.conn = v.conn /\ w.rebase = v.rebase
        /\ w.rebased = v.rebased /\ w.timer = v.timer /\ w.overflow = v.overflow
    BY <1>1, <2>2 DEF View
  <2> HIDE DEF w
  <2>4. Len(w.buffered) <= MaxBuffer
    BY <1>1, <1>2, <1>4, <2>2, <2>3
  <2>5. Fits(w, b) /\ Sealing(w) /\ Later(v, w)
    BY <1>1, <2>3, <2>4 DEF Fits, Sealing, Later
  <2> QED BY <1>4, <2>1, <2>3, <2>5 DEF Sound, l
<1>5. CASE ~v.overflow /\ ~(Len(v.buffered) < MaxBuffer)
  <2> DEFINE w == [v EXCEPT !.overflow = TRUE, !.buffered = <<>>]
  <2>1. Received(v, e) = w
    BY <1>5 DEF Received
  <2>2. /\ w \in View /\ w.reads = v.reads /\ w.buffered = <<>>
        /\ w.application = v.application /\ w.session = v.session /\ w.shown = v.shown
        /\ w.instance = v.instance /\ w.conn = v.conn /\ w.rebase = v.rebase
        /\ w.rebased = v.rebased /\ w.timer = v.timer /\ w.overflow = TRUE
    BY <1>1, <1>2 DEF View
  <2> HIDE DEF w
  <2>3. Len(w.buffered) <= MaxBuffer
    BY <1>2, <2>2
  <2>4. Fits(w, b) /\ Sealing(w) /\ Later(v, w)
    BY <1>1, <2>2, <2>3 DEF Fits, Sealing, Later
  <2> QED BY <2>1, <2>2, <2>4 DEF Sound
<1> QED BY <1>3, <1>4, <1>5

\* The client takes the next event of its stream.
LEMMA ReceivedKeeps ==
  ASSUME RuntimeBounds, Written, NEW v, NEW st \in Subscription, NEW f, Client(v, st, f),
         v.conn \in {"loading", "live"}, ~st.closed, st.position < Len(log)
  PROVE  Client(Received(v, Numbered(st.position + 1)), [st EXCEPT !.position = @ + 1], f)
<1> DEFINE n == st.position + 1
           e == Numbered(n)
           w == Received(v, e)
           ts == [st EXCEPT !.position = n]
<1>1. /\ st.position \in Nat /\ st.closed = FALSE /\ Len(log) \in Nat /\ Len(log) <= MaxSequence
      /\ v \in Sound(store.body) /\ store.body \in Nat /\ log \in Seq(EventRecord)
  <2>1. log \in Seq(EventRecord) /\ Len(log) \in Nat /\ store.body \in Nat
    BY DEF RuntimeBounds
  <2>2. Len(log) <= MaxSequence
    BY <2>1, ClientSyncAssumption DEF RuntimeBounds
  <2> QED BY <2>1, <2>2 DEF Subscription, Client
<1>2. n \in 1..Len(log) /\ n \in Nat
  BY <1>1
<1>3. ts \in Subscription /\ ts.position = n /\ ts.closed = FALSE
  <2>1. st \in [position : Nat, closed : BOOLEAN]
    BY DEF Subscription
  <2>2. n <= MaxSequence
    BY <1>1, <1>2, ClientSyncAssumption
  <2> QED BY <1>1, <1>2, <2>1, <2>2 DEF Subscription
<1>4. e \in NumberedEvent /\ e.sequence = n
  BY <1>1, <1>2, NumberedIs
<1>5. v \in View /\ v.observed \in Nat /\ v.buffered \in Seq(NumberedEvent)
  BY <1>1 DEF Sound, View
<1> HIDE DEF ts, e
<1>6. CASE v.conn = "live"
  <2>1. w = Applied(v, e)
    BY <1>6 DEF Received
  <2> HIDE DEF w
  <2>2. w \in Sound(store.body) /\ Later(v, w) /\ w.conn = "live"
    BY <1>1, <1>4, <1>6, <2>1, AppliedSound
  <2>3. ASSUME ~Ordered(f) PROVE Client(w, ts, f)
    BY <1>3, <2>2, <2>3, OutOfStream
  <2>4. ASSUME Ordered(f) PROVE Client(w, ts, f)
    <3>1. /\ Stands(v) /\ st.position <= v.observed /\ Owed(v, "session")
          /\ Heard(v, v.reads["session"])
      BY <1>1, <1>6, <2>4 DEF Client, Following
    <3>2. Stands(w) /\ n <= w.observed /\ Owed(w, "session") /\ Heard(w, w.reads["session"])
      <4>1. CASE n <= v.observed
        <5>1. w = v
          BY <1>4, <2>1, <3>1, <4>1 DEF Applied, Stands
        <5> QED BY <3>1, <4>1, <5>1
      <4>2. CASE ~(n <= v.observed)
        <5>1. n = v.observed + 1 /\ n <= Len(log)
          BY <1>1, <1>2, <1>5, <3>1, <4>2
        <5>2. w = Applied(v, Numbered(v.observed + 1))
          BY <2>1, <5>1 DEF e
        <5> HIDE DEF n
        <5>3. /\ Stands(w) /\ w.observed = v.observed + 1
              /\ Owed(v, "session") => Owed(w, "session")
              /\ Heard(v, v.reads["session"]) => Heard(w, w.reads["session"])
          BY <1>1, <3>1, <5>1, <5>2, FollowsNext
        <5> QED BY <1>2, <3>1, <5>1, <5>3
      <4> QED BY <4>1, <4>2
    <3>3. Following(w, ts, f)
      BY <1>3, <3>2 DEF Following
    <3>4. Opening(w, ts, f)
      BY <2>2 DEF Opening
    <3>5. AnswersOf(w) /\ w.instance <= instance
      BY <2>2, AnswersLater DEF Client, Later
    <3> QED BY <1>3, <2>2, <3>3, <3>4, <3>5 DEF Client, Subscription
  <2> QED BY <2>3, <2>4 DEF ts, w, e
<1>7. CASE v.conn = "loading"
  <2>1. /\ w \in Sound(store.body) /\ Later(v, w)
        /\ w.conn = v.conn /\ w.rebase = v.rebase /\ w.rebased = v.rebased
        /\ w.timer = v.timer /\ w.reads = v.reads
        /\ v.overflow => w.overflow
        /\ ~w.overflow => w.buffered = Append(v.buffered, e)
    BY <1>1, <1>4, <1>7, KeptAside
  <2> HIDE DEF w
  <2>2. w.instance = v.instance
    BY <2>1 DEF Later
  <2>3. Opening(w, ts, f)
    <3> SUFFICES ASSUME Ordered(f) PROVE Opening(w, ts, f)
      BY DEF Opening
    <3>1. /\ v.instance = instance /\ ~v.rebase /\ ~v.rebased /\ v.timer = {}
          /\ v.reads["session"].stage = "none"
          /\ v.reads["application"].stage # "none" /\ ~v.reads["application"].pending
          /\ ~v.overflow =>
               LET m == st.position - Len(v.buffered)  x == v.reads["application"] IN
               /\ m >= 0
               /\ \A i \in DOMAIN v.buffered : v.buffered[i] = Numbered(m + i)
               /\ x.stage = "replied" => x.reply.sequence >= m
      BY <1>1, <1>7 DEF Client, Opening
    <3>2. ASSUME ~w.overflow
          PROVE  LET m == ts.position - Len(w.buffered)  x == w.reads["application"] IN
                 /\ m >= 0
                 /\ \A i \in DOMAIN w.buffered : w.buffered[i] = Numbered(m + i)
                 /\ x.stage = "replied" => x.reply.sequence >= m
      <4> DEFINE l == Len(v.buffered)
                 m == st.position - l
      <4>1. /\ m >= 0
            /\ \A i \in DOMAIN v.buffered : v.buffered[i] = Numbered(m + i)
            /\ v.reads["application"].stage = "replied" =>
                 v.reads["application"].reply.sequence >= m
        BY <2>1, <3>1, <3>2
      <4>2. /\ w.buffered = Append(v.buffered, e) /\ l \in Nat /\ Len(w.buffered) = l + 1
            /\ DOMAIN v.buffered = 1..l /\ DOMAIN w.buffered = 1..(l + 1)
            /\ w.buffered[l + 1] = e /\ \A i \in 1..l : w.buffered[i] = v.buffered[i]
        BY <1>4, <1>5, <2>1, <3>2
      <4>3. ts.position - Len(w.buffered) = m /\ m + (l + 1) = n
        BY <1>1, <1>3, <4>2
      <4> HIDE DEF m, l
      <4>4. ASSUME NEW i \in 1..(l + 1) PROVE w.buffered[i] = Numbered(m + i)
        <5>1. CASE i = l + 1
          BY <4>2, <4>3, <5>1 DEF e
        <5>2. CASE i # l + 1
          <6>1. i \in 1..l
            BY <4>2, <5>2
          <6> QED BY <4>1, <4>2, <6>1
        <5> QED BY <5>1, <5>2
      <4> QED BY <2>1, <4>1, <4>2, <4>3, <4>4
    <3> QED BY <1>1, <1>2, <1>3, <2>1, <2>2, <3>1, <3>2 DEF Opening
  <2>4. Following(w, ts, f)
    BY <1>7, <2>1 DEF Following
  <2>5. AnswersOf(w) /\ w.instance <= instance
    BY <2>1, <2>2, AnswersLater DEF Client
  <2> QED BY <1>3, <2>1, <2>3, <2>4, <2>5 DEF Client, Subscription, ts, w, e
<1> QED BY <1>6, <1>7

LEMMA StillOwed ==
  ASSUME NEW v, NEW w, NEW k, Owed(v, k), w[k] = v[k], w.observed = v.observed,
         k \in v.errors => k \in w.errors, k \in v.timer => k \in w.timer,
         w.reads[k].stage = v.reads[k].stage, w.reads[k].reply = v.reads[k].reply,
         v.reads[k].pending => w.reads[k].pending
  PROVE  Owed(w, k)
BY DEF Owed

LEMMA StillStands ==
  ASSUME NEW v, NEW w, Stands(v), Alike(v, w), Owed(w, "application")
  PROVE  Stands(w)
<1>1. LatestOf(w) = LatestOf(v)
  BY DEF Alike, LatestOf
<1> QED BY <1>1 DEF Stands, Alike

LEMMA StillHeard ==
  ASSUME NEW v, NEW w, NEW x, NEW y, Heard(v, x), w.observed = v.observed,
         y.stage = x.stage, y.reply = x.reply, y.events = x.events, y.overflow = x.overflow
  PROVE  Heard(w, y)
BY DEF Heard

LEMMA NewlyHeard ==
  ASSUME NEW w, NEW y, y.events = <<>>, y.stage \in {"none", "asked"}
  PROVE  Heard(w, y)
<1>1. DOMAIN <<>> = {}
  OBVIOUS
<1> QED BY <1>1 DEF Heard

LEMMA AlikeHolds ==
  ASSUME NEW v, NEW w, Alike(v, w)
  PROVE  \A k \in Reads : w[k] = v[k]
BY DEF Alike, Reads

\* A read under way fails.
LEMMA FailedKeeps ==
  ASSUME RuntimeBounds, NEW v, NEW st \in Subscription, NEW f, Client(v, st, f),
         NEW k \in Reads, v.reads[k].stage # "none"
  PROVE  Client(Failed(v, k), st, f)
<1> DEFINE w == Failed(v, k)
<1>1. v \in Sound(store.body) /\ store.body \in Nat
  BY DEF Client, RuntimeBounds
<1>2. /\ w \in Sound(store.body) /\ Later(v, w)
      /\ \/ w.conn = "failed"
         \/ /\ ~(k = "application" /\ (v.rebase \/ v.conn = "loading"))
            /\ Alike(v, w) /\ w.timer = v.timer
            /\ k \in w.errors /\ v.errors \subseteq w.errors
            /\ w.reads[k].stage = "none"
            /\ \A j \in Reads : j # k =>
                 /\ w.reads[j].stage = v.reads[j].stage /\ w.reads[j].reply = v.reads[j].reply
                 /\ w.reads[j].events = v.reads[j].events
                 /\ w.reads[j].overflow = v.reads[j].overflow
                 /\ v.reads[j].pending => w.reads[j].pending
  BY <1>1, FailedIs
<1> HIDE DEF w
<1>3. ASSUME w.conn = "failed" PROVE Client(w, st, f)
  BY <1>2, <1>3, OutOfStream
<1>4. ASSUME w.conn # "failed" PROVE Client(w, st, f)
  <2>1. /\ ~(k = "application" /\ (v.rebase \/ v.conn = "loading"))
        /\ Alike(v, w) /\ w.timer = v.timer
        /\ k \in w.errors /\ v.errors \subseteq w.errors
        /\ w.reads[k].stage = "none"
        /\ \A j \in Reads : j # k =>
             /\ w.reads[j].stage = v.reads[j].stage /\ w.reads[j].reply = v.reads[j].reply
             /\ w.reads[j].events = v.reads[j].events
             /\ w.reads[j].overflow = v.reads[j].overflow
             /\ v.reads[j].pending => w.reads[j].pending
    BY <1>2, <1>4
  <2>2. w.conn = v.conn /\ w.observed = v.observed /\ \A j \in Reads : w[j] = v[j]
    BY <2>1, AlikeHolds DEF Alike
  <2>3. Opening(w, st, f)
    <3>1. v.conn = "loading" => k = "session"
      BY <2>1 DEF Reads
    <3> QED BY <2>2, <3>1 DEF Client, Opening
  <2>4. ASSUME Ordered(f), v.conn = "live", ~st.closed
        PROVE  Stands(w) /\ st.position <= w.observed /\ Owed(w, "session")
               /\ Heard(w, w.reads["session"])
    <3>1. /\ Stands(v) /\ st.position <= v.observed /\ Owed(v, "session")
          /\ Heard(v, v.reads["session"])
      BY <2>4 DEF Client, Following
    <3>2. ASSUME NEW j \in Reads PROVE Owed(w, j)
      <4>1. CASE j = k
        BY <2>1, <4>1 DEF Owed
      <4>2. CASE j # k
        <5>1. Owed(v, j)
          BY <3>1 DEF Reads, Stands
        <5> QED BY <2>1, <2>2, <4>2, <5>1, StillOwed
      <4> QED BY <4>1, <4>2
    <3>3. Heard(w, w.reads["session"])
      <4>1. CASE k = "session"
        BY <2>1, <4>1 DEF Heard
      <4>2. CASE k # "session"
        <5>1. "session" \in Reads
          BY DEF Reads
        <5> QED BY <2>1, <2>2, <3>1, <4>2, <5>1, StillHeard
      <4> QED BY <4>1, <4>2
    <3>4. "application" \in Reads /\ "session" \in Reads
      BY DEF Reads
    <3> QED BY <2>1, <2>2, <3>1, <3>2, <3>3, <3>4, StillStands
  <2>5. Following(w, st, f)
    BY <2>2, <2>4 DEF Following
  <2>6. AnswersOf(w) /\ w.instance <= instance
    BY <1>2, AnswersLater DEF Client, Later
  <2> QED BY <1>2, <2>3, <2>5, <2>6 DEF Client
<1> QED BY <1>3, <1>4 DEF w

\* A read that has heard too many events is repeated.
LEMMA RetriedKeeps ==
  ASSUME RuntimeBounds, NEW v, NEW st \in Subscription, NEW f, Client(v, st, f),
         NEW k \in Reads, v.reads[k].stage = "replied", v.reads[k].attempt < Retries,
         ~(k = "application" /\ v.conn = "loading")
  PROVE  Client(Retried(v, k), st, f)
<1> DEFINE w == Retried(v, k)
<1>1. v \in Sound(store.body) /\ store.body \in Nat
  BY DEF Client, RuntimeBounds
<1>2. /\ w \in Sound(store.body) /\ Later(v, w) /\ Alike(v, w)
      /\ w.timer = v.timer /\ w.errors = v.errors
      /\ w.reads[k].stage = "asked" /\ w.reads[k].events = <<>>
      /\ \A j \in Reads : j # k => w.reads[j] = v.reads[j]
  BY <1>1, RetriedIs
<1> HIDE DEF w
<1>3. w.conn = v.conn /\ w.observed = v.observed /\ \A j \in Reads : w[j] = v[j]
  BY <1>2, AlikeHolds DEF Alike
<1>4. Opening(w, st, f)
  <2>1. v.conn = "loading" => k = "session"
    BY DEF Reads
  <2> QED BY <1>3, <2>1 DEF Client, Opening
<1>5. ASSUME Ordered(f), v.conn = "live", ~st.closed
      PROVE  Stands(w) /\ st.position <= w.observed /\ Owed(w, "session")
             /\ Heard(w, w.reads["session"])
  <2>1. /\ Stands(v) /\ st.position <= v.observed /\ Owed(v, "session")
        /\ Heard(v, v.reads["session"])
    BY <1>5 DEF Client, Following
  <2>2. ASSUME NEW j \in Reads PROVE Owed(w, j)
    <3>1. CASE j = k
      BY <1>2, <3>1 DEF Owed
    <3>2. CASE j # k
      <4>1. Owed(v, j)
        BY <2>1 DEF Reads, Stands
      <4> QED BY <1>2, <1>3, <3>2, <4>1, StillOwed
    <3> QED BY <3>1, <3>2
  <2>3. "application" \in Reads /\ "session" \in Reads
    BY DEF Reads
  <2>4. Heard(w, w.reads["session"])
    <3>1. CASE k = "session"
      BY <1>2, <3>1, NewlyHeard
    <3>2. CASE k # "session"
      BY <1>2, <1>3, <2>1, <2>3, <3>2, StillHeard
    <3> QED BY <3>1, <3>2
  <2> QED BY <1>2, <1>3, <2>1, <2>2, <2>3, <2>4, StillStands
<1>6. Following(w, st, f)
  BY <1>3, <1>5 DEF Following
<1>7. AnswersOf(w) /\ w.instance <= instance
  BY <1>2, AnswersLater DEF Client, Later
<1> QED BY <1>2, <1>4, <1>6, <1>7 DEF Client, w

\* The runtime answers.
LEMMA AnswerKeeps ==
  ASSUME RuntimeBounds, Written, NEW v, NEW st \in Subscription, NEW f, Client(v, st, f),
         NEW k \in Reads, v.reads[k].stage = "asked", v.instance = instance,
         NEW body \in store.announced .. store.body
  PROVE  LET r == [sequence |-> Len(log), configuration |-> store.configuration,
                   body |-> body,
                   step |-> IF k = "session" THEN live.step ELSE 0,
                   text |-> IF k = "session" THEN live.text ELSE 0]
             x == [v.reads[k] EXCEPT !.stage = "replied", !.reply = r]
         IN  Client([v EXCEPT !.reads[k] = x], st, f)
<1> DEFINE r == [sequence |-> Len(log), configuration |-> store.configuration,
                 body |-> body,
                 step |-> IF k = "session" THEN live.step ELSE 0,
                 text |-> IF k = "session" THEN live.text ELSE 0]
           x == [v.reads[k] EXCEPT !.stage = "replied", !.reply = r]
           R == [v.reads EXCEPT ![k] = x]
           w == [v EXCEPT !.reads = R]
<1>1. /\ v \in Sound(store.body) /\ store.body \in Nat /\ store.announced \in Nat
      /\ store.configuration \in Nat /\ log \in Seq(EventRecord) /\ Len(log) \in Nat
      /\ live.step \in Nat /\ live.text \in Nat /\ Len(log) <= MaxSequence
  <2>1. /\ v \in Sound(store.body) /\ store.body \in Nat /\ store.announced \in Nat
        /\ store.configuration \in Nat /\ log \in Seq(EventRecord)
        /\ live.step \in Nat /\ live.text \in Nat /\ live.owed \in Nat
    BY DEF RuntimeBounds, Client
  <2>2. Len(log) \in Nat
    BY <2>1
  <2>3. Len(log) <= MaxSequence
    BY <2>1, <2>2, ClientSyncAssumption DEF RuntimeBounds
  <2> QED BY <2>1, <2>2, <2>3
<1>2. /\ v \in View /\ v.reads \in [Reads -> Read] /\ v.observed \in Nat
      /\ \A j \in Reads : v.reads[j] \in Read /\ ReadFits(v.reads[j], store.body)
  BY <1>1 DEF Sound, View, Fits
<1>3. body \in Nat /\ body <= store.body /\ body >= store.announced
  BY <1>1
<1>4. /\ r \in Reported /\ r.sequence = Len(log) /\ r.configuration = store.configuration
      /\ r.body = body /\ (k = "session" => r.step = live.step /\ r.text = live.text)
  BY <1>1, <1>3 DEF Reported
<1> HIDE DEF r
<1>5. /\ x \in Read /\ x.stage = "replied" /\ x.reply = r /\ x.events = v.reads[k].events
      /\ x.overflow = v.reads[k].overflow /\ x.pending = v.reads[k].pending
      /\ x.attempt = v.reads[k].attempt
  <2>1. ASSUME NEW y \in Read
        PROVE  LET z == [y EXCEPT !.stage = "replied", !.reply = r] IN
               /\ z \in Read /\ z.stage = "replied" /\ z.reply = r /\ z.events = y.events
               /\ z.overflow = y.overflow /\ z.pending = y.pending
               /\ z.attempt = y.attempt
    BY <1>4 DEF Read
  <2> QED BY <1>2, <2>1
<1> HIDE DEF x
<1>6. ReadFits(x, store.body)
  BY <1>1, <1>2, <1>3, <1>4, <1>5 DEF ReadFits
<1>7. R \in [Reads -> Read] /\ R[k] = x /\ \A j \in Reads : j # k => R[j] = v.reads[j]
  BY <1>2, <1>5
<1>8. \A j \in Reads : ReadFits(R[j], store.body)
  BY <1>2, <1>6, <1>7
<1> HIDE DEF R
<1>9. /\ w \in Sound(store.body) /\ Alike(v, w) /\ w.reads = R /\ w.timer = v.timer
      /\ w.errors = v.errors
  BY <1>1, <1>7, <1>8, NewReads
<1> HIDE DEF w
<1>10. /\ w.conn = v.conn /\ w.observed = v.observed /\ w.instance = v.instance
       /\ w.rebase = v.rebase /\ w.rebased = v.rebased /\ w.overflow = v.overflow
       /\ w.buffered = v.buffered
       /\ \A j \in Reads : w[j] = v[j]
  BY <1>9, AlikeHolds DEF Alike
<1>11. \A n : Covers(r, n)
  BY <1>3, <1>4 DEF Covers
<1>12. ASSUME k = "session" PROVE Tells(r)
  <2>1. r.step = live.step /\ r.text = live.text /\ r.sequence = Len(log)
    BY <1>4, <1>12
  <2>2. ASSUME NEW s \in Steps, s > live.step PROVE Deltas(s, Len(log)) = 0
    <3>1. ASSUME NEW i \in 1..Len(log) PROVE log[i] # Event("text_delta", s)
      <4>1. i \in DOMAIN log /\ log[i] \in EventRecord
        BY <1>1
      <4>2. log[i].step <= live.step /\ log[i].step \in Nat
        BY <4>1 DEF Written, EventRecord
      <4>3. s \in Nat
        BY ClientSyncAssumption DEF Steps
      <4> QED BY <1>1, <2>2, <4>2, <4>3 DEF Event
    <3> QED BY <1>1, <3>1, NoPieces
  <2>3. ASSUME NEW s \in Steps, s >= live.step
        PROVE  Deltas(s, Len(log)) = IF s = live.step THEN live.text ELSE 0
    <3>1. s \in Nat
      BY ClientSyncAssumption DEF Steps
    <3>2. CASE s = live.step
      BY <3>2 DEF Written
    <3>3. CASE s # live.step
      BY <1>1, <2>2, <2>3, <3>1, <3>3
    <3> QED BY <3>2, <3>3
  <2> QED BY <2>1, <2>3 DEF Tells
<1>13. AnswersOf(w)
  <2>1. \A j \in Reads :
          /\ v[j].sequence <= Len(log)
          /\ v.reads[j].stage = "replied" =>
               LET y == v.reads[j].reply IN
               /\ v[j].sequence <= y.sequence /\ y.sequence <= Len(log)
               /\ Covers(y, y.sequence)
               /\ j = "session" => Tells(y)
    BY DEF Client, AnswersOf
  <2>2. ASSUME NEW j \in Reads
        PROVE  /\ w[j].sequence <= Len(log)
               /\ w.reads[j].stage = "replied" =>
                    LET y == w.reads[j].reply IN
                    /\ w[j].sequence <= y.sequence /\ y.sequence <= Len(log)
                    /\ Covers(y, y.sequence)
                    /\ j = "session" => Tells(y)
    <3>1. CASE j = k
      <4>1. w[j] = v[j] /\ w.reads[j].reply = r
        BY <1>5, <1>7, <1>9, <1>10, <3>1
      <4> QED BY <1>1, <1>4, <1>11, <1>12, <2>1, <3>1, <4>1
    <3>2. CASE j # k
      <4>1. w[j] = v[j] /\ w.reads[j] = v.reads[j]
        BY <1>7, <1>9, <1>10, <3>2
      <4> QED BY <2>1, <4>1
    <3> QED BY <3>1, <3>2
  <2> QED BY <2>2 DEF AnswersOf
<1>14. "application" \in Reads /\ "session" \in Reads
  BY DEF Reads
<1>15. Opening(w, st, f)
  <2> SUFFICES ASSUME Ordered(f), v.conn = "loading", ~st.closed
               PROVE  Opening(w, st, f)
    BY <1>10 DEF Opening
  <2>1. /\ v.instance = instance /\ ~v.rebase /\ ~v.rebased /\ v.timer = {}
        /\ st.position <= Len(log)
        /\ v.reads["session"].stage = "none"
        /\ v.reads["application"].stage # "none" /\ ~v.reads["application"].pending
        /\ ~v.overflow =>
             LET m == st.position - Len(v.buffered)  y == v.reads["application"] IN
             /\ m >= 0
             /\ \A i \in DOMAIN v.buffered : v.buffered[i] = Numbered(m + i)
             /\ y.stage = "replied" => y.reply.sequence >= m
    BY DEF Client, Opening
  <2>2. k = "application"
    BY <2>1 DEF Reads
  <2>3. /\ w.reads["application"].stage = "replied" /\ w.reads["application"].reply = r
        /\ w.reads["application"].pending = v.reads["application"].pending
        /\ w.reads["session"] = v.reads["session"]
    BY <1>5, <1>7, <1>9, <1>14, <2>2
  <2>4. r.sequence >= st.position - Len(v.buffered)
    <3>1. Len(v.buffered) \in Nat /\ st.position \in Nat
      BY <1>2 DEF View, Subscription
    <3> QED BY <1>1, <1>4, <2>1, <3>1
  <2> QED BY <1>9, <1>10, <2>1, <2>3, <2>4 DEF Opening
<1>16. ASSUME Ordered(f), v.conn = "live", ~st.closed
      PROVE  Stands(w) /\ st.position <= w.observed /\ Owed(w, "session")
             /\ Heard(w, w.reads["session"])
  <2>1. /\ Stands(v) /\ st.position <= v.observed /\ Owed(v, "session")
        /\ Heard(v, v.reads["session"])
    BY <1>16 DEF Client, Following
  <2>2. ASSUME NEW j \in Reads PROVE Owed(w, j)
    <3>1. CASE j = k
      BY <1>5, <1>7, <1>9, <1>11, <3>1 DEF Owed
    <3>2. CASE j # k
      <4>1. Owed(v, j)
        BY <2>1 DEF Reads, Stands
      <4>2. w.reads[j] = v.reads[j]
        BY <1>7, <1>9, <3>2
      <4> QED BY <1>9, <1>10, <4>1, <4>2, StillOwed
    <3> QED BY <3>1, <3>2
  <2>3. Heard(w, w.reads["session"])
    <3>1. CASE k = "session"
      <4>1. /\ w.reads["session"].events = v.reads["session"].events
            /\ w.reads["session"].overflow = v.reads["session"].overflow
            /\ w.reads["session"].reply.sequence = Len(log)
            /\ v.reads["session"].stage = "asked"
        BY <1>4, <1>5, <1>7, <1>9, <3>1
      <4>2. v.observed <= Len(log)
        BY <2>1 DEF Stands
      <4>3. Len(log) + 1 .. v.observed = {}
        BY <1>1, <1>2, <4>2
      <4> QED BY <1>10, <2>1, <4>1, <4>3 DEF Heard
    <3>2. CASE k # "session"
      <4>1. w.reads["session"] = v.reads["session"]
        BY <1>7, <1>9, <1>14, <3>2
      <4> QED BY <1>10, <2>1, <4>1, StillHeard
    <3> QED BY <3>1, <3>2
  <2> QED BY <1>9, <1>10, <1>14, <2>1, <2>2, <2>3, StillStands
<1>17. Following(w, st, f)
  BY <1>10, <1>16 DEF Following
<1>18. w.instance <= instance
  BY <1>10 DEF Client
<1>19. Client(w, st, f)
  BY <1>9, <1>13, <1>15, <1>17, <1>18 DEF Client
<1> QED BY <1>19 DEF w, R, x, r

LEMMA StillStanding ==
  ASSUME NEW v, NEW w, Stands(v), Owed(w, "application"),
         w.instance = v.instance, w.rebase = v.rebase, w.observed = v.observed,
         w.rebased => w.shown.known /\ ExactAt(w.shown, LatestOf(w))
  PROVE  Stands(w)
BY DEF Stands

\* What the answer to a read holds is true of the runtime.
LEMMA AnswersTaken ==
  ASSUME NEW v, NEW w, NEW k \in Reads, AnswersOf(v), v.reads[k].stage = "replied",
         v.reads[k].reply \in Reported,
         w.instance = v.instance,
         \A j \in Reads : w.reads[j].stage = "replied" =>
            v.reads[j].stage = "replied" /\ w.reads[j].reply = v.reads[j].reply,
         \A j \in Reads : w[j] = v[j] \/ (j = k /\ w[j] = ApplicationOf(v.reads[k].reply))
  PROVE  AnswersOf(w)
<1> SUFFICES ASSUME w.instance = instance, NEW j \in Reads
             PROVE  /\ w[j].sequence <= Len(log)
                    /\ w.reads[j].stage = "replied" =>
                         LET x == w.reads[j].reply IN
                         /\ w[j].sequence <= x.sequence /\ x.sequence <= Len(log)
                         /\ Covers(x, x.sequence)
                         /\ j = "session" => Tells(x)
  BY DEF AnswersOf
<1>1. /\ v[j].sequence <= Len(log)
      /\ v.reads[j].stage = "replied" =>
           LET x == v.reads[j].reply IN
           /\ v[j].sequence <= x.sequence /\ x.sequence <= Len(log)
           /\ Covers(x, x.sequence)
           /\ j = "session" => Tells(x)
  BY DEF AnswersOf
<1>2. CASE w[j] = v[j]
  BY <1>1, <1>2
<1>3. CASE j = k /\ w[j] = ApplicationOf(v.reads[k].reply)
  <2>1. w[j].sequence = v.reads[j].reply.sequence /\ v.reads[j].reply.sequence \in Nat
    BY <1>3, ApplicationOfIs DEF Reported
  <2> QED BY <1>1, <1>3, <2>1
<1> QED BY <1>2, <1>3

\* w is v with one read less, which is repeated if it was asked for again.
HasEnded(v, w, k) ==
  /\ Later(v, w) /\ Alike(v, w) /\ w.errors = v.errors
  /\ w.reads[k].stage = "none"
  /\ v.timer \subseteq w.timer
  /\ v.reads[k].pending => k \in w.timer
  /\ ~v.reads[k].pending => w.timer = v.timer
  /\ \A j \in Reads : j # k =>
       /\ w.reads[j].stage = v.reads[j].stage /\ w.reads[j].reply = v.reads[j].reply
       /\ w.reads[j].events = v.reads[j].events
       /\ w.reads[j].overflow = v.reads[j].overflow
       /\ v.reads[j].pending => w.reads[j].pending

LEMMA EndedWell ==
  ASSUME NEW b \in Nat, NEW v \in Sound(b), NEW k \in Reads
  PROVE  LET w == Ended(v, k, TRUE) IN w \in Sound(b) /\ HasEnded(v, w, k)
<1> DEFINE w == Ended(v, k, TRUE)
<1>1. TRUE \in BOOLEAN
  OBVIOUS
<1>2. /\ w \in Sound(b) /\ Later(v, w) /\ Alike(v, w) /\ w.errors = v.errors
      /\ w.reads[k].stage = "none"
      /\ v.timer \subseteq w.timer
      /\ IF TRUE /\ v.reads[k].pending THEN k \in w.timer ELSE w.timer = v.timer
      /\ \A j \in Reads : j # k =>
           /\ w.reads[j].stage = v.reads[j].stage /\ w.reads[j].reply = v.reads[j].reply
           /\ w.reads[j].events = v.reads[j].events
           /\ w.reads[j].overflow = v.reads[j].overflow
           /\ v.reads[j].pending => w.reads[j].pending
  BY <1>1, EndedIs
<1> HIDE DEF w
<1> QED BY <1>2 DEF w, HasEnded

\* A session that has been read is shown as the events have it.
LEMMA SessionReplyKeeps ==
  ASSUME RuntimeBounds, Written, NEW v, NEW st \in Subscription, NEW f, Client(v, st, f),
         v.reads["session"].stage = "replied", ~v.reads["session"].overflow
  PROVE  LET x == v.reads["session"] IN
         Client(Ended(SessionApplied(v, x.reply, x.events), "session", TRUE), st, f)
<1> DEFINE x == v.reads["session"]
           y == SessionApplied(v, x.reply, x.events)
           w == Ended(y, "session", TRUE)
<1>1. v \in Sound(store.body) /\ store.body \in Nat /\ "session" \in Reads
      /\ "application" \in Reads
  BY DEF Client, RuntimeBounds, Reads
<1>2. /\ x.reply \in Reported /\ x.reply.body <= store.body /\ x.reply.sequence <= MaxSequence
      /\ x.reply.sequence \in Nat /\ x.events \in Seq(NumberedEvent)
      /\ v.session.sequence \in Nat /\ v.observed \in Nat
  BY <1>1, ReplyIs DEF Sound, View, Held
<1> HIDE DEF x
<1>3. /\ y \in Sound(store.body)
      /\ y.reads = v.reads /\ y.timer = v.timer /\ y.errors = v.errors
      /\ y.conn = v.conn /\ y.instance = v.instance /\ y.observed = v.observed
      /\ y.rebase = v.rebase /\ y.application = v.application
      /\ x.reply.sequence >= v.session.sequence =>
           /\ y.session = ApplicationOf(x.reply) /\ y.rebased
           /\ y.shown = Rebased(x.reply, x.events)
      /\ ~(x.reply.sequence >= v.session.sequence) => y = v
  BY <1>1, <1>2, SessionAppliedIs
<1> HIDE DEF y
<1>4. w \in Sound(store.body) /\ HasEnded(y, w, "session")
  BY <1>1, <1>3, EndedWell
<1> HIDE DEF w
<1>5. /\ w \in Sound(store.body) /\ Later(y, w) /\ Alike(y, w) /\ w.errors = y.errors
      /\ w.reads["session"].stage = "none"
      /\ y.timer \subseteq w.timer
      /\ y.reads["session"].pending => "session" \in w.timer
      /\ \A j \in Reads : j # "session" =>
           /\ w.reads[j].stage = y.reads[j].stage /\ w.reads[j].reply = y.reads[j].reply
           /\ w.reads[j].events = y.reads[j].events
           /\ w.reads[j].overflow = y.reads[j].overflow
           /\ y.reads[j].pending => w.reads[j].pending
  BY <1>4 DEF HasEnded
<1>6. v["session"] = v.session /\ v["application"] = v.application
      /\ w["session"] = y.session /\ w["application"] = v.application
      /\ y["session"] = y.session /\ y["application"] = v.application
  BY <1>3, <1>5 DEF Alike
<1>7. AnswersOf(w)
  <2>1. ApplicationOf(x.reply) = y.session \/ y = v
    BY <1>2, <1>3
  <2>2. \A j \in Reads : y[j] = v[j] \/ (j = "session" /\ y[j] = ApplicationOf(v.reads["session"].reply))
    BY <1>6, <2>1 DEF Reads, x
  <2>3. AnswersOf(y)
    <3>1. \A j \in Reads : y.reads[j].stage = "replied" =>
            v.reads[j].stage = "replied" /\ y.reads[j].reply = v.reads[j].reply
      BY <1>3
    <3>2. v.reads["session"].reply \in Reported
      BY <1>2 DEF x
    <3> QED BY <1>1, <1>3, <2>2, <3>1, <3>2, AnswersTaken DEF Client
  <2> QED BY <1>5, <2>3, AnswersLater
<1>8. w.conn = v.conn /\ w.observed = v.observed /\ w.instance = v.instance
      /\ w.rebase = v.rebase /\ w.session = y.session /\ w.rebased = y.rebased
      /\ w.shown = y.shown
  BY <1>3, <1>5 DEF Alike
<1>9. Opening(w, st, f)
  BY <1>8 DEF Client, Opening, x
<1>10. ASSUME Ordered(f), v.conn = "live", ~st.closed
      PROVE  Stands(w) /\ st.position <= w.observed /\ Owed(w, "session")
             /\ Heard(w, w.reads["session"])
  <2>1. /\ Stands(v) /\ st.position <= v.observed /\ Owed(v, "session")
        /\ Heard(v, v.reads["session"]) /\ v.instance = instance /\ v.observed <= Len(log)
    BY <1>10 DEF Client, Following, Stands
  <2>2. /\ v.session.sequence <= x.reply.sequence /\ x.reply.sequence <= Len(log)
        /\ Tells(x.reply)
    <3>1. \A k \in Reads :
            /\ v[k].sequence <= Len(log)
            /\ v.reads[k].stage = "replied" =>
                 LET z == v.reads[k].reply IN
                 /\ v[k].sequence <= z.sequence /\ z.sequence <= Len(log)
                 /\ Covers(z, z.sequence)
                 /\ k = "session" => Tells(z)
      BY <2>1 DEF Client, AnswersOf
    <3> QED BY <1>1, <1>6, <3>1 DEF x
  <2>3. /\ y.session = ApplicationOf(x.reply) /\ y.rebased
        /\ y.shown = Rebased(x.reply, x.events)
    BY <1>2, <1>3, <2>2
  <2>4. y.session.sequence = x.reply.sequence
    BY <1>2, <2>3, ApplicationOfIs
  <2>5. LatestOf(w) = IF v.observed > x.reply.sequence THEN v.observed ELSE x.reply.sequence
    BY <1>8, <2>4 DEF LatestOf
  <2>6. ExactAt(Rebased(x.reply, x.events), LatestOf(w))
    <3>1. DOMAIN x.events = 1..Len(x.events)
      BY <1>2
    <3>2. /\ \A i \in 1..Len(x.events) : /\ x.events[i].sequence \in 1..v.observed
                                         /\ x.events[i] = Numbered(x.events[i].sequence)
          /\ \A i, j \in 1..Len(x.events) :
               i < j => x.events[i].sequence < x.events[j].sequence
          /\ \A n \in x.reply.sequence + 1 .. v.observed : log[n].type # "config_changed" =>
               \E i \in 1..Len(x.events) : x.events[i].sequence = n
      BY <2>1, <3>1 DEF Heard, x
    <3> DEFINE a == x.reply  es == x.events  m == v.observed
    <3>3. /\ a \in Reported /\ Tells(a) /\ a.sequence <= Len(log)
          /\ m \in Nat /\ m <= Len(log) /\ es \in Seq(NumberedEvent)
      BY <1>2, <2>1, <2>2
    <3>4. /\ \A i \in 1..Len(es) : es[i].sequence \in 1..m /\ es[i] = Numbered(es[i].sequence)
          /\ \A i, j \in 1..Len(es) : i < j => es[i].sequence < es[j].sequence
          /\ \A n \in a.sequence + 1 .. m : log[n].type # "config_changed" =>
               \E i \in 1..Len(es) : es[i].sequence = n
      BY <3>2
    <3> HIDE DEF a, es, m
    <3>5. ExactAt(Rebased(a, es), IF m > a.sequence THEN m ELSE a.sequence)
      BY <3>3, <3>4, RebasedExact
    <3> QED BY <2>5, <3>5 DEF a, es, m
  <2>7. Rebased(x.reply, x.events).known
    BY <1>2, RebasedSound
  <2>8. Owed(w, "application")
    <3>1. /\ w.reads["application"].stage = v.reads["application"].stage
          /\ w.reads["application"].reply = v.reads["application"].reply
          /\ v.reads["application"].pending => w.reads["application"].pending
      BY <1>1, <1>3, <1>5
    <3>2. w.errors = v.errors /\ v.timer \subseteq w.timer
      BY <1>3, <1>5
    <3>3. Owed(v, "application")
      BY <2>1 DEF Stands
    <3> QED BY <1>6, <1>8, <3>1, <3>2, <3>3, StillOwed
  <2>9. Owed(w, "session")
    <3>1. CASE "session" \in v.errors
      BY <1>3, <1>5, <3>1 DEF Owed
    <3>2. CASE x.pending
      BY <1>3, <1>5, <3>2 DEF Owed, x
    <3>3. CASE Covers(x.reply, v.observed)
      <4>1. /\ y.session.configuration = x.reply.configuration
            /\ y.session.body = x.reply.body
        BY <1>2, <2>3, ApplicationOfIs
      <4>2. Covers(w["session"], w.observed)
        BY <1>6, <1>8, <3>3, <4>1 DEF Covers
      <4> QED BY <1>5, <4>2 DEF Owed
    <3> QED BY <2>1, <3>1, <3>2, <3>3 DEF Owed, x
  <2>10. Heard(w, w.reads["session"])
    BY <1>5 DEF Heard
  <2>11. w.shown.known /\ ExactAt(w.shown, LatestOf(w))
    BY <1>8, <2>3, <2>6, <2>7
  <2> QED BY <1>8, <2>1, <2>8, <2>9, <2>10, <2>11, StillStanding
<1>11. Following(w, st, f)
  BY <1>8, <1>10 DEF Following
<1>12. w.instance <= instance
  BY <1>8 DEF Client
<1>13. Client(w, st, f)
  BY <1>5, <1>7, <1>9, <1>11, <1>12 DEF Client
<1> QED BY <1>13 DEF w, y, x

\* The position in the stream is taken from an answer.
LEMMA BasedIs ==
  ASSUME NEW b \in Nat, NEW v \in Sound(b), NEW answer \in Reported,
         answer.body <= b, answer.sequence <= MaxSequence
  PROVE  LET w == Based(v, answer) IN
         /\ w \in Sound(b)
         /\ w.application = ApplicationOf(answer) /\ w.observed = answer.sequence
         /\ w.conn = v.conn /\ w.instance = v.instance /\ w.rebase = v.rebase
         /\ w.session = v.session /\ w.shown = v.shown /\ w.buffered = v.buffered
         /\ w.overflow = v.overflow /\ w.rebased = v.rebased /\ w.reads = v.reads
         /\ w.timer = v.timer /\ w.errors = v.errors
<1> DEFINE a == ApplicationOf(answer)
           n == answer.sequence
           y == [v EXCEPT !.application = a, !.observed = n]
<1>1. v \in View /\ Fits(v, b) /\ Sealing(v) /\ n \in Nat
  BY DEF Sound, Reported
<1>2. a \in Held /\ a.body = answer.body /\ a.sequence = n
  BY ApplicationOfIs
<1>3. Based(v, answer) = y
  BY DEF Based
<1>4. n <= MaxSequence
  OBVIOUS
<1> HIDE DEF a, n
<1>5. /\ y \in View /\ y.application = a /\ y.observed = n
      /\ y.conn = v.conn /\ y.instance = v.instance /\ y.rebase = v.rebase
      /\ y.session = v.session /\ y.shown = v.shown /\ y.buffered = v.buffered
      /\ y.overflow = v.overflow /\ y.rebased = v.rebased /\ y.reads = v.reads
      /\ y.timer = v.timer /\ y.errors = v.errors
  BY <1>1, <1>2 DEF View
<1> HIDE DEF y
<1>6. Fits(y, b) /\ Sealing(y)
  BY <1>1, <1>2, <1>4, <1>5 DEF Fits, Sealing
<1>7. y \in Sound(b)
  BY <1>5, <1>6 DEF Sound
<1> QED BY <1>3, <1>5, <1>7 DEF a, n

\* An application that has been read is shown, or the position is taken from it.
LEMMA ApplicationReplyKeeps ==
  ASSUME RuntimeBounds, Written, NEW v, NEW st \in Subscription, NEW f, Client(v, st, f),
         v.reads["application"].stage = "replied", v.conn # "loading"
  PROVE  LET x == v.reads["application"] IN
         Client(Ended(ApplicationApplied(v, x.reply, x.events), "application", TRUE), st, f)
<1> DEFINE x == v.reads["application"]
           y == ApplicationApplied(v, x.reply, x.events)
           w == Ended(y, "application", TRUE)
<1>1. v \in Sound(store.body) /\ store.body \in Nat /\ "session" \in Reads
      /\ "application" \in Reads /\ v \in View
  BY DEF Client, RuntimeBounds, Reads, Sound
<1>2. /\ x.reply \in Reported /\ x.reply.body <= store.body /\ x.reply.sequence <= MaxSequence
      /\ x.reply.sequence \in Nat /\ x.events \in Seq(NumberedEvent)
      /\ v.application.sequence \in Nat /\ v.observed \in Nat
  BY <1>1, ReplyIs DEF View, Held
<1>3. v["session"] = v.session /\ v["application"] = v.application
  OBVIOUS
<1>4. x.reply = v.reads["application"].reply /\ x.stage = v.reads["application"].stage
      /\ x.pending = v.reads["application"].pending
  OBVIOUS
<1> HIDE DEF x
<1>5. /\ y \in Sound(store.body) /\ AnswersOf(y) /\ y.conn = v.conn /\ y.instance = v.instance
      /\ ~v.rebase => /\ y.reads = v.reads /\ y.timer = v.timer /\ y.errors = v.errors
                      /\ y.observed = v.observed /\ y.rebase = v.rebase
                      /\ y.session = v.session /\ y.rebased = v.rebased /\ y.shown = v.shown
                      /\ x.reply.sequence >= v.application.sequence =>
                           y.application = ApplicationOf(x.reply)
  <2>1. CASE v.rebase
    <3> DEFINE a == Based(v, x.reply)
               u == [a EXCEPT !.rebase = FALSE]
               z == AllApplied(u, x.reply.sequence, x.events)
    <3>1. y = z
      BY <2>1 DEF ApplicationApplied
    <3>2. /\ a \in Sound(store.body)
          /\ a.application = ApplicationOf(x.reply) /\ a.observed = x.reply.sequence
          /\ a.conn = v.conn /\ a.instance = v.instance
          /\ a.session = v.session /\ a.shown = v.shown /\ a.buffered = v.buffered
          /\ a.reads = v.reads
      BY <1>1, <1>2, BasedIs
    <3> HIDE DEF a
    <3>3. a \in View /\ Fits(a, store.body) /\ Sealing(a)
      BY <3>2 DEF Sound
    <3>4. /\ u \in View /\ u.application = a.application /\ u.session = a.session
          /\ u.shown = a.shown /\ u.buffered = a.buffered /\ u.reads = a.reads
          /\ u.conn = a.conn /\ u.instance = a.instance
      BY <3>3 DEF View
    <3> HIDE DEF u
    <3>5. u \in Sound(store.body)
      BY <3>3, <3>4 DEF Sound, Fits, Sealing
    <3>6. AnswersOf(u)
      <4>1. u["session"] = v["session"]
            /\ u["application"] = ApplicationOf(v.reads["application"].reply)
        BY <1>3, <1>4, <3>2, <3>4
      <4>2. \A j \in Reads : u[j] = v[j] \/ (j = "application"
                               /\ u[j] = ApplicationOf(v.reads["application"].reply))
        BY <4>1 DEF Reads
      <4>3. v.reads["application"].reply \in Reported /\ u.reads = v.reads /\ u.instance = v.instance
        BY <1>2, <1>4, <3>2, <3>4
      <4> QED BY <1>1, <4>2, <4>3, AnswersTaken DEF Client
    <3>7. z \in Sound(store.body) /\ Later(u, z) /\ z.conn = u.conn
      BY <1>1, <1>2, <3>5, AllAppliedSound
    <3> HIDE DEF z, y
    <3>8. AnswersOf(z) /\ z.instance = v.instance
      BY <3>2, <3>4, <3>6, <3>7, AnswersLater DEF Later
    <3> QED BY <2>1, <3>1, <3>2, <3>4, <3>7, <3>8
  <2>2. CASE ~v.rebase
    <3> DEFINE z == Refreshed(v, x.reply)
    <3>1. y = z
      BY <2>2 DEF ApplicationApplied
    <3>2. /\ z \in Sound(store.body)
          /\ z.reads = v.reads /\ z.timer = v.timer /\ z.errors = v.errors
          /\ z.conn = v.conn /\ z.instance = v.instance /\ z.observed = v.observed
          /\ z.rebase = v.rebase /\ z.session = v.session /\ z.rebased = v.rebased
          /\ z.shown = v.shown
          /\ x.reply.sequence >= v.application.sequence => z.application = ApplicationOf(x.reply)
          /\ ~(x.reply.sequence >= v.application.sequence) => z = v
      BY <1>1, <1>2, RefreshedIs
    <3> HIDE DEF z, y
    <3>3. AnswersOf(z)
      <4>1. z["session"] = v["session"]
            /\ (z["application"] = ApplicationOf(v.reads["application"].reply)
                \/ z["application"] = v["application"])
        BY <1>3, <1>4, <3>2
      <4>2. \A j \in Reads : z[j] = v[j] \/ (j = "application"
                               /\ z[j] = ApplicationOf(v.reads["application"].reply))
        BY <4>1 DEF Reads
      <4>3. v.reads["application"].reply \in Reported
        BY <1>2, <1>4
      <4> QED BY <1>1, <3>2, <4>2, <4>3, AnswersTaken DEF Client
    <3> QED BY <3>1, <3>2, <3>3
  <2> HIDE DEF y
  <2> QED BY <2>1, <2>2
<1> HIDE DEF y
<1>6. w \in Sound(store.body) /\ HasEnded(y, w, "application")
  BY <1>1, <1>5, EndedWell
<1> HIDE DEF w
<1>7. /\ Later(y, w) /\ Alike(y, w) /\ w.errors = y.errors
      /\ w.reads["application"].stage = "none"
      /\ y.timer \subseteq w.timer
      /\ y.reads["application"].pending => "application" \in w.timer
      /\ w.reads["session"].stage = y.reads["session"].stage
      /\ w.reads["session"].reply = y.reads["session"].reply
      /\ w.reads["session"].events = y.reads["session"].events
      /\ w.reads["session"].overflow = y.reads["session"].overflow
      /\ y.reads["session"].pending => w.reads["session"].pending
  BY <1>1, <1>6 DEF HasEnded
<1>8. /\ w.conn = v.conn /\ w.instance = v.instance /\ w.observed = y.observed
      /\ w.rebase = y.rebase /\ w.application = y.application /\ w.session = y.session
      /\ w.rebased = y.rebased /\ w.shown = y.shown
  BY <1>5, <1>7 DEF Alike
<1>9. AnswersOf(w) /\ w.instance <= instance
  BY <1>5, <1>7, <1>8, AnswersLater DEF Client
<1>10. Opening(w, st, f)
  BY <1>8 DEF Opening
<1>11. ASSUME Ordered(f), v.conn = "live", ~st.closed
      PROVE  Stands(w) /\ st.position <= w.observed /\ Owed(w, "session")
             /\ Heard(w, w.reads["session"])
  <2>1. /\ Stands(v) /\ st.position <= v.observed /\ Owed(v, "session")
        /\ Heard(v, v.reads["session"]) /\ v.instance = instance /\ ~v.rebase
    BY <1>11 DEF Client, Following, Stands
  <2>2. v.application.sequence <= x.reply.sequence
    BY <1>1, <1>3, <1>4, <2>1 DEF Client, AnswersOf
  <2>3. /\ y.reads = v.reads /\ y.timer = v.timer /\ y.errors = v.errors
        /\ y.observed = v.observed /\ y.rebase = v.rebase
        /\ y.session = v.session /\ y.rebased = v.rebased /\ y.shown = v.shown
        /\ y.application = ApplicationOf(x.reply)
    BY <1>2, <1>5, <2>1, <2>2
  <2>4. Owed(w, "session")
    <3>1. w["session"] = v["session"]
      BY <1>3, <1>8, <2>3
    <3> QED BY <1>7, <1>8, <2>1, <2>3, <3>1, StillOwed
  <2>5. Owed(w, "application")
    <3>1. w["application"] = ApplicationOf(x.reply)
      BY <1>8, <2>3
    <3>2. CASE "application" \in v.errors
      BY <1>7, <2>3, <3>2 DEF Owed
    <3>3. CASE x.pending
      BY <1>4, <1>7, <2>3, <3>3 DEF Owed
    <3>4. CASE Covers(x.reply, v.observed)
      <4>1. Covers(w["application"], w.observed)
        BY <1>2, <1>8, <2>3, <3>1, <3>4, ApplicationOfIs DEF Covers
      <4> QED BY <1>7, <4>1 DEF Owed
    <3> QED BY <1>4, <2>1, <3>2, <3>3, <3>4 DEF Owed, Stands
  <2>6. Heard(w, w.reads["session"])
    BY <1>7, <1>8, <2>1, <2>3, StillHeard
  <2>7. w.rebased => w.shown.known /\ ExactAt(w.shown, LatestOf(w))
    <3>1. LatestOf(w) = LatestOf(v)
      BY <1>8, <2>3 DEF LatestOf
    <3> QED BY <1>8, <2>1, <2>3, <3>1 DEF Stands
  <2> QED BY <1>8, <2>1, <2>3, <2>4, <2>5, <2>6, <2>7, StillStanding
<1>12. Following(w, st, f)
  BY <1>8, <1>11 DEF Following
<1>13. Client(w, st, f)
  BY <1>6, <1>9, <1>10, <1>12 DEF Client
<1> QED BY <1>13 DEF w, y, x

\* With its first answer a connection takes its position and catches up with what it kept.
LEMMA OpenedKeeps ==
  ASSUME RuntimeBounds, Written, NEW v, NEW st \in Subscription, NEW f, Client(v, st, f),
         v.conn = "loading", v.reads["application"].stage = "replied",
         ~v.overflow, ~st.closed
  PROVE  Client(Opened(v, v.reads["application"].reply), st, f)
<1> DEFINE r == v.reads["application"].reply
           N == r.sequence
           es == v.buffered
           a == Ended(v, "application", TRUE)
           p == Based(a, r)
           u == [p EXCEPT !.conn = "live", !.buffered = <<>>]
           z == AllApplied(u, N, es)
           w == Loaded(z, "session")
<1>1. v \in Sound(store.body) /\ store.body \in Nat /\ "session" \in Reads
      /\ "application" \in Reads /\ v \in View
  BY DEF Client, RuntimeBounds, Reads, Sound
<1>2. /\ r \in Reported /\ r.body <= store.body /\ N <= MaxSequence /\ N \in Nat
      /\ es \in Seq(NumberedEvent)
  BY <1>1, ReplyIs DEF View
<1>3. r = v.reads["application"].reply /\ r.sequence = N /\ es = v.buffered
  OBVIOUS
<1>4. Opened(v, r) = w
  BY DEF Opened
<1> HIDE DEF r, N, es
<1>5. a \in Sound(store.body) /\ HasEnded(v, a, "application")
  BY <1>1, EndedWell
<1> HIDE DEF a
<1>6. /\ Later(v, a) /\ Alike(v, a) /\ a.errors = v.errors
      /\ a.reads["application"].stage = "none"
      /\ ~v.reads["application"].pending => a.timer = v.timer
      /\ a.reads["session"].stage = v.reads["session"].stage
  BY <1>1, <1>5 DEF HasEnded
<1>7. /\ p \in Sound(store.body)
      /\ p.application = ApplicationOf(r) /\ p.observed = N
      /\ p.instance = a.instance /\ p.rebase = a.rebase
      /\ p.session = a.session /\ p.shown = a.shown
      /\ p.rebased = a.rebased /\ p.reads = a.reads
      /\ p.timer = a.timer /\ p.errors = a.errors
  BY <1>1, <1>2, <1>3, <1>5, BasedIs
<1> HIDE DEF p
<1>8. p \in View /\ Fits(p, store.body) /\ Sealing(p)
  BY <1>7 DEF Sound
<1>9. <<>> \in Seq(NumberedEvent) /\ Len(<<>>) = 0 /\ MaxBuffer \in Nat
  BY ClientSyncAssumption
<1>10. /\ u \in View /\ u.conn = "live" /\ u.buffered = <<>>
       /\ u.application = p.application /\ u.observed = p.observed
       /\ u.instance = p.instance /\ u.rebase = p.rebase
       /\ u.session = p.session /\ u.shown = p.shown
       /\ u.rebased = p.rebased /\ u.reads = p.reads
       /\ u.timer = p.timer /\ u.errors = p.errors
  BY <1>8, <1>9 DEF View
<1> HIDE DEF u
<1>11. u \in Sound(store.body)
  BY <1>8, <1>9, <1>10 DEF Sound, Fits, Sealing
<1>12. /\ z \in Sound(store.body) /\ Later(u, z) /\ z.conn = "live"
  BY <1>1, <1>2, <1>10, <1>11, AllAppliedSound
<1>13. /\ w \in Sound(store.body) /\ Later(z, w) /\ Alike(z, w) /\ w.timer = z.timer
       /\ w.errors \subseteq z.errors /\ z.errors \subseteq w.errors \cup {"session"}
       /\ w.reads["application"] = z.reads["application"]
       /\ z.reads["session"].stage = "none" =>
            /\ w.reads["session"].stage = "asked" /\ w.reads["session"].events = <<>>
  <2> HIDE DEF z
  <2> QED BY <1>1, <1>12, LoadedIs
<1>14. u.instance = v.instance /\ u.rebase = v.rebase /\ u.session = v.session
       /\ u.rebased = v.rebased
  BY <1>6, <1>7, <1>10 DEF Alike
<1>15. AnswersOf(w) /\ w.instance = v.instance
  <2>1. u["session"] = v["session"]
        /\ u["application"] = ApplicationOf(v.reads["application"].reply)
    BY <1>3, <1>7, <1>10, <1>14
  <2>2. \A j \in Reads : u[j] = v[j] \/ (j = "application"
                               /\ u[j] = ApplicationOf(v.reads["application"].reply))
    BY <2>1 DEF Reads
  <2>3. \A j \in Reads : u.reads[j].stage = "replied" =>
          v.reads[j].stage = "replied" /\ u.reads[j].reply = v.reads[j].reply
    BY <1>6, <1>7, <1>10 DEF Later
  <2>4. v.reads["application"].reply \in Reported /\ AnswersOf(v)
    BY <1>2, <1>3 DEF Client
  <2>5. AnswersOf(u)
    BY <1>1, <1>14, <2>2, <2>3, <2>4, AnswersTaken
  <2> HIDE DEF z, w
  <2>6. AnswersOf(z)
    BY <1>12, <2>5, AnswersLater
  <2> QED BY <1>12, <1>13, <1>14, <2>6, AnswersLater DEF Later
<1>16. w.conn = "live"
  <2> HIDE DEF z, w
  <2> QED BY <1>12, <1>13 DEF Alike
<1>17. ASSUME Ordered(f)
       PROVE  /\ Stands(z) /\ st.position <= z.observed /\ ~z.rebased
              /\ z.reads["session"].stage = "none"
  <2>1. /\ v.instance = instance /\ ~v.rebase /\ ~v.rebased
        /\ st.position <= Len(log)
        /\ v.reads["session"].stage = "none"
        /\ LET m == st.position - Len(es) IN
           /\ m >= 0
           /\ \A i \in DOMAIN es : es[i] = Numbered(m + i)
           /\ N >= m
    BY <1>3, <1>17 DEF Client, Opening
  <2> DEFINE n == st.position - Len(es)
             At(i) == IF N > n + i THEN N ELSE n + i
             P == {q \in Sound(store.body) \X (0..Len(es)) :
                     Stands(q[1]) /\ q[1].observed = At(q[2]) /\ ~q[1].rebased
                       /\ q[1].reads["session"].stage = "none"}
  <2>2. /\ st.position \in Nat /\ Len(es) \in Nat /\ Len(log) \in Nat
        /\ log \in Seq(EventRecord) /\ n \in Int /\ DOMAIN es = 1..Len(es)
        /\ n >= 0 /\ N >= n /\ n + Len(es) = st.position
        /\ n \in Nat
    <3>1. /\ st.position \in Nat /\ Len(es) \in Nat /\ DOMAIN es = 1..Len(es)
          /\ log \in Seq(EventRecord)
      BY <1>2 DEF Subscription, RuntimeBounds
    <3>2. Len(log) \in Nat
      BY <3>1
    <3>3. n >= 0 /\ N >= n
      BY <2>1
    <3>4. n \in Int /\ n + Len(es) = st.position
      BY <3>1
    <3> HIDE DEF n
    <3> QED BY <3>1, <3>2, <3>3, <3>4
  <2>3. \A i \in 1..Len(es) : es[i] = Numbered(n + i)
    BY <2>1, <2>2
  <2> HIDE DEF n
  <2>4. Stands(u) /\ u.observed = At(0) /\ ~u.rebased /\ u.reads["session"].stage = "none"
    <3>1. v["application"].sequence <= N /\ N <= Len(log) /\ Covers(r, N)
      BY <1>1, <1>3, <2>1 DEF Client, AnswersOf
    <3>2. u.observed = N
      BY <1>7, <1>10
    <3>3. u.observed = At(0)
      BY <1>2, <2>2, <3>2
    <3>4. Covers(u["application"], N)
      BY <1>2, <1>7, <1>10, <3>1, ApplicationOfIs DEF Covers
    <3>5. u.reads["application"].stage = "none"
      BY <1>6, <1>7, <1>10
    <3>6. Owed(u, "application")
      BY <3>2, <3>4, <3>5 DEF Owed
    <3>7. u.reads["session"].stage = "none"
      BY <1>6, <1>7, <1>10, <2>1
    <3> QED BY <1>14, <2>1, <3>1, <3>2, <3>3, <3>6, <3>7 DEF Stands
  <2>5. ASSUME NEW x \in Sound(store.body), NEW i \in 1..Len(es), <<x, i - 1>> \in P
        PROVE  <<AppliedAbove(x, N, es[i]), i>> \in P
    <3>1. Stands(x) /\ x.observed = At(i - 1) /\ ~x.rebased /\ x.reads["session"].stage = "none"
      BY <2>5
    <3>2. /\ n + i \in 1..Len(log) /\ es[i] = Numbered(n + i) /\ i \in 0..Len(es)
          /\ Numbered(n + i).sequence = n + i
      BY <2>1, <2>2, <2>3, NumberedIs
    <3>3. CASE n + i <= N
      <4>1. AppliedAbove(x, N, es[i]) = x
        BY <3>2, <3>3 DEF AppliedAbove
      <4>2. At(i) = At(i - 1)
        BY <1>2, <2>2, <3>3
      <4> QED BY <3>1, <3>2, <4>1, <4>2
    <3>4. CASE ~(n + i <= N)
      <4>1. AppliedAbove(x, N, es[i]) = Applied(x, Numbered(n + i))
        BY <3>2, <3>4 DEF AppliedAbove
      <4>2. x.observed + 1 = n + i /\ At(i) = n + i
        BY <1>2, <2>2, <3>1, <3>4
      <4> HIDE DEF At
      <4>3. x.observed + 1 <= Len(log)
        BY <2>2, <3>2, <4>2
      <4> DEFINE y == Applied(x, Numbered(x.observed + 1))
      <4>4. /\ y \in Sound(store.body) /\ Stands(y)
            /\ y.observed = x.observed + 1 /\ y.rebased = x.rebased
            /\ \A k \in Reads : y.reads[k].stage = x.reads[k].stage
        BY <3>1, <4>3, FollowsNext
      <4>5. AppliedAbove(x, N, es[i]) = y
        BY <4>1, <4>2
      <4> HIDE DEF y
      <4> QED BY <1>1, <3>1, <3>2, <4>2, <4>4, <4>5
    <3> QED BY <3>3, <3>4
  <2>6. <<u, 0>> \in P
    BY <1>11, <2>2, <2>4
  <2> HIDE DEF P
  <2>7. <<z, Len(es)>> \in P
    BY <1>1, <1>2, <1>11, <2>5, <2>6, AllAppliedKeep
  <2> HIDE DEF z
  <2>8. Stands(z) /\ z.observed = At(Len(es)) /\ ~z.rebased /\ z.reads["session"].stage = "none"
    BY <2>7 DEF P
  <2>9. st.position <= At(Len(es))
    BY <1>2, <2>2
  <2> QED BY <2>8, <2>9
<1> HIDE DEF z, w
<1>18. ASSUME Ordered(f)
       PROVE  Stands(w) /\ st.position <= w.observed /\ Owed(w, "session")
              /\ Heard(w, w.reads["session"])
  <2>1. /\ Stands(z) /\ st.position <= z.observed
        /\ z.reads["session"].stage = "none"
    BY <1>17, <1>18
  <2>2. w.observed = z.observed /\ w.application = z.application
    BY <1>13 DEF Alike
  <2>3. w.reads["session"].stage = "asked" /\ w.reads["session"].events = <<>>
    BY <1>13, <2>1
  <2>4. Owed(w, "session") /\ Heard(w, w.reads["session"])
    BY <2>3, NewlyHeard DEF Owed
  <2>5. Owed(w, "application")
    <3>1. w["application"] = z["application"]
      BY <2>2
    <3>2. Owed(z, "application")
      BY <2>1 DEF Stands
    <3>3. "application" \in z.errors => "application" \in w.errors
      BY <1>13
    <3> QED BY <1>13, <2>2, <3>1, <3>2, <3>3, StillOwed
  <2> QED BY <1>13, <2>1, <2>2, <2>4, <2>5, StillStands
<1>19. Opening(w, st, f)
  BY <1>16 DEF Opening
<1>20. Following(w, st, f)
  BY <1>18 DEF Following
<1>21. Client(w, st, f)
  BY <1>13, <1>15, <1>19, <1>20 DEF Client
<1> QED BY <1>3, <1>4, <1>21

\* A connection that could not keep up asks again, with nothing kept.
LEMMA OpenedRetried ==
  ASSUME RuntimeBounds, NEW v, NEW st \in Subscription, NEW f, Client(v, st, f),
         v.conn = "loading", v.reads["application"].stage = "replied",
         v.reads["application"].attempt < Retries
  PROVE  Client([Retried(v, "application") EXCEPT !.buffered = <<>>, !.overflow = FALSE], st, f)
<1> DEFINE a == Retried(v, "application")
           w == [a EXCEPT !.buffered = <<>>, !.overflow = FALSE]
<1>1. v \in Sound(store.body) /\ store.body \in Nat /\ "session" \in Reads
      /\ "application" \in Reads /\ v \in View
  BY DEF Client, RuntimeBounds, Reads, Sound
<1>2. /\ a \in Sound(store.body) /\ Later(v, a) /\ Alike(v, a)
      /\ a.timer = v.timer
      /\ a.reads["application"].stage = "asked"
      /\ a.reads["application"].pending = v.reads["application"].pending
      /\ a.reads["session"] = v.reads["session"]
  BY <1>1, RetriedIs
<1> HIDE DEF a
<1>3. <<>> \in Seq(NumberedEvent) /\ Len(<<>>) = 0 /\ MaxBuffer \in Nat
  BY ClientSyncAssumption
<1>4. a \in View /\ Fits(a, store.body) /\ Sealing(a)
  BY <1>2 DEF Sound
<1>5. /\ w \in View /\ w.conn = a.conn /\ w.buffered = <<>> /\ w.overflow = FALSE
      /\ w.application = a.application /\ w.observed = a.observed
      /\ w.instance = a.instance /\ w.rebase = a.rebase
      /\ w.session = a.session /\ w.shown = a.shown
      /\ w.rebased = a.rebased /\ w.reads = a.reads
      /\ w.timer = a.timer /\ w.errors = a.errors
  BY <1>3, <1>4 DEF View
<1> HIDE DEF w
<1>6. w \in Sound(store.body)
  BY <1>3, <1>4, <1>5 DEF Sound, Fits, Sealing
<1>7. AnswersOf(w)
  <2>1. Later(v, w)
    BY <1>2, <1>5 DEF Later
  <2> QED BY <2>1, AnswersLater DEF Client
<1>8. /\ w.conn = v.conn /\ w.instance = v.instance /\ w.rebase = v.rebase
      /\ w.rebased = v.rebased /\ w.timer = v.timer
  BY <1>2, <1>5 DEF Alike
<1>9. Opening(w, st, f)
  <2> SUFFICES ASSUME Ordered(f), ~st.closed
               PROVE  Opening(w, st, f)
    BY DEF Opening
  <2>1. /\ v.instance = instance /\ ~v.rebase /\ ~v.rebased /\ v.timer = {}
        /\ st.position <= Len(log)
        /\ v.reads["session"].stage = "none"
        /\ ~v.reads["application"].pending
    BY DEF Client, Opening
  <2>2. st.position \in Nat /\ st.position - Len(w.buffered) >= 0 /\ DOMAIN w.buffered = {}
    BY <1>3, <1>5 DEF Subscription
  <2>3. /\ w.reads["application"].stage = "asked" /\ ~w.reads["application"].pending
        /\ w.reads["session"].stage = "none"
    BY <1>2, <1>5, <2>1
  <2> QED BY <1>8, <2>1, <2>2, <2>3 DEF Opening
<1>10. Following(w, st, f) /\ w.instance <= instance
  BY <1>8 DEF Client, Following
<1>11. Client(w, st, f)
  BY <1>6, <1>7, <1>9, <1>10 DEF Client
<1> QED BY <1>11 DEF w, a

\* The reads of a connection are given up with it.
LEMMA GivenUp ==
  ASSUME RuntimeBounds, NEW v, NEW st \in Subscription, NEW f, Client(v, st, f)
  PROVE  Client([Cancelled(v) EXCEPT !.conn = "down"], st, f)
<1> DEFINE a == Cancelled(v)
           w == [a EXCEPT !.conn = "down"]
<1>1. v \in Sound(store.body) /\ store.body \in Nat
  BY DEF Client, RuntimeBounds
<1>2. a \in Sound(store.body) /\ Later(v, a)
  BY <1>1, CancelledIs
<1> HIDE DEF a
<1>3. w \in Sound(store.body) /\ w.conn = "down" /\ Later(a, w)
  BY <1>2, OtherConnection
<1> HIDE DEF w
<1>4. Later(v, w)
  BY <1>2, <1>3 DEF Later
<1>5. Client(w, st, f)
  BY <1>3, <1>4, OutOfStream
<1> QED BY <1>5 DEF w, a

\* The user connects again.
LEMMA ConnectionRetried ==
  ASSUME RuntimeBounds, NEW v, NEW st \in Subscription, NEW f, Client(v, st, f)
  PROVE  Client([v EXCEPT !.conn = "down"], st, f)
<1> DEFINE w == [v EXCEPT !.conn = "down"]
<1>1. v \in Sound(store.body)
  BY DEF Client
<1>2. w \in Sound(store.body) /\ w.conn = "down" /\ Later(v, w)
  BY <1>1, OtherConnection
<1> HIDE DEF w
<1>3. Client(w, st, f)
  BY <1>2, OutOfStream
<1> QED BY <1>3 DEF w

\* A gap on a stream that ends, or one that goes on, of which nothing is claimed then.
LEMMA GappedKeeps ==
  ASSUME RuntimeBounds, NEW v, NEW st \in Subscription, NEW f, Client(v, st, f),
         NEW ts \in Subscription, ts.position <= MaxSequence, NEW g, ts.closed \/ ~Ordered(g)
  PROVE  Client(Gapped(v), ts, g)
<1>1. v \in Sound(store.body) /\ store.body \in Nat
  BY DEF Client, RuntimeBounds
<1>2. Gapped(v) \in Sound(store.body) /\ Later(v, Gapped(v))
  BY <1>1, GappedSound
<1> QED BY <1>2, OutOfStream

\* The session is opened by the user.
LEMMA LoadedKeeps ==
  ASSUME RuntimeBounds, NEW v, NEW st \in Subscription, NEW f, Client(v, st, f),
         NEW k \in Reads, NEW g, ~Ordered(g)
  PROVE  Client(Loaded(v, k), st, g)
<1>1. v \in Sound(store.body) /\ store.body \in Nat
  BY DEF Client, RuntimeBounds
<1>2. Loaded(v, k) \in Sound(store.body) /\ Later(v, Loaded(v, k))
  BY <1>1, LoadedIs
<1> QED BY <1>2, OutOfStream DEF Client

LoadedFor(v, T, k) == IF k \in T THEN Loaded(v, k) ELSE v

LEMMA LoadedForIs ==
  ASSUME NEW b \in Nat, NEW v \in Sound(b), NEW T, NEW k \in Reads
  PROVE  LET w == LoadedFor(v, T, k) IN
         /\ w \in Sound(b) /\ Later(v, w) /\ Alike(v, w) /\ w.timer = v.timer
         /\ \A j \in Reads : j # k => w.reads[j] = v.reads[j] /\ (j \in v.errors => j \in w.errors)
         /\ \/ w.reads[k].stage = "asked" /\ w.reads[k].events = <<>>
            \/ /\ k \notin T \/ v.reads[k].stage # "none"
               /\ w.reads[k] = v.reads[k] /\ (k \in v.errors => k \in w.errors)
<1>1. CASE k \in T
  <2> DEFINE w == Loaded(v, k)
  <2>1. /\ w \in Sound(b) /\ Later(v, w) /\ Alike(v, w) /\ w.timer = v.timer
        /\ v.errors \subseteq w.errors \cup {k}
        /\ \A j \in Reads : j # k => w.reads[j] = v.reads[j]
        /\ IF v.reads[k].stage # "none" THEN w = v
           ELSE w.reads[k].stage = "asked" /\ w.reads[k].events = <<>>
                /\ ~w.reads[k].pending
    BY LoadedIs
  <2>2. LoadedFor(v, T, k) = w
    BY <1>1 DEF LoadedFor
  <2> HIDE DEF w
  <2> QED BY <1>1, <2>1, <2>2
<1>2. CASE k \notin T
  <2>1. LoadedFor(v, T, k) = v
    BY <1>2 DEF LoadedFor
  <2>2. Later(v, v) /\ Alike(v, v)
    BY DEF Later, Alike
  <2> QED BY <1>2, <2>1, <2>2
<1> QED BY <1>1, <1>2

\* The timer is over: what was scheduled is read.
LEMMA TimerKeeps ==
  ASSUME RuntimeBounds, NEW v, NEW st \in Subscription, NEW f, Client(v, st, f), v.timer # {}
  PROVE  LET off == [v EXCEPT !.timer = {}]
             a == LoadedFor(off, v.timer, "application")
         IN  /\ v.conn = "failed" => Client(off, st, f)
             /\ Client(LoadedFor(a, v.timer, "session"), st, f)
<1> DEFINE off == [v EXCEPT !.timer = {}]
           a == LoadedFor(off, v.timer, "application")
           w == LoadedFor(a, v.timer, "session")
           T == v.timer
<1>1. v \in Sound(store.body) /\ store.body \in Nat /\ "session" \in Reads
      /\ "application" \in Reads /\ v \in View /\ "application" # "session"
      /\ Fits(v, store.body) /\ Sealing(v)
  BY DEF Client, RuntimeBounds, Reads, Sound
<1>2. /\ off \in View /\ off.timer = {} /\ off.reads = v.reads /\ off.errors = v.errors
      /\ Alike(v, off) /\ \A k \in Reads : off[k] = v[k]
  BY <1>1 DEF View, Alike, Reads
<1> HIDE DEF off
<1>3. off \in Sound(store.body) /\ Later(v, off)
  BY <1>1, <1>2 DEF Sound, Fits, Sealing, Alike, Later
<1>4. T = v.timer
  OBVIOUS
<1> HIDE DEF T
<1>5. /\ a \in Sound(store.body) /\ Later(off, a) /\ Alike(off, a) /\ a.timer = off.timer
      /\ a.reads["session"] = off.reads["session"]
      /\ "session" \in off.errors => "session" \in a.errors
      /\ \/ a.reads["application"].stage = "asked" /\ a.reads["application"].events = <<>>
         \/ /\ "application" \notin T \/ off.reads["application"].stage # "none"
            /\ a.reads["application"] = off.reads["application"]
            /\ "application" \in off.errors => "application" \in a.errors
  BY <1>1, <1>3, <1>4, LoadedForIs
<1> HIDE DEF a
<1>6. /\ w \in Sound(store.body) /\ Later(a, w) /\ Alike(a, w) /\ w.timer = a.timer
      /\ w.reads["application"] = a.reads["application"]
      /\ "application" \in a.errors => "application" \in w.errors
      /\ \/ w.reads["session"].stage = "asked" /\ w.reads["session"].events = <<>>
         \/ /\ "session" \notin T \/ a.reads["session"].stage # "none"
            /\ w.reads["session"] = a.reads["session"]
            /\ "session" \in a.errors => "session" \in w.errors
  BY <1>1, <1>4, <1>5, LoadedForIs
<1> HIDE DEF w
<1>7. Later(v, w) /\ Alike(v, w)
  BY <1>2, <1>3, <1>5, <1>6 DEF Later, Alike
<1>8. ASSUME NEW x \in Sound(store.body), Later(v, x), Alike(v, x), x.timer = {}
      PROVE  AnswersOf(x) /\ Opening(x, st, f) /\ x.instance <= instance
  <2>1. AnswersOf(x) /\ x.instance <= instance
    BY <1>8, AnswersLater DEF Client, Later
  <2>2. ~(Ordered(f) /\ v.conn = "loading" /\ ~st.closed)
    BY DEF Client, Opening
  <2>3. Opening(x, st, f)
    BY <1>8, <2>2 DEF Opening, Alike
  <2> QED BY <2>1, <2>3
<1>9. v.conn = "failed" => Client(off, st, f)
  <2>1. v.conn = "failed" => Following(off, st, f)
    BY <1>2 DEF Following, Alike
  <2> QED BY <1>2, <1>3, <1>8, <2>1 DEF Client
<1>10. ASSUME Ordered(f), v.conn = "live", ~st.closed
       PROVE  Stands(w) /\ st.position <= w.observed /\ Owed(w, "session")
              /\ Heard(w, w.reads["session"])
  <2>1. /\ Stands(v) /\ st.position <= v.observed /\ Owed(v, "session")
        /\ Heard(v, v.reads["session"]) /\ Owed(v, "application")
    BY <1>10 DEF Client, Following, Stands
  <2>2. /\ w["session"] = v["session"] /\ w["application"] = v["application"]
        /\ w.observed = v.observed
    BY <1>7 DEF Alike
  <2>3. Owed(w, "application")
    <3>1. CASE w.reads["application"].stage = "asked"
      BY <3>1 DEF Owed
    <3>2. CASE /\ "application" \notin v.timer \/ v.reads["application"].stage # "none"
               /\ w.reads["application"] = v.reads["application"]
               /\ "application" \in v.errors => "application" \in w.errors
      BY <2>1, <2>2, <3>2 DEF Owed
    <3> QED BY <1>2, <1>4, <1>5, <1>6, <3>1, <3>2
  <2>4. Owed(w, "session") /\ Heard(w, w.reads["session"])
    <3>1. CASE w.reads["session"].stage = "asked" /\ w.reads["session"].events = <<>>
      BY <3>1, NewlyHeard DEF Owed
    <3>2. CASE /\ "session" \notin v.timer \/ v.reads["session"].stage # "none"
               /\ w.reads["session"] = v.reads["session"]
               /\ "session" \in v.errors => "session" \in w.errors
      <4>1. Owed(w, "session")
        BY <2>1, <2>2, <3>2 DEF Owed
      <4>2. Heard(w, w.reads["session"])
        BY <2>1, <2>2, <3>2, StillHeard
      <4> QED BY <4>1, <4>2
    <3> QED BY <1>2, <1>4, <1>5, <1>6, <3>1, <3>2
  <2>5. Stands(w)
    BY <1>7, <2>1, <2>3, StillStands
  <2> QED BY <2>1, <2>2, <2>4, <2>5
<1>11. Following(w, st, f)
  BY <1>7, <1>10 DEF Following, Alike
<1>12. Client(w, st, f)
  BY <1>2, <1>5, <1>6, <1>7, <1>8, <1>11 DEF Client
<1> QED BY <1>9, <1>12 DEF w, a, off

\* A connection begins: first the subscription, then the application is asked for.
LEMMA ConnectKeeps ==
  ASSUME RuntimeBounds, NEW v, NEW st \in Subscription, NEW f, Client(v, st, f), v.timer = {}
  PROVE  LET e == IF v.instance = instance THEN v
                  ELSE [EmptyView EXCEPT !.instance = instance, !.reads = v.reads]
             c == Cancelled(e)
             u == [c EXCEPT !.conn = "loading", !.rebase = FALSE, !.rebased = FALSE,
                            !.buffered = <<>>, !.overflow = FALSE]
         IN  Client(Loaded(u, "application"), [position |-> Len(log), closed |-> FALSE], f)
<1> DEFINE z == [EmptyView EXCEPT !.instance = instance, !.reads = v.reads]
           e == IF v.instance = instance THEN v ELSE z
           c == Cancelled(e)
           u == [c EXCEPT !.conn = "loading", !.rebase = FALSE, !.rebased = FALSE,
                          !.buffered = <<>>, !.overflow = FALSE]
           w == Loaded(u, "application")
           ts == [position |-> Len(log), closed |-> FALSE]
<1>1. v \in Sound(store.body) /\ store.body \in Nat /\ "session" \in Reads
      /\ "application" \in Reads /\ v \in View /\ "application" # "session"
      /\ Fits(v, store.body) /\ Sealing(v) /\ instance \in Nat /\ Len(log) \in Nat
      /\ Len(log) <= MaxSequence
  <2>1. MaxSequence \in Nat
    BY ClientSyncAssumption
  <2> QED BY <2>1 DEF Client, RuntimeBounds, Reads, Sound
<1>2. /\ <<>> \in Seq(NumberedEvent) /\ Len(<<>>) = 0 /\ MaxBuffer \in Nat /\ MaxSequence \in Nat
      /\ DOMAIN <<>> = {}
  BY ClientSyncAssumption
<1>3. z \in Sound(store.body) /\ z.instance = instance /\ z.timer = {}
      /\ \A k \in Reads : z[k].sequence = 0
  <2>1. Nothing \in Shown /\ Nothing.known = FALSE /\ Nothing.sealed = {}
    BY DEF Nothing, Shown
  <2>2. v.reads \in [Reads -> Read]
    BY <1>1 DEF View
  <2> DEFINE h == [configuration |-> 0, body |-> 0, sequence |-> 0]
  <2>3. h \in Held /\ h.body = 0 /\ h.sequence = 0
    BY DEF Held
  <2>4. /\ z.conn = "down" /\ z.instance = instance /\ z.observed = 0 /\ z.rebase = FALSE
        /\ z.application = h /\ z.session = h /\ z.shown = Nothing
        /\ z.buffered = <<>> /\ z.overflow = FALSE /\ z.reads = v.reads
        /\ z.timer = {} /\ z.errors = {} /\ z.rebased = FALSE
    BY DEF EmptyView
  <2>5. z \in View
    <3> DEFINE nothing == Nothing
               none == [k \in Reads |-> NoRead]
    <3>1. nothing \in Shown /\ none \in [Reads -> Read]
      BY <2>1, NoReadIs
    <3>2. EmptyView =
            [conn |-> "down", instance |-> 0, observed |-> 0, rebase |-> FALSE,
             application |-> h, session |-> h, shown |-> nothing,
             buffered |-> <<>>, overflow |-> FALSE, reads |-> none,
             timer |-> {}, errors |-> {}, rebased |-> FALSE]
      BY DEF EmptyView
    <3> HIDE DEF h, nothing, none
    <3>3. EmptyView \in View
      BY <1>2, <2>3, <3>1, <3>2 DEF View
    <3> QED BY <1>1, <2>2, <3>3 DEF View
  <2> HIDE DEF z, h
  <2>6. Fits(z, store.body)
    BY <1>1, <1>2, <2>3, <2>4 DEF Fits
  <2>7. Sealing(z)
    BY <2>1, <2>4 DEF Sealing
  <2>8. \A k \in Reads : z[k].sequence = 0
    BY <2>3, <2>4 DEF Reads
  <2> QED BY <2>4, <2>5, <2>6, <2>7, <2>8 DEF Sound
<1> HIDE DEF z
<1>4. e \in Sound(store.body) /\ e.instance = instance /\ e.timer = {}
      /\ \A k \in Reads : e[k].sequence <= Len(log)
  <2>1. CASE v.instance = instance
    BY <1>1, <2>1 DEF Client, AnswersOf
  <2>2. CASE v.instance # instance
    BY <1>1, <1>3, <2>2
  <2> QED BY <2>1, <2>2
<1> HIDE DEF e
<1>5. c \in Sound(store.body) /\ Alike(e, c) /\ c.timer = {} /\ \A k \in Reads : c.reads[k] = NoRead
  BY <1>1, <1>4, CancelledIs
<1> HIDE DEF c
<1>6. c \in View /\ Fits(c, store.body) /\ Sealing(c)
  BY <1>5 DEF Sound
<1>7. /\ u \in View /\ u.conn = "loading" /\ u.rebase = FALSE /\ u.rebased = FALSE
      /\ u.buffered = <<>> /\ u.overflow = FALSE
      /\ u.application = c.application /\ u.session = c.session /\ u.instance = c.instance
      /\ u.shown = c.shown /\ u.reads = c.reads /\ u.timer = c.timer
  BY <1>2, <1>6 DEF View
<1> HIDE DEF u
<1>8. u \in Sound(store.body)
  BY <1>2, <1>6, <1>7 DEF Sound, Fits, Sealing
<1>9. u.instance = instance /\ \A k \in Reads : u[k].sequence <= Len(log) /\ u.reads[k].stage = "none"
  <2>1. /\ u["application"] = e["application"] /\ u["session"] = e["session"]
        /\ u.instance = e.instance
    BY <1>5, <1>7 DEF Alike
  <2> QED BY <1>4, <1>5, <1>7, <2>1, NoReadIs DEF Reads
<1>10. AnswersOf(u)
  BY <1>9 DEF AnswersOf
<1>11. /\ w \in Sound(store.body) /\ Later(u, w) /\ Alike(u, w) /\ w.timer = u.timer
       /\ w.reads["session"] = u.reads["session"]
       /\ w.reads["application"].stage = "asked" /\ ~w.reads["application"].pending
  BY <1>1, <1>8, <1>9, LoadedIs
<1> HIDE DEF w
<1>12. AnswersOf(w) /\ w.instance <= instance
  BY <1>1, <1>9, <1>10, <1>11, AnswersLater DEF Later
<1>13. ts \in [position : Nat, closed : BOOLEAN] /\ ts.position = Len(log) /\ ~ts.closed
  BY <1>1
<1> HIDE DEF ts
<1>14. /\ w.instance = instance /\ ~w.rebase /\ ~w.rebased /\ w.timer = {}
       /\ w.buffered = <<>> /\ w.conn = "loading" /\ w.reads["session"].stage = "none"
  BY <1>1, <1>5, <1>7, <1>9, <1>11 DEF Alike
<1>15. Opening(w, ts, f)
  <2>1. ts.position - Len(w.buffered) >= 0 /\ DOMAIN w.buffered = {} /\ ts.position <= Len(log)
    BY <1>1, <1>2, <1>13, <1>14
  <2> QED BY <1>11, <1>14, <2>1 DEF Opening
<1>16. Following(w, ts, f)
  BY <1>14 DEF Following
<1>17. Client(w, ts, f)
  BY <1>1, <1>11, <1>12, <1>13, <1>15, <1>16 DEF Client
<1> QED BY <1>17 DEF w, u, c, e, z, ts

-----------------------------------------------------------------------------
(* What the runtime does to a client *)

\* The log goes on; what is stored changes only as the log, or its future, tells.
Grows ==
  /\ instance' = instance /\ Len(log) <= Len(log')
  /\ \A i \in 1..Len(log) : log'[i] = log[i]
  /\ store.body <= store'.body
  /\ (\A i \in Len(log) + 1 .. Len(log') : log'[i].type # "config_changed")
       => store'.configuration = store.configuration
  /\ (\A i \in Len(log) + 1 .. Len(log') : log'[i].type # "step_committed")
       => store'.announced = store.announced

LEMMA LogsAre ==
  ASSUME RuntimeBounds, RuntimeBounds'
  PROVE  /\ Len(log) \in Nat /\ Len(log') \in Nat
         /\ DOMAIN log = 1..Len(log) /\ DOMAIN log' = 1..Len(log')
<1>1. log \in Seq(EventRecord)
  BY DEF RuntimeBounds
<1>2. log' \in Seq(EventRecord')
  BY DEF RuntimeBounds
<1> QED BY <1>1, <1>2

LEMMA DeltasStay ==
  ASSUME Grows, NEW s, NEW n \in Nat, n <= Len(log), Len(log) \in Nat
  PROVE  Deltas(s, n)' = Deltas(s, n)
<1>1. \A i \in 1..n : log'[i] = log[i]
  BY DEF Grows
<1>2. {i \in 1..n : log'[i] = Event("text_delta", s)} = {i \in 1..n : log[i] = Event("text_delta", s)}
  BY <1>1
<1> QED BY <1>2 DEF Deltas, Event

LEMMA CoversStays ==
  ASSUME Grows, RuntimeBounds, RuntimeBounds', NEW x, NEW n \in Nat, n <= Len(log), Covers(x, n)
  PROVE  Covers(x, n)'
<1>1. /\ Len(log) \in Nat /\ Len(log') \in Nat /\ DOMAIN log = 1..Len(log)
      /\ DOMAIN log' = 1..Len(log')
  BY LogsAre
<1>2. ASSUME NEW t, \A i \in DOMAIN log' : i > n => log'[i].type # t
      PROVE  /\ \A i \in DOMAIN log : i > n => log[i].type # t
             /\ \A i \in Len(log) + 1 .. Len(log') : log'[i].type # t
  BY <1>1, <1>2 DEF Grows
<1>3. ASSUME \A i \in DOMAIN log' : i > n => log'[i].type # "config_changed"
      PROVE  x.configuration = store'.configuration
  BY <1>2, <1>3 DEF Covers, Grows
<1>4. ASSUME \A i \in DOMAIN log' : i > n => log'[i].type # "step_committed"
      PROVE  x.body >= store'.announced
  BY <1>2, <1>4 DEF Covers, Grows
<1> QED BY <1>3, <1>4 DEF Covers

LEMMA TellsStays ==
  ASSUME Grows, Len(log) \in Nat, NEW x, x.sequence \in Nat, x.sequence <= Len(log), Tells(x)
  PROVE  Tells(x)'
<1>1. \A s \in Steps : Deltas(s, x.sequence)' = Deltas(s, x.sequence)
  BY DeltasStay
<1> QED BY <1>1 DEF Tells, Steps

LEMMA ExactStays ==
  ASSUME Grows, Len(log) \in Nat, NEW shown, NEW n \in Nat, n <= Len(log), ExactAt(shown, n)
  PROVE  ExactAt(shown, n)'
<1>1. \A s \in Steps : Deltas(s, n)' = Deltas(s, n)
  BY DeltasStay
<1> QED BY <1>1 DEF ExactAt, Steps

LEMMA NumberedStays ==
  ASSUME Grows, NEW n \in 1..Len(log)
  PROVE  Numbered(n)' = Numbered(n)
BY DEF Grows, Numbered

LEMMA AnswersStay ==
  ASSUME Grows, RuntimeBounds, RuntimeBounds', NEW b, NEW v \in Sound(b), AnswersOf(v)
  PROVE  AnswersOf(v)'
<1> SUFFICES ASSUME v.instance = instance, NEW k \in Reads
             PROVE  /\ v[k].sequence <= Len(log')
                    /\ v.reads[k].stage = "replied" =>
                         LET x == v.reads[k].reply IN
                         /\ v[k].sequence <= x.sequence /\ x.sequence <= Len(log')
                         /\ Covers(x, x.sequence)'
                         /\ k = "session" => Tells(x)'
  BY DEF AnswersOf, Grows, Reads
<1> DEFINE x == v.reads[k].reply
<1>1. /\ v[k].sequence <= Len(log)
      /\ v.reads[k].stage = "replied" =>
           /\ v[k].sequence <= x.sequence /\ x.sequence <= Len(log)
           /\ Covers(x, x.sequence)
           /\ k = "session" => Tells(x)
  BY DEF AnswersOf
<1>2. x.sequence \in Nat /\ v[k].sequence \in Nat
  BY ReplyIs
<1>3. Len(log) \in Nat /\ Len(log') \in Nat /\ Len(log) <= Len(log')
  BY LogsAre DEF Grows
<1> HIDE DEF x
<1>4. v.reads[k].stage = "replied" => Covers(x, x.sequence)' /\ (k = "session" => Tells(x)')
  BY <1>1, <1>2, <1>3, CoversStays, TellsStays
<1> QED BY <1>1, <1>2, <1>3, <1>4 DEF x

LEMMA OpeningStays ==
  ASSUME Grows, RuntimeBounds, RuntimeBounds', NEW b, NEW v \in Sound(b),
         NEW st \in Subscription, NEW f, Opening(v, st, f)
  PROVE  Opening(v, st, f)'
<1>1. v.buffered \in Seq(NumberedEvent) /\ st.position \in Nat
  BY DEF Sound, View, Subscription
<1> SUFFICES ASSUME Ordered(f), v.conn = "loading", ~st.closed
             PROVE  /\ v.instance = instance' /\ ~v.rebase /\ ~v.rebased /\ v.timer = {}
                    /\ st.position <= Len(log')
                    /\ v.reads["session"].stage = "none"
                    /\ v.reads["application"].stage # "none" /\ ~v.reads["application"].pending
                    /\ ~v.overflow =>
                         LET n == st.position - Len(v.buffered)  x == v.reads["application"] IN
                         /\ n >= 0
                         /\ \A i \in DOMAIN v.buffered : v.buffered[i] = Numbered(n + i)'
                         /\ x.stage = "replied" => x.reply.sequence >= n
  BY DEF Opening, Ordered
<1>2. /\ v.instance = instance /\ ~v.rebase /\ ~v.rebased /\ v.timer = {}
      /\ st.position <= Len(log)
      /\ v.reads["session"].stage = "none"
      /\ v.reads["application"].stage # "none" /\ ~v.reads["application"].pending
      /\ ~v.overflow =>
           LET n == st.position - Len(v.buffered)  x == v.reads["application"] IN
           /\ n >= 0
           /\ \A i \in DOMAIN v.buffered : v.buffered[i] = Numbered(n + i)
           /\ x.stage = "replied" => x.reply.sequence >= n
  BY DEF Opening
<1>3. Len(log) \in Nat /\ Len(log') \in Nat /\ Len(log) <= Len(log') /\ instance' = instance
  BY LogsAre DEF Grows
<1> DEFINE n == st.position - Len(v.buffered)
<1>4. ASSUME ~v.overflow, NEW i \in DOMAIN v.buffered
      PROVE  v.buffered[i] = Numbered(n + i)'
  <2>1. n >= 0 /\ v.buffered[i] = Numbered(n + i)
    BY <1>2, <1>4
  <2>2. n + i \in 1..Len(log)
    <3>1. i \in 1..Len(v.buffered) /\ Len(v.buffered) \in Nat
      BY <1>1
    <3> QED BY <1>1, <1>2, <1>3, <2>1, <3>1
  <2> HIDE DEF n
  <2>3. Numbered(n + i)' = Numbered(n + i)
    BY <2>2, NumberedStays
  <2> QED BY <2>1, <2>3
<1>5. st.position <= Len(log')
  BY <1>1, <1>2, <1>3
<1> QED BY <1>2, <1>3, <1>4, <1>5

LEMMA OwedStays ==
  ASSUME Grows, RuntimeBounds, RuntimeBounds', NEW v, NEW k, v.observed \in Nat,
         v.observed <= Len(log), Owed(v, k)
  PROVE  Owed(v, k)'
<1>1. /\ Covers(v[k], v.observed) => Covers(v[k], v.observed)'
      /\ Covers(v.reads[k].reply, v.observed) => Covers(v.reads[k].reply, v.observed)'
  BY CoversStays
<1> QED BY <1>1 DEF Owed

LEMMA HeardStays ==
  ASSUME Grows, RuntimeBounds, RuntimeBounds', NEW b, NEW v \in Sound(b), NEW k \in Reads,
         v.observed <= Len(log), Heard(v, v.reads[k])
  PROVE  Heard(v, v.reads[k])'
<1> DEFINE x == v.reads[k]
<1>1. x.reply.sequence \in Nat /\ v.observed \in Nat /\ x.events \in Seq(NumberedEvent)
  BY ReplyIs DEF Sound, View
<1>2. Heard(v, x) /\ Len(log) \in Nat
  BY DEF RuntimeBounds
<1> HIDE DEF x
<1>3. \A n \in 1..v.observed : Numbered(n)' = Numbered(n) /\ log'[n] = log[n]
  BY <1>1, <1>2, NumberedStays DEF Grows
<1>4. Heard(v, x)'
  <2> SUFFICES ASSUME x.stage # "none", ~x.overflow
               PROVE  /\ \A i \in DOMAIN x.events :
                           /\ x.events[i].sequence \in 1 .. v.observed
                           /\ x.events[i] = Numbered(x.events[i].sequence)'
                      /\ \A i, j \in DOMAIN x.events :
                           i < j => x.events[i].sequence < x.events[j].sequence
                      /\ x.stage = "replied" =>
                           \A n \in x.reply.sequence + 1 .. v.observed :
                             log'[n].type # "config_changed" =>
                               \E i \in DOMAIN x.events : x.events[i].sequence = n
    BY DEF Heard
  <2>1. /\ \A i \in DOMAIN x.events :
             /\ x.events[i].sequence \in 1 .. v.observed
             /\ x.events[i] = Numbered(x.events[i].sequence)
        /\ \A i, j \in DOMAIN x.events : i < j => x.events[i].sequence < x.events[j].sequence
        /\ x.stage = "replied" =>
             \A n \in x.reply.sequence + 1 .. v.observed : log[n].type # "config_changed" =>
               \E i \in DOMAIN x.events : x.events[i].sequence = n
    BY <1>2 DEF Heard
  <2>2. \A n \in x.reply.sequence + 1 .. v.observed : n \in 1..v.observed
    BY <1>1
  <2> QED BY <1>3, <2>1, <2>2
<1> QED BY <1>4 DEF x

LEMMA FollowingStays ==
  ASSUME Grows, RuntimeBounds, RuntimeBounds', NEW b, NEW v \in Sound(b), AnswersOf(v),
         NEW st, NEW f, Following(v, st, f)
  PROVE  Following(v, st, f)'
<1> SUFFICES ASSUME Ordered(f), v.conn = "live", ~st.closed
             PROVE  Stands(v)' /\ st.position <= v.observed /\ Owed(v, "session")'
                    /\ Heard(v, v.reads["session"])'
  BY DEF Following, Ordered
<1>1. /\ Stands(v) /\ st.position <= v.observed /\ Owed(v, "session")
      /\ Heard(v, v.reads["session"])
  BY DEF Following
<1>2. /\ v.instance = instance /\ ~v.rebase
      /\ v.observed <= Len(log)
      /\ Owed(v, "application")
      /\ v.rebased => v.shown.known /\ ExactAt(v.shown, LatestOf(v))
  BY <1>1 DEF Stands
<1>3. /\ Len(log) \in Nat /\ Len(log') \in Nat /\ Len(log) <= Len(log') /\ instance' = instance
      /\ v.observed \in Nat /\ v.session.sequence \in Nat
      /\ "session" \in Reads /\ "application" \in Reads
  BY LogsAre DEF Grows, Sound, View, Held, Reads
<1>4. v.session.sequence <= Len(log)
  BY <1>2, <1>3 DEF AnswersOf
<1>5. LatestOf(v) \in Nat /\ LatestOf(v) <= Len(log)
  BY <1>2, <1>3, <1>4 DEF LatestOf
<1>6. v.rebased => ExactAt(v.shown, LatestOf(v))'
  BY <1>2, <1>3, <1>5, ExactStays
<1>7. Owed(v, "session")' /\ Owed(v, "application")'
  BY <1>1, <1>2, <1>3, OwedStays
<1>8. Heard(v, v.reads["session"])'
  BY <1>1, <1>2, <1>3, HeardStays
<1>9. Stands(v)'
  <2>1. v.observed <= Len(log')
    BY <1>2, <1>3
  <2> QED BY <1>2, <1>3, <1>6, <1>7, <2>1 DEF Stands, LatestOf
<1> QED BY <1>1, <1>7, <1>8, <1>9

LEMMA SoundLater ==
  ASSUME NEW b \in Nat, NEW c \in Nat, b <= c, NEW v \in Sound(b)
  PROVE  v \in Sound(c)
<1>1. v \in View /\ Fits(v, b) /\ Sealing(v)
  BY DEF Sound
<1>2. /\ v.application.body \in Nat /\ v.session.body \in Nat
      /\ \A k \in Reads : v.reads[k].reply.body \in Nat
  BY ReplyIs, <1>1 DEF View, Held
<1>3. v.application.body <= c /\ v.session.body <= c
      /\ \A k \in Reads : ReadFits(v.reads[k], c)
  BY <1>1, <1>2 DEF Fits, ReadFits
<1> QED BY <1>1, <1>3 DEF Sound, Fits

\* Whatever the runtime does but start anew, a client stays as it may be.
LEMMA ClientStays ==
  ASSUME Grows, RuntimeBounds, RuntimeBounds', NEW v, NEW st, NEW f, Client(v, st, f)
  PROVE  Client(v, st, f)'
<1>1. /\ v \in Sound(store.body) /\ v.instance <= instance
      /\ st \in Subscription
      /\ AnswersOf(v) /\ Opening(v, st, f) /\ Following(v, st, f)
      /\ st \in [position : Nat, closed : BOOLEAN] /\ st.position <= MaxSequence
  BY DEF Client, Subscription
<1>2. AnswersOf(v)' /\ Opening(v, st, f)' /\ Following(v, st, f)'
  BY <1>1, AnswersStay, OpeningStays, FollowingStays
<1>3. store.body \in Nat /\ store'.body \in Nat /\ store.body <= store'.body /\ instance' = instance
  BY DEF RuntimeBounds, Grows
<1>4. v \in Sound(store'.body)
  BY <1>1, <1>3, SoundLater
<1>5. v.instance <= instance'
  BY <1>1, <1>3
<1> QED BY <1>1, <1>2, <1>4, <1>5 DEF Client

\* One more event, which the log tells as it must.
LEMMA WrittenNext ==
  ASSUME RuntimeBounds, RuntimeBounds', Written, NEW e \in EventRecord, log' = Append(log, e),
         live.step <= live'.step, e.step <= live'.step,
         e.type = "step_started" => e.step > live.step,
         live'.text = IF e = Event("text_delta", live'.step)
                      THEN Deltas(live'.step, Len(log)) + 1 ELSE Deltas(live'.step, Len(log))
  PROVE  Written'
<1> DEFINE N == Len(log)
<1>1. /\ N \in Nat /\ Len(log') = N + 1 /\ DOMAIN log = 1..N /\ DOMAIN log' = 1..N + 1
      /\ (\A i \in 1..N : log'[i] = log[i]) /\ log'[N + 1] = e
      /\ \A i \in 1..N : log[i] \in EventRecord
  <2>1. log \in Seq(EventRecord)
    BY DEF RuntimeBounds
  <2> QED BY <2>1
<1>2. live.step \in Nat /\ live'.step \in Nat
  BY DEF RuntimeBounds
<1>3. /\ \A i \in 1..N : log[i].step <= live.step /\ log[i].step \in Nat
      /\ \A i, j \in 1..N :
           log[i] = Event("step_started", log[j].step) /\ log[j].type = "text_delta" => i < j
      /\ e.step \in Nat
  BY <1>1 DEF Written, EventRecord
<1> HIDE DEF N
<1>4. \A i \in 1..N + 1 : i \in 1..N \/ i = N + 1
  BY <1>1
<1>5. live'.text = Deltas(live.step, Len(log))'
  <2> DEFINE s == live'.step
  <2>1. Deltas(s, N) = Cardinality(Pieces(log, s, N))
    BY <1>1, PiecesCount
  <2>2. Pieces(log', s, N) = Pieces(log, s, N)
    BY <1>1 DEF Pieces
  <2>3. Cardinality(Pieces(log', s, N + 1)) =
          IF e = Event("text_delta", s) THEN Cardinality(Pieces(log', s, N)) + 1
          ELSE Cardinality(Pieces(log', s, N))
    <3> DEFINE l == log'
    <3>1. l[N + 1] = e
      BY <1>1
    <3> HIDE DEF l
    <3>2. Cardinality(Pieces(l, s, N + 1)) =
            IF l[N + 1] = Event("text_delta", s) THEN Cardinality(Pieces(l, s, N)) + 1
            ELSE Cardinality(Pieces(l, s, N))
      BY <1>1, NextPiece
    <3>3. Cardinality(Pieces(l, s, N + 1)) =
            IF e = Event("text_delta", s) THEN Cardinality(Pieces(l, s, N)) + 1
            ELSE Cardinality(Pieces(l, s, N))
      BY <3>1, <3>2
    <3> QED BY <3>3 DEF l
  <2>4. live'.text = Cardinality(Pieces(log', s, N + 1))
    BY <2>1, <2>2, <2>3 DEF N
  <2>5. Cardinality({i \in 1 .. Len(log') : log'[i] = Event("text_delta", s)})
          = Cardinality(Pieces(log', s, N + 1))
    BY <1>1 DEF Pieces
  <2> QED BY <2>4, <2>5 DEF Deltas, Event
<1>6. \A i \in DOMAIN log' : log'[i].step <= live'.step
  BY <1>1, <1>2, <1>3, <1>4
<1>7. ASSUME NEW i \in DOMAIN log', NEW j \in DOMAIN log',
             log'[i] = Event("step_started", log'[j].step), log'[j].type = "text_delta"
      PROVE  i < j
  <2>1. i \in 1..N + 1 /\ j \in 1..N + 1
    BY <1>1
  <2>2. CASE i \in 1..N /\ j \in 1..N
    BY <1>1, <1>3, <1>7, <2>2
  <2>3. CASE i = N + 1
    <3>1. e.type = "step_started" /\ e.step = log'[j].step
      BY <1>1, <1>7, <2>3 DEF Event
    <3>2. j \in 1..N
      BY <1>1, <1>4, <1>7, <2>1, <3>1
    <3>3. log[j].step = e.step /\ log[j].step <= live.step
      BY <1>1, <1>3, <3>1, <3>2
    <3> QED BY <1>2, <1>3, <3>1, <3>3
  <2>4. CASE i \in 1..N /\ j = N + 1
    BY <1>1, <2>4
  <2> QED BY <1>4, <2>1, <2>2, <2>3, <2>4
<1> QED BY <1>5, <1>6, <1>7 DEF Written, Event

\* A step of the client alone.
LEMMA ClientStep ==
  ASSUME IInv, Same, faults' \subseteq Faults, "restart" \in faults' <=> "restart" \in faults,
         Client(view', stream', faults')
  PROVE  IInv'
<1>1. RuntimeBounds /\ Written /\ InstanceState
  BY DEF IInv
<1>2. instance' = instance /\ log' = log /\ store' = store /\ live' = live
  BY DEF Same
<1>3. RuntimeBounds'
  BY <1>1, <1>2 DEF RuntimeBounds, EventRecord, EventTypes
<1>4. Written'
  BY <1>1, <1>2 DEF Written, Deltas, Event
<1>5. InstanceState'
  BY <1>1, <1>2 DEF InstanceState
<1>6. Grows
  BY <1>1, <1>2 DEF Grows, RuntimeBounds
<1>7. Client(view, stream, faults)'
  BY <1>1, <1>3, <1>6, ClientStays
<1> QED BY <1>3, <1>4, <1>5, <1>7 DEF IInv

\* A step of the runtime alone.
LEMMA RuntimeStep ==
  ASSUME IInv, Grows, RuntimeBounds', Written', UNCHANGED <<stream, view, faults>>
  PROVE  IInv'
<1>1. RuntimeBounds /\ Client(view', stream', faults')
  BY DEF IInv
<1>2. Client(view, stream, faults)'
  BY <1>1, ClientStays
<1>3. InstanceState'
  BY DEF IInv, InstanceState, Grows
<1> QED BY <1>2, <1>3 DEF IInv

\* An event of the log's kind is an event record.
LEMMA EventIs ==
  ASSUME NEW t \in EventTypes, NEW s \in Nat
  PROVE  /\ Event(t, s) \in EventRecord /\ Event(t, s).type = t /\ Event(t, s).step = s
BY DEF Event, EventRecord

\* The log after one more event.
LEMMA Appended ==
  ASSUME RuntimeBounds, NEW e \in EventRecord, log' = Append(log, e)
  PROVE  /\ log' \in Seq(EventRecord) /\ Len(log) \in Nat /\ Len(log') = Len(log) + 1
         /\ \A i \in 1..Len(log) : log'[i] = log[i]
         /\ \A i \in Len(log) + 1 .. Len(log') : log'[i] = e
<1>1. log \in Seq(EventRecord) /\ Len(log) \in Nat
  BY DEF RuntimeBounds
<1>2. /\ log' \in Seq(EventRecord) /\ Len(log') = Len(log) + 1 /\ log'[Len(log) + 1] = e
      /\ \A i \in 1..Len(log) : log'[i] = log[i]
  BY <1>1
<1>3. \A i \in Len(log) + 1 .. Len(log') : i = Len(log) + 1
  BY <1>1, <1>2
<1> QED BY <1>1, <1>2, <1>3

StoreRecord == [configuration : Nat, body : Nat, announced : Nat]
LiveRecord == [step : Nat, text : Nat, owed : Nat]
WithinBounds(l, s, r) ==
  /\ s.announced <= s.body /\ s.body <= r.step /\ r.step <= MaxSteps
  /\ r.text + r.owed <= MaxDeltas
  /\ Len(l) + r.owed + (s.body - s.announced) <= MaxSequence

LEMMA BoundsAre ==
  ASSUME RuntimeBounds
  PROVE  /\ instance \in Nat /\ log \in Seq(EventRecord) /\ Len(log) \in Nat
         /\ store \in StoreRecord /\ live \in LiveRecord /\ WithinBounds(log, store, live)
         /\ store.configuration \in Nat /\ store.body \in Nat /\ store.announced \in Nat
         /\ live.step \in Nat /\ live.text \in Nat /\ live.owed \in Nat
<1>1. /\ instance \in Nat /\ log \in Seq(EventRecord)
      /\ store \in StoreRecord /\ live \in LiveRecord /\ WithinBounds(log, store, live)
  BY DEF RuntimeBounds, StoreRecord, LiveRecord, WithinBounds
<1> QED BY <1>1 DEF StoreRecord, LiveRecord

LEMMA BoundsNext ==
  ASSUME instance' \in Nat, log' \in Seq(EventRecord), store' \in StoreRecord,
         live' \in LiveRecord, WithinBounds(log', store', live')
  PROVE  RuntimeBounds'
BY DEF RuntimeBounds, StoreRecord, LiveRecord, WithinBounds, EventRecord, EventTypes

LEMMA ChangeConfigurationKeeps ==
  ASSUME IInv, ChangeConfiguration
  PROVE  IInv'
<1> DEFINE e == Event("config_changed", 0)
<1>1. RuntimeBounds /\ Written
  BY DEF IInv
<1>2. e \in EventRecord /\ e.type = "config_changed" /\ e.step = 0
  BY EventIs DEF EventTypes
<1>3. \A s : e # Event("text_delta", s)
  BY <1>2 DEF Event
<1>4. log' = Append(log, e)
  BY DEF ChangeConfiguration, Publish
<1> HIDE DEF e
<1>5. /\ log' \in Seq(EventRecord) /\ Len(log) \in Nat /\ Len(log') = Len(log) + 1
      /\ \A i \in 1..Len(log) : log'[i] = log[i]
      /\ \A i \in Len(log) + 1 .. Len(log') : log'[i] = e
  BY <1>1, <1>2, <1>4, Appended
<1>6. /\ store' \in StoreRecord
      /\ store'.body = store.body /\ store'.announced = store.announced
      /\ live' = live /\ instance' = instance /\ UNCHANGED <<stream, view, faults>>
      /\ Len(log) + live.owed + (store.body - store.announced) < MaxSequence
  <2>1. /\ store' = [store EXCEPT !.configuration = @ + 1]
        /\ live' = live /\ instance' = instance /\ UNCHANGED <<stream, view, faults>>
        /\ Len(log) + live.owed + (store.body - store.announced) < MaxSequence
    BY DEF ChangeConfiguration, Room
  <2>2. store \in StoreRecord
    BY <1>1, BoundsAre
  <2> QED BY <2>1, <2>2 DEF StoreRecord
<1>7. RuntimeBounds'
  <2>1. WithinBounds(log', store', live')
    <3> DEFINE n == Len(log)  o == live.owed  b == store.body  a == store.announced
    <3>1. /\ WithinBounds(log, store, live)
          /\ live.step \in Nat /\ live.text \in Nat
          /\ n \in Nat /\ o \in Nat /\ b \in Nat /\ a \in Nat
      BY <1>1, BoundsAre
    <3>2. MaxSequence \in Nat /\ MaxSteps \in Nat /\ MaxDeltas \in Nat
      BY ClientSyncAssumption
    <3>3. n + o + (b - a) < MaxSequence
      BY <1>6
    <3>4. /\ Len(log') = n + 1 /\ live'.owed = o
          /\ store'.body = b /\ store'.announced = a
      BY <1>5, <1>6
    <3>5. /\ store'.announced <= store'.body /\ store'.body <= live'.step
          /\ live'.step <= MaxSteps /\ live'.text + live'.owed <= MaxDeltas
      BY <1>6, <3>1, <3>2 DEF WithinBounds
    <3> HIDE DEF n, o, b, a
    <3>6. (n + 1) + o + (b - a) <= MaxSequence
      BY <3>1, <3>2, <3>3
    <3> QED BY <3>4, <3>5, <3>6 DEF WithinBounds
  <2> QED BY <1>1, <1>5, <1>6, <2>1, BoundsAre, BoundsNext
<1>8. Written'
  <2>1. live.step \in Nat /\ live.text = Deltas(live.step, Len(log))
    BY <1>1 DEF RuntimeBounds, Written
  <2> QED BY <1>1, <1>2, <1>3, <1>4, <1>6, <1>7, <2>1, WrittenNext
<1>9. Grows
  <2>1. Len(log) + 1 \in Len(log) + 1 .. Len(log')
    BY <1>5
  <2>2. ~ \A i \in Len(log) + 1 .. Len(log') : log'[i].type # "config_changed"
    BY <1>2, <1>5, <2>1
  <2>3. Len(log) <= Len(log') /\ store.body <= store'.body
    BY <1>1, <1>5, <1>6 DEF RuntimeBounds
  <2> QED BY <1>5, <1>6, <2>2, <2>3 DEF Grows
<1> QED BY <1>6, <1>7, <1>8, <1>9, RuntimeStep

LEMMA StartStepKeeps ==
  ASSUME IInv, StartStep
  PROVE  IInv'
<1> DEFINE e == Event("step_started", live.step + 1)
<1>1. RuntimeBounds /\ Written /\ live.step \in Nat
  BY DEF IInv, RuntimeBounds
<1>2. e \in EventRecord /\ e.type = "step_started" /\ e.step = live.step + 1
  BY <1>1, EventIs DEF EventTypes
<1>3. \A s : e # Event("text_delta", s)
  BY <1>2 DEF Event
<1>4. log' = Append(log, e)
  BY DEF StartStep, Publish
<1> HIDE DEF e
<1>5. /\ log' \in Seq(EventRecord) /\ Len(log) \in Nat /\ Len(log') = Len(log) + 1
      /\ \A i \in 1..Len(log) : log'[i] = log[i]
      /\ \A i \in Len(log) + 1 .. Len(log') : log'[i] = e
  BY <1>1, <1>2, <1>4, Appended
<1>6. /\ store' = store /\ live.step < MaxSteps /\ live.owed = 0
      /\ live.step = store.announced
      /\ live' = [step |-> live.step + 1, text |-> 0, owed |-> 0]
      /\ instance' = instance /\ UNCHANGED <<stream, view, faults>>
      /\ Len(log) + live.owed + (store.body - store.announced) < MaxSequence
  BY DEF StartStep, Room
<1>7. /\ live' \in LiveRecord
      /\ live'.step = live.step + 1 /\ live'.text = 0 /\ live'.owed = 0
  BY <1>1, <1>6 DEF LiveRecord
<1>8. RuntimeBounds'
  <2>1. WithinBounds(log', store', live')
    <3> DEFINE n == Len(log)  o == live.owed  b == store.body  a == store.announced
    <3>1. /\ WithinBounds(log, store, live)
          /\ live.step \in Nat /\ live.text \in Nat
          /\ n \in Nat /\ o \in Nat /\ b \in Nat /\ a \in Nat
      BY <1>1, BoundsAre
    <3>2. MaxSequence \in Nat /\ MaxSteps \in Nat /\ MaxDeltas \in Nat
      BY ClientSyncAssumption
    <3>3. n + o + (b - a) < MaxSequence
      BY <1>6
    <3>4. /\ Len(log') = n + 1 /\ live'.owed = 0
          /\ store'.body = b /\ store'.announced = a
      BY <1>5, <1>6, <1>7
    <3>5. /\ store'.announced <= store'.body /\ store'.body <= live'.step
          /\ live'.step <= MaxSteps /\ live'.text + live'.owed <= MaxDeltas
      BY <1>6, <1>7, <3>1, <3>2 DEF WithinBounds
    <3> HIDE DEF n, o, b, a
    <3>6. (n + 1) + 0 + (b - a) <= MaxSequence
      BY <3>1, <3>2, <3>3
    <3> QED BY <3>4, <3>5, <3>6 DEF WithinBounds
  <2> QED BY <1>1, <1>5, <1>6, <1>7, <2>1, BoundsAre, BoundsNext
<1>9. Written'
  <2>1. DOMAIN log = 1..Len(log)
    BY <1>1 DEF RuntimeBounds
  <2>2. ASSUME NEW i \in 1..Len(log) PROVE log[i] # Event("text_delta", live.step + 1)
    BY <1>1, <2>1 DEF Written, Event
  <2>3. Deltas(live'.step, Len(log)) = 0
    BY <1>5, <1>7, <2>2, NoPieces
  <2>4. /\ live.step <= live'.step /\ e.step <= live'.step /\ e.step > live.step
        /\ live'.text = Deltas(live'.step, Len(log))
    BY <1>1, <1>2, <1>7, <2>3
  <2> QED BY <1>1, <1>2, <1>3, <1>4, <1>8, <2>4, WrittenNext
<1>10. Grows
  <2>1. Len(log) <= Len(log') /\ store.body <= store'.body
    BY <1>1, <1>5, <1>6 DEF RuntimeBounds
  <2> QED BY <1>5, <1>6, <2>1 DEF Grows
<1> QED BY <1>6, <1>8, <1>9, <1>10, RuntimeStep

LEMMA EmitDeltaKeeps ==
  ASSUME IInv, EmitDelta
  PROVE  IInv'
<1>1. RuntimeBounds /\ Written
  BY DEF IInv
<1>2. /\ log' = log /\ store' = store /\ instance' = instance /\ UNCHANGED <<stream, view, faults>>
      /\ live' = [live EXCEPT !.owed = @ + 1]
      /\ live.text + live.owed < MaxDeltas
      /\ Len(log) + live.owed + (store.body - store.announced) < MaxSequence
  BY DEF EmitDelta, Room
<1>3. /\ live' \in LiveRecord
      /\ live'.step = live.step /\ live'.text = live.text /\ live'.owed = live.owed + 1
  <2>1. live \in LiveRecord
    BY <1>1, BoundsAre
  <2> QED BY <1>2, <2>1 DEF LiveRecord
<1>4. RuntimeBounds'
  <2>1. WithinBounds(log', store', live')
    <3> DEFINE n == Len(log)  o == live.owed  b == store.body  a == store.announced
    <3>1. /\ WithinBounds(log, store, live)
          /\ live.step \in Nat /\ live.text \in Nat
          /\ n \in Nat /\ o \in Nat /\ b \in Nat /\ a \in Nat
      BY <1>1, BoundsAre
    <3>2. MaxSequence \in Nat /\ MaxSteps \in Nat /\ MaxDeltas \in Nat
      BY ClientSyncAssumption
    <3>3. n + o + (b - a) < MaxSequence
      BY <1>2
    <3>4. /\ Len(log') = n /\ live'.owed = o + 1
          /\ store'.body = b /\ store'.announced = a
      BY <1>2, <1>3
    <3>5. /\ store'.announced <= store'.body /\ store'.body <= live'.step
          /\ live'.step <= MaxSteps /\ live'.text + live'.owed <= MaxDeltas
      BY <1>2, <1>3, <3>1, <3>2 DEF WithinBounds
    <3> HIDE DEF n, o, b, a
    <3>6. n + (o + 1) + (b - a) <= MaxSequence
      BY <3>1, <3>2, <3>3
    <3> QED BY <3>4, <3>5, <3>6 DEF WithinBounds
  <2> QED BY <1>1, <1>2, <1>3, <2>1, BoundsAre, BoundsNext
<1>5. Written'
  BY <1>1, <1>2, <1>3 DEF Written, Deltas, Event
<1>6. Grows
  BY <1>1, <1>2 DEF Grows, RuntimeBounds
<1> QED BY <1>2, <1>4, <1>5, <1>6, RuntimeStep

LEMMA ProjectDeltaKeeps ==
  ASSUME IInv, ProjectDelta
  PROVE  IInv'
<1> DEFINE e == Event("text_delta", live.step)
<1>1. RuntimeBounds /\ Written /\ live.step \in Nat
  BY DEF IInv, RuntimeBounds
<1>2. e \in EventRecord /\ e.type = "text_delta" /\ e.step = live.step
  BY <1>1, EventIs DEF EventTypes
<1>3. e = Event("text_delta", live.step)
  OBVIOUS
<1>4. log' = Append(log, e)
  BY DEF ProjectDelta, Publish
<1> HIDE DEF e
<1>5. /\ log' \in Seq(EventRecord) /\ Len(log) \in Nat /\ Len(log') = Len(log) + 1
      /\ \A i \in 1..Len(log) : log'[i] = log[i]
      /\ \A i \in Len(log) + 1 .. Len(log') : log'[i] = e
  BY <1>1, <1>2, <1>4, Appended
<1>6. /\ store' = store /\ live.owed > 0
      /\ live' = [live EXCEPT !.owed = @ - 1, !.text = @ + 1]
      /\ instance' = instance /\ UNCHANGED <<stream, view, faults>>
  BY DEF ProjectDelta
<1>7. /\ live' \in LiveRecord
      /\ live'.step = live.step /\ live'.text = live.text + 1 /\ live'.owed = live.owed - 1
  <2>1. live \in LiveRecord /\ live.owed \in Nat /\ live.text \in Nat
    BY <1>1, BoundsAre
  <2>2. live.owed - 1 \in Nat
    BY <1>6, <2>1
  <2> DEFINE fewer == live.owed - 1
             more == live.text + 1
  <2>3. live' = [live EXCEPT !.owed = fewer, !.text = more] /\ fewer \in Nat /\ more \in Nat
    BY <1>6, <2>1, <2>2
  <2> HIDE DEF fewer, more
  <2>4. /\ live' \in LiveRecord
        /\ live'.step = live.step /\ live'.text = more /\ live'.owed = fewer
    BY <2>1, <2>3 DEF LiveRecord
  <2> QED BY <2>4 DEF fewer, more
<1>8. RuntimeBounds'
  <2>1. WithinBounds(log', store', live')
    <3> DEFINE n == Len(log)  o == live.owed  b == store.body  a == store.announced
    <3>1. /\ WithinBounds(log, store, live)
          /\ live.step \in Nat /\ live.text \in Nat
          /\ n \in Nat /\ o \in Nat /\ b \in Nat /\ a \in Nat
      BY <1>1, BoundsAre
    <3>2. MaxSequence \in Nat /\ MaxSteps \in Nat /\ MaxDeltas \in Nat
      BY ClientSyncAssumption
    <3>3. n + o + (b - a) <= MaxSequence
      BY <3>1 DEF WithinBounds
    <3>4. /\ Len(log') = n + 1 /\ live'.owed = o - 1
          /\ store'.body = b /\ store'.announced = a
      BY <1>5, <1>6, <1>7
    <3>5. /\ store'.announced <= store'.body /\ store'.body <= live'.step
          /\ live'.step <= MaxSteps /\ live'.text + live'.owed <= MaxDeltas
      <4> DEFINE t == live.text
      <4>1. t \in Nat /\ o \in Nat /\ t + o <= MaxDeltas
        BY <3>1 DEF WithinBounds
      <4>2. live'.text = t + 1 /\ live'.owed = o - 1
        BY <1>7
      <4>3. /\ store'.announced <= store'.body /\ store'.body <= live'.step
            /\ live'.step <= MaxSteps
        BY <1>6, <1>7, <3>1 DEF WithinBounds
      <4> HIDE DEF t, o
      <4>4. (t + 1) + (o - 1) <= MaxDeltas
        BY <3>2, <4>1
      <4> QED BY <4>2, <4>3, <4>4
    <3> HIDE DEF n, o, b, a
    <3>6. (n + 1) + (o - 1) + (b - a) <= MaxSequence
      BY <3>1, <3>2, <3>3
    <3> QED BY <3>4, <3>5, <3>6 DEF WithinBounds
  <2> QED BY <1>1, <1>5, <1>6, <1>7, <2>1, BoundsAre, BoundsNext
<1>9. Written'
  <2>1. live.text = Deltas(live.step, Len(log))
    BY <1>1 DEF Written
  <2>2. /\ live.step <= live'.step /\ e.step <= live'.step /\ e.type # "step_started"
        /\ e = Event("text_delta", live'.step)
        /\ live'.text = Deltas(live'.step, Len(log)) + 1
    BY <1>1, <1>2, <1>3, <1>7, <2>1
  <2> QED BY <1>1, <1>2, <1>4, <1>8, <2>2, WrittenNext
<1>10. Grows
  <2>1. Len(log) <= Len(log') /\ store.body <= store'.body
    BY <1>1, <1>5, <1>6 DEF RuntimeBounds
  <2> QED BY <1>5, <1>6, <2>1 DEF Grows
<1> QED BY <1>6, <1>8, <1>9, <1>10, RuntimeStep

LEMMA CommitStepKeeps ==
  ASSUME IInv, CommitStep
  PROVE  IInv'
<1>1. RuntimeBounds /\ Written
  BY DEF IInv
<1>2. /\ log' = log /\ live' = live /\ instance' = instance /\ UNCHANGED <<stream, view, faults>>
      /\ store' = [store EXCEPT !.body = @ + 1] /\ live.step = store.body + 1
      /\ Len(log) + live.owed + (store.body - store.announced) < MaxSequence
  BY DEF CommitStep, Room
<1>3. /\ store' \in StoreRecord
      /\ store'.configuration = store.configuration /\ store'.announced = store.announced
      /\ store'.body = store.body + 1
  <2>1. store \in StoreRecord
    BY <1>1, BoundsAre
  <2> QED BY <1>2, <2>1 DEF StoreRecord
<1>4. RuntimeBounds'
  <2>1. WithinBounds(log', store', live')
    <3> DEFINE n == Len(log)  o == live.owed  b == store.body  a == store.announced
    <3>1. /\ WithinBounds(log, store, live)
          /\ live.step \in Nat /\ live.text \in Nat
          /\ n \in Nat /\ o \in Nat /\ b \in Nat /\ a \in Nat
      BY <1>1, BoundsAre
    <3>2. MaxSequence \in Nat /\ MaxSteps \in Nat /\ MaxDeltas \in Nat
      BY ClientSyncAssumption
    <3>3. n + o + (b - a) < MaxSequence
      BY <1>2
    <3>4. /\ Len(log') = n /\ live'.owed = o
          /\ store'.body = b + 1 /\ store'.announced = a
      BY <1>2, <1>3
    <3>5. /\ store'.announced <= store'.body /\ store'.body <= live'.step
          /\ live'.step <= MaxSteps /\ live'.text + live'.owed <= MaxDeltas
      BY <1>2, <1>3, <3>1, <3>2 DEF WithinBounds
    <3> HIDE DEF n, o, b, a
    <3>6. n + o + ((b + 1) - a) <= MaxSequence
      BY <3>1, <3>2, <3>3
    <3> QED BY <3>4, <3>5, <3>6 DEF WithinBounds
  <2> QED BY <1>1, <1>2, <1>3, <2>1, BoundsAre, BoundsNext
<1>5. Written'
  BY <1>1, <1>2 DEF Written, Deltas, Event
<1>6. Grows
  BY <1>1, <1>2, <1>3 DEF Grows, RuntimeBounds
<1> QED BY <1>2, <1>4, <1>5, <1>6, RuntimeStep

LEMMA AnnounceStepKeeps ==
  ASSUME IInv, AnnounceStep
  PROVE  IInv'
<1> DEFINE e == Event("step_committed", store.body)
<1>1. RuntimeBounds /\ Written /\ store.body \in Nat
  BY DEF IInv, RuntimeBounds
<1>2. e \in EventRecord /\ e.type = "step_committed" /\ e.step = store.body
  BY <1>1, EventIs DEF EventTypes
<1>3. \A s : e # Event("text_delta", s)
  BY <1>2 DEF Event
<1>4. log' = Append(log, e)
  BY DEF AnnounceStep, Publish
<1> HIDE DEF e
<1>5. /\ log' \in Seq(EventRecord) /\ Len(log) \in Nat /\ Len(log') = Len(log) + 1
      /\ \A i \in 1..Len(log) : log'[i] = log[i]
      /\ \A i \in Len(log) + 1 .. Len(log') : log'[i] = e
  BY <1>1, <1>2, <1>4, Appended
<1>6. /\ store' = [store EXCEPT !.announced = @ + 1] /\ store.announced < store.body
      /\ live' = live /\ instance' = instance /\ UNCHANGED <<stream, view, faults>>
  BY DEF AnnounceStep
<1>7. /\ store' \in StoreRecord
      /\ store'.configuration = store.configuration /\ store'.body = store.body
      /\ store'.announced = store.announced + 1
  <2>1. store \in StoreRecord
    BY <1>1, BoundsAre
  <2> QED BY <1>6, <2>1 DEF StoreRecord
<1>8. RuntimeBounds'
  <2>1. WithinBounds(log', store', live')
    <3> DEFINE n == Len(log)  o == live.owed  b == store.body  a == store.announced
    <3>1. /\ WithinBounds(log, store, live)
          /\ live.step \in Nat /\ live.text \in Nat
          /\ n \in Nat /\ o \in Nat /\ b \in Nat /\ a \in Nat
      BY <1>1, BoundsAre
    <3>2. MaxSequence \in Nat /\ MaxSteps \in Nat /\ MaxDeltas \in Nat
      BY ClientSyncAssumption
    <3>3. n + o + (b - a) <= MaxSequence
      BY <3>1 DEF WithinBounds
    <3>4. /\ Len(log') = n + 1 /\ live'.owed = o
          /\ store'.body = b /\ store'.announced = a + 1
      BY <1>5, <1>6, <1>7
    <3>5. /\ store'.announced <= store'.body /\ store'.body <= live'.step
          /\ live'.step <= MaxSteps /\ live'.text + live'.owed <= MaxDeltas
      BY <1>6, <1>7, <3>1, <3>2 DEF WithinBounds
    <3> HIDE DEF n, o, b, a
    <3>6. (n + 1) + o + (b - (a + 1)) <= MaxSequence
      BY <3>1, <3>2, <3>3
    <3> QED BY <3>4, <3>5, <3>6 DEF WithinBounds
  <2> QED BY <1>1, <1>5, <1>6, <1>7, <2>1, BoundsAre, BoundsNext
<1>9. Written'
  <2>1. /\ live.step \in Nat /\ live.text = Deltas(live.step, Len(log))
        /\ store.body <= live.step
    BY <1>1 DEF RuntimeBounds, Written
  <2> QED BY <1>1, <1>2, <1>3, <1>4, <1>6, <1>8, <2>1, WrittenNext
<1>10. Grows
  <2>1. Len(log) + 1 \in Len(log) + 1 .. Len(log')
    BY <1>5
  <2>2. ~ \A i \in Len(log) + 1 .. Len(log') : log'[i].type # "step_committed"
    BY <1>2, <1>5, <2>1
  <2>3. Len(log) <= Len(log') /\ store.body <= store'.body
    BY <1>1, <1>5, <1>7
  <2> QED BY <1>5, <1>6, <1>7, <2>2, <2>3 DEF Grows
<1> QED BY <1>6, <1>8, <1>9, <1>10, RuntimeStep

\* The runtime starts anew: a client's stream has ended, and what it holds is of another process.
LEMMA RestartRuntimeKeeps ==
  ASSUME IInv, RestartRuntime
  PROVE  IInv'
<1>1. RuntimeBounds /\ Written /\ InstanceState /\ faults \subseteq Faults
      /\ Client(view, stream, faults)
  BY DEF IInv
<1>2. /\ "restart" \in Faults \ faults /\ faults' = faults \cup {"restart"}
      /\ instance' = instance + 1 /\ log' = <<>>
      /\ store' = [store EXCEPT !.announced = store.body]
      /\ live' = [step |-> store.body, text |-> 0, owed |-> 0]
      /\ stream' = [stream EXCEPT !.closed = TRUE] /\ view' = view
  BY DEF RestartRuntime, Fault
<1>3. /\ log' \in Seq(EventRecord) /\ Len(log') = 0 /\ DOMAIN log' = {}
      /\ store' \in StoreRecord
      /\ store'.body = store.body /\ store'.announced = store.body
      /\ live' \in LiveRecord
      /\ live'.step = store.body /\ live'.text = 0 /\ live'.owed = 0
  <2>1. store \in StoreRecord /\ store.body \in Nat
    BY <1>1, BoundsAre
  <2>2. log' \in Seq(EventRecord) /\ Len(log') = 0 /\ DOMAIN log' = {}
    BY <1>2
  <2>3. /\ store' \in StoreRecord /\ store'.body = store.body /\ store'.announced = store.body
    BY <1>2, <2>1 DEF StoreRecord
  <2>4. /\ live' \in LiveRecord
        /\ live'.step = store.body /\ live'.text = 0 /\ live'.owed = 0
    BY <1>2, <2>1 DEF LiveRecord
  <2> QED BY <2>2, <2>3, <2>4
<1>4. RuntimeBounds'
  <2>1. WithinBounds(log', store', live')
    <3> DEFINE n == Len(log)  o == live.owed  b == store.body  a == store.announced
    <3>1. /\ WithinBounds(log, store, live)
          /\ live.step \in Nat /\ live.text \in Nat
          /\ n \in Nat /\ o \in Nat /\ b \in Nat /\ a \in Nat
      BY <1>1, BoundsAre
    <3>2. MaxSequence \in Nat /\ MaxSteps \in Nat /\ MaxDeltas \in Nat
      BY ClientSyncAssumption
    <3>3. n + o + (b - a) <= MaxSequence
      BY <3>1 DEF WithinBounds
    <3>4. /\ Len(log') = 0 /\ live'.owed = 0
          /\ store'.body = b /\ store'.announced = b
      BY <1>3
    <3>5. /\ store'.announced <= store'.body /\ store'.body <= live'.step
          /\ live'.step <= MaxSteps /\ live'.text + live'.owed <= MaxDeltas
      BY <1>3, <3>1, <3>2 DEF WithinBounds
    <3> HIDE DEF n, o, b, a
    <3>6. 0 + 0 + (b - b) <= MaxSequence
      BY <3>1, <3>2, <3>3
    <3> QED BY <3>4, <3>5, <3>6 DEF WithinBounds
  <2>2. instance' \in Nat
    BY <1>1, <1>2, BoundsAre
  <2> QED BY <1>3, <2>1, <2>2, BoundsNext
<1>5. Written'
  <2>1. {i \in 1..0 : log'[i] = Event("text_delta", store.body)} = {}
    OBVIOUS
  <2>2. Deltas(live.step, Len(log))' = 0
    BY <1>3, <2>1, FS_EmptySet DEF Deltas, Event
  <2> QED BY <1>3, <2>2 DEF Written
<1>6. InstanceState' /\ instance = 0 /\ instance' = 1
  BY <1>1, <1>2 DEF InstanceState
<1>7. /\ view' \in Sound(store'.body) /\ view'.instance <= instance' /\ view'.instance # instance'
      /\ stream' \in [position : Nat, closed : BOOLEAN] /\ stream'.position <= MaxSequence
      /\ stream'.closed
  <2>1. /\ view \in Sound(store.body) /\ view.instance <= instance
        /\ stream \in [position : Nat, closed : BOOLEAN] /\ stream.position <= MaxSequence
    BY <1>1 DEF Client
  <2>2. view.instance \in Nat
    BY <2>1 DEF Sound, View
  <2>3. /\ stream' \in [position : Nat, closed : BOOLEAN] /\ stream'.position = stream.position
        /\ stream'.closed
    BY <1>2, <2>1
  <2> QED BY <1>2, <1>3, <1>6, <2>1, <2>2, <2>3
<1>8. AnswersOf(view)' /\ Opening(view, stream, faults)' /\ Following(view, stream, faults)'
  BY <1>7 DEF AnswersOf, Opening, Following
<1>9. Client(view, stream, faults)'
  BY <1>7, <1>8 DEF Client
<1> QED BY <1>1, <1>2, <1>4, <1>5, <1>6, <1>9 DEF IInv

\* Each step of the client keeps the invariant.
LEMMA ConnectStep ==
  ASSUME IInv, Connect
  PROVE  IInv'
<1>1. /\ RuntimeBounds /\ Client(view, stream, faults) /\ view.timer = {} /\ Same
      /\ stream \in Subscription /\ faults' = faults /\ faults \subseteq Faults
  BY DEF IInv, Connect, Client, Subscription
<1> DEFINE e == IF view.instance = instance THEN view
                ELSE [EmptyView EXCEPT !.instance = instance, !.reads = view.reads]
           u == [Cancelled(e) EXCEPT !.conn = "loading", !.rebase = FALSE, !.rebased = FALSE,
                                     !.buffered = <<>>, !.overflow = FALSE]
           st == [position |-> Len(log), closed |-> FALSE]
<1>2. view' = Loaded(u, "application") /\ stream' = st
  BY DEF Connect
<1>3. Client(Loaded(u, "application"), st, faults)
  BY <1>1, ConnectKeeps
<1> HIDE DEF u, st
<1>4. Client(view', stream', faults')
  BY <1>1, <1>2, <1>3
<1> QED BY <1>1, <1>4, ClientStep

LEMMA ReceiveStep ==
  ASSUME IInv, Receive
  PROVE  IInv'
<1>1. /\ RuntimeBounds /\ Written /\ Client(view, stream, faults) /\ Same
      /\ stream \in Subscription /\ faults' = faults /\ faults \subseteq Faults
      /\ view.conn \in {"loading", "live"} /\ ~stream.closed /\ stream.position < Len(log)
      /\ stream' = [stream EXCEPT !.position = @ + 1]
      /\ view' = Received(view, Numbered(stream.position + 1))
  BY DEF IInv, Receive, Client, Subscription
<1>2. Client(Received(view, Numbered(stream.position + 1)),
             [stream EXCEPT !.position = @ + 1], faults)
  BY <1>1, ReceivedKeeps
<1>3. Client(view', stream', faults')
  BY <1>1, <1>2
<1> QED BY <1>1, <1>3, ClientStep

LEMMA ReceiveBadFrameStep ==
  ASSUME IInv, ReceiveBadFrame
  PROVE  IInv'
<1>1. /\ RuntimeBounds /\ Client(view, stream, faults) /\ Same
      /\ stream \in Subscription /\ faults' = faults \cup {"frame"} /\ "frame" \in Faults
      /\ faults \subseteq Faults /\ stream.position < Len(log)
      /\ stream' = [stream EXCEPT !.position = @ + 1]
      /\ view' = Gapped(view)
  BY DEF IInv, ReceiveBadFrame, Client, Subscription, Fault
<1>2. ~Ordered(faults')
  BY <1>1 DEF Ordered
<1>3. stream' \in Subscription /\ stream'.position <= MaxSequence
  <2>1. /\ Len(log) \in Nat /\ live.owed \in Nat /\ store.body \in Nat /\ store.announced \in Nat
        /\ WithinBounds(log, store, live) /\ MaxSequence \in Nat
    BY <1>1, BoundsAre, ClientSyncAssumption
  <2>2. Len(log) <= MaxSequence
    <3> DEFINE n == Len(log)  o == live.owed  b == store.body  a == store.announced
    <3>1. n + o + (b - a) <= MaxSequence /\ a <= b /\ n \in Nat /\ o \in Nat /\ b \in Nat /\ a \in Nat
      BY <2>1 DEF WithinBounds
    <3> HIDE DEF n, o, b, a
    <3>2. n <= MaxSequence
      BY <2>1, <3>1
    <3> QED BY <3>2 DEF n
  <2>3. stream \in [position : Nat, closed : BOOLEAN]
    BY <1>1 DEF Subscription
  <2>4. /\ stream' \in [position : Nat, closed : BOOLEAN]
        /\ stream'.position = stream.position + 1
    BY <1>1, <2>3
  <2>5. stream.position \in Nat
    BY <2>3
  <2>6. stream'.position <= MaxSequence
    BY <1>1, <2>1, <2>2, <2>4, <2>5
  <2> QED BY <2>4, <2>6 DEF Subscription
<1>4. Client(Gapped(view), stream', faults')
  BY <1>1, <1>2, <1>3, GappedKeeps
<1>5. Client(view', stream', faults') /\ faults' \subseteq Faults
      /\ ("restart" \in faults' <=> "restart" \in faults)
  BY <1>1, <1>4
<1> QED BY <1>1, <1>5, ClientStep

LEMMA ClosedIs ==
  ASSUME NEW st \in Subscription
  PROVE  LET ts == [st EXCEPT !.closed = TRUE] IN
         ts \in Subscription /\ ts.position <= MaxSequence /\ ts.closed
<1>1. st \in [position : Nat, closed : BOOLEAN] /\ st.position <= MaxSequence
  BY DEF Subscription
<1> DEFINE ts == [st EXCEPT !.closed = TRUE]
<1>2. ts \in [position : Nat, closed : BOOLEAN] /\ ts.position = st.position /\ ts.closed
  BY <1>1
<1> HIDE DEF ts
<1> QED BY <1>1, <1>2 DEF Subscription, ts

LEMMA LagStep ==
  ASSUME IInv, Lag
  PROVE  IInv'
<1>1. /\ RuntimeBounds /\ Client(view, stream, faults) /\ Same
      /\ stream \in Subscription /\ faults' = faults /\ faults \subseteq Faults
      /\ stream' = [stream EXCEPT !.closed = TRUE]
      /\ view' = Gapped(view)
  BY DEF IInv, Lag, Client, Subscription
<1>2. stream' \in Subscription /\ stream'.position <= MaxSequence /\ stream'.closed
  BY <1>1, ClosedIs
<1>3. Client(Gapped(view), stream', faults)
  BY <1>1, <1>2, GappedKeeps
<1>4. Client(view', stream', faults')
  BY <1>1, <1>3
<1> QED BY <1>1, <1>4, ClientStep

LEMMA DropStep ==
  ASSUME IInv, Drop
  PROVE  IInv'
<1>1. /\ RuntimeBounds /\ Client(view, stream, faults) /\ Same
      /\ stream \in Subscription /\ faults' = faults \cup {"drop"} /\ "drop" \in Faults
      /\ faults \subseteq Faults
      /\ stream' = [stream EXCEPT !.closed = TRUE] /\ view' = view
  BY DEF IInv, Drop, Client, Subscription, Fault
<1>2. stream' \in Subscription /\ stream'.position <= MaxSequence /\ stream'.closed
  BY <1>1, ClosedIs
<1>3. view \in Sound(store.body) /\ Later(view, view)
  BY <1>1 DEF Client, Later
<1>4. Client(view, stream', faults')
  BY <1>1, <1>2, <1>3, OutOfStream
<1>5. Client(view', stream', faults') /\ faults' \subseteq Faults
      /\ ("restart" \in faults' <=> "restart" \in faults)
  BY <1>1, <1>4
<1> QED BY <1>1, <1>5, ClientStep

LEMMA StreamClosedStep ==
  ASSUME IInv, StreamClosed
  PROVE  IInv'
<1>1. /\ RuntimeBounds /\ Client(view, stream, faults) /\ Same
      /\ stream \in Subscription /\ faults' = faults /\ stream' = stream /\ faults \subseteq Faults
      /\ view' = [Cancelled(view) EXCEPT !.conn = "down"]
  BY DEF IInv, StreamClosed, Client, Subscription
<1>2. Client([Cancelled(view) EXCEPT !.conn = "down"], stream, faults)
  BY <1>1, GivenUp
<1>3. Client(view', stream', faults')
  BY <1>1, <1>2
<1> QED BY <1>1, <1>3, ClientStep

LEMMA RetryConnectionStep ==
  ASSUME IInv, RetryConnection
  PROVE  IInv'
<1>1. /\ RuntimeBounds /\ Client(view, stream, faults) /\ Same
      /\ stream \in Subscription /\ faults' = faults /\ stream' = stream /\ faults \subseteq Faults
      /\ view' = [view EXCEPT !.conn = "down"]
  BY DEF IInv, RetryConnection, Client, Subscription
<1>2. Client([view EXCEPT !.conn = "down"], stream, faults)
  BY <1>1, ConnectionRetried
<1>3. Client(view', stream', faults')
  BY <1>1, <1>2
<1> QED BY <1>1, <1>3, ClientStep

LEMMA AnswerStep ==
  ASSUME IInv, NEW k \in Reads, Answer(k)
  PROVE  IInv'
<1>1. /\ RuntimeBounds /\ Written /\ Client(view, stream, faults) /\ Same
      /\ stream \in Subscription /\ faults' = faults /\ stream' = stream /\ faults \subseteq Faults
      /\ view.reads[k].stage = "asked" /\ view.instance = instance
  BY DEF IInv, Answer, Client, Subscription
<1> DEFINE r(body) == [sequence |-> Len(log), configuration |-> store.configuration,
                       body |-> body,
                       step |-> IF k = "session" THEN live.step ELSE 0,
                       text |-> IF k = "session" THEN live.text ELSE 0]
           w(body) == [view EXCEPT !.reads[k] =
                         [view.reads[k] EXCEPT !.stage = "replied", !.reply = r(body)]]
<1>2. PICK body \in store.announced .. store.body : view' = w(body)
  BY DEF Answer
<1>3. Client(w(body), stream, faults)
  BY <1>1, AnswerKeeps
<1> HIDE DEF w
<1>4. Client(view', stream', faults')
  BY <1>1, <1>2, <1>3
<1> QED BY <1>1, <1>4, ClientStep

LEMMA AnswerFailsStep ==
  ASSUME IInv, NEW k \in Reads, AnswerFails(k)
  PROVE  IInv'
<1>1. /\ RuntimeBounds /\ Client(view, stream, faults) /\ Same
      /\ stream \in Subscription /\ faults' = faults /\ stream' = stream /\ faults \subseteq Faults
      /\ view.reads[k].stage # "none" /\ view' = Failed(view, k)
  BY DEF IInv, AnswerFails, Client, Subscription
<1>2. Client(Failed(view, k), stream, faults)
  BY <1>1, FailedKeeps
<1>3. Client(view', stream', faults')
  BY <1>1, <1>2
<1> QED BY <1>1, <1>3, ClientStep

LEMMA AnswerLostStep ==
  ASSUME IInv, NEW k \in Reads, AnswerLost(k)
  PROVE  IInv'
<1>1. /\ RuntimeBounds /\ Client(view, stream, faults) /\ Same
      /\ stream \in Subscription /\ faults' = faults /\ stream' = stream /\ faults \subseteq Faults
      /\ view.reads[k].stage # "none"
      /\ view' = IF view.conn = "loading" THEN [Cancelled(view) EXCEPT !.conn = "down"]
                 ELSE Failed(view, k)
  BY DEF IInv, AnswerLost, Client, Subscription
<1>2. Client(Failed(view, k), stream, faults)
  BY <1>1, FailedKeeps
<1>3. Client([Cancelled(view) EXCEPT !.conn = "down"], stream, faults)
  BY <1>1, GivenUp
<1>4. Client(view', stream', faults')
  BY <1>1, <1>2, <1>3
<1> QED BY <1>1, <1>4, ClientStep

LEMMA ReplyWhileLoadingStep ==
  ASSUME IInv, ReplyWhileLoading
  PROVE  IInv'
<1> DEFINE rd == view.reads["application"]
<1>1. /\ RuntimeBounds /\ Written /\ Client(view, stream, faults) /\ Same
      /\ stream \in Subscription /\ faults' = faults /\ stream' = stream /\ faults \subseteq Faults
      /\ view.conn = "loading" /\ view.reads["application"].stage = "replied"
  BY DEF IInv, ReplyWhileLoading, Client, Subscription
<1>2. view' = IF view.overflow
              THEN IF rd.attempt < Retries
                   THEN [Retried(view, "application") EXCEPT !.buffered = <<>>,
                                                            !.overflow = FALSE]
                   ELSE Failed(view, "application")
              ELSE IF stream.closed THEN [Cancelled(view) EXCEPT !.conn = "down"]
              ELSE Opened(view, rd.reply)
  BY DEF ReplyWhileLoading
<1>3. CASE view.overflow /\ rd.attempt < Retries
  <2>1. Client([Retried(view, "application") EXCEPT !.buffered = <<>>, !.overflow = FALSE],
               stream, faults)
    BY <1>1, <1>3, OpenedRetried
  <2> QED BY <1>1, <1>2, <1>3, <2>1, ClientStep
<1>4. CASE view.overflow /\ ~(rd.attempt < Retries)
  <2>1. Client(Failed(view, "application"), stream, faults)
    BY <1>1, FailedKeeps DEF Reads
  <2> QED BY <1>1, <1>2, <1>4, <2>1, ClientStep
<1>5. CASE ~view.overflow /\ stream.closed
  <2>1. Client([Cancelled(view) EXCEPT !.conn = "down"], stream, faults)
    BY <1>1, GivenUp
  <2> QED BY <1>1, <1>2, <1>5, <2>1, ClientStep
<1>6. CASE ~view.overflow /\ ~stream.closed
  <2>1. Client(Opened(view, rd.reply), stream, faults)
    BY <1>1, <1>6, OpenedKeeps
  <2> QED BY <1>1, <1>2, <1>6, <2>1, ClientStep
<1> QED BY <1>3, <1>4, <1>5, <1>6

LEMMA ReplyStep ==
  ASSUME IInv, NEW k \in Reads, Reply(k)
  PROVE  IInv'
<1> DEFINE rd == view.reads[k]
<1>1. /\ RuntimeBounds /\ Written /\ Client(view, stream, faults) /\ Same
      /\ stream \in Subscription /\ faults' = faults /\ stream' = stream /\ faults \subseteq Faults
      /\ view.reads[k].stage = "replied" /\ ~(k = "application" /\ view.conn = "loading")
  BY DEF IInv, Reply, Client, Subscription
<1>2. view' = IF rd.overflow
              THEN IF rd.attempt < Retries THEN Retried(view, k) ELSE Failed(view, k)
              ELSE Ended(IF k = "application"
                         THEN ApplicationApplied(view, rd.reply, rd.events)
                         ELSE SessionApplied(view, rd.reply, rd.events), k, TRUE)
  BY DEF Reply
<1>3. CASE rd.overflow /\ rd.attempt < Retries
  <2>1. Client(Retried(view, k), stream, faults)
    BY <1>1, <1>3, RetriedKeeps
  <2> QED BY <1>1, <1>2, <1>3, <2>1, ClientStep
<1>4. CASE rd.overflow /\ ~(rd.attempt < Retries)
  <2>1. Client(Failed(view, k), stream, faults)
    BY <1>1, FailedKeeps
  <2> QED BY <1>1, <1>2, <1>4, <2>1, ClientStep
<1>5. CASE ~rd.overflow /\ k = "application"
  <2>1. Client(Ended(ApplicationApplied(view, rd.reply, rd.events), "application", TRUE),
               stream, faults)
    BY <1>1, <1>5, ApplicationReplyKeeps
  <2>2. view' = Ended(ApplicationApplied(view, rd.reply, rd.events), "application", TRUE)
    BY <1>2, <1>5
  <2>3. Client(view', stream', faults')
    BY <1>1, <2>1, <2>2
  <2> QED BY <1>1, <2>3, ClientStep
<1>6. CASE ~rd.overflow /\ k = "session"
  <2>1. Client(Ended(SessionApplied(view, rd.reply, rd.events), "session", TRUE),
               stream, faults)
    BY <1>1, <1>6, SessionReplyKeeps
  <2>2. view' = Ended(SessionApplied(view, rd.reply, rd.events), "session", TRUE)
    BY <1>2, <1>6
  <2>3. Client(view', stream', faults')
    BY <1>1, <2>1, <2>2
  <2> QED BY <1>1, <2>3, ClientStep
<1> QED BY <1>3, <1>4, <1>5, <1>6 DEF Reads

LEMMA RefreshTimerStep ==
  ASSUME IInv, RefreshTimer
  PROVE  IInv'
<1> DEFINE off == [view EXCEPT !.timer = {}]
           a == LoadedFor(off, view.timer, "application")
           w == LoadedFor(a, view.timer, "session")
<1>1. /\ RuntimeBounds /\ Client(view, stream, faults) /\ Same
      /\ stream \in Subscription /\ faults' = faults /\ stream' = stream /\ faults \subseteq Faults
      /\ view.timer # {}
  BY DEF IInv, RefreshTimer, Client, Subscription
<1>2. view' = IF view.conn = "failed" THEN off ELSE w
  BY DEF RefreshTimer, LoadedFor
<1>3. (view.conn = "failed" => Client(off, stream, faults)) /\ Client(w, stream, faults)
  BY <1>1, TimerKeeps
<1> HIDE DEF off, w
<1>4. Client(view', stream', faults')
  BY <1>1, <1>2, <1>3
<1> QED BY <1>1, <1>4, ClientStep

LEMMA OpenSessionStep ==
  ASSUME IInv, OpenSession
  PROVE  IInv'
<1>1. /\ RuntimeBounds /\ Client(view, stream, faults) /\ Same
      /\ stream \in Subscription /\ faults' = faults \cup {"open"} /\ "open" \in Faults
      /\ faults \subseteq Faults /\ stream' = stream
      /\ view' = Loaded(view, "session")
  BY DEF IInv, OpenSession, Client, Subscription, Fault
<1>2. ~Ordered(faults') /\ "session" \in Reads
  BY <1>1 DEF Ordered, Reads
<1>3. Client(Loaded(view, "session"), stream, faults')
  BY <1>1, <1>2, LoadedKeeps
<1>4. Client(view', stream', faults') /\ faults' \subseteq Faults
      /\ ("restart" \in faults' <=> "restart" \in faults)
  BY <1>1, <1>3
<1> QED BY <1>1, <1>4, ClientStep

-----------------------------------------------------------------------------
(* The theorems *)

LEMMA Initially == Init => IInv
<1> SUFFICES ASSUME Init PROVE IInv
  OBVIOUS
<1>1. /\ instance = 0 /\ log = <<>> /\ faults = {}
      /\ store = [configuration |-> 0, body |-> 0, announced |-> 0]
      /\ live = [step |-> 0, text |-> 0, owed |-> 0]
      /\ stream = [position |-> 0, closed |-> TRUE] /\ view = EmptyView
  BY DEF Init
<1>2. /\ <<>> \in Seq(NumberedEvent) /\ Len(<<>>) = 0 /\ MaxBuffer \in Nat /\ MaxSequence \in Nat
      /\ MaxSteps \in Nat /\ MaxDeltas \in Nat /\ DOMAIN <<>> = {} /\ <<>> \in Seq(EventRecord)
      /\ Retries \in Nat
  BY ClientSyncAssumption
<1>3. RuntimeBounds
  <2>1. store.configuration = 0 /\ store.body = 0 /\ store.announced = 0
        /\ live.step = 0 /\ live.text = 0 /\ live.owed = 0
    BY <1>1
  <2>2. store \in [configuration : Nat, body : Nat, announced : Nat]
        /\ live \in [step : Nat, text : Nat, owed : Nat]
    BY <1>1
  <2> QED BY <1>1, <1>2, <2>1, <2>2 DEF RuntimeBounds
<1>4. Written
  <2>1. {i \in 1..0 : log[i] = Event("text_delta", 0)} = {}
    OBVIOUS
  <2>2. live.step = 0 /\ live.text = 0 /\ Len(log) = 0
    BY <1>1, <1>2
  <2>3. Deltas(live.step, Len(log)) = 0
    BY <2>1, <2>2, FS_EmptySet DEF Deltas
  <2> QED BY <1>1, <1>2, <2>2, <2>3 DEF Written
<1>5. InstanceState
  BY <1>1 DEF InstanceState
<1>6. view \in Sound(store.body)
  <2> DEFINE h == [configuration |-> 0, body |-> 0, sequence |-> 0]
             nothing == Nothing
             none == [k \in Reads |-> NoRead]
  <2>1. h \in Held /\ h.body = 0 /\ h.sequence = 0
    BY DEF Held
  <2>2. Nothing \in Shown /\ Nothing.known = FALSE /\ Nothing.sealed = {}
    BY DEF Nothing, Shown
  <2>3. none \in [Reads -> Read]
    BY NoReadIs
  <2>4. view =
          [conn |-> "down", instance |-> 0, observed |-> 0, rebase |-> FALSE,
           application |-> h, session |-> h, shown |-> nothing,
           buffered |-> <<>>, overflow |-> FALSE, reads |-> none,
           timer |-> {}, errors |-> {}, rebased |-> FALSE]
    BY <1>1 DEF EmptyView
  <2>5. nothing \in Shown /\ nothing.known = FALSE /\ nothing.sealed = {}
    BY <2>2
  <2>6. \A k \in Reads : none[k] = NoRead
    OBVIOUS
  <2>7. store.body = 0
    BY <1>1
  <2> HIDE DEF h, nothing, none
  <2>8. view \in View
    BY <1>2, <2>1, <2>3, <2>4, <2>5 DEF View
  <2>9. Fits(view, 0)
    BY <1>2, <2>1, <2>4, <2>6, NoReadIs DEF Fits, ReadFits
  <2>10. Sealing(view)
    BY <2>4, <2>5 DEF Sealing
  <2> QED BY <2>7, <2>8, <2>9, <2>10 DEF Sound
<1>7. /\ view.instance = 0 /\ view.conn = "down"
      /\ stream \in [position : Nat, closed : BOOLEAN] /\ stream.position <= MaxSequence
      /\ \A k \in Reads : view[k].sequence = 0 /\ view.reads[k].stage = "none"
  <2>1. view.instance = 0 /\ view.conn = "down"
    BY <1>1 DEF EmptyView
  <2>2. stream \in [position : Nat, closed : BOOLEAN] /\ stream.position <= MaxSequence
    BY <1>1, <1>2
  <2>3. view["application"].sequence = 0 /\ view["session"].sequence = 0
    BY <1>1 DEF EmptyView
  <2>4. \A k \in Reads : view.reads[k] = NoRead
    BY <1>1 DEF EmptyView
  <2> QED BY <2>1, <2>2, <2>3, <2>4, NoReadIs DEF Reads
<1>8. AnswersOf(view)
  BY <1>1, <1>2, <1>7 DEF AnswersOf
<1>9. Opening(view, stream, faults) /\ Following(view, stream, faults)
  BY <1>7 DEF Opening, Following
<1>10. Client(view, stream, faults)
  BY <1>1, <1>6, <1>7, <1>8, <1>9 DEF Client
<1> QED BY <1>1, <1>3, <1>4, <1>5, <1>10 DEF IInv

LEMMA Inductively == IInv /\ [Next]_vars => IInv'
<1> SUFFICES ASSUME IInv, [Next]_vars PROVE IInv'
  OBVIOUS
<1>1. CASE UNCHANGED vars
  <2>1. /\ Same /\ faults' = faults /\ view' = view /\ stream' = stream
        /\ faults \subseteq Faults /\ Client(view, stream, faults)
    BY <1>1 DEF vars, Same, IInv
  <2>2. Client(view', stream', faults')
    BY <2>1
  <2> QED BY <2>1, <2>2, ClientStep
<1>2. CASE ChangeConfiguration BY <1>2, ChangeConfigurationKeeps
<1>3. CASE StartStep BY <1>3, StartStepKeeps
<1>4. CASE EmitDelta BY <1>4, EmitDeltaKeeps
<1>5. CASE ProjectDelta BY <1>5, ProjectDeltaKeeps
<1>6. CASE CommitStep BY <1>6, CommitStepKeeps
<1>7. CASE AnnounceStep BY <1>7, AnnounceStepKeeps
<1>8. CASE RestartRuntime BY <1>8, RestartRuntimeKeeps
<1>9. CASE Connect BY <1>9, ConnectStep
<1>10. CASE RetryConnection BY <1>10, RetryConnectionStep
<1>11. CASE Receive BY <1>11, ReceiveStep
<1>12. CASE ReceiveBadFrame BY <1>12, ReceiveBadFrameStep
<1>13. CASE Lag BY <1>13, LagStep
<1>14. CASE Drop BY <1>14, DropStep
<1>15. CASE StreamClosed BY <1>15, StreamClosedStep
<1>16. CASE ReplyWhileLoading BY <1>16, ReplyWhileLoadingStep
<1>17. CASE RefreshTimer BY <1>17, RefreshTimerStep
<1>18. CASE OpenSession BY <1>18, OpenSessionStep
<1>19. CASE \E k \in Reads : Answer(k) \/ AnswerLost(k) \/ Reply(k)
  BY <1>19, AnswerStep, AnswerLostStep, ReplyStep
<1>20. CASE \E k \in Reads : AnswerFails(k)
  BY <1>20, AnswerFailsStep
<1> QED
  BY <1>1, <1>2, <1>3, <1>4, <1>5, <1>6, <1>7, <1>8, <1>9, <1>10, <1>11, <1>12, <1>13, <1>14,
     <1>15, <1>16, <1>17, <1>18, <1>19, <1>20 DEF Next, Progress

\* In every reachable state the client is as its connection, its reads and
\* the runtime's log allow: the invariant that the other theorems rest on.
THEOREM Invariance == Spec => []IInv
<1> QED BY Initially, Inductively, PTL DEF Spec

LEMMA TypesHold == IInv => TypeOK
<1> SUFFICES ASSUME IInv PROVE TypeOK
  OBVIOUS
<1>1. /\ RuntimeBounds /\ InstanceState /\ faults \subseteq Faults
      /\ view \in Sound(store.body) /\ stream.position <= MaxSequence
  BY DEF IInv, Client
<1>2. /\ store.body \in Nat /\ store.announced \in Nat /\ live.step \in Nat
      /\ WithinBounds(log, store, live) /\ Len(log) \in Nat /\ live.owed \in Nat
      /\ live.text \in Nat
  BY <1>1, BoundsAre
<1>3. MaxSequence \in Nat /\ MaxSteps \in Nat
  BY ClientSyncAssumption
<1>4. Len(log) <= MaxSequence
  <2> DEFINE n == Len(log)  o == live.owed  b == store.body  a == store.announced
  <2>1. n + o + (b - a) <= MaxSequence /\ a <= b /\ n \in Nat /\ o \in Nat /\ b \in Nat /\ a \in Nat
    BY <1>2 DEF WithinBounds
  <2> HIDE DEF n, o, b, a
  <2>2. n <= MaxSequence
    BY <1>3, <2>1
  <2> QED BY <2>2 DEF n
<1>5. /\ store.announced <= store.body /\ store.body <= live.step
      /\ live.step <= MaxSteps /\ live.text + live.owed <= MaxDeltas
  BY <1>2 DEF WithinBounds
<1>6. view \in View /\ Fits(view, store.body)
  BY <1>1 DEF Sound
<1>7. /\ view.conn \in {"down", "loading", "live", "failed"}
      /\ view.timer \subseteq Reads /\ view.errors \subseteq Reads
      /\ view.application \in Held /\ view.session \in Held
      /\ \A k \in Reads : view.reads[k] \in Read
  BY <1>6 DEF View
<1>8. ASSUME NEW h \in Held, h.body <= store.body, h.sequence <= MaxSequence
      PROVE  h \in Snapshot
  <2>1. h.body \in Nat /\ h.sequence \in Nat /\ h.configuration \in Nat
    BY DEF Held
  <2>2. h.body \in 0..MaxSteps
    <3> DEFINE x == h.body  b == store.body  n == live.step
    <3>1. x \in Nat /\ b \in Nat /\ n \in Nat /\ x <= b /\ b <= n /\ n <= MaxSteps
      BY <1>2, <1>5, <1>8, <2>1
    <3> HIDE DEF x, b, n
    <3>2. x \in 0..MaxSteps
      BY <1>3, <3>1
    <3> QED BY <3>2 DEF x
  <2>3. h.sequence \in 0..MaxSequence
    BY <1>3, <1>8, <2>1
  <2>4. h = [configuration |-> h.configuration, body |-> h.body, sequence |-> h.sequence]
    BY DEF Held
  <2> QED BY <2>1, <2>2, <2>3, <2>4 DEF Snapshot
<1>9. view.application \in Snapshot /\ view.session \in Snapshot
  BY <1>6, <1>7, <1>8 DEF Fits
<1>10. \A k \in Reads : /\ view.reads[k].stage \in {"none", "asked", "replied"}
                        /\ view.reads[k].attempt <= Retries
                        /\ Len(view.reads[k].events) <= MaxBuffer
  BY <1>6, <1>7 DEF Fits, ReadFits, Read
<1>11. instance \in 0..1
  BY <1>1 DEF InstanceState
<1>12. Len(view.buffered) <= MaxBuffer
  BY <1>6 DEF Fits
<1> QED BY <1>1, <1>4, <1>5, <1>7, <1>9, <1>10, <1>11, <1>12 DEF TypeOK

LEMMA NothingForgotten == IInv => NothingIsForgotten
<1> SUFFICES ASSUME IInv PROVE NothingIsForgotten
  OBVIOUS
<1>1. TypeOK
  BY TypesHold
<1>2. ASSUME Quiet, view.errors = {}, InOrder
      PROVE  ApplicationInSync /\ SessionInSync /\ ~view.rebase
  <2>1. /\ view.conn = "live" /\ ~stream.closed /\ stream.position = Len(log)
        /\ view.timer = {} /\ \A k \in Reads : view.reads[k].stage = "none"
        /\ store.announced = store.body
    BY <1>2 DEF Quiet
  <2>2. Ordered(faults)
    BY <1>2 DEF InOrder, Ordered
  <2>3. /\ Client(view, stream, faults) /\ RuntimeBounds
        /\ view \in Sound(store.body) /\ "application" \in Reads /\ "session" \in Reads
    BY DEF IInv, Client, Reads
  <2>4. /\ Stands(view) /\ stream.position <= view.observed /\ Owed(view, "session")
    BY <2>1, <2>2, <2>3 DEF Client, Following
  <2>5. view.observed <= Len(log) /\ ~view.rebase /\ Owed(view, "application")
    BY <2>4 DEF Stands
  <2>6. view.observed \in Nat /\ Len(log) \in Nat /\ log \in Seq(EventRecord)
        /\ view.application.body \in Nat /\ view.session.body \in Nat /\ store.body \in Nat
        /\ view.application.body <= store.body /\ view.session.body <= store.body
    BY <2>3, BoundsAre DEF Sound, View, Held, Fits
  <2>7. view.observed = Len(log)
    BY <2>1, <2>4, <2>5, <2>6
  <2>8. ~ \E i \in DOMAIN log : i > Len(log)
    BY <2>6
  <2>9. Covers(view.application, Len(log)) /\ Covers(view.session, Len(log))
    BY <1>2, <2>1, <2>3, <2>4, <2>5, <2>7 DEF Owed
  <2>10. /\ view.application.configuration = store.configuration
         /\ view.session.configuration = store.configuration
         /\ view.application.body >= store.body /\ view.session.body >= store.body
    BY <2>1, <2>8, <2>9 DEF Covers
  <2>11. view.application.body = store.body /\ view.session.body = store.body
    BY <2>6, <2>10
  <2> QED BY <2>5, <2>10, <2>11 DEF ApplicationInSync, SessionInSync
<1> QED BY <1>1, <1>2 DEF NothingIsForgotten

LEMMA ExactText == IInv => TextIsExact
<1> SUFFICES ASSUME IInv, InOrder PROVE TextIsAlwaysExact /\ NoTextTwice
  BY DEF TextIsExact
<1>1. /\ Client(view, stream, faults) /\ view \in Sound(store.body) /\ Ordered(faults)
  BY DEF IInv, Client, InOrder, Ordered
<1>2. TextIsAlwaysExact
  <2> SUFFICES ASSUME view.conn = "live", ~stream.closed, view.rebased,
                      NEW s \in Steps \ view.shown.sealed
               PROVE  view.shown.text[s] = Deltas(s, Latest)
    BY DEF TextIsAlwaysExact
  <2>1. ExactAt(view.shown, LatestOf(view))
    BY <1>1 DEF Client, Following, Stands
  <2> QED BY <2>1 DEF ExactAt, LatestOf, Latest
<1>3. NoTextTwice
  <2> SUFFICES ASSUME view.shown.known, NEW s \in Steps, s <= view.session.body
               PROVE  view.shown.text[s] = 0
    BY DEF NoTextTwice
  <2>1. Sealing(view) /\ view.session.body \in Nat
    BY <1>1 DEF Sound, View, Held
  <2>2. s \in 1..view.session.body
    BY <2>1, ClientSyncAssumption DEF Steps
  <2> QED BY <2>1, <2>2 DEF Sealing
<1> QED BY <1>2, <1>3

\* Whatever arrives late, twice or not at all, the client's buffers stay
\* within their limits and every variable keeps its type
\* (RuntimeLifecycleCoordinator with its stores, http/events.rs).
THEOREM TypeCorrect == Spec => []TypeOK
<1> QED BY Invariance, TypesHold, PTL

\* A connected client that has nothing left to do and has shown no error
\* shows the configuration and the steps the runtime has: no change falls
\* between an answer, the events before and after it, and a refresh.
THEOREM NothingIsEverForgotten == Spec => []NothingIsForgotten
<1> QED BY Invariance, NothingForgotten, PTL

\* On an open stream the text being written has no hole and no piece twice,
\* and no recorded step is shown a second time as text being written.
THEOREM TextIsAlwaysShownExactly == Spec => []TextIsExact
<1> QED BY Invariance, ExactText, PTL

=============================================================================
