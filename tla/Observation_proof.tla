--------------------------- MODULE Observation_proof ---------------------------
(***************************************************************************)
(* Proofs about Observation, for any sessions, readers and histories.      *)
(*                                                                         *)
(* A read collects facts that go on changing, and nobody tells it.  IInv   *)
(* says why its last look is enough: as long as the watermarks it noted    *)
(* have not moved, nothing it has collected was announced anew (Fresh).    *)
(* That rests on watermarks that never go back while they are watched      *)
(* (Watched), and on the gate that keeps a session's body still (Gates).   *)
(***************************************************************************)
EXTENDS Observation, FiniteSetTheorems, TLAPS

Stages == {"idle", "begin", "reading", "discarded"}
Gatherings == UNION {[P -> 0 .. MaxChanges] : P \in SUBSET Parts}
Watch == [readers : Nat, sequence : Nat, durable_sequence : Nat]
Read == [stage : Stages, kind : Kinds, of : Sessions \cup {NoSession}, tries : 0 .. Attempts,
         initial : Nat \X Nat \X Nat \X Nat, groups : Nat, got : Gatherings, mine : BOOLEAN]

Replies == {NoReply, Busy} \cup [kind : {"snapshot"}, sequence : Nat, value : Gatherings]

\* Every number is one of an event that there has been.
Numbers ==
    /\ sequence \in Nat /\ sequence <= MaxSequence
    /\ application \in 0 .. sequence /\ configuration \in 0 .. sequence
    /\ mcp \in 0 .. sequence
    /\ sessions \in [Sessions -> Watch] /\ workspace \in Watch
    /\ workspace.sequence <= sequence /\ workspace.durable_sequence <= sequence
    /\ \A s \in Sessions : /\ sessions[s].sequence <= sequence
                           /\ sessions[s].durable_sequence <= sequence

\* Nothing is announced that is not in the store.
Facts ==
    /\ store \in [Parts -> 0 .. MaxChanges] /\ told \in [Parts -> Nat]
    /\ \A p \in Parts : told[p] <= store[p]

\* A query of one session is about one, and whoever still asks has not been answered.
Queries ==
    /\ reads \in [Readers -> Read]
    /\ reply \in [Readers -> Replies]
    /\ \A r \in Readers : reads[r].stage # "idle" =>
         /\ (reads[r].kind = "application") = (reads[r].of = NoSession)
         /\ reads[r].stage # "discarded" => reads[r].tries < Attempts
         /\ reply[r] = NoReply

\* Only one query at a time is about a session, and the gate is held by one.
Gates ==
    /\ gate \subseteq Sessions
    /\ \A s \in gate : \E r \in Readers : reads[r].stage # "idle" /\ reads[r].of = s
    /\ \A r \in Readers : reads[r].stage # "idle" => reads[r].of \in gate \cup {NoSession}
    /\ \A r, q \in Readers :
         /\ reads[r].stage # "idle" /\ reads[q].stage # "idle"
         /\ reads[r].of = reads[q].of /\ reads[r].of # NoSession
         => r = q

\* Watched scopes have as many readers as they should.
Views(r) == reads[r].stage = "reading" /\ reads[r].kind = "view"
Viewers == {r \in Readers : Views(r)}
Watched ==
    /\ \A s \in Sessions :
         sessions[s].readers = IF \E r \in Viewers : reads[r].of = s THEN 1 ELSE 0
    /\ workspace.readers = Cardinality(Viewers)

\* One of the watermarks that a read depends on has moved.
Overtaken(rd) ==
    \/ rd.kind = "application" /\ rd.initial[1] < application
    \/ rd.kind = "view" /\ \/ rd.initial[2] < workspace.sequence
                           \/ rd.initial[3] < configuration
                           \/ rd.initial[4] < mcp
    \/ rd.kind = "history" /\ rd.initial[4] < mcp

Gathered(kind, s, n) == UNION {ReadOrder(kind, s)[i] : i \in 1 .. n}
FreshRead(rd) ==
    /\ rd.groups \in 0 .. Len(ReadOrder(rd.kind, rd.of))
    /\ DOMAIN rd.got = Gathered(rd.kind, rd.of, rd.groups)
    /\ \A i \in 1 .. 4 : rd.initial[i] <= sequence
    /\ \A p \in DOMAIN rd.got : rd.got[p] <= store[p]
    /\ Overtaken(rd) \/ \A p \in DOMAIN rd.got : told[p] <= rd.got[p]
    /\ rd.of # NoSession /\ Body(rd.of) \in DOMAIN rd.got => rd.got[Body(rd.of)] = store[Body(rd.of)]

\* What was collected is in the store, and what was announced since shows in a watermark.
Fresh == \A r \in Readers : reads[r].stage = "reading" => FreshRead(reads[r])

IInv == Numbers /\ Facts /\ Queries /\ Gates /\ Watched /\ Fresh

-----------------------------------------------------------------------------
\* Parts are told apart by their kind and their session.
LEMMA DistinctParts ==
    /\ \A s, t \in Sessions :
         /\ Body(s) = Body(t) => s = t
         /\ Body(s) # Live(t)
         /\ Body(s) \notin {Configuration, Workspace, Mcp}
         /\ Live(s) \notin {Configuration, Workspace, Mcp}
    /\ Configuration # Workspace /\ Workspace # Mcp /\ Mcp # Configuration
    /\ Part("none", NoSession) \notin Parts
BY DEF Body, Live, Part, Mcp, Workspace, Configuration, Parts

\* What a query collects, one group after the other.
LEMMA GatheredInOrder ==
    ASSUME NEW s
    PROVE  /\ LET G(n) == Gathered("application", s, n)
              IN  /\ Len(ReadOrder("application", s)) = 4
                  /\ G(0) = {} /\ G(1) = {Configuration} /\ G(2) = {Configuration, Workspace}
                  /\ G(3) = {Configuration, Workspace} \cup {Body(x) : x \in Sessions}
                  /\ G(4) = {Configuration, Workspace, Mcp} \cup {Body(x) : x \in Sessions}
           /\ LET G(n) == Gathered("view", s, n)
              IN  /\ Len(ReadOrder("view", s)) = 4
                  /\ G(0) = {} /\ G(1) = {Configuration} /\ G(2) = {Configuration, Workspace}
                  /\ G(3) = {Configuration, Workspace, Body(s)}
                  /\ G(4) = {Configuration, Workspace, Body(s), Mcp}
           /\ LET G(n) == Gathered("history", s, n)
              IN  /\ Len(ReadOrder("history", s)) = 2
                  /\ G(0) = {} /\ G(1) = {Body(s)} /\ G(2) = {Body(s), Mcp}
<1>1. /\ ReadOrder("application", s) =
           <<{Configuration}, {Workspace}, {Body(x) : x \in Sessions}, {Mcp}>>
      /\ ReadOrder("view", s) = <<{Configuration}, {Workspace}, {Body(s)}, {Mcp}>>
      /\ ReadOrder("history", s) = <<{Body(s)}, {Mcp}>>
  BY DEF ReadOrder
<1>2. LET G(n) == Gathered("application", s, n)
      IN  /\ Len(ReadOrder("application", s)) = 4
          /\ G(0) = {} /\ G(1) = {Configuration} /\ G(2) = {Configuration, Workspace}
          /\ G(3) = {Configuration, Workspace} \cup {Body(x) : x \in Sessions}
          /\ G(4) = {Configuration, Workspace, Mcp} \cup {Body(x) : x \in Sessions}
  BY <1>1 DEF Gathered
<1>3. LET G(n) == Gathered("view", s, n)
      IN  /\ Len(ReadOrder("view", s)) = 4
          /\ G(0) = {} /\ G(1) = {Configuration} /\ G(2) = {Configuration, Workspace}
          /\ G(3) = {Configuration, Workspace, Body(s)}
          /\ G(4) = {Configuration, Workspace, Body(s), Mcp}
  BY <1>1 DEF Gathered
<1>4. LET G(n) == Gathered("history", s, n)
      IN  /\ Len(ReadOrder("history", s)) = 2
          /\ G(0) = {} /\ G(1) = {Body(s)} /\ G(2) = {Body(s), Mcp}
  BY <1>1 DEF Gathered
<1> QED
  BY <1>2, <1>3, <1>4

\* What a query has collected, and that it never is a live run.
LEMMA GatheredParts ==
    ASSUME NEW kind \in Kinds, NEW s \in Sessions \cup {NoSession},
           (kind = "application") = (s = NoSession),
           NEW n \in 0 .. Len(ReadOrder(kind, s))
    PROVE  /\ Gathered(kind, s, n) \subseteq Parts \ {Live(x) : x \in Sessions}
           /\ n < Len(ReadOrder(kind, s)) =>
                Gathered(kind, s, n + 1) = Gathered(kind, s, n) \cup ReadOrder(kind, s)[n + 1]
           /\ kind # "application" =>
                Gathered(kind, s, n) \subseteq {Configuration, Workspace, Body(s), Mcp}
           /\ kind = "history" => Gathered(kind, s, n) \subseteq {Body(s), Mcp}
<1>1. n \in 0 .. 4
  <2>1. CASE kind = "history"
    BY <2>1 DEF ReadOrder
  <2>2. CASE kind # "history"
    BY <2>2 DEF ReadOrder, Kinds
  <2> QED
    BY <2>1, <2>2
<1>2. kind # "application" => s \in Sessions
  OBVIOUS
<1>3. n < Len(ReadOrder(kind, s)) =>
        Gathered(kind, s, n + 1) = Gathered(kind, s, n) \cup ReadOrder(kind, s)[n + 1]
  <2>1. Len(ReadOrder(kind, s)) \in Nat
    BY GatheredInOrder DEF Kinds
  <2> QED
    BY <1>1, <2>1 DEF Gathered
<1>4. kind = "application" => Gathered(kind, s, n) \subseteq
        {Configuration, Workspace, Mcp} \cup {Body(x) : x \in Sessions}
  BY <1>1, GatheredInOrder
<1>5. kind = "view" => Gathered(kind, s, n) \subseteq {Configuration, Workspace, Body(s), Mcp}
  BY <1>1, GatheredInOrder
<1>6. kind = "history" => Gathered(kind, s, n) \subseteq {Body(s), Mcp}
  <2>1. kind = "history" => n \in 0 .. 2
    BY GatheredInOrder
  <2> QED
    BY <2>1, GatheredInOrder
<1>7. Gathered(kind, s, n) \subseteq Parts \ {Live(x) : x \in Sessions}
  BY <1>2, <1>4, <1>5, <1>6, DistinctParts DEF Kinds, Parts
<1> QED
  BY <1>3, <1>5, <1>6, <1>7 DEF Kinds

-----------------------------------------------------------------------------
\* The query of r stays where it is.
SameRead(r) ==
    /\ reads'[r].stage = reads[r].stage /\ reads'[r].kind = reads[r].kind
    /\ reads'[r].of = reads[r].of /\ reads'[r].tries = reads[r].tries
    /\ reads'[r].initial = reads[r].initial /\ reads'[r].groups = reads[r].groups
    /\ reads'[r].got = reads[r].got

LEMMA ObserveReads ==
    ASSUME Queries, NEW e, Observe(e)
    PROVE  reads' \in [Readers -> Read] /\ \A r \in Readers : SameRead(r)
<1>1. \A r \in Readers : Concerns(reads[r], e) \in BOOLEAN
  BY DEF Concerns
<1>2. reads' = [r \in Readers |-> [reads[r] EXCEPT !.mine = @ \/ Concerns(reads[r], e)]]
  BY DEF Observe
<1>3. \A r \in Readers : /\ reads'[r] = [reads[r] EXCEPT !.mine = @ \/ Concerns(reads[r], e)]
                         /\ reads[r] \in Read
  BY <1>2 DEF Queries
<1>4. ASSUME NEW r \in Readers PROVE reads'[r] \in Read /\ SameRead(r)
  <2> DEFINE b == Concerns(reads[r], e)
  <2>1. b \in BOOLEAN /\ reads[r] \in Read /\ reads'[r] = [reads[r] EXCEPT !.mine = @ \/ b]
    BY <1>1, <1>3
  <2> HIDE DEF b
  <2> QED
    BY <2>1 DEF Read, SameRead
<1> QED
  BY <1>2, <1>4

LEMMA ObserveNumbers ==
    ASSUME Numbers, NEW e, Observe(e)
    PROVE  /\ Numbers'
           /\ sequence' = sequence + 1
           /\ workspace'.readers = workspace.readers
           /\ \A s \in Sessions : sessions'[s].readers = sessions[s].readers
<1>1. /\ sequence' = sequence + 1 /\ sequence \in Nat /\ sequence + 1 <= MaxSequence
      /\ application' \in {application, sequence'} /\ configuration' \in {configuration, sequence'}
      /\ mcp' \in {mcp, sequence'}
  BY ObservationAssumption DEF Numbers, Observe
<1>2. ASSUME NEW watch \in Watch
      PROVE  LET new == Advanced(watch, sequence + 1, e)
             IN  /\ new \in Watch /\ new.readers = watch.readers
                 /\ new.sequence \in {watch.sequence, sequence + 1}
                 /\ new.durable_sequence \in {watch.durable_sequence, sequence + 1}
  <2>1. CASE watch.readers = 0
    BY <2>1 DEF Advanced
  <2>2. CASE watch.readers # 0
    <3> DEFINE d == IF "durable" \in e.scope THEN sequence + 1 ELSE watch.durable_sequence
    <3>1. d \in Nat /\ d \in {watch.durable_sequence, sequence + 1}
      BY <1>1 DEF Watch
    <3>2. Advanced(watch, sequence + 1, e) =
            [watch EXCEPT !.sequence = sequence + 1, !.durable_sequence = d]
      BY <2>2 DEF Advanced
    <3> HIDE DEF d
    <3>3. sequence + 1 \in Nat
      BY <1>1
    <3> QED
      BY <3>1, <3>2, <3>3 DEF Watch
  <2> QED
    BY <2>1, <2>2
<1>3. workspace' \in {workspace, Advanced(workspace, sequence + 1, e)} /\ workspace \in Watch
  BY <1>1 DEF Observe, Numbers
<1>4. sessions' \in [Sessions -> Watch] /\ \A s \in Sessions :
        sessions[s] \in Watch /\ sessions'[s] \in {sessions[s], Advanced(sessions[s], sequence + 1, e)}
  BY <1>1, <1>2 DEF Observe, Numbers
<1>5. /\ workspace' \in Watch /\ workspace'.readers = workspace.readers
      /\ workspace'.sequence \in {workspace.sequence, sequence + 1}
      /\ workspace'.durable_sequence \in {workspace.durable_sequence, sequence + 1}
  BY <1>2, <1>3
<1>6. \A s \in Sessions :
        /\ sessions'[s].readers = sessions[s].readers
        /\ sessions'[s].sequence \in {sessions[s].sequence, sequence + 1}
        /\ sessions'[s].durable_sequence \in {sessions[s].durable_sequence, sequence + 1}
  BY <1>2, <1>4
<1>7. /\ application' \in 0 .. sequence' /\ configuration' \in 0 .. sequence'
      /\ mcp' \in 0 .. sequence' /\ sequence' \in Nat
  BY <1>1 DEF Numbers
<1>8. workspace'.sequence <= sequence' /\ workspace'.durable_sequence <= sequence'
  BY <1>1, <1>5 DEF Numbers, Watch
<1>9. \A s \in Sessions : /\ sessions'[s].sequence <= sequence'
                         /\ sessions'[s].durable_sequence <= sequence'
  BY <1>1, <1>4, <1>6 DEF Numbers, Watch
<1> QED
  BY <1>1, <1>4, <1>5, <1>6, <1>7, <1>8, <1>9 DEF Numbers

\* Watermarks never go back under a query that watches them.
LEMMA ObserveOvertaken ==
    ASSUME Numbers, Queries, NEW e, Observe(e), NEW r \in Readers,
           Overtaken(reads[r])
    PROVE  Overtaken(reads[r])'
<1>1. SameRead(r)
  BY ObserveReads
<1>2. reads[r].initial \in Nat \X Nat \X Nat \X Nat
  BY DEF Queries, Read
<1>3. /\ application <= application' /\ configuration <= configuration' /\ mcp <= mcp'
      /\ workspace.sequence <= workspace'.sequence
      /\ application \in Nat /\ configuration \in Nat /\ mcp \in Nat /\ workspace.sequence \in Nat
      /\ application' \in Nat /\ configuration' \in Nat /\ mcp' \in Nat
      /\ workspace'.sequence \in Nat
  <2>1. sequence' = sequence + 1 /\ Numbers'
    BY ObserveNumbers
  <2>2. /\ application' \in {application, sequence'} /\ configuration' \in {configuration, sequence'}
        /\ mcp' \in {mcp, sequence'}
    BY DEF Observe
  <2>3. workspace'.sequence \in {workspace.sequence, sequence + 1}
    BY DEF Observe, Advanced, Numbers, Watch
  <2> QED
    BY <2>1, <2>2, <2>3 DEF Numbers, Watch
<1>4. /\ reads'[r].kind = reads[r].kind /\ reads'[r].initial = reads[r].initial
      /\ reads[r].initial[1] \in Nat /\ reads[r].initial[2] \in Nat
      /\ reads[r].initial[3] \in Nat /\ reads[r].initial[4] \in Nat
  BY <1>1, <1>2 DEF SameRead
<1>5. ASSUME NEW a \in Nat, NEW b \in Nat, NEW c \in Nat, a < b, b <= c PROVE a < c
  BY <1>5
<1> QED
  BY <1>3, <1>4, <1>5 DEF Overtaken

\* A workspace that is watched has a reader.
LEMMA ViewersCounted ==
    ASSUME Watched, NEW r \in Viewers
    PROVE  workspace.readers # 0 /\ IsFiniteSet(Viewers)
<1>1. IsFiniteSet(Viewers)
  BY ObservationAssumption, FS_Subset DEF Viewers
<1>2. Cardinality(Viewers) # 0
  BY <1>1, FS_EmptySet
<1> QED
  BY <1>1, <1>2 DEF Watched

\* Events leave queries, gates and registrations alone.
LEMMA ObserveKeeps ==
    ASSUME IInv, NEW e, Observe(e), UNCHANGED <<gate, reply>>
    PROVE  Queries' /\ Gates' /\ Watched'
<1>1. reads' \in [Readers -> Read] /\ \A r \in Readers : SameRead(r)
  BY ObserveReads DEF IInv
<1>2. Queries' /\ Gates'
  BY <1>1 DEF IInv, Queries, Gates, SameRead
<1>3. Viewers' = Viewers /\ \A r \in Readers : reads'[r].of = reads[r].of
  BY <1>1 DEF Viewers, Views, SameRead
<1>4. /\ workspace'.readers = workspace.readers
      /\ \A s \in Sessions : sessions'[s].readers = sessions[s].readers
  BY ObserveNumbers DEF IInv
<1>5. \A s \in Sessions :
        (\E r \in Viewers' : reads'[r].of = s) <=> (\E r \in Viewers : reads[r].of = s)
  BY <1>3 DEF Viewers
<1>6. Watched'
  BY <1>3, <1>4, <1>5 DEF IInv, Watched
<1> QED
  BY <1>2, <1>6

\* An event leaves a read fresh that it overtakes or is not about.
LEMMA ObserveFresh ==
    ASSUME IInv, NEW e, Observe(e), Facts', \A p \in Parts : store[p] <= store'[p],
           \A s \in gate : store'[Body(s)] = store[Body(s)],
           \A r \in Readers : reads[r].stage = "reading" =>
             Overtaken(reads[r])' \/ \A p \in DOMAIN reads[r].got :
                                       told'[p] <= reads[r].got[p] \/ told'[p] = told[p]
    PROVE  Fresh'
<1> SUFFICES ASSUME NEW r \in Readers, reads'[r].stage = "reading"
             PROVE  FreshRead(reads[r])'
  BY DEF Fresh
<1> DEFINE rd == reads[r]
<1>1. SameRead(r) /\ rd \in Read /\ rd.stage = "reading"
  BY ObserveReads DEF IInv, Queries, SameRead
<1>2. FreshRead(rd)
  BY <1>1 DEF IInv, Fresh
<1>3. sequence \in Nat /\ sequence' = sequence + 1
  BY ObserveNumbers DEF IInv, Numbers
<1>4. \A i \in 1 .. 4 : rd.initial[i] <= sequence'
  <2>1. rd.initial[1] \in Nat /\ rd.initial[2] \in Nat /\ rd.initial[3] \in Nat /\ rd.initial[4] \in Nat
    BY <1>1 DEF Read
  <2> QED
    BY <1>2, <1>3, <2>1 DEF FreshRead
<1>5. DOMAIN rd.got \subseteq Parts /\ \A p \in DOMAIN rd.got : rd.got[p] \in Nat
  BY <1>1, ObservationAssumption DEF Read, Gatherings
<1>6. \A p \in DOMAIN rd.got : rd.got[p] <= store'[p]
  BY <1>2, <1>5 DEF FreshRead, IInv, Facts
<1>7. rd.of # NoSession /\ Body(rd.of) \in DOMAIN rd.got => rd.got[Body(rd.of)] = store'[Body(rd.of)]
  <2>1. rd.of # NoSession => rd.of \in gate
    BY <1>1 DEF IInv, Gates
  <2> QED
    BY <1>2, <2>1 DEF FreshRead
<1>8. Overtaken(rd)' \/ \A p \in DOMAIN rd.got : told'[p] <= rd.got[p]
  <2>1. CASE Overtaken(rd)
    BY <2>1, ObserveOvertaken DEF IInv
  <2>2. CASE ~Overtaken(rd)
    BY <1>1, <1>2, <2>2 DEF FreshRead
  <2> QED
    BY <2>1, <2>2
<1> QED
  BY <1>1, <1>2, <1>4, <1>6, <1>7, <1>8 DEF FreshRead, SameRead

\* An event about what a read has collected moves one of its watermarks.
LEMMA PublishStep ==
    ASSUME IInv, NEW e \in Atomic, PublishTransition(e)
    PROVE  IInv'
<1>1. Observe(e) /\ UNCHANGED <<gate, reply>>
  BY DEF PublishTransition
<1>2. e.about \in Parts
  BY DEF Atomic, ConfigChanged, McpRegistryChanged, WorkspaceChanged, StepStarted, TextDelta,
     Event, Parts
<1>3. /\ store[e.about] < MaxChanges
      /\ store' = [store EXCEPT ![e.about] = @ + 1] /\ told' = [told EXCEPT ![e.about] = @ + 1]
  BY DEF PublishTransition
<1>4. Facts'
  BY <1>2, <1>3, ObservationAssumption DEF IInv, Facts
<1>5. \A p \in Parts : store[p] <= store'[p]
  BY <1>2, <1>3, ObservationAssumption DEF IInv, Facts
<1>6. \A s \in Sessions : e.about # Body(s)
  BY DistinctParts DEF Atomic, ConfigChanged, McpRegistryChanged, WorkspaceChanged, StepStarted,
     TextDelta, Event
<1>7. \A s \in gate : store'[Body(s)] = store[Body(s)]
  BY <1>2, <1>3, <1>6 DEF IInv, Gates, Facts, Parts
<1>8. ASSUME NEW r \in Readers, reads[r].stage = "reading", e.about \in DOMAIN reads[r].got
      PROVE  Overtaken(reads[r])'
  <2> DEFINE rd == reads[r]
  <2>1. /\ rd.kind \in Kinds /\ rd.of \in Sessions \cup {NoSession}
        /\ (rd.kind = "application") = (rd.of = NoSession)
        /\ rd.groups \in 0 .. Len(ReadOrder(rd.kind, rd.of))
        /\ DOMAIN rd.got = Gathered(rd.kind, rd.of, rd.groups)
    BY <1>8 DEF IInv, Queries, Read, Fresh, FreshRead
  <2>2. /\ e.about \notin {Live(s) : s \in Sessions}
        /\ rd.kind # "application" => e.about \in {Configuration, Workspace, Body(rd.of), Mcp}
        /\ rd.kind = "history" => e.about \in {Body(rd.of), Mcp}
    BY <1>8, <2>1, GatheredParts
  <2>3. rd.kind = "application" \/ rd.of \in Sessions
    BY <2>1
  <2>4. \/ e = McpRegistryChanged
        \/ e \in {ConfigChanged, WorkspaceChanged} /\ rd.kind # "history"
    BY <1>6, <2>2, <2>3, DistinctParts
       DEF Atomic, StepStarted, TextDelta, ConfigChanged, WorkspaceChanged, McpRegistryChanged, Event
  <2>5. /\ sequence' = sequence + 1 /\ sequence \in Nat
        /\ "application" \in e.scope => application' = sequence'
        /\ "configuration" \in e.scope => configuration' = sequence'
        /\ "mcp" \in e.scope => mcp' = sequence'
        /\ "workspace" \in e.scope => workspace' = Advanced(workspace, sequence', e)
    BY <1>1 DEF Observe, IInv, Numbers
  <2>6. \A i \in 1 .. 4 : rd.initial[i] < sequence'
    <3>1. rd.initial[1] \in Nat /\ rd.initial[2] \in Nat /\ rd.initial[3] \in Nat
          /\ rd.initial[4] \in Nat
      BY DEF IInv, Queries, Read
    <3>2. \A i \in 1 .. 4 : rd.initial[i] <= sequence
      BY <1>8 DEF IInv, Fresh, FreshRead
    <3> QED
      BY <2>5, <3>1, <3>2
  <2>7. rd.kind = "view" /\ e = WorkspaceChanged => workspace'.sequence = sequence'
    <3> HAVE rd.kind = "view" /\ e = WorkspaceChanged
    <3>1. workspace.readers # 0
      BY <1>8, ViewersCounted DEF IInv, Viewers, Views
    <3>2. workspace' = Advanced(workspace, sequence', e)
      BY <2>5 DEF WorkspaceChanged, Event
    <3> QED
      BY <3>1, <3>2 DEF Advanced, IInv, Numbers, Watch
  <2>8. /\ reads'[r].kind = rd.kind /\ reads'[r].initial = rd.initial
    BY <1>1, ObserveReads DEF IInv, SameRead
  <2>9. rd.kind \in {"application", "view", "history"}
    BY <2>1 DEF Kinds
  <2>10. CASE rd.kind = "application"
    BY <2>4, <2>5, <2>6, <2>8, <2>10
       DEF Overtaken, ConfigChanged, McpRegistryChanged, WorkspaceChanged, Event
  <2>11. CASE rd.kind = "view"
    BY <2>4, <2>5, <2>6, <2>7, <2>8, <2>11
       DEF Overtaken, ConfigChanged, McpRegistryChanged, WorkspaceChanged, Event
  <2>12. CASE rd.kind = "history"
    BY <2>4, <2>5, <2>6, <2>8, <2>12 DEF Overtaken, McpRegistryChanged, Event
  <2> QED
    BY <2>9, <2>10, <2>11, <2>12
<1>9. \A r \in Readers : reads[r].stage = "reading" =>
        Overtaken(reads[r])' \/ \A p \in DOMAIN reads[r].got :
                                  told'[p] <= reads[r].got[p] \/ told'[p] = told[p]
  <2> SUFFICES ASSUME NEW r \in Readers, reads[r].stage = "reading", ~Overtaken(reads[r])',
                      NEW p \in DOMAIN reads[r].got
               PROVE  told'[p] = told[p]
    OBVIOUS
  <2>1. p # e.about
    BY <1>8
  <2>2. p \in Parts
    BY DEF IInv, Queries, Read, Gatherings
  <2> QED
    BY <1>3, <2>1, <2>2 DEF IInv, Facts
<1>10. Fresh'
  BY <1>1, <1>4, <1>5, <1>7, <1>9, ObserveFresh
<1> QED
  BY <1>1, <1>4, <1>10, ObserveNumbers, ObserveKeeps DEF IInv

\* A body that was committed before it is announced is what the read already has.
LEMMA SendCommittedStep ==
    ASSUME IInv, NEW s \in Sessions, SendCommitted(s)
    PROVE  IInv'
<1> DEFINE e == ConversationCommitted(s)
<1>1. Observe(e) /\ UNCHANGED <<store, gate, reply>>
  BY DEF SendCommitted
<1>2. Body(s) \in Parts /\ told[Body(s)] < store[Body(s)]
      /\ told' = [told EXCEPT ![Body(s)] = @ + 1]
  BY DEF SendCommitted, Parts
<1>3. Facts' /\ \A p \in Parts : store[p] <= store'[p]
  BY <1>1, <1>2, ObservationAssumption DEF IInv, Facts
<1>4. \A r \in Readers : reads[r].stage = "reading" =>
        Overtaken(reads[r])' \/ \A p \in DOMAIN reads[r].got :
                                  told'[p] <= reads[r].got[p] \/ told'[p] = told[p]
  <2> SUFFICES ASSUME NEW r \in Readers, reads[r].stage = "reading", ~Overtaken(reads[r])',
                      NEW p \in DOMAIN reads[r].got, told'[p] # told[p]
               PROVE  told'[p] <= reads[r].got[p]
    OBVIOUS
  <2> DEFINE rd == reads[r]
  <2>1. p = Body(s) /\ told'[p] <= store[p]
    BY <1>2 DEF IInv, Queries, Read, Gatherings, Facts
  <2>2. /\ rd.kind \in Kinds /\ rd.of \in Sessions \cup {NoSession}
        /\ (rd.kind = "application") = (rd.of = NoSession)
        /\ rd.groups \in 0 .. Len(ReadOrder(rd.kind, rd.of))
        /\ DOMAIN rd.got = Gathered(rd.kind, rd.of, rd.groups)
    BY DEF IInv, Queries, Read, Fresh, FreshRead
  <2>3. CASE rd.kind = "application"
    <3>1. application' = sequence' /\ sequence' = sequence + 1
      BY <1>1 DEF Observe, ConversationCommitted, Event
    <3>2. rd.initial[1] \in Nat /\ rd.initial[1] <= sequence /\ sequence \in Nat
      BY DEF IInv, Queries, Read, Fresh, FreshRead, Numbers
    <3>3. reads'[r].kind = rd.kind /\ reads'[r].initial = rd.initial
      BY <1>1, ObserveReads DEF IInv, SameRead
    <3> QED
      BY <2>3, <3>1, <3>2, <3>3 DEF Overtaken
  <2>4. CASE rd.kind # "application"
    <3>1. p \in {Configuration, Workspace, Body(rd.of), Mcp} /\ rd.of \in Sessions
      BY <2>2, <2>4, GatheredParts
    <3>2. p = Body(rd.of)
      BY <2>1, <3>1, DistinctParts
    <3>3. rd.got[Body(rd.of)] = store[Body(rd.of)]
      BY <3>1, <3>2, ObservationAssumption DEF IInv, Fresh, FreshRead
    <3> QED
      BY <2>1, <3>2, <3>3
  <2> QED
    BY <2>3, <2>4
<1>5. Fresh'
  BY <1>1, <1>3, <1>4, ObserveFresh
<1> QED
  BY <1>1, <1>3, <1>5, ObserveNumbers, ObserveKeeps DEF IInv

\* An event about nothing that queries read.
LEMMA SendOtherStep ==
    ASSUME IInv, SendOther
    PROVE  IInv'
<1>1. Observe(PermissionChanged) /\ UNCHANGED <<store, told, gate, reply>>
  BY DEF SendOther
<1>2. Facts' /\ \A p \in Parts : store[p] <= store'[p]
  BY <1>1, ObservationAssumption DEF IInv, Facts
<1>3. Fresh'
  BY <1>1, <1>2, ObserveFresh
<1> QED
  BY <1>1, <1>2, <1>3, ObserveNumbers, ObserveKeeps DEF IInv

\* A session's body does not change while a query of the session is under way.
LEMMA CommitBodyStep ==
    ASSUME IInv, NEW s \in Sessions, CommitBody(s)
    PROVE  IInv'
<1>1. /\ s \notin gate /\ Body(s) \in Parts
      /\ store[Body(s)] < MaxChanges /\ store' = [store EXCEPT ![Body(s)] = @ + 1]
      /\ UNCHANGED <<watermarks, told, reads, gate, reply>>
  BY DEF CommitBody, Parts
<1>2. Facts' /\ \A p \in Parts : store[p] <= store'[p]
  BY <1>1, ObservationAssumption DEF IInv, Facts
<1>3. Fresh'
  <2> SUFFICES ASSUME NEW r \in Readers, reads[r].stage = "reading"
               PROVE  FreshRead(reads[r])'
    BY <1>1 DEF Fresh
  <2> DEFINE rd == reads[r]
  <2>1. FreshRead(rd)
    BY DEF IInv, Fresh
  <2>2. rd.of # NoSession => rd.of \in Sessions /\ Body(rd.of) # Body(s) /\ Body(rd.of) \in Parts
    BY <1>1, DistinctParts DEF IInv, Gates, Parts
  <2>3. DOMAIN rd.got \subseteq Parts /\ \A p \in DOMAIN rd.got : rd.got[p] \in Nat
    BY ObservationAssumption DEF IInv, Queries, Read, Gatherings
  <2>4. \A p \in DOMAIN rd.got : rd.got[p] <= store'[p]
    BY <1>2, <2>1, <2>3, ObservationAssumption DEF FreshRead, IInv, Facts
  <2>5. rd.of # NoSession /\ Body(rd.of) \in DOMAIN rd.got => rd.got[Body(rd.of)] = store'[Body(rd.of)]
    BY <1>1, <2>1, <2>2 DEF FreshRead, IInv, Facts
  <2>6. Overtaken(rd)' = Overtaken(rd)
    BY <1>1 DEF Overtaken, watermarks
  <2> QED
    BY <1>1, <2>1, <2>4, <2>5, <2>6 DEF FreshRead, watermarks
<1>4. Numbers' /\ Queries' /\ Gates' /\ Watched'
  BY <1>1 DEF IInv, Numbers, Queries, Gates, Watched, Viewers, Views, watermarks
<1> QED
  BY <1>2, <1>3, <1>4 DEF IInv

-----------------------------------------------------------------------------
\* A step of one query does not make the others stale.
LEMMA OthersStayFresh ==
    ASSUME IInv, NEW r \in Readers, NEW rd, reads' = [reads EXCEPT ![r] = rd],
           UNCHANGED <<sequence, application, configuration, mcp, store, told>>,
           \A q \in Viewers \ {r} : workspace'.sequence = workspace.sequence,
           rd.stage = "reading" => FreshRead(reads[r])'
    PROVE  Fresh'
<1> SUFFICES ASSUME NEW q \in Readers \ {r}, reads[q].stage = "reading"
             PROVE  FreshRead(reads[q])'
  BY DEF Fresh, IInv, Queries
<1>1. reads'[q] = reads[q] /\ FreshRead(reads[q])
  BY DEF IInv, Queries, Fresh
<1>2. reads[q].kind = "view" => workspace'.sequence = workspace.sequence
  BY DEF Viewers, Views
<1> QED
  BY <1>1, <1>2 DEF FreshRead, Overtaken

\* The slot of no query.
LEMMA IdleTyped == Idle \in Read
<1>1. [p \in {} |-> 0] \in Gatherings
  <2>1. {} \in SUBSET Parts /\ [p \in {} |-> 0] \in [{} -> 0 .. MaxChanges]
    OBVIOUS
  <2> QED
    BY <2>1 DEF Gatherings
<1> QED
  BY <1>1, ObservationAssumption DEF Idle, Read, Stages, Kinds

\* A query that ends, or that is thrown away, leaves the scopes it watched to the others.
LEMMA ReleaseStep ==
    ASSUME IInv, NEW r \in Readers, reads[r].stage # "idle", Release(reads[r]),
           NEW rd \in Read, reads' = [reads EXCEPT ![r] = rd], rd.stage # "reading",
           UNCHANGED <<sequence, application, configuration, mcp, store, told>>
    PROVE  Numbers' /\ Facts' /\ Watched' /\ Fresh'
<1>1. Viewers' = Viewers \ {r} /\ \A q \in Readers \ {r} : reads'[q] = reads[q]
  BY DEF Viewers, Views, IInv, Queries
<1>2. CASE r \notin Viewers
  <2>1. UNCHANGED <<sessions, workspace>> /\ Viewers' = Viewers
    BY <1>1, <1>2 DEF Release, Viewers, Views
  <2>2. \A s \in Sessions :
          (\E q \in Viewers' : reads'[q].of = s) <=> (\E q \in Viewers : reads[q].of = s)
    BY <1>1, <1>2, <2>1 DEF Viewers
  <2>3. Numbers' /\ Facts' /\ Watched'
    BY <2>1, <2>2 DEF IInv, Numbers, Facts, Watched
  <2>4. Fresh'
    BY <2>1, OthersStayFresh
  <2> QED
    BY <2>3, <2>4
<1>3. CASE r \in Viewers
  <2> DEFINE s == reads[r].of
  <2>1. s \in Sessions
    BY <1>3 DEF Viewers, Views, IInv, Queries, Read
  <2>2. sessions' = [sessions EXCEPT ![s] = Released(@)] /\ workspace' = Released(workspace)
    BY <1>3 DEF Release, Viewers, Views
  <2>3. sessions[s].readers = 1 /\ sessions'[s] = Absent
    BY <1>3, <2>1, <2>2 DEF IInv, Watched, Released, Numbers
  <2>4. IsFiniteSet(Viewers) /\ workspace.readers = Cardinality(Viewers)
        /\ Cardinality(Viewers \ {r}) = Cardinality(Viewers) - 1 /\ Cardinality(Viewers) \in Nat
    BY <1>3, ViewersCounted, FS_RemoveElement, FS_CardinalityType DEF IInv, Watched
  <2>5. /\ workspace'.readers = Cardinality(Viewers \ {r})
        /\ workspace' \in Watch /\ workspace'.sequence <= sequence
        /\ workspace'.durable_sequence <= sequence
        /\ workspace.readers # 1 => workspace'.sequence = workspace.sequence
    <3>1. CASE workspace.readers = 1
      BY <2>2, <2>4, <3>1 DEF Released, Absent, Watch, IInv, Numbers
    <3>2. CASE workspace.readers # 1
      <4>1. workspace.readers - 1 \in Nat
        <5>1. workspace.readers # 0
          BY <1>3, ViewersCounted DEF IInv
        <5> QED
          BY <2>4, <5>1
      <4>2. workspace' = [workspace EXCEPT !.readers = @ - 1]
        BY <2>2, <3>2 DEF Released
      <4> QED
        BY <2>4, <3>2, <4>1, <4>2 DEF Watch, IInv, Numbers
    <3> QED
      BY <3>1, <3>2
  <2>6. \A q \in Viewers \ {r} : workspace.readers # 1
    <3> SUFFICES ASSUME NEW q \in Viewers \ {r} PROVE workspace.readers # 1
      OBVIOUS
    <3>1. IsFiniteSet(Viewers \ {r})
      BY <2>4, FS_RemoveElement
    <3>2. Cardinality(Viewers \ {r}) # 0
      BY <3>1, FS_EmptySet
    <3> QED
      BY <2>4, <3>2
  <2>7. Fresh'
    BY <2>5, <2>6, OthersStayFresh
  <2>8. sessions' \in [Sessions -> Watch] /\ \A x \in Sessions :
          sessions'[x].sequence <= sequence /\ sessions'[x].durable_sequence <= sequence
    <3>1. Absent \in Watch /\ Absent.sequence <= sequence /\ Absent.durable_sequence <= sequence
      BY DEF Absent, Watch, IInv, Numbers
    <3>2. sessions' = [sessions EXCEPT ![s] = Absent]
      BY <2>1, <2>2, <2>3 DEF IInv, Numbers
    <3> QED
      BY <2>1, <3>1, <3>2 DEF IInv, Numbers
  <2>9. Numbers' /\ Facts'
    BY <2>5, <2>8 DEF IInv, Numbers, Facts
  <2>10. \A x \in Sessions :
           sessions'[x].readers = IF \E q \in Viewers' : reads'[q].of = x THEN 1 ELSE 0
    <3> SUFFICES ASSUME NEW x \in Sessions
                 PROVE  sessions'[x].readers = IF \E q \in Viewers' : reads'[q].of = x THEN 1 ELSE 0
      OBVIOUS
    <3>1. CASE x = s
      <4>1. \A q \in Viewers \ {r} : reads[q].of # s
        BY <1>3, <2>1, ObservationAssumption DEF IInv, Gates, Viewers, Views
      <4> QED
        BY <1>1, <2>3, <3>1, <4>1 DEF Viewers, Absent
    <3>2. CASE x # s
      <4>1. sessions'[x] = sessions[x]
        BY <2>2, <3>2 DEF IInv, Numbers
      <4>2. (\E q \in Viewers' : reads'[q].of = x) <=> (\E q \in Viewers : reads[q].of = x)
        BY <1>1, <3>2 DEF Viewers
      <4> QED
        BY <4>1, <4>2 DEF IInv, Watched
    <3> QED
      BY <3>1, <3>2
  <2> QED
    BY <1>1, <2>5, <2>7, <2>9, <2>10 DEF Watched
<1> QED
  BY <1>2, <1>3

\* Whoever asks about a session takes its gate.
LEMMA AskStep ==
    ASSUME IInv, NEW r \in Readers, NEW kind \in Kinds, NEW s \in Sessions \cup {NoSession},
           Ask(r, kind, s)
    PROVE  IInv'
<1> DEFINE rd == [Idle EXCEPT !.stage = "begin", !.kind = kind, !.of = s]
<1>1. /\ reads[r].stage = "idle" /\ reply[r] = NoReply /\ s \notin gate
      /\ (kind = "application") = (s = NoSession)
      /\ gate' = gate \cup ({s} \ {NoSession})
      /\ reads' = [reads EXCEPT ![r] = rd]
      /\ UNCHANGED <<watermarks, store, told, reply>>
  BY DEF Ask
<1>2. rd \in Read /\ rd.stage = "begin" /\ rd.kind = kind /\ rd.of = s /\ rd.tries = 0
  BY IdleTyped DEF Read, Stages, Idle
<1> HIDE DEF rd
<1>3. \A q \in Readers : reads'[q] = IF q = r THEN rd ELSE reads[q]
  BY <1>1 DEF IInv, Queries
<1>4. Queries'
  BY <1>1, <1>2, <1>3, ObservationAssumption DEF IInv, Queries
<1>5. Gates'
  BY <1>1, <1>2, <1>3 DEF IInv, Gates
<1>6. Viewers' = Viewers /\ \A q \in Viewers : reads'[q] = reads[q]
  BY <1>1, <1>2, <1>3 DEF Viewers, Views
<1>7. Watched'
  <2>1. \A x \in Sessions :
          (\E q \in Viewers' : reads'[q].of = x) <=> (\E q \in Viewers : reads[q].of = x)
    BY <1>6
  <2> QED
    BY <1>1, <1>6, <2>1 DEF IInv, Watched, watermarks
<1>8. Fresh'
  BY <1>1, <1>2, OthersStayFresh DEF watermarks
<1> QED
  BY <1>1, <1>4, <1>5, <1>7, <1>8 DEF IInv, Numbers, Facts, watermarks

\* A read begins with what is true now.
LEMMA BeginReadStep ==
    ASSUME IInv, NEW r \in Readers, BeginRead(r)
    PROVE  IInv'
<1> DEFINE old == reads[r]
           view == old.kind = "view"
           session == IF view THEN Registered(sessions[old.of]) ELSE Absent
           space == IF view THEN Registered(workspace) ELSE workspace
           in == Stamp(old.kind, session, space)
           rd == [old EXCEPT !.stage = "reading", !.groups = 0, !.got = Idle.got, !.mine = FALSE,
                             !.initial = in]
<1>1. /\ old.stage = "begin"
      /\ sessions' = IF view THEN [sessions EXCEPT ![old.of] = session] ELSE sessions
      /\ workspace' = space
      /\ reads' = [reads EXCEPT ![r] = rd]
      /\ UNCHANGED <<sequence, application, configuration, mcp, store, told, gate, reply>>
  BY DEF BeginRead
<1>2. old \in Read /\ old.kind \in Kinds /\ (view => old.of \in Sessions)
      /\ (old.kind = "application") = (old.of = NoSession) /\ old.of \in Sessions \cup {NoSession}
  BY <1>1 DEF IInv, Queries, Read
<1>3. ASSUME NEW watch \in Watch, watch.sequence <= sequence, watch.durable_sequence <= sequence
      PROVE  LET new == Registered(watch)
             IN  /\ new \in Watch /\ new.readers = watch.readers + 1
                 /\ new.sequence <= sequence /\ new.durable_sequence <= sequence
                 /\ watch.readers # 0 => new.sequence = watch.sequence
  BY <1>3 DEF Registered, Watch, IInv, Numbers
<1>4. space \in Watch /\ space.sequence <= sequence /\ space.durable_sequence <= sequence
      /\ (workspace.readers # 0 => space.sequence = workspace.sequence)
      /\ space.readers = IF view THEN workspace.readers + 1 ELSE workspace.readers
  <2>1. CASE view
    <3>1. workspace.durable_sequence <= sequence
      BY DEF IInv, Numbers
    <3> QED
      BY <1>3, <2>1, <3>1 DEF IInv, Numbers
  <2>2. CASE ~view
    BY <2>2 DEF IInv, Numbers
  <2> QED
    BY <2>1, <2>2
<1>5. session \in Watch /\ session.sequence <= sequence /\ session.durable_sequence <= sequence
      /\ (view => session.readers = sessions[old.of].readers + 1)
  <2>1. CASE view
    BY <1>2, <1>3, <2>1 DEF IInv, Numbers
  <2>2. CASE ~view
    BY <2>2 DEF Absent, Watch, IInv, Numbers
  <2> QED
    BY <2>1, <2>2
<1>6. in \in Nat \X Nat \X Nat \X Nat /\ \A i \in 1 .. 4 : in[i] <= sequence
  BY <1>2, <1>4, <1>5 DEF Stamp, Kinds, IInv, Numbers, Watch
<1> HIDE DEF in
<1>7. Idle.got \in Gatherings /\ DOMAIN Idle.got = {}
  BY IdleTyped DEF Idle, Read
<1>8. /\ rd \in Read /\ rd.stage = "reading" /\ rd.kind = old.kind /\ rd.of = old.of
      /\ rd.groups = 0 /\ rd.got = Idle.got /\ rd.initial = in /\ rd.tries = old.tries
  BY <1>2, <1>6, <1>7 DEF Read, Stages
<1> HIDE DEF rd
<1>9. \A q \in Readers : reads'[q] = IF q = r THEN rd ELSE reads[q]
  BY <1>1 DEF IInv, Queries
<1>10. Queries' /\ Gates'
  BY <1>1, <1>2, <1>8, <1>9 DEF IInv, Queries, Gates
<1>11. FreshRead(reads[r])'
  <2>1. Gathered(old.kind, old.of, 0) = {} /\ Len(ReadOrder(old.kind, old.of)) \in {2, 4}
    BY <1>2, GatheredInOrder DEF Kinds
  <2>2. reads'[r] = rd /\ sequence' = sequence
    BY <1>1, <1>9
  <2>3. rd.groups \in 0 .. Len(ReadOrder(rd.kind, rd.of)) /\ DOMAIN rd.got = {}
        /\ Gathered(rd.kind, rd.of, rd.groups) = {} /\ \A i \in 1 .. 4 : rd.initial[i] <= sequence
    BY <1>6, <1>7, <1>8, <2>1
  <2> QED
    BY <2>2, <2>3 DEF FreshRead
<1>12. Fresh'
  <2>1. \A q \in Viewers \ {r} : workspace'.sequence = workspace.sequence
    BY <1>1, <1>4, ViewersCounted DEF IInv
  <2> QED
    BY <1>1, <1>11, <2>1, OthersStayFresh
<1>13. Numbers' /\ Facts'
  BY <1>1, <1>2, <1>4, <1>5 DEF IInv, Numbers, Facts
<1>14. Watched'
  <2>1. CASE view
    <3>1. r \notin Viewers /\ Viewers' = Viewers \cup {r} /\ IsFiniteSet(Viewers)
      BY <1>1, <1>8, <1>9, <2>1, ObservationAssumption, FS_Subset DEF Viewers, Views
    <3>2. Cardinality(Viewers') = Cardinality(Viewers) + 1
      BY <3>1, FS_AddElement
    <3>3. ASSUME NEW x \in Sessions
          PROVE  sessions'[x].readers = IF \E q \in Viewers' : reads'[q].of = x THEN 1 ELSE 0
      <4>1. CASE x = old.of
        <5>1. \A q \in Viewers : reads[q].of # x
          BY <1>1, <3>1, <4>1, ObservationAssumption DEF IInv, Gates, Viewers, Views
        <5>2. sessions[x].readers = 0
          BY <5>1 DEF IInv, Watched
        <5>3. sessions'[x].readers = 1
          BY <1>1, <1>2, <1>5, <2>1, <4>1, <5>2 DEF IInv, Numbers
        <5>4. r \in Viewers' /\ reads'[r].of = x
          BY <1>8, <1>9, <3>1, <4>1
        <5> QED
          BY <5>3, <5>4
      <4>2. CASE x # old.of
        <5>1. sessions'[x] = sessions[x]
          BY <1>1, <1>2, <2>1, <4>2 DEF IInv, Numbers
        <5>2. (\E q \in Viewers' : reads'[q].of = x) <=> (\E q \in Viewers : reads[q].of = x)
          BY <1>8, <1>9, <3>1, <4>2 DEF Viewers
        <5> QED
          BY <5>1, <5>2 DEF IInv, Watched
      <4> QED
        BY <4>1, <4>2
    <3> QED
      BY <1>1, <1>4, <2>1, <3>2, <3>3 DEF IInv, Watched
  <2>2. CASE ~view
    <3>1. Viewers' = Viewers /\ \A q \in Viewers : reads'[q] = reads[q]
      BY <1>1, <1>8, <1>9, <2>2 DEF Viewers, Views
    <3>2. \A x \in Sessions :
            (\E q \in Viewers' : reads'[q].of = x) <=> (\E q \in Viewers : reads[q].of = x)
      BY <3>1
    <3> QED
      BY <1>1, <2>2, <3>1, <3>2 DEF IInv, Watched
  <2> QED
    BY <2>1, <2>2
<1> QED
  BY <1>10, <1>12, <1>13, <1>14 DEF IInv

\* The next group is collected as it is in the store now.
LEMMA ReadGroupStep ==
    ASSUME IInv, NEW r \in Readers, ReadGroup(r)
    PROVE  IInv'
<1> DEFINE old == reads[r]
           group == ReadOrder(old.kind, old.of)[old.groups + 1]
           got == [p \in DOMAIN old.got \cup group |->
                      IF p \in group THEN store[p] ELSE old.got[p]]
           rd == [old EXCEPT !.groups = old.groups + 1, !.got = got]
<1>1. /\ old.stage = "reading" /\ old.groups < Len(ReadOrder(old.kind, old.of))
      /\ UNCHANGED <<watermarks, store, told, gate, reply>>
  BY DEF ReadGroup
<1>2. reads' = [reads EXCEPT ![r] = rd]
  BY DEF ReadGroup
<1>3. /\ old \in Read /\ old.kind \in Kinds /\ old.of \in Sessions \cup {NoSession}
      /\ (old.kind = "application") = (old.of = NoSession)
  BY <1>1 DEF IInv, Queries, Read
<1>4. FreshRead(old)
  BY <1>1 DEF IInv, Fresh
<1>5. Len(ReadOrder(old.kind, old.of)) \in {2, 4}
  BY <1>3, GatheredInOrder DEF Kinds
<1>6. /\ old.groups \in 0 .. Len(ReadOrder(old.kind, old.of))
      /\ old.groups + 1 \in 0 .. Len(ReadOrder(old.kind, old.of))
      /\ DOMAIN old.got = Gathered(old.kind, old.of, old.groups)
  BY <1>1, <1>4, <1>5 DEF FreshRead
<1>7. /\ DOMAIN got = Gathered(old.kind, old.of, old.groups + 1)
      /\ DOMAIN got \subseteq Parts
  <2>1. Gathered(old.kind, old.of, old.groups + 1) = DOMAIN old.got \cup group
    BY <1>1, <1>3, <1>6, GatheredParts
  <2>2. Gathered(old.kind, old.of, old.groups + 1) \subseteq Parts
    BY <1>3, <1>6, GatheredParts
  <2>3. DOMAIN got = DOMAIN old.got \cup group
    OBVIOUS
  <2> QED
    BY <2>1, <2>2, <2>3
<1>8. \A p \in DOMAIN got :
        got[p] = store[p] \/ (p \in DOMAIN old.got /\ got[p] = old.got[p])
  <2> HIDE DEF group
  <2> QED
    OBVIOUS
<1>9. got \in Gatherings
  <2>1. \A p \in DOMAIN got : got[p] \in 0 .. MaxChanges
    BY <1>3, <1>7, <1>8 DEF IInv, Facts, Read, Gatherings
  <2>2. got \in [DOMAIN got -> 0 .. MaxChanges]
    BY <2>1
  <2> QED
    BY <1>7, <2>2 DEF Gatherings
<1>10. \A p \in DOMAIN got : got[p] <= store[p] /\ told[p] <= store[p] /\ store[p] <= store[p]
  BY <1>4, <1>7, <1>8, ObservationAssumption DEF IInv, Facts, FreshRead
<1>11. Overtaken(old) \/ \A p \in DOMAIN got : told[p] <= got[p]
  BY <1>4, <1>8, <1>10 DEF FreshRead
<1>12. old.of # NoSession /\ Body(old.of) \in DOMAIN got => got[Body(old.of)] = store[Body(old.of)]
  BY <1>4, <1>8 DEF FreshRead
<1> HIDE DEF got, group
<1>13. /\ rd \in Read /\ rd.stage = "reading" /\ rd.kind = old.kind /\ rd.of = old.of
       /\ rd.groups = old.groups + 1 /\ rd.got = got /\ rd.initial = old.initial
       /\ rd.tries = old.tries
  <2>1. old.groups + 1 \in Nat
    BY <1>5, <1>6
  <2> QED
    BY <1>1, <1>3, <1>9, <2>1 DEF Read
<1> HIDE DEF rd
<1>14. \A q \in Readers : reads'[q] = IF q = r THEN rd ELSE reads[q]
  BY <1>2 DEF IInv, Queries
<1>15. FreshRead(rd)
  BY <1>4, <1>6, <1>7, <1>10, <1>11, <1>12, <1>13 DEF FreshRead, Overtaken
<1>16. Fresh'
  <2>1. FreshRead(reads[r])'
    BY <1>1, <1>14, <1>15 DEF FreshRead, Overtaken, watermarks
  <2> QED
    BY <1>1, <1>2, <2>1, OthersStayFresh DEF watermarks
<1>17. Queries' /\ Gates'
  BY <1>1, <1>2, <1>3, <1>13, <1>14 DEF IInv, Queries, Gates
<1>18. Viewers' = Viewers /\ \A q \in Readers : reads'[q].of = reads[q].of
  BY <1>1, <1>13, <1>14 DEF Viewers, Views
<1>19. Watched'
  <2>1. \A x \in Sessions :
          (\E q \in Viewers' : reads'[q].of = x) <=> (\E q \in Viewers : reads[q].of = x)
    BY <1>18 DEF Viewers
  <2> QED
    BY <1>1, <1>18, <2>1 DEF IInv, Watched, watermarks
<1> QED
  BY <1>1, <1>16, <1>17, <1>19 DEF IInv, Numbers, Facts, watermarks

\* A query that ends gives back its gate with the scopes it watched.
LEMMA EndStep ==
    ASSUME IInv, NEW r \in Readers, reads[r].stage # "idle", Release(reads[r]),
           reads' = [reads EXCEPT ![r] = Idle], gate' = gate \ {reads[r].of},
           NEW answer \in Replies, reply' = [reply EXCEPT ![r] = answer],
           UNCHANGED <<sequence, application, configuration, mcp, store, told>>
    PROVE  IInv'
<1>1. Numbers' /\ Facts' /\ Watched' /\ Fresh'
  BY IdleTyped, ReleaseStep DEF Idle
<1>2. \A q \in Readers : reads'[q] = IF q = r THEN Idle ELSE reads[q]
  BY DEF IInv, Queries
<1>3. Queries'
  BY <1>2, IdleTyped DEF IInv, Queries, Idle
<1>4. Gates'
  <2>1. gate' \subseteq Sessions
    BY DEF IInv, Gates
  <2>2. \A q \in Readers : reads'[q].stage # "idle" => q # r /\ reads'[q] = reads[q]
    BY <1>2 DEF Idle
  <2> QED
    BY <2>1, <2>2 DEF IInv, Gates
<1> QED
  BY <1>1, <1>3, <1>4 DEF IInv

\* What a collected query answers.
LEMMA ValueTyped ==
    ASSUME IInv, NEW r \in Readers, Collected(reads[r])
    PROVE  Value(reads[r]) \in Gatherings
<1> DEFINE rd == reads[r]
           extra == IF rd.kind = "view" THEN {Live(rd.of)} ELSE {}
<1>1. rd \in Read /\ rd.got \in Gatherings
      /\ (rd.kind = "application") = (rd.of = NoSession) /\ rd.of \in Sessions \cup {NoSession}
  BY DEF Collected, IInv, Queries, Read
<1>2. extra \subseteq Parts /\ DOMAIN rd.got \subseteq Parts
      /\ \A p \in DOMAIN rd.got : rd.got[p] \in 0 .. MaxChanges
  BY <1>1 DEF Parts, Gatherings
<1>3. \A p \in Parts : store[p] \in 0 .. MaxChanges
  BY DEF IInv, Facts
<1>4. Value(rd) \in [DOMAIN rd.got \cup extra -> 0 .. MaxChanges]
  BY <1>2, <1>3 DEF Value
<1>5. (DOMAIN rd.got \cup extra) \in SUBSET Parts
  BY <1>2
<1> HIDE DEF extra
<1> QED
  BY <1>4, <1>5 DEF Gatherings

LEMMA CaptureStep ==
    ASSUME IInv, NEW r \in Readers, Capture(r)
    PROVE  IInv'
<1> DEFINE answer == [kind |-> "snapshot", sequence |-> sequence, value |-> Value(reads[r])]
<1>1. answer \in Replies
  BY ValueTyped DEF Capture, Replies, IInv, Numbers
<1>2. reply' = [reply EXCEPT ![r] = answer]
  BY DEF Capture
<1> HIDE DEF answer
<1> QED
  BY <1>1, <1>2, EndStep DEF Capture, Collected

LEMMA SnapshotBusyStep ==
    ASSUME IInv, NEW r \in Readers, SnapshotBusy(r)
    PROVE  IInv'
<1>1. Busy \in Replies
  BY DEF Replies
<1>2. /\ reads[r].stage = "discarded" /\ reads' = [reads EXCEPT ![r] = Idle]
      /\ reply' = [reply EXCEPT ![r] = Busy] /\ gate' = gate \ {reads[r].of}
      /\ UNCHANGED <<watermarks, store, told>>
  BY DEF SnapshotBusy
<1>3. Release(reads[r])
  BY <1>2 DEF Release, watermarks
<1> QED
  BY <1>1, <1>2, <1>3, EndStep DEF watermarks

LEMMA HangUpStep ==
    ASSUME IInv, NEW r \in Readers, HangUp(r)
    PROVE  IInv'
<1>1. reply[r] \in Replies /\ reply' = [reply EXCEPT ![r] = reply[r]]
  BY DEF HangUp, IInv, Queries
<1> QED
  BY <1>1, EndStep DEF HangUp

\* A read that was overtaken is thrown away, and the attempt counted.
LEMMA CaptureNoneStep ==
    ASSUME IInv, NEW r \in Readers, CaptureNone(r)
    PROVE  IInv'
<1> DEFINE old == reads[r]
           rd == [old EXCEPT !.stage = "discarded", !.tries = @ + 1]
<1>1. /\ old.stage = "reading" /\ Release(old) /\ reads' = [reads EXCEPT ![r] = rd]
      /\ UNCHANGED <<sequence, application, configuration, mcp, store, told, gate, reply>>
  BY DEF CaptureNone, Collected
<1>2. old \in Read /\ old.tries < Attempts
  BY <1>1 DEF IInv, Queries
<1>3. old.tries + 1 \in 0 .. Attempts
  BY <1>2, ObservationAssumption DEF Read
<1>4. rd \in Read /\ rd.stage = "discarded" /\ rd.kind = old.kind /\ rd.of = old.of
  BY <1>2, <1>3 DEF Read, Stages
<1> HIDE DEF rd
<1>5. \A q \in Readers : reads'[q] = IF q = r THEN rd ELSE reads[q]
  BY <1>1 DEF IInv, Queries
<1>6. Numbers' /\ Facts' /\ Watched' /\ Fresh'
  BY <1>1, <1>4, ReleaseStep
<1>7. Queries' /\ Gates'
  BY <1>1, <1>4, <1>5 DEF IInv, Queries, Gates
<1> QED
  BY <1>6, <1>7 DEF IInv

\* ... and begins once more, unless there have been enough.
LEMMA AgainStep ==
    ASSUME IInv, NEW r \in Readers, Again(r)
    PROVE  IInv'
<1> DEFINE old == reads[r]
           rd == [old EXCEPT !.stage = "begin"]
<1>1. /\ old.stage = "discarded" /\ old.tries < Attempts /\ reads' = [reads EXCEPT ![r] = rd]
      /\ UNCHANGED <<watermarks, store, told, gate, reply>>
  BY DEF Again
<1>2. /\ rd \in Read /\ rd.stage = "begin" /\ rd.kind = old.kind /\ rd.of = old.of
      /\ rd.tries = old.tries
  BY DEF IInv, Queries, Read, Stages
<1> HIDE DEF rd
<1>3. \A q \in Readers : reads'[q] = IF q = r THEN rd ELSE reads[q]
  BY <1>1 DEF IInv, Queries
<1>4. Release(old)
  BY <1>1 DEF Release, watermarks
<1>5. Numbers' /\ Facts' /\ Watched' /\ Fresh'
  BY <1>1, <1>2, <1>4, ReleaseStep DEF watermarks
<1>6. Queries' /\ Gates'
  BY <1>1, <1>2, <1>3 DEF IInv, Queries, Gates
<1> QED
  BY <1>5, <1>6 DEF IInv

-----------------------------------------------------------------------------
LEMMA InitIInv == Init => IInv
<1> SUFFICES ASSUME Init PROVE IInv
  OBVIOUS
<1>1. Numbers
  BY ObservationAssumption DEF Init, Numbers, Absent, Watch
<1>2. Facts
  BY ObservationAssumption DEF Init, Facts
<1>3. Queries
  BY IdleTyped DEF Init, Queries, Idle, Replies
<1>4. Gates /\ Fresh
  BY DEF Init, Gates, Fresh, Idle
<1>5. Watched
  <2>1. Viewers = {}
    BY DEF Init, Viewers, Views, Idle
  <2> QED
    BY <2>1, FS_EmptySet DEF Init, Watched, Absent
<1> QED
  BY <1>1, <1>2, <1>3, <1>4, <1>5 DEF IInv

LEMMA NextIInv == IInv /\ [Next]_vars => IInv'
<1> SUFFICES ASSUME IInv, [Next]_vars PROVE IInv'
  OBVIOUS
<1>1. ASSUME NEW e \in Atomic, PublishTransition(e) PROVE IInv'
  BY <1>1, PublishStep
<1>2. ASSUME NEW s \in Sessions, CommitBody(s) \/ SendCommitted(s) PROVE IInv'
  BY <1>2, CommitBodyStep, SendCommittedStep
<1>3. CASE SendOther
  BY <1>3, SendOtherStep
<1>4. ASSUME NEW r \in Readers, NEW kind \in Kinds, NEW s \in Sessions \cup {NoSession},
             Ask(r, kind, s)
      PROVE  IInv'
  BY <1>4, AskStep
<1>5. ASSUME NEW r \in Readers, Continue(r) PROVE IInv'
  BY <1>5, BeginReadStep, ReadGroupStep, CaptureStep, CaptureNoneStep, AgainStep,
     SnapshotBusyStep DEF Continue
<1>6. ASSUME NEW r \in Readers, HangUp(r) PROVE IInv'
  BY <1>6, HangUpStep
<1>7. CASE UNCHANGED vars
  <2>1. UNCHANGED <<watermarks, store, told, reads, gate, reply>>
    BY <1>7 DEF vars
  <2>2. Numbers' /\ Facts' /\ Queries' /\ Gates' /\ Watched'
    BY <2>1 DEF IInv, Numbers, Facts, Queries, Gates, Watched, Viewers, Views, watermarks
  <2>3. Fresh'
    BY <2>1 DEF IInv, Fresh, FreshRead, Overtaken, watermarks
  <2> QED
    BY <2>2, <2>3 DEF IInv
<1> QED
  BY <1>1, <1>2, <1>3, <1>4, <1>5, <1>6, <1>7 DEF Next

\* Whatever order events, changes and queries come in, a query whose watermarks have not
\* moved has missed nothing that was announced.
THEOREM IInvInvariant == Spec => []IInv
<1> QED
  BY InitIInv, NextIInv, PTL DEF Spec

-----------------------------------------------------------------------------
\* A query that may capture has not been overtaken.
LEMMA UnchangedIsFresh ==
    ASSUME IInv, NEW r \in Readers, Collected(reads[r]), Unchanged(reads[r])
    PROVE  ~Overtaken(reads[r])
<1>1. reads[r].initial = Stamp(reads[r].kind, SessionOf(reads[r]), workspace)
  BY DEF Unchanged
<1>2. /\ application \in Nat /\ configuration \in Nat /\ mcp \in Nat /\ workspace.sequence \in Nat
  BY DEF IInv, Numbers, Watch
<1> QED
  BY <1>1, <1>2 DEF Overtaken, Stamp

\* An answer is one that the promise allows.
LEMMA CaptureAnswers ==
    ASSUME IInv, NEW r \in Readers, Capture(r)
    PROVE  Promise!Answer(r)
<1> DEFINE rd == reads[r]
           v == Value(rd)
           scope == DOMAIN rd.got \cup (IF rd.kind = "view" THEN {Live(rd.of)} ELSE {})
           Scopes == {{Configuration, Workspace, Mcp} \cup {Body(s) : s \in Sessions}}
                       \cup {{Configuration, Workspace, Mcp, Body(s), Live(s)} : s \in Sessions}
                       \cup {{Body(s), Mcp} : s \in Sessions}
<1>1. /\ rd.stage = "reading" /\ rd.groups = Len(ReadOrder(rd.kind, rd.of))
      /\ Unchanged(rd) /\ Collected(rd)
      /\ reply' = [reply EXCEPT ![r] = [kind |-> "snapshot", sequence |-> sequence, value |-> v]]
      /\ UNCHANGED <<sequence, store, told>>
  BY DEF Capture, Collected
<1>2. /\ rd \in Read /\ rd.kind \in {"application", "view", "history"}
      /\ rd.of \in Sessions \cup {NoSession}
      /\ (rd.kind = "application") = (rd.of = NoSession) /\ reply[r] = NoReply
      /\ reply \in [Readers -> Replies] /\ rd.got \in Gatherings
  BY <1>1 DEF IInv, Queries, Read, Kinds
<1>3. FreshRead(rd) /\ ~Overtaken(rd)
  BY <1>1, UnchangedIsFresh DEF IInv, Fresh
<1>4. DOMAIN rd.got = Gathered(rd.kind, rd.of, Len(ReadOrder(rd.kind, rd.of)))
  BY <1>1, <1>3 DEF FreshRead
<1>5. scope \in Scopes
  <2>1. CASE rd.kind = "application"
    <3>1. scope = {Configuration, Workspace, Mcp} \cup {Body(s) : s \in Sessions}
      BY <1>4, <2>1, GatheredInOrder
    <3> QED
      BY <3>1
  <2>2. CASE rd.kind = "view"
    <3>1. rd.of \in Sessions
      BY <1>2, <2>2
    <3>2. scope = {Configuration, Workspace, Mcp, Body(rd.of), Live(rd.of)}
      <4>1. DOMAIN rd.got = {Configuration, Workspace, Body(rd.of), Mcp}
        BY <1>4, <2>2, GatheredInOrder
      <4>2. scope = DOMAIN rd.got \cup {Live(rd.of)}
        BY <2>2
      <4> QED
        BY <4>1, <4>2
    <3> QED
      BY <3>1, <3>2
  <2>3. CASE rd.kind = "history"
    <3>1. rd.of \in Sessions
      BY <1>2, <2>3
    <3>2. scope = {Body(rd.of), Mcp}
      BY <1>4, <2>3, GatheredInOrder
    <3> QED
      BY <3>1, <3>2
  <2> QED
    BY <1>2, <2>1, <2>2, <2>3
<1>6. v = [p \in scope |-> IF p \in DOMAIN rd.got THEN rd.got[p] ELSE store[p]]
  BY DEF Value
<1>7. scope \subseteq Parts
  BY <1>2 DEF Gatherings, Parts
<1> HIDE DEF scope
<1>8. \A p \in scope : v[p] \in 0 .. MaxChanges /\ told[p] <= v[p] /\ v[p] <= store[p]
  <2> SUFFICES ASSUME NEW p \in scope
               PROVE  v[p] \in 0 .. MaxChanges /\ told[p] <= v[p] /\ v[p] <= store[p]
    OBVIOUS
  <2>1. store[p] \in 0 .. MaxChanges /\ told[p] <= store[p] /\ store[p] <= store[p]
    BY <1>7, ObservationAssumption DEF IInv, Facts
  <2>2. CASE p \in DOMAIN rd.got
    BY <1>2, <1>3, <1>6, <2>2 DEF FreshRead, Gatherings
  <2>3. CASE p \notin DOMAIN rd.got
    BY <1>6, <2>1, <2>3
  <2> QED
    BY <2>2, <2>3
<1> HIDE DEF v
<1>9. v \in [scope -> 0 .. MaxChanges]
  BY <1>6, <1>8
<1>10. v \in Promise!Current(scope)
  BY <1>8, <1>9 DEF Promise!Current
<1>11. reply' = [reply EXCEPT ![r] = Promise!Answered(sequence, v)]
  BY <1>1 DEF Promise!Answered
<1>12. reply'[r] # reply[r]
  <2>1. reply'[r].kind = "snapshot"
    BY <1>1, <1>2
  <2>2. reply[r].kind = "none"
    BY <1>2 DEF NoReply
  <2> QED
    BY <2>1, <2>2
<1>13. \E sc \in Scopes : \E w \in Promise!Current(sc) :
         reply' = [reply EXCEPT ![r] = Promise!Answered(sequence, w)]
  BY <1>5, <1>10, <1>11
<1> QED
  BY <1>1, <1>12, <1>13 DEF Promise!Answer

LEMMA InitPromises == Init => Promise!SnapshotsInit
BY DEF Init, Promise!SnapshotsInit, NoReply, Promise!NoReply

Kept == [Promise!SnapshotsNext]_Promise!snapshotVars

\* Every step keeps the promise or is not seen by anybody.
LEMMA NextPromises == IInv /\ [Next]_vars => Kept
<1> SUFFICES ASSUME IInv, [Next]_vars PROVE Kept
  OBVIOUS
<1> DEFINE Seen == <<sequence, store, told, reply>>
<1>1. ASSUME NEW e \in Atomic, PublishTransition(e) PROVE Kept
  <2>1. e.about \in Parts
    BY DEF Atomic, ConfigChanged, McpRegistryChanged, WorkspaceChanged, StepStarted, TextDelta,
       Event, Parts
  <2>2. Promise!ChangeAndAnnounce(e.about)
    BY <1>1 DEF PublishTransition, Observe, Promise!ChangeAndAnnounce
  <2> QED
    BY <2>1, <2>2 DEF Kept, Promise!SnapshotsNext
<1>2. ASSUME NEW s \in Sessions, CommitBody(s) PROVE Kept
  <2>1. Body(s) \in Parts /\ Promise!Change(Body(s))
    BY <1>2 DEF CommitBody, Promise!Change, Parts, watermarks
  <2> QED
    BY <2>1 DEF Kept, Promise!SnapshotsNext
<1>3. ASSUME NEW s \in Sessions, SendCommitted(s) PROVE Kept
  <2>1. Body(s) \in Parts /\ Promise!Announce(Body(s))
    BY <1>3 DEF SendCommitted, Observe, Promise!Announce, Parts
  <2> QED
    BY <2>1 DEF Kept, Promise!SnapshotsNext
<1>4. CASE SendOther
  <2>1. Promise!AnnounceOther
    BY <1>4 DEF SendOther, Observe, Promise!AnnounceOther
  <2> QED
    BY <2>1 DEF Kept, Promise!SnapshotsNext
<1>5. ASSUME NEW r \in Readers, Capture(r) PROVE Kept
  <2>1. Promise!Answer(r)
    BY <1>5, CaptureAnswers
  <2> QED
    BY <2>1 DEF Kept, Promise!SnapshotsNext
<1>6. ASSUME NEW r \in Readers, SnapshotBusy(r) PROVE Kept
  <2>1. Promise!Refuse(r)
    BY <1>6 DEF SnapshotBusy, Promise!Refuse, Busy, Promise!Busy, watermarks
  <2> QED
    BY <2>1 DEF Kept, Promise!SnapshotsNext
<1>7. ASSUME NEW r \in Readers, NEW kind \in Kinds, NEW s \in Sessions \cup {NoSession},
             Ask(r, kind, s)
      PROVE  Kept
  BY <1>7 DEF Ask, watermarks, Promise!snapshotVars, Kept
<1>8. ASSUME NEW r \in Readers,
             BeginRead(r) \/ ReadGroup(r) \/ CaptureNone(r) \/ Again(r) \/ HangUp(r)
      PROVE  Kept
  <2>1. UNCHANGED Seen
    BY <1>8 DEF BeginRead, ReadGroup, CaptureNone, Again, HangUp, watermarks
  <2> QED
    BY <2>1 DEF Promise!snapshotVars, Kept
<1>9. CASE UNCHANGED vars
  BY <1>9 DEF vars, watermarks, Promise!snapshotVars, Kept
<1>10. ASSUME NEW r \in Readers, Continue(r) \/ HangUp(r) PROVE Kept
  BY <1>5, <1>6, <1>8, <1>10 DEF Continue
<1> QED
  BY <1>1, <1>2, <1>3, <1>4, <1>7, <1>9, <1>10 DEF Next

\* The runtime's answers are those of a snapshot: collected in pieces while everything
\* changes, they miss nothing that was announced up to the number they carry.
THEOREM SnapshotsKept == Spec => ImplementsSnapshots
<1>1. Spec => []IInv
  BY IInvInvariant
<1> QED
  BY <1>1, InitPromises, NextPromises, PTL DEF Spec, Kept, ImplementsSnapshots,
     Promise!SnapshotsSpec

-----------------------------------------------------------------------------
LEMMA IInvTypes == IInv => TypeOK
<1> SUFFICES ASSUME IInv PROVE TypeOK
  OBVIOUS
<1>1. /\ sequence \in 0 .. MaxSequence
      /\ {application, configuration, mcp} \subseteq 0 .. sequence
  BY ObservationAssumption DEF IInv, Numbers
<1>2. ASSUME NEW watch \in Watch, watch.readers <= Cardinality(Readers),
             watch.sequence <= sequence, watch.durable_sequence <= sequence
      PROVE  watch \in Watches
  <2>1. Cardinality(Readers) \in Nat /\ MaxSequence \in Nat /\ sequence \in 0 .. MaxSequence
    BY <1>1, FS_CardinalityType, ObservationAssumption
  <2>2. /\ watch.readers \in 0 .. Cardinality(Readers) /\ watch.sequence \in 0 .. MaxSequence
        /\ watch.durable_sequence \in 0 .. MaxSequence
    BY <1>2, <2>1 DEF Watch
  <2> QED
    BY <2>2 DEF Watch, Watches
<1>3. workspace.readers <= Cardinality(Readers)
  <2>1. Viewers \subseteq Readers
    BY DEF Viewers
  <2> QED
    BY <2>1, FS_Subset, ObservationAssumption DEF IInv, Watched
<1>4. \A s \in Sessions : sessions[s].readers <= Cardinality(Readers)
  <2> SUFFICES ASSUME NEW s \in Sessions PROVE sessions[s].readers <= Cardinality(Readers)
    OBVIOUS
  <2>1. Cardinality(Readers) \in Nat /\ (Cardinality(Readers) = 0 => Readers = {})
    BY FS_CardinalityType, FS_EmptySet, ObservationAssumption
  <2>2. sessions[s].readers = 1 => Readers # {}
    BY DEF IInv, Watched, Viewers
  <2>3. sessions[s].readers \in {0, 1}
    BY DEF IInv, Watched
  <2> QED
    BY <2>1, <2>2, <2>3
<1>5. sessions \in [Sessions -> Watches] /\ workspace \in Watches
  BY <1>2, <1>3, <1>4 DEF IInv, Numbers
<1>6. \A p \in Parts : told[p] <= store[p] /\ store[p] <= MaxChanges
  BY ObservationAssumption DEF IInv, Facts
<1>7. \A r \in Readers :
        /\ reads[r].stage \in {"idle", "begin", "reading", "discarded"}
        /\ reads[r].kind \in Kinds /\ reads[r].tries <= Attempts
        /\ reply[r].kind \in {"none", "busy", "snapshot"}
  <2> SUFFICES ASSUME NEW r \in Readers
               PROVE  /\ reads[r].stage \in {"idle", "begin", "reading", "discarded"}
                      /\ reads[r].kind \in Kinds /\ reads[r].tries <= Attempts
                      /\ reply[r].kind \in {"none", "busy", "snapshot"}
    OBVIOUS
  <2>1. reads[r] \in Read /\ reply[r] \in Replies
    BY DEF IInv, Queries
  <2>2. reply[r].kind \in {"none", "busy", "snapshot"}
    BY <2>1 DEF Replies, NoReply, Busy
  <2> QED
    BY <2>1, <2>2, ObservationAssumption DEF Read, Stages
<1> QED
  BY <1>1, <1>5, <1>6, <1>7 DEF TypeOK, IInv, Gates

\* Entries and gates have the holders that they count.
LEMMA IInvGivesBack == IInv => EntriesAreGivenBack
<1> SUFFICES ASSUME IInv PROVE EntriesAreGivenBack
  OBVIOUS
<1>1. ASSUME NEW s \in Sessions PROVE sessions[s].readers = Cardinality(HeldBy(s))
  <2>1. HeldBy(s) = {r \in Viewers : reads[r].of = s}
    BY DEF HeldBy, Viewers, Views
  <2>2. CASE \E r \in Viewers : reads[r].of = s
    <3>1. PICK r \in Viewers : reads[r].of = s
      BY <2>2
    <3>2. HeldBy(s) = {r}
      BY <2>1, <3>1, ObservationAssumption DEF IInv, Gates, Viewers, Views
    <3>3. sessions[s].readers = 1
      BY <2>2 DEF IInv, Watched
    <3> QED
      BY <3>2, <3>3, FS_Singleton
  <2>3. CASE ~ \E r \in Viewers : reads[r].of = s
    <3>1. HeldBy(s) = {} /\ sessions[s].readers = 0
      BY <2>1, <2>3 DEF IInv, Watched
    <3> QED
      BY <3>1, FS_EmptySet
  <2> QED
    BY <2>2, <2>3
<1>2. workspace.readers = Cardinality(UNION {HeldBy(s) : s \in Sessions})
  <2>1. ASSUME NEW r \in Viewers PROVE reads[r].of \in Sessions
    BY DEF IInv, Queries, Read, Viewers, Views
  <2>2. UNION {HeldBy(s) : s \in Sessions} = Viewers
    BY <2>1 DEF HeldBy, Viewers, Views
  <2> QED
    BY <2>2 DEF IInv, Watched
<1>3. ASSUME NEW s \in Sessions
      PROVE  Cardinality({r \in Readers : reads[r].stage # "idle" /\ reads[r].of = s})
               = IF s \in gate THEN 1 ELSE 0
  <2> DEFINE Holders == {r \in Readers : reads[r].stage # "idle" /\ reads[r].of = s}
  <2>1. CASE s \in gate
    <3>1. PICK r \in Readers : reads[r].stage # "idle" /\ reads[r].of = s
      BY <2>1 DEF IInv, Gates
    <3>2. Holders = {r}
      BY <3>1, ObservationAssumption DEF IInv, Gates
    <3> QED
      BY <2>1, <3>2, FS_Singleton
  <2>2. CASE s \notin gate
    <3>1. Holders = {}
      BY <2>2, ObservationAssumption DEF IInv, Gates
    <3> QED
      BY <2>2, <3>1, FS_EmptySet
  <2> QED
    BY <2>1, <2>2
<1> QED
  BY <1>1, <1>2, <1>3, IInvTypes DEF EntriesAreGivenBack

\* Queries give back what they hold however they end: answered, refused or dropped where
\* they wait.
THEOREM EntriesGivenBack == Spec => []EntriesAreGivenBack
<1>1. Spec => []IInv
  BY IInvInvariant
<1> QED
  BY <1>1, IInvGivesBack, PTL

-----------------------------------------------------------------------------
\* What a query of a session depends on moves only with an event that concerns it.
Undisturbed(rd) ==
    rd.kind # "application" /\ ~rd.mine =>
      Stamp(rd.kind, SessionOf(rd), workspace) = rd.initial
NoneDisturbed == \A r \in Readers : reads[r].stage = "reading" => Undisturbed(reads[r])

Events == Atomic \cup {ConversationCommitted(s) : s \in Sessions} \cup {PermissionChanged}

\* An event that does not concern a query has no scope in common with it.
LEMMA EventsApart ==
    ASSUME NEW rd \in Read, rd.stage = "reading", rd.kind # "application", rd.of \in Sessions,
           NEW e \in Events, ~Concerns(rd, e)
    PROVE  /\ "mcp" \notin e.scope
           /\ rd.kind = "view" => /\ "configuration" \notin e.scope /\ "workspace" \notin e.scope
                                  /\ "durable" \in e.scope => e.about[2] # rd.of
<1>1. /\ e.about \notin Gathered(rd.kind, rd.of, Len(ReadOrder(rd.kind, rd.of)))
      /\ rd.kind = "view" => e # StepStarted(rd.of)
  BY DEF Concerns, Gathered
<1>2. rd.kind \in {"view", "history"}
  BY DEF Read, Kinds
<1>3. /\ e.about \notin {Body(rd.of), Mcp}
      /\ rd.kind = "view" => e.about \notin {Configuration, Workspace}
  <2>1. CASE rd.kind = "view"
    <3>1. e.about \notin {Configuration, Workspace, Body(rd.of), Mcp}
      <4>1. e.about \notin Gathered("view", rd.of, Len(ReadOrder("view", rd.of)))
        BY <1>1, <2>1
      <4>2. /\ Len(ReadOrder("view", rd.of)) = 4
            /\ Gathered("view", rd.of, 4) = {Configuration, Workspace, Body(rd.of), Mcp}
        BY GatheredInOrder
      <4> QED
        BY <4>1, <4>2
    <3> QED
      BY <3>1
  <2>2. CASE rd.kind = "history"
    <3>1. e.about \notin {Body(rd.of), Mcp}
      <4>1. e.about \notin Gathered("history", rd.of, Len(ReadOrder("history", rd.of)))
        BY <1>1, <2>2
      <4>2. /\ Len(ReadOrder("history", rd.of)) = 2
            /\ Gathered("history", rd.of, 2) = {Body(rd.of), Mcp}
        BY GatheredInOrder
      <4> QED
        BY <4>1, <4>2
    <3> QED
      BY <2>2, <3>1
  <2> QED
    BY <1>2, <2>1, <2>2
<1>4. e # McpRegistryChanged /\ e # ConversationCommitted(rd.of)
      /\ (rd.kind = "view" => e # ConfigChanged /\ e # WorkspaceChanged)
  BY <1>3 DEF McpRegistryChanged, ConversationCommitted, ConfigChanged, WorkspaceChanged, Event
<1>5. CASE e \in {ConfigChanged, WorkspaceChanged, PermissionChanged}
  BY <1>2, <1>4, <1>5 DEF ConfigChanged, WorkspaceChanged, PermissionChanged, Event
<1>6. ASSUME NEW s \in Sessions, e \in {StepStarted(s), ConversationCommitted(s)}, s # rd.of
      PROVE  /\ e.about[2] = s /\ "mcp" \notin e.scope /\ "configuration" \notin e.scope
             /\ "workspace" \notin e.scope
  BY <1>6 DEF StepStarted, ConversationCommitted, Event, Live, Body, Part
<1>7. ASSUME NEW s \in Sessions, e = TextDelta(s)
      PROVE  e.scope = {"session"}
  BY <1>7 DEF TextDelta, Event
<1>8. ASSUME e = StepStarted(rd.of)
      PROVE  rd.kind # "view" /\ "mcp" \notin e.scope
  BY <1>1, <1>8 DEF StepStarted, Event
<1> QED
  BY <1>4, <1>5, <1>6, <1>7, <1>8 DEF Events, Atomic

LEMMA ObserveUndisturbed ==
    ASSUME IInv, NoneDisturbed, NEW e \in Events, Observe(e)
    PROVE  NoneDisturbed'
<1> SUFFICES ASSUME NEW r \in Readers, reads'[r].stage = "reading",
                    reads'[r].kind # "application", ~reads'[r].mine
             PROVE  Stamp(reads[r].kind, SessionOf(reads[r]), workspace)' = reads'[r].initial
  BY DEF NoneDisturbed, Undisturbed
<1> DEFINE rd == reads[r]
<1>1. SameRead(r) /\ rd \in Read
  BY ObserveReads DEF IInv, Queries
<1>2. ~rd.mine /\ ~Concerns(rd, e)
  <2> DEFINE b == Concerns(rd, e)
  <2>1. reads'[r] = [rd EXCEPT !.mine = @ \/ b]
    BY DEF Observe
  <2>2. b \in BOOLEAN
    BY DEF Concerns
  <2> HIDE DEF b
  <2>3. reads'[r].mine = (rd.mine \/ b)
    BY <1>1, <2>1 DEF Read
  <2>4. ~rd.mine /\ ~b
    BY <1>1, <2>2, <2>3 DEF Read
  <2> QED
    BY <2>4 DEF b
<1>3. /\ rd.stage = "reading" /\ rd.kind # "application" /\ rd.of \in Sessions
      /\ rd.kind \in {"view", "history"} /\ rd.of # NoSession
  BY <1>1, ObservationAssumption DEF SameRead, IInv, Queries, Read, Kinds
<1>4. Stamp(rd.kind, sessions[rd.of], workspace) = rd.initial
  BY <1>2, <1>3 DEF NoneDisturbed, Undisturbed, SessionOf
<1>5. /\ "mcp" \notin e.scope
      /\ rd.kind = "view" => /\ "configuration" \notin e.scope /\ "workspace" \notin e.scope
                             /\ "durable" \in e.scope => e.about[2] # rd.of
  BY <1>1, <1>2, <1>3, EventsApart
<1>6. /\ mcp' = mcp
      /\ rd.kind = "view" => configuration' = configuration /\ workspace' = workspace
  BY <1>5 DEF Observe
<1>7. rd.kind = "view" => sessions'[rd.of].durable_sequence = sessions[rd.of].durable_sequence
  <2>1. sessions'[rd.of] = sessions[rd.of] \/
          (e.about[2] = rd.of /\ sessions'[rd.of] = Advanced(sessions[rd.of], sequence + 1, e))
    BY <1>3 DEF Observe
  <2>2. sessions[rd.of] \in Watch
    BY <1>3 DEF IInv, Numbers
  <2>3. "durable" \notin e.scope =>
          Advanced(sessions[rd.of], sequence + 1, e).durable_sequence = sessions[rd.of].durable_sequence
    BY <2>2 DEF Advanced, Watch
  <2> QED
    BY <1>5, <2>1, <2>3
<1>8. /\ reads'[r].kind = rd.kind /\ reads'[r].of = rd.of /\ reads'[r].initial = rd.initial
  BY <1>1 DEF SameRead
<1> QED
  BY <1>3, <1>4, <1>6, <1>7, <1>8 DEF Stamp, SessionOf

\* Queries do not disturb each other.
LEMMA OthersUndisturbed ==
    ASSUME IInv, NoneDisturbed, NEW r \in Readers, NEW rd, reads' = [reads EXCEPT ![r] = rd],
           UNCHANGED <<configuration, mcp>>,
           \A q \in Viewers \ {r} : /\ workspace'.sequence = workspace.sequence
                                    /\ sessions'[reads[q].of] = sessions[reads[q].of],
           rd.stage = "reading" => Undisturbed(reads[r])'
    PROVE  NoneDisturbed'
<1> SUFFICES ASSUME NEW q \in Readers \ {r}, reads[q].stage = "reading"
             PROVE  Undisturbed(reads[q])'
  BY DEF NoneDisturbed, IInv, Queries
<1>1. reads'[q] = reads[q] /\ Undisturbed(reads[q]) /\ reads[q].kind \in {"application", "view", "history"}
  BY DEF IInv, Queries, NoneDisturbed, Read, Kinds
<1>2. reads[q].kind = "view" => /\ workspace'.sequence = workspace.sequence
                                /\ sessions'[reads[q].of] = sessions[reads[q].of]
  BY DEF Viewers, Views
<1> QED
  BY <1>1, <1>2 DEF Undisturbed, Stamp, SessionOf

\* What a query lets go of others keep watching.
LEMMA ReleaseUndisturbed ==
    ASSUME IInv, NoneDisturbed, NEW r \in Readers, reads[r].stage # "idle", Release(reads[r]),
           NEW rd, reads' = [reads EXCEPT ![r] = rd], rd.stage # "reading",
           UNCHANGED <<configuration, mcp>>
    PROVE  NoneDisturbed'
<1>1. ASSUME NEW q \in Viewers \ {r}
      PROVE  /\ workspace'.sequence = workspace.sequence
             /\ sessions'[reads[q].of] = sessions[reads[q].of]
  <2>1. CASE r \notin Viewers
    BY <2>1 DEF Release, Viewers, Views
  <2>2. CASE r \in Viewers
    <3>1. /\ sessions' = [sessions EXCEPT ![reads[r].of] = Released(@)]
          /\ workspace' = Released(workspace)
      BY <2>2 DEF Release, Viewers, Views
    <3>2. reads[q].of \in Sessions /\ reads[q].of # reads[r].of
      BY <1>1, <2>2, ObservationAssumption DEF Viewers, Views, IInv, Queries, Gates, Read
    <3>3. workspace.readers # 1
      <4>1. IsFiniteSet(Viewers) /\ workspace.readers = Cardinality(Viewers)
        BY <2>2, ViewersCounted DEF IInv, Watched
      <4>2. Cardinality(Viewers) # 1
        BY <1>1, <2>2, <4>1, FS_Singleton
      <4> QED
        BY <4>1, <4>2
    <3> QED
      BY <3>1, <3>2, <3>3 DEF Released, IInv, Numbers, Watch
  <2> QED
    BY <2>1, <2>2
<1> QED
  BY <1>1, OthersUndisturbed

LEMMA NextUndisturbed == IInv /\ NoneDisturbed /\ [Next]_vars => NoneDisturbed'
<1> SUFFICES ASSUME IInv, NoneDisturbed, [Next]_vars PROVE NoneDisturbed'
  OBVIOUS
<1>1. ASSUME NEW e \in Events, Observe(e) PROVE NoneDisturbed'
  BY <1>1, ObserveUndisturbed
<1>2. ASSUME NEW e \in Atomic, PublishTransition(e) PROVE NoneDisturbed'
  BY <1>1, <1>2 DEF PublishTransition, Events
<1>3. ASSUME NEW s \in Sessions, SendCommitted(s) PROVE NoneDisturbed'
  BY <1>1, <1>3 DEF SendCommitted, Events
<1>4. CASE SendOther
  BY <1>1, <1>4 DEF SendOther, Events
<1>5. ASSUME UNCHANGED <<watermarks, reads>> PROVE NoneDisturbed'
  BY <1>5 DEF NoneDisturbed, Undisturbed, Stamp, SessionOf, watermarks
<1>6. ASSUME NEW s \in Sessions, CommitBody(s) PROVE NoneDisturbed'
  BY <1>5, <1>6 DEF CommitBody
<1>7. ASSUME NEW r \in Readers, NEW rd, reads' = [reads EXCEPT ![r] = rd],
             UNCHANGED watermarks, rd.stage # "reading"
      PROVE  NoneDisturbed'
  BY <1>7, OthersUndisturbed DEF watermarks
<1>8. ASSUME NEW r \in Readers, NEW kind \in Kinds, NEW s \in Sessions \cup {NoSession},
             Ask(r, kind, s)
      PROVE  NoneDisturbed'
  <2> DEFINE rd == [Idle EXCEPT !.stage = "begin", !.kind = kind, !.of = s]
  <2>1. rd.stage # "reading"
    BY DEF Idle
  <2> QED
    BY <1>7, <1>8, <2>1 DEF Ask
<1>9. ASSUME NEW r \in Readers, BeginRead(r) PROVE NoneDisturbed'
  <2> DEFINE old == reads[r]
             view == old.kind = "view"
             session == IF view THEN Registered(sessions[old.of]) ELSE Absent
             space == IF view THEN Registered(workspace) ELSE workspace
             in == Stamp(old.kind, session, space)
             rd == [old EXCEPT !.stage = "reading", !.groups = 0, !.got = Idle.got,
                               !.mine = FALSE, !.initial = in]
  <2>1. /\ old.stage = "begin"
        /\ sessions' = IF view THEN [sessions EXCEPT ![old.of] = session] ELSE sessions
        /\ workspace' = space /\ reads' = [reads EXCEPT ![r] = rd]
        /\ UNCHANGED <<configuration, mcp>>
    BY <1>9 DEF BeginRead
  <2>2. old \in Read /\ (view => old.of \in Sessions) /\ old.kind \in {"application", "view", "history"}
        /\ (old.kind = "application") = (old.of = NoSession)
    BY <2>1 DEF IInv, Queries, Read, Kinds
  <2>3. \A q \in Viewers \ {r} : /\ workspace'.sequence = workspace.sequence
                                 /\ sessions'[reads[q].of] = sessions[reads[q].of]
    <3> SUFFICES ASSUME NEW q \in Viewers \ {r}
                 PROVE  /\ workspace'.sequence = workspace.sequence
                        /\ sessions'[reads[q].of] = sessions[reads[q].of]
      OBVIOUS
    <3>1. workspace.readers # 0
      BY ViewersCounted DEF IInv
    <3>2. reads[q].of \in Sessions /\ reads[q].of # old.of
      BY <2>1, ObservationAssumption DEF Viewers, Views, IInv, Queries, Gates, Read
    <3> QED
      BY <2>1, <3>1, <3>2 DEF Registered, IInv, Numbers, Watch
  <2>4. Stamp(old.kind, SessionOf(old)', workspace') = in
    <3>1. view => SessionOf(old)' = session
      BY <2>1, <2>2, ObservationAssumption DEF SessionOf, IInv, Numbers
    <3> QED
      BY <2>1, <2>2, <3>1 DEF Stamp
  <2> HIDE DEF in
  <2>5. /\ reads'[r] = rd /\ rd.kind = old.kind /\ rd.initial = in /\ rd.stage = "reading"
    BY <2>1, <2>2 DEF IInv, Queries, Read
  <2>6. Undisturbed(reads[r])'
    <3>1. old.kind # "application" =>
            Stamp(old.kind, SessionOf(old)', workspace') = Stamp(old.kind, SessionOf(old), workspace)'
      BY <2>1, <2>2, <2>5 DEF Stamp
    <3> QED
      BY <2>4, <2>5, <3>1 DEF Undisturbed
  <2> HIDE DEF rd
  <2> QED
    BY <2>1, <2>3, <2>6, OthersUndisturbed
<1>10. ASSUME NEW r \in Readers, ReadGroup(r) PROVE NoneDisturbed'
  <2>1. UNCHANGED watermarks /\ \A q \in Readers :
          /\ reads'[q].stage = reads[q].stage /\ reads'[q].kind = reads[q].kind
          /\ reads'[q].of = reads[q].of /\ reads'[q].mine = reads[q].mine
          /\ reads'[q].initial = reads[q].initial
    BY <1>10 DEF ReadGroup, IInv, Queries, Read
  <2> SUFFICES ASSUME NEW q \in Readers, reads[q].stage = "reading",
                      Undisturbed(reads[q])
               PROVE  Undisturbed(reads[q])'
    BY <2>1 DEF NoneDisturbed
  <2>2. reads[q].kind \in {"application", "view", "history"}
    BY DEF IInv, Queries, Read, Kinds
  <2>3. SessionOf(reads[q])' = SessionOf(reads[q])
    BY <2>1 DEF SessionOf, watermarks
  <2> QED
    BY <2>1, <2>2, <2>3 DEF Undisturbed, Stamp, watermarks
<1>11. ASSUME NEW r \in Readers, Capture(r) \/ CaptureNone(r) \/ HangUp(r) PROVE NoneDisturbed'
  <2> DEFINE thrown == [reads[r] EXCEPT !.stage = "discarded", !.tries = @ + 1]
  <2>1. /\ reads[r].stage # "idle" /\ Release(reads[r]) /\ UNCHANGED <<configuration, mcp>>
        /\ \E rd \in {Idle, thrown} : reads' = [reads EXCEPT ![r] = rd]
    BY <1>11 DEF Capture, CaptureNone, HangUp, Collected
  <2>2. Idle.stage # "reading" /\ thrown.stage # "reading"
    BY DEF Idle, IInv, Queries, Read
  <2> HIDE DEF thrown
  <2> QED
    BY <2>1, <2>2, ReleaseUndisturbed
<1>12. ASSUME NEW r \in Readers, Again(r) \/ SnapshotBusy(r) PROVE NoneDisturbed'
  <2> DEFINE next == [reads[r] EXCEPT !.stage = "begin"]
  <2>1. UNCHANGED watermarks /\ \E rd \in {Idle, next} : reads' = [reads EXCEPT ![r] = rd]
    BY <1>12 DEF Again, SnapshotBusy
  <2>2. Idle.stage # "reading" /\ next.stage # "reading"
    BY DEF Idle, IInv, Queries, Read
  <2> HIDE DEF next
  <2> QED
    BY <1>7, <2>1, <2>2
<1>13. CASE UNCHANGED vars
  BY <1>5, <1>13 DEF vars
<1> QED
  BY <1>2, <1>3, <1>4, <1>6, <1>8, <1>9, <1>10, <1>11, <1>12, <1>13 DEF Next, Continue

\* Output of a run and events of other sessions cannot starve a query: it starts again only
\* after an event about what it returns.
THEOREM OwnEventsDisturb == Spec => []OnlyItsOwnEventsDisturb
<1>1. Init => NoneDisturbed
  BY DEF Init, NoneDisturbed, Idle
<1>2. Spec => []IInv
  BY IInvInvariant
<1>3. NoneDisturbed => OnlyItsOwnEventsDisturb
  BY DEF NoneDisturbed, Undisturbed, OnlyItsOwnEventsDisturb, Collected, Unchanged
<1> QED
  BY <1>1, <1>2, <1>3, NextUndisturbed, PTL DEF Spec

===============================================================================
