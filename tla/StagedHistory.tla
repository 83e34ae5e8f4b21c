--------------------------- MODULE StagedHistory ---------------------------
(***************************************************************************)
(* How the Host keeps the history of a session in two places that cannot   *)
(* be written together: a conversation file that is appended to, and an    *)
(* SQLite database with the control rows of runs, tool exchanges and child *)
(* tasks (storage/recovery.rs and the modules that use it).  Every append  *)
(* is staged in the database, written and synchronized, and finalized with *)
(* its effects in one transaction; a compaction or a clear writes a new    *)
(* file and switches the authoritative generation.  One worker thread runs *)
(* all of it, so steps interleave only with crashes and I/O errors.  After *)
(* a restart the first command for the session prepares it: what was under *)
(* way is brought to its end before anything else runs.  A store that fails *)
(* takes the engine of the session down, but not when it fails a delegated *)
(* task: the call then has an error for its answer and the engine goes on. *)
(***************************************************************************)
EXTENDS Integers, Sequences, FiniteSets, SequencesExt, Retain

CONSTANTS Runs,             \* runs of the session, each with an input of its own
          MaxGeneration,    \* bound: generations of the conversation file
          MaxFaults,        \* bound: crashes and I/O errors
          Faults            \* {"crash", "io", "cleanup", "sync"}: what may go wrong

ASSUME StagedHistoryAssumption ==
    /\ "session" \notin Runs /\ "nobody" \notin Runs
    /\ MaxGeneration \in Nat \ {0} /\ MaxFaults \in Nat

Session == "session"            \* owners of a conversation: the session and,
Owners == {Session} \cup Runs   \* for the delegated call of run r, a child r
Nobody == "nobody"
Calls == {"tool", "task"}       \* an ordinary call and a delegation
Generations == 1 .. MaxGeneration

(* A frame of a conversation file: what one append records, for which run, *)
(* with which answers or outcome, and how many messages it holds.  A frame *)
(* of which only a prefix reached the file is not whole.                   *)
Frame(kind, r, says, n) == [kind |-> kind, run |-> r, says |-> says,
                            messages |-> n, whole |-> TRUE]
Torn(frame) == [frame EXCEPT !.whole = FALSE]
Messages(file) ==
    LET sum[i \in 0 .. Len(file)] == IF i = 0 THEN 0 ELSE sum[i - 1] + file[i].messages
    IN  sum[Len(file)]

(* merge_context_replacement_with_product_history: all that readers have   *)
(* seen stays and a summary is added, which is not a fact of its own.      *)
Summary == Frame("summary", Nobody, [c \in Calls |-> "summary"], 1)
Facts(file) == Minus(file, {Summary})

NoRow == [step |-> "none"]
StagedRow(frame, base, gen) == [step |-> "staged", frame |-> frame, base |-> base,
                                generation |-> gen]
NoExchange == [state |-> "none"]
Unanswered == [c \in Calls |-> "none"]
NoOperation == [kind |-> "none", state |-> "none", source |-> 0, result |-> 0]
Idle == [do |-> "idle", who |-> Nobody]
At(step, owner) == [do |-> step, who |-> owner]

VARIABLES
    head,       \* sessions row: body_generation and message_count
    body,       \* conversation.<generation>.jsonl files that exist
    childBody,  \* files of the child tasks
    row,        \* body_appends and child_body_appends: the row of each owner
    input,      \* input of each run
    run,        \* runs row of each run; deleted when the run settles
    pend,       \* the pending_tool_exchanges row with its started calls
    child,      \* child_tasks row of each run; deleted when the child settles
    op,         \* session_history_operations row that is not finished
    (* the Host process *)
    at,         \* where the worker is within the command it executes
    candidate,  \* generation a replacement writes, later the one it removes
    phase,      \* progress of prepare_session_execution
    sick,       \* its local `unavailable`
    bad,        \* unavailable_sessions
    badChildren,\* unavailable_child_tasks
    loaded,     \* execution_prepared: the session takes commands
    live,       \* the run whose engine is executing
    (* outside *)
    effects,    \* ghost: how often the tool of a run took effect
    faults      \* crashes and errors so far

tables == <<head, row, input, run, pend, child, op>>
files == <<body, childBody>>
memory == <<at, candidate, phase, sick, bad, badChildren, loaded, live>>
stagedVars == <<tables, files, memory, effects, faults>>

StagedInit ==
    /\ head = [generation |-> 1, count |-> 0]
    /\ body = [g \in {1} |-> <<>>]
    /\ childBody = [r \in {} |-> <<>>]
    /\ row = [o \in Owners |-> NoRow]
    /\ input = [r \in Runs |-> "none"]
    /\ run = [r \in Runs |-> "none"]
    /\ pend = NoExchange
    /\ child = [r \in Runs |-> "none"]
    /\ op = NoOperation
    /\ at = Idle /\ candidate = 0 /\ phase = "off" /\ sick = FALSE
    /\ bad = FALSE /\ badChildren = {} /\ loaded = FALSE /\ live = Nobody
    /\ effects = [r \in Runs |-> 0]
    /\ faults = 0
-----------------------------------------------------------------------------
(* ---- files -------------------------------------------------------------- *)
HasFile(o) == IF o = Session THEN head.generation \in DOMAIN body
              ELSE o \in DOMAIN childBody
FileOf(o) == IF ~HasFile(o) THEN <<>>
             ELSE IF o = Session THEN body[head.generation] ELSE childBody[o]
Prefix(o) == SubSeq(FileOf(o), 1, row[o].base)
Staged(o) == SubSeq(FileOf(o), row[o].base + 1, Len(FileOf(o)))

(* Mutant of Reconcilable: a frame of which only a part was written is     *)
(* taken for damage.                                                       *)
ReconcilableWhole(o) ==
    /\ HasFile(o)
    /\ Len(FileOf(o)) >= row[o].base
    /\ Staged(o) \in {<<>>, <<row[o].frame>>}

(* reconcile_append accepts a tail that is a prefix of the staged payload. *)
Reconcilable(o) ==
    /\ HasFile(o)
    /\ Len(FileOf(o)) >= row[o].base
    /\ Staged(o) \in {<<>>, <<row[o].frame>>, <<Torn(row[o].frame)>>}

PutFile(o, frames) ==
    IF o = Session
    THEN /\ body' = [body EXCEPT ![head.generation] = frames]
         /\ UNCHANGED childBody
    ELSE /\ childBody' = [childBody EXCEPT ![o] = frames]
         /\ UNCHANGED body

(* The settlement of a child whose parent has committed its exchange stands *)
(* alone: it is completed together with an entry of the session's own file. *)
Alone(o) == o \in Runs /\ row[o] # NoRow /\ row[o].frame.kind = "alone"
Directory(r) == Frame("directory", r, [c \in Calls |-> "interrupted"], 0)

(* What a write that is interrupted leaves behind.                         *)
WrittenInPart(o) ==
    \E tail \in {<<>>, <<row[o].frame>>, <<Torn(row[o].frame)>>} :
        PutFile(o, Prefix(o) \o tail)

(* History facts as readers see them: the frames of the file, which they   *)
(* may only read while no append is staged.                                *)
Records(file, kind, r) == \E i \in DOMAIN file : file[i].kind = kind /\ file[i].run = r
Settled(r) == Records(FileOf(Session), "settle", r)
Exchanged(r) == Records(FileOf(Session), "exchange", r)

(* ensure_session_history_idle                                             *)
SessionIsIdle == /\ \A r \in Runs : input[r] # "queued" /\ run[r] = "none"
                 /\ pend = NoExchange
                 /\ \A o \in Owners : row[o] = NoRow
                 /\ \A r \in Runs : child[r] = "none"
-----------------------------------------------------------------------------
(* ---- how a command of the worker ends ----------------------------------- *)
Serving == loaded /\ phase = "off" /\ at = Idle
MayFail(kind) == kind \in Faults /\ faults < MaxFaults
Fails(kind) == MayFail(kind) /\ faults' = faults + 1

(* prepare_session_execution goes through its phases in this order; the    *)
(* phases that settle children and runs repeat until none is left.         *)
PhaseAfter(p) == CASE p = "operations" -> "rows"
                   [] p = "rows" -> "childrows"
                   [] p = "childrows" -> "children"
                   [] p = "exchange" -> "window"
                   [] OTHER -> p

Succeeded == /\ at' = Idle /\ phase' = PhaseAfter(phase)
             /\ UNCHANGED <<candidate, sick, bad, badChildren, loaded>>

(* A failing append makes the session, or the child, unavailable in the    *)
(* phases that collect failures and ends the preparation in the others.    *)
(* Outside a preparation the engine stops, unless a child's append failed: *)
(* delegate_task then returns an error and the engine goes on.             *)
Failed(o) ==
    /\ at' = Idle
    /\ phase' = IF phase \in {"rows", "childrows", "exchange"}
                THEN PhaseAfter(phase) ELSE "off"
    /\ sick' = (sick \/ phase \in {"rows", "exchange"})
    /\ badChildren' = IF phase # "childrows" THEN badChildren
                      ELSE badChildren \cup {IF o = Session THEN row[o].frame.run ELSE o}
    /\ live' = IF o = Session THEN Nobody ELSE live
    /\ UNCHANGED <<candidate, bad, loaded>>

(* ---- the staged append: stage_target_append, write_target_append,         *)
(* ---- finalize_prepared_appends                                            *)
Available(o) == IF o = Session THEN ~bad ELSE o \notin badChildren
CanStage(o) == row[o] = NoRow /\ Available(o) /\ HasFile(o)

(* complete_target_append: a child's settlement that stands alone needs its *)
(* entry staged first, and of the two the child's file is written first.   *)
FirstStep(o, frame) == CASE frame.kind = "alone" -> At("directory", o)
                         [] frame.kind = "directory" -> At("write", frame.run)
                         [] OTHER -> At("write", o)

Stage(o, frame) ==
    /\ CanStage(o)
    /\ row' = [row EXCEPT ![o] = StagedRow(frame, Len(FileOf(o)), head.generation)]
    /\ at' = FirstStep(o, frame)

Writable(o) == /\ Reconcilable(o)
               /\ o = Session => row[o].generation = head.generation
               /\ Alone(o) => HasFile(Session)
AfterWrite(o) == IF Alone(o) THEN At("write", Session) ELSE At("finalize", o)

(* Mutant of Write: the payload is appended to whatever a crash left.      *)
WriteAfterTail(o) ==
    /\ at = At("write", o) /\ Writable(o)
    /\ PutFile(o, Append(FileOf(o), row[o].frame))
    /\ at' = AfterWrite(o)
    /\ UNCHANGED <<tables, candidate, phase, sick, bad, badChildren, loaded, live,
                   effects, faults>>

Write(o) ==
    /\ at = At("write", o) /\ Writable(o)
    /\ PutFile(o, Append(Prefix(o), row[o].frame))
    /\ at' = AfterWrite(o)
    /\ UNCHANGED <<tables, candidate, phase, sick, bad, badChildren, loaded, live,
                   effects, faults>>

WriteFails(o) ==
    /\ at = At("write", o)
    /\ IF Writable(o) THEN Fails("io") /\ WrittenInPart(o)
       ELSE UNCHANGED <<files, faults>>
    /\ Failed(o)
    /\ UNCHANGED <<tables, effects>>

(* apply_purpose: the rows an effect needs.                                *)
Applies(o, f) ==
    LET r == f.run IN
    IF o = Session
    THEN CASE f.kind = "start" -> run[r] = "accepted" /\ input[r] = "queued"
           [] f.kind = "exchange" -> pend.state = "ready" /\ pend.run = r
           [] f.kind = "settle" -> /\ run[r] # "none" /\ child[r] = "none"
                                   /\ pend = NoExchange
           [] f.kind = "directory" -> Alone(r) /\ child[r] # "none"
    ELSE CASE f.kind = "start" -> child[r] = "accepted"
           [] f.kind = "settle" -> /\ child[r] # "none"
                                   /\ pend.state # "none" /\ pend.run = r
                                   /\ "task" \in pend.started
           [] f.kind = "alone" -> child[r] # "none"

(* The effects themselves, with the release of controls that are no longer *)
(* needed: a settled run loses its row, and so does a settled child, whose *)
(* file is from now on located by the started call of its parent or, when  *)
(* the parent has forgotten it, by the entry in the session's file.        *)
Effect(o, f) ==
    LET r == f.run IN
    IF o = Session
    THEN /\ input' = IF f.kind \in {"start", "settle"}
                     THEN [input EXCEPT ![r] = "committed"] ELSE input
         /\ run' = CASE f.kind = "start" -> [run EXCEPT ![r] = "running"]
                      [] f.kind = "settle" -> [run EXCEPT ![r] = "none"]
                      [] OTHER -> run
         /\ pend' = IF f.kind = "exchange" THEN NoExchange ELSE pend
         /\ live' = IF phase # "off" THEN live
                    ELSE CASE f.kind = "start" -> r
                           [] f.kind = "settle" -> Nobody
                           [] OTHER -> live
         /\ child' = IF f.kind = "directory" THEN [child EXCEPT ![r] = "none"] ELSE child
    ELSE /\ child' = [child EXCEPT ![r] = IF f.kind = "start" THEN "running" ELSE "none"]
         /\ pend' = IF f.kind = "settle" THEN [pend EXCEPT !.located = TRUE] ELSE pend
         /\ UNCHANGED <<input, run, live>>

Finalize(o) ==
    LET f == row[o].frame IN
    /\ at = At("finalize", o)
    /\ o = Session => row[o].generation = head.generation
    /\ Applies(o, f)
    /\ head' = IF o = Session THEN [head EXCEPT !.count = @ + f.messages] ELSE head
    /\ Effect(o, f)
    /\ row' = IF f.kind = "directory" THEN [row EXCEPT ![o] = NoRow, ![f.run] = NoRow]
              ELSE [row EXCEPT ![o] = NoRow]
    /\ Succeeded
    /\ UNCHANGED <<op, files, effects, faults>>

FinalizeFails(o) ==
    /\ at = At("finalize", o)
    /\ IF Applies(o, row[o].frame) THEN Fails("io") ELSE UNCHANGED faults
    /\ Failed(o)
    /\ UNCHANGED <<tables, files, effects>>
-----------------------------------------------------------------------------
(* ---- commands of the runtime while the session is prepared -------------- *)
AcceptInput(r) ==
    /\ Serving /\ input[r] = "none"
    /\ input' = [input EXCEPT ![r] = "queued"]
    /\ UNCHANGED <<head, row, run, pend, child, op, files, memory, effects, faults>>

(* claim_input reads the history of the file, so it needs no staged append. *)
ClaimInput(r) ==
    /\ Serving /\ input[r] = "queued"
    /\ row[Session] = NoRow /\ HasFile(Session) /\ ~Settled(r)
    /\ \A other \in Runs : run[other] = "none"
    /\ run' = [run EXCEPT ![r] = "accepted"]
    /\ UNCHANGED <<head, row, input, pend, child, op, files, memory, effects, faults>>

Staging == UNCHANGED <<head, input, run, child, op, files, candidate, phase, sick, bad,
                       badChildren, loaded, effects, faults>>

(* commit_user_message, after its preflight of the same effect.            *)
CommitUserMessage(r) ==
    LET f == Frame("start", r, [c \in Calls |-> "start"], 1) IN
    /\ Serving /\ Applies(Session, f)
    /\ Stage(Session, f)
    /\ Staging /\ UNCHANGED <<pend, live>>

(* begin_exchange; one exchange of each run is modelled.                   *)
BeginExchange(r) ==
    /\ Serving /\ live = r /\ run[r] = "running" /\ pend = NoExchange
    /\ ~Exchanged(r)
    /\ pend' = [state |-> "begun", run |-> r, started |-> {}, located |-> FALSE,
                answers |-> Unanswered]
    /\ UNCHANGED <<head, row, input, run, child, op, files, memory, effects, faults>>

Exchanging(r) == Serving /\ live = r /\ pend.state = "begun" /\ pend.run = r

(* mark_execution_started: before the tool does anything.                  *)
MarkStarted(r, c) ==
    /\ Exchanging(r) /\ c \notin pend.started
    /\ pend' = [pend EXCEPT !.started = @ \cup {c}]
    /\ UNCHANGED <<head, row, input, run, child, op, files, memory, effects, faults>>

(* The engine runs the tool; outside of the worker.                        *)
ToolTakesEffect(r) ==
    /\ loaded /\ live = r /\ pend.state = "begun" /\ pend.run = r
    /\ "tool" \in pend.started /\ effects[r] = 0
    /\ effects' = [effects EXCEPT ![r] = @ + 1]
    /\ UNCHANGED <<tables, files, memory, faults>>

(* create_child_task: the directory with an empty file, then the row.      *)
CreateChildFile(r) ==
    /\ Exchanging(r) /\ "task" \in pend.started
    /\ r \notin DOMAIN childBody
    /\ childBody' = [x \in DOMAIN childBody \cup {r} |->
                        IF x = r THEN <<>> ELSE childBody[x]]
    /\ at' = At("childrow", r)
    /\ UNCHANGED <<tables, body, candidate, phase, sick, bad, badChildren, loaded, live,
                   effects, faults>>

InsertChild(r) ==
    /\ at = At("childrow", r)
    /\ \/ /\ child' = [child EXCEPT ![r] = "accepted"]
          /\ UNCHANGED <<childBody, faults>>
       \/ /\ Fails("io")
          /\ childBody' = [x \in DOMAIN childBody \ {r} |-> childBody[x]]
          /\ UNCHANGED child
    /\ at' = Idle
    /\ UNCHANGED <<head, row, input, run, pend, op, body, candidate, phase, sick, bad,
                   badChildren, loaded, live, effects>>

StartChild(r) ==
    LET f == Frame("start", r, [c \in Calls |-> "start"], 1) IN
    /\ Exchanging(r) /\ Applies(r, f)
    /\ Stage(r, f)
    /\ Staging /\ UNCHANGED <<pend, live>>

(* settle_child_task: only a child that has started can complete.          *)
ChildSettlement(r, outcome) ==
    Frame("settle", r, [c \in Calls |-> outcome], IF outcome = "completed" THEN 1 ELSE 0)

SettleChild(r, outcome) ==
    /\ Exchanging(r)
    /\ outcome = "completed" => child[r] = "running"
    /\ Applies(r, ChildSettlement(r, outcome))
    /\ Stage(r, ChildSettlement(r, outcome))
    /\ Staging /\ UNCHANGED <<pend, live>>

ChildOutcome(r) == Last(childBody[r]).says["task"]

(* What the engine answers once every started call has returned: a child   *)
(* that was not settled is an error of delegate_task.                      *)
Answer(r, c) ==
    IF c \notin pend.started THEN "refused"
    ELSE IF c = "tool" THEN IF effects[r] > 0 THEN "done" ELSE "cancelled"
    ELSE IF pend.located THEN ChildOutcome(r) ELSE "error"

(* complete_exchange freezes the answers in a transaction of their own,    *)
(* before it stages the append.  It does not ask for an unfinished child,  *)
(* which is left behind when the store has failed its start or settlement: *)
(* by then, with an append staged, or now, before anything was staged.     *)
Freeze(answers) ==
    /\ pend' = [pend EXCEPT !.state = "ready", !.answers = answers]
    /\ at' = At("stage", Session)

CompleteExchange(r) ==
    /\ Exchanging(r)
    /\ IF child[r] # "none" /\ row[r] = NoRow THEN Fails("io") ELSE UNCHANGED faults
    /\ Freeze([c \in Calls |-> Answer(r, c)])
    /\ UNCHANGED <<head, row, input, run, child, op, files, candidate, phase, sick, bad,
                   badChildren, loaded, live, effects>>

(* commit_ready_exchange: the assistant message and one message per call.  *)
StageExchange ==
    /\ at = At("stage", Session)
    /\ Stage(Session, Frame("exchange", pend.run, pend.answers, 1 + Cardinality(Calls)))
    /\ Staging /\ UNCHANGED <<pend, live>>

StageExchangeFails ==
    /\ at = At("stage", Session)
    /\ IF CanStage(Session) THEN Fails("io") ELSE UNCHANGED faults
    /\ Failed(Session)
    /\ UNCHANGED <<tables, files, effects>>

(* settle_run: a run that never started commits its user message with its  *)
(* settlement.                                                             *)
RunSettlement(r, outcome) ==
    Frame("settle", r, [c \in Calls |-> outcome],
          IF outcome = "completed" \/ input[r] = "queued" THEN 1 ELSE 0)

SettleRun(r) ==
    LET f == RunSettlement(r, IF live = r THEN "completed" ELSE "failed") IN
    /\ Serving /\ live \in {r, Nobody}
    /\ Applies(Session, f)
    /\ Stage(Session, f)
    /\ Staging /\ UNCHANGED <<pend, live>>

(* Its preflight refuses a run with a child that was left behind, and the  *)
(* session is taken out of service.                                        *)
SettlementRefused(r) ==
    /\ Serving /\ live = r /\ pend = NoExchange /\ child[r] # "none"
    /\ live' = Nobody
    /\ UNCHANGED <<tables, files, at, candidate, phase, sick, bad, badChildren, loaded,
                   effects, faults>>

(* The recorder fails and the engine of the run stops.                     *)
EngineStops ==
    /\ Serving /\ live # Nobody
    /\ Fails("io")
    /\ live' = Nobody
    /\ UNCHANGED <<tables, files, at, candidate, phase, sick, bad, badChildren, loaded,
                   effects>>
-----------------------------------------------------------------------------
(* ---- a new generation of the file: begin_replacement, commit_replacement  *)
Added(g, frames) == [x \in DOMAIN body \cup {g} |-> IF x = g THEN frames ELSE body[x]]
Without(gs) == [x \in DOMAIN body \ gs |-> body[x]]

Merged == Append(body[head.generation], Summary)

(* A compaction by the running engine, or for an idle session with a       *)
(* receipt of its own.                                                     *)
RunMayCompact == live # Nobody /\ run[live] = "running" /\ pend = NoExchange
ReceiptMayCompact == op.kind = "compact" /\ op.source = head.generation /\ live = Nobody

PrepareSessionCompaction ==
    /\ Serving /\ SessionIsIdle /\ op = NoOperation
    /\ op' = [kind |-> "compact", state |-> "preparing", source |-> head.generation,
              result |-> 0]
    /\ UNCHANGED <<head, row, input, run, pend, child, files, memory, effects, faults>>

FinishSessionCompaction ==
    /\ Serving /\ op.kind = "compact" /\ SessionIsIdle
    /\ op' = NoOperation
    /\ UNCHANGED <<head, row, input, run, pend, child, files, memory, effects, faults>>

(* Generations of which a file is left over are skipped.                   *)
BeginReplacement ==
    /\ Serving /\ (RunMayCompact \/ ReceiptMayCompact)
    /\ row[Session] = NoRow /\ HasFile(Session)
    /\ \E g \in Generations :
          /\ g > head.generation /\ g \notin DOMAIN body
          /\ \A x \in head.generation + 1 .. g - 1 : x \in DOMAIN body
          /\ body' = Added(g, Merged)
          /\ candidate' = g
    /\ at' = At("switch", Session)
    /\ UNCHANGED <<tables, childBody, phase, sick, bad, badChildren, loaded, live,
                   effects, faults>>

(* Mutant of CommitReplacement: the number of messages is left as it was.  *)
CommitReplacementUncounted ==
    /\ at = At("switch", Session)
    /\ live = Nobody => SessionIsIdle /\ op.kind = "compact"
    /\ head' = [head EXCEPT !.generation = candidate]
    /\ op' = IF live = Nobody THEN NoOperation ELSE op
    /\ candidate' = head.generation
    /\ at' = At("remove", Session)
    /\ UNCHANGED <<row, input, run, pend, child, files, phase, sick, bad, badChildren,
                   loaded, live, effects, faults>>

(* One transaction moves the session to the candidate and, without an      *)
(* engine, completes the receipt.                                          *)
CommitReplacement ==
    /\ at = At("switch", Session)
    /\ live = Nobody => SessionIsIdle /\ op.kind = "compact"
    /\ head' = [generation |-> candidate, count |-> Messages(body[candidate])]
    /\ op' = IF live = Nobody THEN NoOperation ELSE op
    /\ candidate' = head.generation
    /\ at' = At("remove", Session)
    /\ UNCHANGED <<row, input, run, pend, child, files, phase, sick, bad, badChildren,
                   loaded, live, effects, faults>>

ReplacementFails ==
    /\ at = At("switch", Session)
    /\ IF live = Nobody /\ ~SessionIsIdle THEN UNCHANGED faults ELSE Fails("io")
    /\ body' = Without({candidate})
    /\ candidate' = 0 /\ at' = Idle /\ live' = Nobody
    /\ UNCHANGED <<tables, childBody, phase, sick, bad, badChildren, loaded, effects>>

(* The file of the previous generation is removed if that is possible; the *)
(* caller takes a failing synchronization of the directory for a failing   *)
(* replacement and removes the new file.                                   *)
RemovePrevious ==
    /\ at = At("remove", Session)
    /\ \/ body' = Without({candidate}) /\ UNCHANGED <<faults, live>>
       \/ Fails("io") /\ UNCHANGED <<body, live>>
       \/ Fails("sync") /\ body' = Without({candidate, head.generation}) /\ live' = Nobody
    /\ candidate' = 0 /\ at' = Idle
    /\ UNCHANGED <<tables, childBody, phase, sick, bad, badChildren, loaded, effects>>

(* ---- clear_session_history ----------------------------------------------- *)
BeginClear ==
    /\ Serving /\ SessionIsIdle /\ op = NoOperation
    /\ head.generation < MaxGeneration
    /\ op' = [kind |-> "clear", state |-> "preparing", source |-> head.generation,
              result |-> head.generation + 1]
    /\ at' = At("clearfile", Session)
    /\ UNCHANGED <<head, row, input, run, pend, child, files, candidate, phase, sick, bad,
                   badChildren, loaded, live, effects, faults>>

(* A left-over file of that generation makes the clear fail.               *)
CreateClearFile ==
    /\ at = At("clearfile", Session)
    /\ IF op.result \in DOMAIN body
       THEN at' = Idle /\ op' = NoOperation /\ UNCHANGED body
       ELSE at' = At("clearswitch", Session) /\ body' = Added(op.result, <<>>)
            /\ UNCHANGED op
    /\ UNCHANGED <<head, row, input, run, pend, child, childBody, candidate, phase, sick,
                   bad, badChildren, loaded, live, effects, faults>>

SwitchToClear ==
    /\ at = At("clearswitch", Session)
    /\ SessionIsIdle /\ op.source = head.generation
    /\ head' = [generation |-> op.result, count |-> 0]
    /\ input' = [r \in Runs |-> IF input[r] = "none" THEN "none" ELSE "cleared"]
    /\ op' = [op EXCEPT !.state = "cleanup"]
    /\ at' = At("cleanup", Session)
    /\ UNCHANGED <<row, run, pend, child, files, candidate, phase, sick, bad, badChildren,
                   loaded, live, effects, faults>>

SwitchToClearFails ==
    /\ at = At("clearswitch", Session)
    /\ Fails("io")
    /\ body' = Without({op.result})
    /\ op' = NoOperation
    /\ at' = Idle
    /\ UNCHANGED <<head, row, input, run, pend, child, childBody, candidate, phase, sick,
                   bad, badChildren, loaded, live, effects>>

(* finish_clear_cleanup: everything but the authoritative file is removed; *)
(* a failure leaves the receipt and the command still succeeds.            *)
CleanUp ==
    \/ /\ body' = Without(DOMAIN body \ {head.generation})
       /\ childBody' = [r \in {} |-> <<>>]
       /\ op' = NoOperation
       /\ UNCHANGED faults
    \/ Fails("cleanup") /\ UNCHANGED <<files, op>>

CleanUpAfterClear ==
    /\ at = At("cleanup", Session)
    /\ CleanUp
    /\ at' = Idle
    /\ UNCHANGED <<head, row, input, run, pend, child, candidate, phase, sick, bad,
                   badChildren, loaded, live, effects>>
-----------------------------------------------------------------------------
(* ---- prepare_session_execution ------------------------------------------- *)
Prepare ==
    /\ ~loaded /\ phase = "off" /\ at = Idle
    /\ phase' = "operations" /\ sick' = FALSE
    /\ UNCHANGED <<tables, files, at, candidate, bad, badChildren, loaded, live, effects,
                   faults>>

InPhase(p) == phase = p /\ at = Idle
GoTo(p) == /\ phase' = p
           /\ UNCHANGED <<at, candidate, sick, bad, badChildren, loaded, live>>

(* recover_session_history_operations: an interrupted clear loses its      *)
(* candidate, a finished one its left-over files; a receipt that does not  *)
(* match the authoritative generation fails the preparation.               *)
Mismatched == \/ op.state = "preparing" /\ op.kind = "clear"
                   /\ op.source # head.generation
              \/ op.state = "cleanup" /\ op.result # head.generation

RecoverOperations ==
    /\ InPhase("operations")
    /\ IF Mismatched THEN GoTo("off") /\ UNCHANGED <<files, op, faults>>
       ELSE /\ GoTo("rows")
            /\ IF op.state = "cleanup" THEN CleanUp
               ELSE /\ body' = IF op.kind = "clear" THEN Without({op.result}) ELSE body
                    /\ op' = NoOperation
                    /\ UNCHANGED <<childBody, faults>>
    /\ UNCHANGED <<head, row, input, run, pend, child, effects>>

(* recover_body_appends and recover_child_body_appends go on from the row. *)
Resume(o, p) ==
    /\ InPhase(p) /\ row[o] # NoRow
    /\ at' = FirstStep(o, row[o].frame)
    /\ UNCHANGED <<tables, files, candidate, phase, sick, bad, badChildren, loaded, live,
                   effects, faults>>

ResumeAppend == Resume(Session, "rows") \/ \E r \in Runs : Resume(r, "childrows")

NothingToResume ==
    /\ \/ InPhase("rows") /\ row[Session] = NoRow
       \/ InPhase("childrows") /\ \A r \in Runs : row[r] = NoRow
    /\ GoTo(PhaseAfter(phase))
    /\ UNCHANGED <<tables, files, effects, faults>>

(* interrupt_nonterminal_child_tasks: children that are not unavailable    *)
(* are settled as interrupted before their parent's results are built, on  *)
(* their own when their parent's exchange is already history.              *)
InterruptChild(r) ==
    LET f == IF pend # NoExchange THEN ChildSettlement(r, "interrupted")
             ELSE Frame("alone", r, [c \in Calls |-> "interrupted"], 0) IN
    /\ InPhase("children") /\ child[r] # "none" /\ r \notin badChildren
    /\ IF Applies(r, f) /\ CanStage(r)
       THEN Stage(r, f) /\ Staging /\ UNCHANGED <<pend, live>>
       ELSE GoTo("off") /\ UNCHANGED <<tables, files, effects, faults>>

(* complete_standalone_child stages the entry, unless it is there already. *)
CanStageDirectory(r) ==
    HasFile(r) /\ IF row[Session] = NoRow THEN CanStage(Session)
                  ELSE row[Session].frame = Directory(r)

StageDirectory(r) ==
    /\ at = At("directory", r) /\ CanStageDirectory(r)
    /\ IF row[Session] = NoRow THEN Stage(Session, Directory(r))
       ELSE at' = At("write", r) /\ UNCHANGED row
    /\ Staging /\ UNCHANGED <<pend, live>>

StageDirectoryFails(r) ==
    /\ at = At("directory", r)
    /\ IF CanStageDirectory(r) THEN Fails("io") ELSE UNCHANGED faults
    /\ Failed(r)
    /\ UNCHANGED <<tables, files, effects>>

NoChildToInterrupt ==
    /\ InPhase("children")
    /\ \A r \in Runs : child[r] = "none" \/ r \in badChildren
    /\ GoTo("exchange")
    /\ UNCHANGED <<tables, files, effects, faults>>

(* Mutant of RecoveredAnswer: the marks of started calls are ignored.      *)
RecoveredAnswerUnmarked(c) ==
    IF c = "tool" THEN "not started"
    ELSE IF c \notin pend.started THEN "not started"
    ELSE IF pend.located THEN ChildOutcome(pend.run) ELSE "no child"

(* recovered_results: nothing is executed again.  A started call has an    *)
(* unknown outcome, unless it delegated: the answer is then the outcome    *)
(* the located child file records.                                         *)
RecoveredAnswer(c) ==
    IF c \notin pend.started THEN "not started"
    ELSE IF c = "tool" THEN "unknown"
    ELSE IF pend.located THEN ChildOutcome(pend.run) ELSE "no child"

Answerable ==
    "task" \in pend.started =>
        IF pend.located THEN row[pend.run] = NoRow /\ HasFile(pend.run)
        ELSE child[pend.run] = "none"

(* Mutant of RecoverExchange: answers that are frozen are built anew.      *)
RecoverExchangeAnew ==
    /\ InPhase("exchange") /\ pend # NoExchange /\ Answerable
    /\ Freeze([c \in Calls |-> RecoveredAnswer(c)])
    /\ UNCHANGED <<head, row, input, run, child, op, files, candidate, phase, sick, bad,
                   badChildren, loaded, live, effects, faults>>

RecoverExchange ==
    /\ InPhase("exchange") /\ pend.state = "begun" /\ Answerable
    /\ Freeze([c \in Calls |-> RecoveredAnswer(c)])
    /\ UNCHANGED <<head, row, input, run, child, op, files, candidate, phase, sick, bad,
                   badChildren, loaded, live, effects, faults>>

ResumeExchange ==
    /\ InPhase("exchange") /\ pend.state = "ready"
    /\ at' = At("stage", Session)
    /\ UNCHANGED <<tables, files, candidate, phase, sick, bad, badChildren, loaded, live,
                   effects, faults>>

ExchangeUnrecoverable ==
    /\ InPhase("exchange") /\ pend.state = "begun"
    /\ IF Answerable THEN Fails("io") ELSE UNCHANGED faults
    /\ Failed(Session)
    /\ UNCHANGED <<tables, files, effects>>

NoExchangeToRecover ==
    /\ InPhase("exchange") /\ pend = NoExchange
    /\ GoTo("window")
    /\ UNCHANGED <<tables, files, effects, faults>>

(* The session is unavailable when something failed; only then the         *)
(* execution window cannot be read.  With an append of a child left over   *)
(* the session is installed as faulted: no run of it is settled and no     *)
(* later command prepares it again (prepare, ensure_healthy).              *)
LeftOver == pend # NoExchange \/ \E r \in Runs : row[r] # NoRow

LoadExecutionWindow ==
    /\ InPhase("window")
    /\ bad' = sick
    /\ phase' = IF sick \/ row[Session] # NoRow \/ ~HasFile(Session) THEN "off"
                ELSE IF LeftOver THEN "faulted" ELSE "settle"
    /\ UNCHANGED <<tables, files, at, candidate, sick, badChildren, loaded, live, effects,
                   faults>>

(* prepare (runtime/session_loading.rs) settles the run that was active    *)
(* when the previous process ended and publishes the session.              *)
SettleInterrupted(r) ==
    LET f == RunSettlement(r, "interrupted") IN
    /\ InPhase("settle") /\ run[r] # "none"
    /\ IF Applies(Session, f) /\ CanStage(Session)
       THEN Stage(Session, f) /\ Staging /\ UNCHANGED <<pend, live>>
       ELSE GoTo("off") /\ UNCHANGED <<tables, files, effects, faults>>

InstallPrepared ==
    /\ InPhase("settle") /\ \A r \in Runs : run[r] = "none"
    /\ loaded' = TRUE /\ phase' = "off"
    /\ UNCHANGED <<tables, files, at, candidate, sick, bad, badChildren, live, effects,
                   faults>>

(* ---- the process ends at any moment -------------------------------------- *)
Crash ==
    /\ Fails("crash")
    /\ CASE at.do = "write" -> IF Writable(at.who) THEN WrittenInPart(at.who)
                               ELSE UNCHANGED files
         [] at.do \in {"remove", "clearswitch"} ->
              /\ body' \in {body, Without({IF at.do = "remove" THEN candidate ELSE op.result})}
              /\ UNCHANGED childBody
         [] OTHER -> UNCHANGED files
    /\ at' = Idle /\ candidate' = 0 /\ phase' = "off" /\ sick' = FALSE /\ bad' = FALSE
    /\ badChildren' = {} /\ loaded' = FALSE /\ live' = Nobody
    /\ UNCHANGED <<tables, effects>>

Append_ == \E o \in Owners : Write(o) \/ WriteFails(o) \/ Finalize(o) \/ FinalizeFails(o)

Replacement == \/ BeginReplacement \/ CommitReplacement \/ ReplacementFails
               \/ RemovePrevious
               \/ BeginClear \/ CreateClearFile \/ SwitchToClear \/ SwitchToClearFails
               \/ CleanUpAfterClear

Preparation == \/ RecoverOperations \/ ResumeAppend \/ NothingToResume
               \/ NoChildToInterrupt \/ RecoverExchange \/ ResumeExchange
               \/ ExchangeUnrecoverable \/ NoExchangeToRecover
               \/ LoadExecutionWindow \/ InstallPrepared
               \/ \E r \in Runs : InterruptChild(r) \/ SettleInterrupted(r)

Command == \/ \E r \in Runs :
                 \/ AcceptInput(r) \/ ClaimInput(r) \/ CommitUserMessage(r)
                 \/ BeginExchange(r) \/ ToolTakesEffect(r) \/ CreateChildFile(r)
                 \/ StartChild(r) \/ CompleteExchange(r) \/ SettleRun(r)
                 \/ SettlementRefused(r)
                 \/ \E c \in Calls : MarkStarted(r, c)
                 \/ \E outcome \in {"completed", "failed"} : SettleChild(r, outcome)
           \/ PrepareSessionCompaction \/ FinishSessionCompaction

Worker == \/ Append_ \/ Replacement \/ StageExchange \/ StageExchangeFails
          \/ \E r \in Runs : InsertChild(r) \/ StageDirectory(r) \/ StageDirectoryFails(r)

StagedNext == Command \/ Worker \/ Prepare \/ Preparation \/ EngineStops \/ Crash

(* The worker finishes the command it has begun, and a user who wants to   *)
(* go on asks for the session until it is prepared.                        *)
Fairness == WF_stagedVars(at # Idle /\ Worker) /\ WF_stagedVars(Prepare) /\ WF_stagedVars(Preparation)

StagedSpec == StagedInit /\ [][StagedNext]_stagedVars /\ Fairness
-----------------------------------------------------------------------------
(* Type invariant.                                                         *)
Words == {"none", "start", "summary", "refused", "not started", "done", "cancelled",
          "unknown", "no child", "error", "completed", "failed", "interrupted"}
Frames == [kind : {"start", "exchange", "settle", "alone", "directory", "summary"}, run : Runs \cup {Nobody},
           says : [Calls -> Words], messages : Nat, whole : BOOLEAN]
Steps == {"idle", "write", "finalize", "stage", "childrow", "directory", "switch",
          "remove", "clearfile", "clearswitch", "cleanup"}
Phases == {"off", "operations", "rows", "childrows", "children", "exchange", "window",
           "settle", "faulted"}
StagedTypeOK ==
    /\ head \in [generation : Generations, count : Nat]
    /\ DOMAIN body \subseteq Generations /\ body \in [DOMAIN body -> Seq(Frames)]
    /\ DOMAIN childBody \subseteq Runs /\ childBody \in [DOMAIN childBody -> Seq(Frames)]
    /\ row \in [Owners -> {NoRow} \cup [step : {"staged"}, frame : Frames, base : Nat,
                                        generation : Generations]]
    /\ input \in [Runs -> {"none", "queued", "committed", "cleared"}]
    /\ run \in [Runs -> {"none", "accepted", "running"}]
    /\ child \in [Runs -> {"none", "accepted", "running"}]
    /\ pend \in {NoExchange} \cup [state : {"begun", "ready"}, run : Runs,
                                    started : SUBSET Calls, located : BOOLEAN,
                                    answers : [Calls -> Words]]
    /\ op \in [kind : {"none", "compact", "clear"}, state : {"none", "preparing", "cleanup"},
              source : 0 .. MaxGeneration, result : 0 .. MaxGeneration]
    /\ at \in [do : Steps, who : Owners \cup {Nobody}]
    /\ candidate \in 0 .. MaxGeneration /\ phase \in Phases
    /\ sick \in BOOLEAN /\ bad \in BOOLEAN /\ loaded \in BOOLEAN
    /\ badChildren \subseteq Runs /\ live \in Runs \cup {Nobody}
    /\ effects \in [Runs -> 0 .. 1] /\ faults \in 0 .. MaxFaults

(* What readers of the session see: the file, without what is staged.      *)
Visible(o) == IF row[o] = NoRow THEN FileOf(o) ELSE Prefix(o)

(* The database counts exactly the messages a reader finds in the file, at *)
(* every step of every append and of every switch of the generation, and   *)
(* after every crash (message_count of the session row, checked when the   *)
(* session is loaded).                                                     *)
CountMatchesFile == head.count = Messages(Visible(Session))

(* The delegation of r is still to be answered, with an error if its answer *)
(* is frozen; or it was answered so and the child was left behind.         *)
Delegating(r) == /\ pend # NoExchange /\ pend.run = r
                 /\ "task" \in pend.started /\ ~pend.located
                 /\ pend.state = "ready" => pend.answers["task"] = "error"
GivenUp(r) == \E i \in DOMAIN Visible(Session) :
                 LET f == Visible(Session)[i]
                 IN  f.kind = "exchange" /\ f.run = r /\ f.says["task"] = "error"

(* The controls of a child, a parent and their exchange fit together: a    *)
(* child has a running parent, whose started call it is until that call    *)
(* has been answered with an error; and what is staged can be written, and *)
(* has a row to apply to unless it is the settlement of a child whose      *)
(* parent gave it up (README, section 7).                                  *)
StagedStaysCompletable ==
    /\ \A o \in Owners : row[o] # NoRow =>
          /\ Reconcilable(o)
          /\ Applies(o, row[o].frame) \/ (o # Session /\ GivenUp(o))
    /\ \A r \in Runs : child[r] # "none" =>
          /\ run[r] = "running" /\ HasFile(r)
          /\ Delegating(r) \/ GivenUp(r)

(* The database and the files agree as far as their readers need it.       *)
DatabaseMatchesFiles == StagedTypeOK /\ CountMatchesFile /\ StagedStaysCompletable

(* What the model is told about a call is true: a call said not to have    *)
(* been started had no effect, one said to be done had it, and a delegated *)
(* call has the outcome its child's own history records, or no child that  *)
(* has begun a history.  Over a child that has begun one an error is        *)
(* reported only when something has failed.  So it is whether the engine   *)
(* answers or, after a crash, the recovery (recovered_results).            *)
Outcomes == {"completed", "failed", "interrupted"}
Ended(r) == Records(FileOf(r), "settle", r) \/ Records(FileOf(r), "alone", r)
ToldOfTool(r, says) ==
    /\ says["tool"] \in {"refused", "not started"} => effects[r] = 0
    /\ says["tool"] = "done" => effects[r] = 1
ToldOfTask(r, says) ==
    HasFile(r) =>
       /\ says["task"] \in Outcomes => Ended(r) /\ says["task"] = ChildOutcome(r)
       /\ says["task"] \notin Outcomes =>
             FileOf(r) = <<>> \/ (says["task"] = "error" /\ faults > 0)
Truthful(r, says) == ToldOfTool(r, says) /\ ToldOfTask(r, says)
AnswersAreTrue ==
    /\ pend.state = "ready" => Truthful(pend.run, pend.answers)
    /\ \A i \in DOMAIN Visible(Session) :
          LET f == Visible(Session)[i] IN f.kind = "exchange" => Truthful(f.run, f.says)

(* The history of a run is told in order and once: its message, the tool   *)
(* exchange, the entry of a child that was left behind, its outcome.       *)
Place(f) == CASE f.kind = "start" -> 1
              [] f.kind = "exchange" -> 2
              [] f.kind = "directory" -> 3
              [] f.kind = "settle" -> 4
FactsInOrder ==
    \A i, j \in DOMAIN Visible(Session) :
        LET f == Visible(Session)[i]  g == Visible(Session)[j] IN
        i < j /\ f.run = g.run /\ f # Summary /\ g # Summary => Place(f) < Place(g)

(* What the history tells is true.                                         *)
HistoryIsTrue == AnswersAreTrue /\ FactsInOrder

(* The store keeps the promise DurableHistory states: facts are published  *)
(* one by one, as they were accepted, and none is lost, changed, repeated  *)
(* or invented, whatever crashes and I/O errors happen on the way.         *)
History == INSTANCE DurableHistory
    WITH facts <- Facts(Visible(Session)),
         accepted <- IF row[Session] = NoRow THEN <<>> ELSE <<row[Session].frame>>
ImplementsDurableHistory == History!HistorySpec

(* Answers that are frozen are what the history will say: they are not     *)
(* replaced, neither by a later answer nor by the recovery's own, and they *)
(* go only when the history holds them (mark_exchange_ready and            *)
(* commit_ready_exchange are two transactions).                            *)
FrozenAnswersAreCommitted ==
    [][pend.state = "ready" =>
          \/ pend' # NoExchange /\ pend'.run = pend.run /\ pend'.answers = pend.answers
          \/ /\ pend' = NoExchange
             /\ Last(FileOf(Session)) = Frame("exchange", pend.run, pend.answers,
                                              1 + Cardinality(Calls))]_stagedVars

(* After the last fault a session that is not marked unavailable is        *)
(* prepared whatever the process left behind: every staged append can be   *)
(* finished, every exchange answered, every child and run settled.  It     *)
(* takes the files the database points to, no clear that is still to be    *)
(* cleaned up (see ChildrenKeepTheirFiles), and no staged settlement of a  *)
(* child whose parent's error is in the history or staged for it: the      *)
(* history of the parent is brought up first and no restart completes the  *)
(* settlement after that (README, section 7).                              *)
Intact == /\ HasFile(Session) /\ op.state # "cleanup"
          /\ \A r \in Runs : child[r] # "none" => HasFile(r)
          /\ pend # NoExchange /\ pend.located => HasFile(pend.run)
          /\ \A r \in Runs : row[r] # NoRow /\ row[r].frame.kind = "settle" =>
                /\ Applies(r, row[r].frame)
                /\ row[Session] = NoRow
CanHeal == /\ ~loaded /\ phase = "off" /\ at = Idle
           /\ ~bad /\ badChildren = {} /\ faults = MaxFaults /\ Intact
RestartHeals == CanHeal ~> loaded

(* What the module says of itself and does not keep: the exact clean-up of *)
(* a clear, which may happen as late as the next restart, removes what     *)
(* belonged to the cleared history and nothing that was made since, so     *)
(* that a child task under way keeps its file.                             *)
ChildrenKeepTheirFiles == \A r \in Runs : child[r] # "none" => HasFile(r)
=============================================================================
