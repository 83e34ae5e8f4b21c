------------------------------ MODULE Approvals ------------------------------
(***************************************************************************)
(* The approvals of one session: tool calls that wait for a person         *)
(* (RuntimeToolAuthorizer, RuntimeApprovalResolver), the registry of what  *)
(* is pending, the requests that decide (decide_approval, the drain of an  *)
(* exact rule, reject_approval_and_stop_run), the permission file behind   *)
(* them, and what may cut in: run cancellation, a replaced MCP server, a   *)
(* file edited by hand, a request dropped half way.                        *)
(*                                                                         *)
(* A change of the registry and the event that tells it are one step: both *)
(* happen under the observation lock (publish_transition).  Everything     *)
(* between two such steps may be interleaved.  The session has no          *)
(* workspace, so of the permission files only its own is modelled.         *)
(***************************************************************************)
EXTENDS Integers, FiniteSets

CONSTANTS
  Calls,      \* tool calls, numbered by the time stamps and ids of their approvals, which
              \* are taken before the registry is locked: they may register in any order
  Children,   \* the calls of child tasks, which may be cancelled alone
  PrintOf,    \* the exact rule that would allow each call
  Mcp,        \* calls of tools of an MCP server that may be replaced
  Requests,   \* requests of clients that may be in flight at once
  MaxMoves    \* bound: requests of clients and edits of the permission file by hand

Prints == {PrintOf[c] : c \in Calls}

ASSUME CallsAssumption ==
  Calls \subseteq Nat /\ Mcp \subseteq Calls /\ Children \subseteq Calls /\ 0 \notin Calls \cup Prints
ASSUME BoundsAssumption == MaxMoves \in Nat

VARIABLES
  (* ApprovalRegistry *)
  status,     \* each call's entry: none, Pending or Resolving
  revision,   \* the session's revision of the list
  (* the authorizer's future of each call *)
  waiter,     \* where it stands; exempt: allowed without being asked about
  verdict,    \* what it makes of the signal
  signal,     \* the oneshot channel: none, closed or what was sent
  (* requests and the permission file *)
  request,    \* where each request stands
  gate,       \* request that holds the permission mutation gate, 0 when free
  disk,       \* effects the file has for each exact rule
  live,       \* the same in the permission registry
  (* what cuts in *)
  run,        \* running, cancelling (approvals are gone) or cancelled (token)
  stopped,    \* calls of children that were cancelled alone
  server,     \* the MCP server's connection: live, retired, invalidated
  paused,     \* queue_paused_by_user
  (* history *)
  moves,
  known,      \* calls a client that follows the events takes for pending
  told,       \* how the events closed each approval: a decision, cancelled or not yet
  everLive    \* exact rules that have been both stored and installed

registry == <<status, revision>>
waiters  == <<waiter, verdict, signal>>
rules    == <<gate, disk, live, everLive>>
cutIn    == <<run, stopped, server, paused>>
stream   == <<known, told>>
vars == <<registry, waiters, request, rules, cutIn, moves, stream>>

Allows    == {"AllowOnce", "AllowSession"}
Decisions == Allows \cup {"AllowWorkspace", "Deny"}
Effects   == {"Allow", "Ask", "Deny"}
Signals   == Allows \cup {"Deny", "Rule", "McpCatalogChanged", "closed", "none"}

\* stop: the request of reject_approval_and_stop_run; print: the rule to store
\* and to drain; doc: the permission document that was read or is to be installed.
Request == [at: {"idle", "stop", "begun", "loaded", "stored", "written", "draining",
                 "rule", "covered", "failed", "stopping", "pausing"},
            call: Calls \cup {0}, decision: Decisions \cup {"none"}, stop: BOOLEAN,
            print: Prints \cup {0}, doc: [Prints -> SUBSET Effects], attempt: 0..2]

NoRequest == [at |-> "idle", call |-> 0, decision |-> "none", stop |-> FALSE,
              print |-> 0, doc |-> [p \in Prints |-> {}], attempt |-> 0]

\* The token of the call's run or child task.
Cancelled(c) == run = "cancelled" \/ c \in stopped

Pending == {c \in Calls : status[c] # "none"}

\* The smallest (created_at_ms, approval_id), which need not have come first.
IsHead(c) == c \in Pending /\ \A d \in Pending : c <= d

AllowsWithoutAsk(p) == live[p] = {"Allow"}

\* A new request takes the first free slot: requests have no identity.
Arrives(q) ==
  /\ request[q].at = "idle" /\ moves < MaxMoves
  /\ \A o \in Requests : request[o].at = "idle" => q <= o

\* Requests that have begun a resolution and neither finished nor restored it.
Holding == {"begun", "loaded", "stored", "written", "rule", "covered", "failed"}
Holders(c) == {q \in Requests : request[q].call = c /\ request[q].at \in Holding}

\* Bound: the revision only tells whether it has advanced, by however much.
Bumped(n) == IF n = 0 THEN revision ELSE 1 - revision

-----------------------------------------------------------------------------
(* Changes of the registry, each with the event published under the lock.  *)

Publish(new, closing, how) ==
  /\ known' = {c \in Calls : new[c] # "none"}
  /\ told'  = [c \in Calls |-> IF c \in closing THEN how ELSE told[c]]

\* SessionChanged: the client reads the list again.
Reread(new) == Publish(new, {}, "none")

\* Mutant of RemoveQuietly: nothing is published when the receiver has gone.
RemoveUntold(c) ==
  /\ status' = [status EXCEPT ![c] = "none"]
  /\ revision' = Bumped(1)
  /\ UNCHANGED <<signal, stream>>

\* The entry goes although nobody listens any more.
RemoveQuietly(c) ==
  /\ status' = [status EXCEPT ![c] = "none"]
  /\ revision' = Bumped(1)
  /\ Reread(status')
  /\ UNCHANGED signal

\* resolve and resolve_by_rule of an entry whose receiver is there.
SendSignal(c, s) ==
  /\ status' = [status EXCEPT ![c] = "none"]
  /\ revision' = Bumped(1)
  /\ signal' = [signal EXCEPT ![c] = s]
  /\ Publish(status', {c}, s)

\* Removal of several entries at once; the revision advances by `steps`.
RemoveAll(cs, s, steps) ==
  /\ status' = [c \in Calls |-> IF c \in cs THEN "none" ELSE status[c]]
  /\ signal' = [c \in Calls |-> IF c \in cs /\ waiter[c] = "waiting" THEN s ELSE signal[c]]
  /\ revision' = Bumped(steps)
  /\ Publish(status', cs, "cancelled")

MarkResolving(c) ==
  /\ status' = [status EXCEPT ![c] = "Resolving"]
  /\ revision' = Bumped(1)
  /\ Reread(status')

-----------------------------------------------------------------------------
Init ==
  /\ status = [c \in Calls |-> "none"] /\ revision = 0
  /\ waiter = [c \in Calls |-> "idle"] /\ verdict = [c \in Calls |-> "none"]
  /\ signal = [c \in Calls |-> "none"]
  /\ request = [q \in Requests |-> NoRequest]
  /\ gate = 0
  /\ disk = [p \in Prints |-> {}] /\ live = disk
  /\ run = "running" /\ stopped = {} /\ server = "live" /\ paused = FALSE
  /\ moves = 0
  /\ known = {} /\ told = [c \in Calls |-> "none"]
  /\ everLive = {}

-----------------------------------------------------------------------------
(* The authorizer of a call, in the approval mode Ask.                     *)

\* evaluate: Deny over Ask over Allow; a call no rule matches is asked about.
Evaluate(c) ==
  /\ waiter[c] = "idle" /\ ~Cancelled(c)
  /\ LET found == live[PrintOf[c]]
         next  == IF "Deny" \in found THEN "denied"
                  ELSE IF found = {"Allow"} THEN "exempt" ELSE "asking"
     IN  waiter' = [waiter EXCEPT ![c] = next]
  /\ UNCHANGED <<status, revision, verdict, signal, request, rules, cutIn,
                 moves, stream>>

\* register: refused when the call's MCP connection has been retired meanwhile.
Register(c) ==
  /\ waiter[c] = "asking"
  /\ IF c \in Mcp /\ server # "live"
     THEN /\ waiter' = [waiter EXCEPT ![c] = "denied"]
          /\ UNCHANGED <<status, revision, stream>>
     ELSE /\ waiter' = [waiter EXCEPT ![c] = "waiting"]
          /\ status' = [status EXCEPT ![c] = "Pending"]
          /\ revision' = Bumped(1)
          /\ Publish(status', {}, "none")
  /\ UNCHANGED <<verdict, signal, request, rules, cutIn, moves>>

\* Mutant of Meaning: a sender that went away without a word is taken for consent.
MeaningOfSilence(s) == IF s = "Rule" THEN "rule" ELSE IF s = "Deny" THEN "deny" ELSE "allow"

Meaning(s) == IF s \in Allows THEN "allow" ELSE IF s = "Rule" THEN "rule" ELSE "deny"

\* The select! takes what the channel has.
Receive(c) ==
  /\ waiter[c] = "waiting" /\ signal[c] # "none"
  /\ waiter'  = [waiter EXCEPT ![c] = "leaving"]
  /\ verdict' = [verdict EXCEPT ![c] = Meaning(signal[c])]
  /\ signal'  = [signal EXCEPT ![c] = "none"]
  /\ UNCHANGED <<registry, request, rules, cutIn, moves, stream>>

\* The select! takes the cancelled token, or the engine drops the whole future.
SeeCancel(c) ==
  /\ waiter[c] = "waiting" /\ Cancelled(c)
  /\ waiter'  = [waiter EXCEPT ![c] = "leaving"]
  /\ verdict' = [verdict EXCEPT ![c] = "deny"]
  /\ signal'  = [signal EXCEPT ![c] = "none"]
  /\ UNCHANGED <<registry, request, rules, cutIn, moves, stream>>

\* Mutant of Leave: the guard leaves entries alone that somebody is resolving.
LeavePending(c) ==
  /\ waiter[c] = "leaving"
  /\ waiter' = [waiter EXCEPT ![c] = IF verdict[c] = "deny" THEN "denied" ELSE "recheck"]
  /\ IF status[c] = "Pending"
     THEN RemoveAll({c}, "closed", 1)
     ELSE UNCHANGED <<registry, signal, stream>>
  /\ UNCHANGED <<verdict, request, rules, cutIn, moves>>

\* PendingApprovalGuard::drop, after the receiver has gone.
Leave(c) ==
  /\ waiter[c] = "leaving"
  /\ waiter' = [waiter EXCEPT ![c] = IF verdict[c] = "deny" THEN "denied" ELSE "recheck"]
  /\ IF c \in Pending
     THEN RemoveAll({c}, "closed", 1)
     ELSE UNCHANGED <<registry, signal, stream>>
  /\ UNCHANGED <<verdict, request, rules, cutIn, moves>>

\* Mutant of StillDenied: the rules are not read again after the answer.
McpDenied(c) == c \in Mcp /\ server # "live"

\* current_hard_or_rule_denial.
StillDenied(c) ==
  \/ c \in Mcp /\ server # "live"
  \/ "Deny" \in live[PrintOf[c]]
  \/ verdict[c] = "rule" /\ "Ask" \in live[PrintOf[c]]

Recheck(c) ==
  /\ waiter[c] = "recheck"
  /\ waiter' = [waiter EXCEPT ![c] = IF StillDenied(c) THEN "denied" ELSE "allowed"]
  /\ verdict' = [verdict EXCEPT ![c] = "none"]
  /\ UNCHANGED <<registry, signal, request, rules, cutIn, moves, stream>>

\* The engine drops the future of a cancelled run at another await.
Abandon(c) ==
  /\ waiter[c] \in {"asking", "recheck"} /\ Cancelled(c)
  /\ waiter' = [waiter EXCEPT ![c] = "denied"]
  /\ verdict' = [verdict EXCEPT ![c] = "none"]
  /\ UNCHANGED <<registry, signal, request, rules, cutIn, moves, stream>>

-----------------------------------------------------------------------------
(* A client's request.                                                     *)

Set(q, r)   == request' = [request EXCEPT ![q] = r]
Go(q, at)   == Set(q, [NoRequest EXCEPT !.at = at, !.call = request[q].call,
                                        !.decision = request[q].decision, !.stop = request[q].stop,
                                        !.print = request[q].print])
Finish(q)   == Set(q, NoRequest)

\* begin_resolution: only the head, and only while nobody else has it.
Begin(q, c, d, stop) ==
  /\ status[c] = "Pending" /\ IsHead(c)
  /\ MarkResolving(c)
  /\ Set(q, [NoRequest EXCEPT !.at = IF d = "AllowWorkspace" THEN "failed" ELSE "begun",
                              !.call = c, !.decision = d, !.stop = stop])

Decide(q) ==
  /\ Arrives(q)
  /\ \E c \in Calls, d \in Decisions : Begin(q, c, d, FALSE)
  /\ moves' = moves + 1
  /\ UNCHANGED <<waiters, rules, cutIn>>

\* reject_approval_and_stop_run: the client's revision is the current one and the
\* approval is in the list; the decision itself comes in a later step.
RejectAndStop(q) ==
  /\ Arrives(q)
  /\ \E c \in Pending : Set(q, [NoRequest EXCEPT !.at = "stop", !.call = c])
  /\ moves' = moves + 1
  /\ UNCHANGED <<registry, waiters, rules, cutIn, stream>>

DecideToStop(q) ==
  /\ request[q].at = "stop"
  /\ LET c == request[q].call
     IN  IF status[c] = "Pending" /\ IsHead(c)
         THEN Begin(q, c, "Deny", TRUE)
         ELSE Finish(q) /\ UNCHANGED <<registry, stream>>
  /\ UNCHANGED <<waiters, rules, cutIn, moves>>

\* Mutant of LoadFile: the second attempt locks the gate again.
LoadFileRelocking(q) ==
  /\ request[q].at = "begun" /\ request[q].decision = "AllowSession" /\ gate = 0
  /\ gate' = q
  /\ Set(q, [request[q] EXCEPT !.at = "loaded", !.print = PrintOf[request[q].call],
                                !.doc = disk, !.attempt = @ + 1])
  /\ UNCHANGED <<registry, waiters, disk, live, everLive, cutIn, moves, stream>>

\* append_allow_rules_once reads the file under the mutation gate; after a first
\* conflict it reads it again.
LoadFile(q) ==
  /\ request[q].at = "begun" /\ request[q].decision = "AllowSession" /\ gate \in {0, q}
  /\ gate' = q
  /\ Set(q, [request[q] EXCEPT !.at = "loaded", !.print = PrintOf[request[q].call],
                                !.doc = disk, !.attempt = @ + 1])
  /\ UNCHANGED <<registry, waiters, disk, live, everLive, cutIn, moves,
                 stream>>

\* Replacing the file is a conflict when it is not the one that was read; a rule that
\* is there already is not written again.
StoreRule(q) ==
  /\ request[q].at = "loaded"
  /\ LET r   == request[q]
         new == [r.doc EXCEPT ![r.print] = @ \cup {"Allow"}]
     IN  IF new # r.doc /\ disk # r.doc
         THEN /\ Set(q, [r EXCEPT !.at = IF r.attempt < 2 THEN "begun" ELSE "failed"])
              /\ gate' = IF r.attempt < 2 THEN q ELSE 0
              /\ UNCHANGED disk
         ELSE /\ Set(q, [r EXCEPT !.at = "stored", !.doc = new])
              /\ disk' = IF new = r.doc THEN disk ELSE new
              /\ UNCHANGED gate
  /\ UNCHANGED <<registry, waiters, live, everLive, cutIn, moves, stream>>

\* The file cannot be read or written.
StoreFails(q) ==
  /\ request[q].at = "loaded"
  /\ Go(q, "failed") /\ gate' = 0
  /\ UNCHANGED <<registry, waiters, disk, live, everLive, cutIn, moves,
                 stream>>

\* What was written becomes the registry's snapshot; then the gate is free.
InstallRule(q) ==
  /\ request[q].at = "stored"
  /\ live' = request[q].doc
  /\ everLive' = everLive \cup {p \in Prints : "Allow" \in live'[p]}
  /\ gate' = 0
  /\ Set(q, IF request[q].call # 0 THEN [request[q] EXCEPT !.at = "written"]
            ELSE [NoRequest EXCEPT !.at = "draining", !.print = request[q].print])
  /\ UNCHANGED <<registry, waiters, disk, cutIn, moves, stream>>

\* The client hangs up while the request waits for the gate or the store: the
\* future is dropped, the gate given up; what the store has done stays done.
HangUp(q) ==
  /\ \/ request[q].at = "begun" /\ request[q].decision = "AllowSession"
     \/ request[q].at \in {"loaded", "stored"}
  /\ IF request[q].call = 0 THEN Finish(q) ELSE Go(q, "failed")
  /\ gate' = IF gate = q THEN 0 ELSE gate
  /\ UNCHANGED <<registry, waiters, disk, live, everLive, cutIn, moves,
                 stream>>

ReadyToResolve(q) ==
  \/ request[q].at = "begun" /\ request[q].decision \in {"AllowOnce", "Deny"}
  \/ request[q].at = "written"

AfterAnswer(r) ==
  IF r.decision = "AllowSession"
  THEN [NoRequest EXCEPT !.at = "draining", !.print = PrintOf[r.call]]
  ELSE IF r.stop THEN [NoRequest EXCEPT !.at = "stopping", !.call = r.call] ELSE NoRequest

\* resolve: Expired when the entry or its receiver has gone.
Resolve(q) ==
  /\ ReadyToResolve(q)
  /\ LET c == request[q].call
     IN  IF c \in Pending /\ waiter[c] = "waiting"
         THEN /\ SendSignal(c, request[q].decision)
              /\ Set(q, AfterAnswer(request[q]))
         ELSE /\ IF c \in Pending
                 THEN RemoveQuietly(c)
                 ELSE Reread(status) /\ UNCHANGED <<registry, signal>>
              /\ Go(q, "failed")
  /\ UNCHANGED <<waiter, verdict, rules, cutIn, moves>>

\* ResolutionGuard::drop.
Restore(q) ==
  /\ request[q].at = "failed"
  /\ LET c == request[q].call
     IN  IF c \in Pending
         THEN /\ status' = [status EXCEPT ![c] = "Pending"]
              /\ revision' = Bumped(1)
              /\ Reread(status')
         ELSE UNCHANGED <<status, revision, stream>>
  /\ Finish(q)
  /\ UNCHANGED <<waiters, rules, cutIn, moves>>

-----------------------------------------------------------------------------
(* drain_exact_rule_approvals, after a rule has been stored.               *)

DrainHead(q) ==
  /\ request[q].at = "draining"
  /\ LET p == request[q].print
         heads == {c \in Calls : IsHead(c) /\ status[c] = "Pending" /\ PrintOf[c] = p}
     IN  IF heads # {} /\ AllowsWithoutAsk(p)
         THEN \E c \in heads :
                MarkResolving(c) /\ Set(q, [request[q] EXCEPT !.at = "rule", !.call = c])
         ELSE Finish(q) /\ UNCHANGED <<registry, stream>>
  /\ UNCHANGED <<waiters, rules, cutIn, moves>>

\* The rules may have changed before the approval was taken.
CheckCover(q) ==
  /\ request[q].at = "rule"
  /\ Go(q, IF AllowsWithoutAsk(request[q].print) THEN "covered" ELSE "failed")
  /\ UNCHANGED <<registry, waiters, rules, cutIn, moves, stream>>

ResolveByRule(q) ==
  /\ request[q].at = "covered"
  /\ LET c == request[q].call
     IN  IF c \in Pending /\ waiter[c] = "waiting"
         THEN /\ SendSignal(c, "Rule")
              /\ Set(q, [request[q] EXCEPT !.at = "draining", !.call = 0])
         ELSE /\ IF c \in Pending
                 THEN RemoveQuietly(c)
                 ELSE Reread(status) /\ UNCHANGED <<registry, signal>>
              /\ Go(q, "failed")
  /\ UNCHANGED <<waiter, verdict, rules, cutIn, moves>>

\* replace_permission_document: a client writes the rules itself, with the file's
\* current revision; what it allows is installed and drained like a decision's rule.
ReplaceDocument(q) ==
  /\ Arrives(q) /\ gate = 0
  /\ \E p \in Prints :
       /\ disk' = [disk EXCEPT ![p] = {"Allow"}]
       /\ Set(q, [NoRequest EXCEPT !.at = "stored", !.print = p, !.doc = disk'])
  /\ gate' = q /\ moves' = moves + 1
  /\ UNCHANGED <<registry, waiters, live, everLive, cutIn, stream>>

-----------------------------------------------------------------------------
(* What cuts in.                                                           *)

\* cancel_run_approvals: what is being resolved stays with its request.
TakePending ==
  LET taken == {c \in Calls : status[c] = "Pending"}
  IN  RemoveAll(taken, "closed", IF taken = {} THEN 0 ELSE 2)

\* cancel_run under the session's mutation gate: approvals first, then the token.
CancelApprovals ==
  /\ run = "running"
  /\ TakePending
  /\ run' = "cancelling"
  /\ UNCHANGED <<waiter, verdict, request, rules, stopped, server, paused, moves>>

CancelToken ==
  /\ run = "cancelling"
  /\ run' = "cancelled"
  /\ UNCHANGED <<registry, waiters, request, rules, stopped, server, paused, moves, stream>>

\* The rest of reject_approval_and_stop_run.
StopRun(q) ==
  /\ request[q].at = "stopping" /\ run # "cancelling"
  /\ TakePending
  /\ run' = IF run = "running" THEN "cancelling" ELSE run
  /\ Go(q, "pausing")
  /\ UNCHANGED <<waiter, verdict, rules, stopped, server, paused, moves>>

\* cancel_run refuses: the run serves a goal, or the session is no longer healthy.  The
\* denial stands, but nothing is stopped or paused.
StopRefused(q) ==
  /\ request[q].at = "stopping"
  /\ Finish(q)
  /\ UNCHANGED <<registry, waiters, rules, cutIn, moves, stream>>

PauseQueue(q) ==
  /\ request[q].at = "pausing" /\ run = "cancelled"
  /\ paused' = TRUE
  /\ Finish(q)
  /\ UNCHANGED <<registry, waiters, rules, run, stopped, server, moves, stream>>

\* A child task is cancelled: its token only.
CancelChild(c) ==
  /\ stopped' = stopped \cup {c}
  /\ UNCHANGED <<registry, waiters, request, rules, run, server, paused, moves, stream>>

\* A refresh replaces the server's connection, and only then clears the approvals.
RetireServer ==
  /\ server = "live" /\ Mcp # {}
  /\ server' = "retired"
  /\ UNCHANGED <<registry, waiters, request, rules, run, stopped, paused, moves, stream>>

InvalidateServer ==
  /\ server = "retired"
  /\ server' = "invalidated"
  /\ LET taken == {c \in Mcp : status[c] = "Pending"}
     IN  RemoveAll(taken, "McpCatalogChanged", Cardinality(taken))
  /\ UNCHANGED <<waiter, verdict, request, rules, run, stopped, paused, moves>>

\* A person edits the file; a reload, under the gate, makes it the live one.
EditFile ==
  /\ moves < MaxMoves /\ moves' = moves + 1
  /\ \E p \in Prints, new \in {{"Ask"}, {"Deny"}} :
       /\ disk' = [disk EXCEPT ![p] = new]
  /\ UNCHANGED <<registry, waiters, request, gate, live, everLive, cutIn, stream>>

ReloadPermissions ==
  /\ gate = 0 /\ live # disk
  /\ live' = disk
  /\ everLive' = everLive \cup {p \in Prints : "Allow" \in disk[p]}
  /\ UNCHANGED <<registry, waiters, request, gate, disk, cutIn, moves,
                 stream>>

-----------------------------------------------------------------------------
Authorizer(c) ==
  \/ Evaluate(c) \/ Register(c) \/ Receive(c) \/ SeeCancel(c) \/ Leave(c) \/ Recheck(c)
  \/ Abandon(c)

\* Steps of a request that is under way; the others begin or drop one.
Serve(q) ==
  \/ DecideToStop(q) \/ LoadFile(q) \/ StoreRule(q) \/ InstallRule(q) \/ Resolve(q)
  \/ Restore(q) \/ DrainHead(q) \/ CheckCover(q) \/ ResolveByRule(q) \/ StopRun(q)
  \/ PauseQueue(q)

Client(q) == Decide(q) \/ RejectAndStop(q) \/ ReplaceDocument(q) \/ StoreFails(q) \/ HangUp(q)
             \/ StopRefused(q)

Next ==
  \/ \E c \in Calls : Authorizer(c)
  \/ \E q \in Requests : Serve(q) \/ Client(q)
  \/ CancelApprovals \/ CancelToken
  \/ \E c \in Children \ stopped : CancelChild(c)
  \/ RetireServer \/ InvalidateServer \/ EditFile \/ ReloadPermissions

\* As long as some task can go on, one does; persons, clients and cancellations may
\* never come.  A call may stay unanswered, but every task takes finitely many steps.
Progress ==
  \/ \E c \in Calls : Receive(c) \/ SeeCancel(c) \/ Leave(c) \/ Recheck(c) \/ Abandon(c)
  \/ \E q \in Requests : Serve(q)
  \/ CancelToken

Fairness == WF_vars(Progress)

Spec == Init /\ [][Next]_vars /\ Fairness

-----------------------------------------------------------------------------
\* Every variable keeps its type.
TypeOK ==
  /\ status \in [Calls -> {"none", "Pending", "Resolving"}]
  /\ revision \in {0, 1}
  /\ waiter \in [Calls -> {"idle", "asking", "waiting", "leaving", "recheck", "allowed",
                        "exempt", "denied"}]
  /\ verdict \in [Calls -> {"none", "allow", "rule", "deny"}]
  /\ signal \in [Calls -> Signals]
  /\ request \in [Requests -> Request] /\ gate \in Requests \cup {0}
  /\ disk \in [Prints -> SUBSET Effects] /\ live \in [Prints -> SUBSET Effects]
  /\ everLive \subseteq Prints
  /\ run \in {"running", "cancelling", "cancelled"} /\ stopped \subseteq Children
  /\ server \in {"live", "retired", "invalidated"} /\ paused \in BOOLEAN
  /\ moves \in 0..MaxMoves
  /\ known \subseteq Calls /\ told \in [Calls -> Allows \cup {"Deny", "Rule", "cancelled", "none"}]

\* Nobody waits for an approval that is not there, and none is left behind: an entry
\* has its waiter, a waiter without an entry has something in its channel.
EveryWaiterAnswerable ==
  \A c \in Calls :
    /\ c \in Pending => waiter[c] \in {"waiting", "leaving"} /\ signal[c] = "none"
    /\ waiter[c] = "waiting" /\ c \notin Pending => signal[c] # "none"

\* An approval that is being resolved belongs to exactly one request, whatever
\* cancellations, refreshes and dropped requests did to it, and one that waits to none.
ResolvingHasOneOwner ==
  \A c \in Calls :
    /\ status[c] = "Resolving" => Cardinality(Holders(c)) = 1
    /\ status[c] = "Pending"   => Holders(c) = {}

\* Nobody is left stranded by decisions, cancellations, refreshes and dropped requests.
NobodyIsStranded == TypeOK /\ EveryWaiterAnswerable /\ ResolvingHasOneOwner

\* What a client was told to have been decided is what happens: after an accepted Deny
\* the tool never runs, and a call that was asked about runs only after an accepted Allow.
AnswersAreObeyed ==
  \A c \in Calls :
    waiter[c] \in {"recheck", "allowed"} => told[c] \in Allows \cup {"Rule"}

\* The tool is let go with a permanent permission only after the rule has been stored
\* and installed (the comment on top of runtime/approval.rs).
RuleBeforeTool ==
  \A c \in Calls : signal[c] \in {"AllowSession", "Rule"} => PrintOf[c] \in everLive

\* A client that follows the events knows exactly the approvals there are.
EventsTellTheQueue == known = Pending

\* A permission that was replaced by Ask or Deny before the last look at the rules does
\* not let a call go that only the rule had allowed.
RuleStillHolds ==
  [][\A c \in Calls : waiter[c] = "recheck" /\ waiter'[c] = "allowed" /\ told[c] = "Rule"
                        => live[PrintOf[c]] \subseteq {"Allow"}]_vars

\* A rule lets a tool go from the moment it is in force and no longer than that.
RulesGuardTools == []RuleBeforeTool /\ RuleStillHolds

\* A request never keeps an approval for ever: it is answered, restored or given up.
ResolvingEnds == []<>(\A c \in Calls : status[c] # "Resolving")

=============================================================================
