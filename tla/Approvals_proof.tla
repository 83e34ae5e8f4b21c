---------------------------- MODULE Approvals_proof ----------------------------
(***************************************************************************)
(* Proofs about Approvals, for any calls, rules, requests and histories.   *)
(*                                                                         *)
(* Entries, waiters, channels and requests are changed one at a time and   *)
(* by different actors.  IInv says how they stay in step: what a waiter    *)
(* was sent is what clients were told (Heard), who holds an entry has      *)
(* taken it from a waiter that had registered (Held), and a request knows  *)
(* which rule it stores and has stored it before it answers (Ruled).       *)
(***************************************************************************)
EXTENDS Approvals, FiniteSetTheorems, TLAPS

Holds(q, c) == request[q].call = c /\ request[q].at \in Holding

\* The entry that is being resolved is held by one request, an entry that waits by none,
\* and nobody can hold an entry before its waiter has registered it.
Held ==
  \A c \in Calls :
    /\ status[c] = "Resolving" =>
         \E q \in Requests : Holds(q, c) /\ \A o \in Requests : Holds(o, c) => o = q
    /\ status[c] = "Pending" \/ waiter[c] \in {"idle", "asking"} =>
         \A q \in Requests : ~Holds(q, c)

\* A channel has something in it only while its waiter waits; permission in it, or taken
\* out of it, is what clients were told, and the entry is gone.
Heard ==
  \A c \in Calls :
    /\ waiter[c] # "waiting" => signal[c] = "none"
    /\ signal[c] \in Allows \cup {"Rule"} => told[c] = signal[c]
    /\ waiter[c] = "recheck" => verdict[c] # "deny"
    /\ waiter[c] \in {"leaving", "recheck"} /\ verdict[c] # "deny" =>
         /\ status[c] = "none"
         /\ told[c] \in Allows \cup {"Rule"}
         /\ told[c] = "Rule" => verdict[c] = "rule"

\* A request that works on an approval knows it, and answers only with what was decided.
Requested ==
  \A q \in Requests : LET r == request[q] IN
    /\ r.at \in Holding /\ r.call # 0 => r.call \in Calls
    /\ r.at \in {"begun", "loaded", "written", "rule", "covered", "failed", "stop"} =>
         r.call \in Calls
    /\ r.at = "begun" => r.decision \in Allows \cup {"Deny"} /\ r.attempt < 2
    /\ r.at = "loaded" \/ (r.at = "stored" /\ r.call # 0) \/ r.at = "written" =>
         r.decision = "AllowSession"

\* A rule that is in force has been installed, and a request that answers with a rule has
\* seen to it that this one is.
Ruled ==
  /\ \A p \in Prints : "Allow" \in live[p] => p \in everLive
  /\ \A q \in Requests : LET r == request[q] IN
       /\ r.at = "loaded" \/ (r.at = "stored" /\ r.call # 0) \/ r.at \in {"rule", "covered"} =>
            r.print = PrintOf[r.call]
       /\ r.at = "stored" => r.print \in Prints /\ "Allow" \in r.doc[r.print]
       /\ r.at = "written" => PrintOf[r.call] \in everLive
       /\ r.at = "covered" => r.print \in everLive
  /\ RuleBeforeTool

Places == {"idle", "stop", "begun", "loaded", "stored", "written", "draining", "rule", "covered",
           "failed", "stopping", "pausing"}

\* TypeOK in parts.
CallsTyped ==
  /\ status \in [Calls -> {"none", "Pending", "Resolving"}]
  /\ revision \in {0, 1}
  /\ waiter \in [Calls -> {"idle", "asking", "waiting", "leaving", "recheck", "allowed",
                        "exempt", "denied"}]
  /\ verdict \in [Calls -> {"none", "allow", "rule", "deny"}]
  /\ gate \in Requests \cup {0}
  /\ run \in {"running", "cancelling", "cancelled"} /\ stopped \subseteq Children
  /\ server \in {"live", "retired", "invalidated"} /\ paused \in BOOLEAN
  /\ moves \in 0..MaxMoves
  /\ known \subseteq Calls

SignalsTyped ==
  /\ signal \in [Calls -> Signals]
  /\ told \in [Calls -> Allows \cup {"Deny", "Rule", "cancelled", "none"}]

RulesTyped ==
  /\ disk \in [Prints -> SUBSET Effects] /\ live \in [Prints -> SUBSET Effects]
  /\ everLive \subseteq Prints

RequestsTyped == request \in [Requests -> Request]

IInv == TypeOK /\ EveryWaiterAnswerable /\ Held /\ Heard /\ Requested /\ Ruled
        /\ AnswersAreObeyed /\ EventsTellTheQueue

-----------------------------------------------------------------------------
(***************************************************************************)
(* The branches of the actions that choose, weakened to what the proofs    *)
(* need.  Every other action is a branch of its own (Branches).            *)
(***************************************************************************)

RegisterRefused(c) ==
  /\ waiter[c] = "asking" /\ waiter' = [waiter EXCEPT ![c] = "denied"]
  /\ UNCHANGED <<registry, verdict, signal, request, rules, cutIn, moves, stream>>

Registered(c) ==
  /\ waiter[c] = "asking" /\ waiter' = [waiter EXCEPT ![c] = "waiting"]
  /\ status' = [status EXCEPT ![c] = "Pending"] /\ revision' = Bumped(1)
  /\ Publish(status', {}, "none")
  /\ UNCHANGED <<verdict, signal, request, rules, cutIn, moves>>

\* The waiter has dropped its receiver.
Gone(c) == waiter' = [waiter EXCEPT ![c] = IF verdict[c] = "deny" THEN "denied" ELSE "recheck"]

LeaveEntry(c) ==
  /\ waiter[c] = "leaving" /\ c \in Pending /\ Gone(c)
  /\ RemoveAll({c}, "closed", 1)
  /\ UNCHANGED <<verdict, request, rules, cutIn, moves>>

LeaveNothing(c) ==
  /\ waiter[c] = "leaving" /\ c \notin Pending /\ Gone(c)
  /\ UNCHANGED <<registry, signal, stream, verdict, request, rules, cutIn, moves>>

\* The request q begins to resolve the entry of c, with r as its new state.
Takes(q, c, r) ==
  /\ status[c] = "Pending" /\ request[q].at \in {"idle", "stop", "draining"}
  /\ MarkResolving(c) /\ Set(q, r)
  /\ UNCHANGED <<waiters, rules, cutIn>> /\ moves' \in 0..MaxMoves

Decided(q, c) ==
  \E d \in Decisions, stop \in BOOLEAN :
    Takes(q, c, [NoRequest EXCEPT !.at = IF d = "AllowWorkspace" THEN "failed" ELSE "begun",
                                  !.call = c, !.decision = d, !.stop = stop])

Drained(q, c) ==
  /\ request[q].at = "draining" /\ PrintOf[c] = request[q].print
  /\ Takes(q, c, [request[q] EXCEPT !.at = "rule", !.call = c])

\* A request that holds nothing ends.
GivesUp(q) ==
  /\ request[q].at \in {"stop", "draining", "stopping", "pausing"} /\ Finish(q)
  /\ UNCHANGED <<registry, waiters, rules, run, stopped, server, moves, stream>>
  /\ paused' \in BOOLEAN

\* The document with the rule of the request in it.
Granted(r) == [r.doc EXCEPT ![r.print] = @ \cup {"Allow"}]

\* The file is not the one that was read.
Conflict(q) ==
  /\ request[q].at = "loaded"
  /\ \E at \in {"begun", "failed"} :
       Set(q, [request[q] EXCEPT !.at = at]) /\ (at = "begun" => request[q].attempt < 2)
  /\ gate' \in Requests \cup {0}
  /\ UNCHANGED <<registry, waiters, disk, live, everLive, cutIn, moves, stream>>

Stored(q) ==
  /\ request[q].at = "loaded"
  /\ Set(q, [request[q] EXCEPT !.at = "stored", !.doc = Granted(request[q])])
  /\ disk' \in {disk, Granted(request[q])}
  /\ UNCHANGED <<registry, waiters, gate, live, everLive, cutIn, moves, stream>>

\* A request gives up the rules; a decision restores its entry in a later step.
Forgets(q) ==
  /\ request[q].at = "stored" /\ request[q].call = 0 /\ Finish(q)
  /\ gate' \in Requests \cup {0}
  /\ UNCHANGED <<registry, waiters, disk, live, everLive, cutIn, moves, stream>>

Fails(q) ==
  /\ request[q].at \in {"begun", "loaded", "stored"} /\ request[q].call # 0 /\ Go(q, "failed")
  /\ gate' \in Requests \cup {0}
  /\ UNCHANGED <<registry, waiters, disk, live, everLive, cutIn, moves, stream>>

\* The request q sends s to the waiter of c, with r as its new state.
Answers(q, c, s, r) ==
  /\ c = request[q].call /\ c \in Pending /\ waiter[c] = "waiting"
  /\ SendSignal(c, s) /\ Set(q, r)
  /\ UNCHANGED <<waiter, verdict, rules, cutIn, moves>>

\* The receiver or the entry has gone before the answer comes.
TooLate(q) ==
  /\ request[q].at \in {"begun", "written", "covered"}
  /\ LET c == request[q].call
     IN  \/ c \in Pending /\ waiter[c] # "waiting" /\ RemoveQuietly(c)
         \/ c \notin Pending /\ Reread(status) /\ UNCHANGED <<registry, signal>>
  /\ Go(q, "failed")
  /\ UNCHANGED <<waiter, verdict, rules, cutIn, moves>>

Restored(q) ==
  /\ request[q].at = "failed" /\ Finish(q)
  /\ LET c == request[q].call
     IN  \/ /\ c \in Pending
            /\ status' = [status EXCEPT ![c] = "Pending"] /\ revision' = Bumped(1)
            /\ Reread(status')
         \/ c \notin Pending /\ UNCHANGED <<registry, stream>>
  /\ UNCHANGED <<waiters, rules, cutIn, moves>>

Resolved(q) ==
  /\ ReadyToResolve(q)
  /\ Answers(q, request[q].call, request[q].decision, AfterAnswer(request[q]))

Ruling(q) ==
  /\ request[q].at = "covered"
  /\ Answers(q, request[q].call, "Rule", [request[q] EXCEPT !.at = "draining", !.call = 0])

OfCall(c) ==
  \/ Evaluate(c) \/ RegisterRefused(c) \/ Registered(c) \/ Receive(c) \/ SeeCancel(c)
  \/ LeaveEntry(c) \/ LeaveNothing(c) \/ Recheck(c) \/ Abandon(c)

OfRequest(q) ==
  \/ \E c \in Calls : Decided(q, c) \/ Drained(q, c)
  \/ TooLate(q) \/ Restored(q)
  \/ RejectAndStop(q) \/ GivesUp(q) \/ LoadFile(q) \/ Conflict(q) \/ Stored(q) 
  \/ Forgets(q) \/ Fails(q)
  \/ InstallRule(q) \/ Resolved(q) \/ CheckCover(q) \/ Ruling(q) \/ ReplaceDocument(q)
  \/ StopRun(q)

OfOthers ==
  \/ CancelApprovals \/ CancelToken \/ \E c \in Children \ stopped : CancelChild(c)
  \/ RetireServer \/ InvalidateServer \/ EditFile \/ ReloadPermissions
-----------------------------------------------------------------------------
\* The exact rule of a call is one of the rules.
LEMMA PrintsOfCalls == ASSUME NEW c \in Calls PROVE PrintOf[c] \in Prints
BY DEF Prints

\* The fields of a request that is typed.
LEMMA RequestFields ==
  ASSUME RequestsTyped, NEW q \in Requests
  PROVE  /\ request[q] \in Request
         /\ request[q].call \in Calls \cup {0} /\ request[q].decision \in Decisions \cup {"none"}
         /\ request[q].stop \in BOOLEAN /\ request[q].print \in Prints \cup {0}
         /\ request[q].doc \in [Prints -> SUBSET Effects] /\ request[q].attempt \in 0..2
BY DEF RequestsTyped, Request

\* A step is a step of one of the branches, under what IInv says of the state.
LEMMA Branches ==
  ASSUME IInv, Next
  PROVE  \/ \E c \in Calls : OfCall(c)
         \/ \E q \in Requests : OfRequest(q)
         \/ OfOthers
<1> USE CallsAssumption, BoundsAssumption DEF IInv
<1>1. ASSUME NEW c \in Calls, Authorizer(c) PROVE OfCall(c)
  <2>1. ASSUME Register(c) PROVE RegisterRefused(c) \/ Registered(c)
    BY <2>1 DEF Register, RegisterRefused, Registered, registry
  <2>2. ASSUME Leave(c) PROVE LeaveEntry(c) \/ LeaveNothing(c)
    BY <2>2 DEF Leave, LeaveEntry, LeaveNothing, Gone
  <2> QED
    BY <1>1, <2>1, <2>2 DEF Authorizer, OfCall
<1>2. ASSUME NEW q \in Requests, Serve(q) \/ Client(q) PROVE OfRequest(q)
  <2>1. ASSUME NEW c \in Calls, NEW d \in Decisions, NEW stop \in BOOLEAN, Begin(q, c, d, stop),
               request[q].at \in {"idle", "stop"}, UNCHANGED <<waiters, rules, cutIn>>,
               moves' \in 0..MaxMoves
        PROVE  Decided(q, c)
    BY <2>1 DEF Begin, Decided, Takes
  <2>2. ASSUME Decide(q) PROVE \E c \in Calls : Decided(q, c)
    <3>1. moves' \in 0..MaxMoves /\ request[q].at = "idle" /\ UNCHANGED <<waiters, rules, cutIn>>
      BY <2>2 DEF Decide, Arrives, TypeOK
    <3>2. PICK c \in Calls, d \in Decisions : Begin(q, c, d, FALSE)
      BY <2>2 DEF Decide
    <3> QED
      BY <2>1, <3>1, <3>2
  <2>3. ASSUME DecideToStop(q) PROVE GivesUp(q) \/ \E c \in Calls : Decided(q, c)
    <3> DEFINE c == request[q].call
    <3>1. request[q].at = "stop" /\ UNCHANGED <<waiters, rules, cutIn, moves>>
      BY <2>3 DEF DecideToStop
    <3>2. CASE Finish(q) /\ UNCHANGED <<registry, stream>>
      BY <3>1, <3>2 DEF GivesUp, cutIn, TypeOK
    <3>3. CASE Begin(q, c, "Deny", TRUE)
      <4>1. c \in Calls /\ "Deny" \in Decisions /\ moves' \in 0..MaxMoves
        BY <3>1 DEF Requested, Decisions, TypeOK
      <4> QED
        BY <2>1, <3>1, <3>3, <4>1
    <3> QED
      BY <2>3, <3>2, <3>3 DEF DecideToStop
  <2>4. ASSUME StoreRule(q) PROVE Conflict(q) \/ Stored(q)
    <3> DEFINE r == request[q]
               new == Granted(r)
    <3>1. r.at = "loaded" /\ UNCHANGED <<registry, waiters, live, everLive, cutIn, moves, stream>>
      BY <2>4 DEF StoreRule
    <3>2. CASE new # r.doc /\ disk # r.doc
      <4>1. PICK at \in {"begun", "failed"} :
              Set(q, [r EXCEPT !.at = at]) /\ (at = "begun" => r.attempt < 2)
        BY <2>4, <3>2 DEF StoreRule, Granted
      <4>2. gate' \in Requests \cup {0} /\ UNCHANGED disk
        BY <2>4, <3>2 DEF StoreRule, Granted
      <4> QED
        BY <3>1, <4>1, <4>2 DEF Conflict
    <3>3. CASE ~(new # r.doc /\ disk # r.doc)
      <4>1. Set(q, [r EXCEPT !.at = "stored", !.doc = new]) /\ UNCHANGED gate
        BY <2>4, <3>3 DEF StoreRule, Granted
      <4>2. disk' \in {disk, new}
        BY <2>4, <3>3 DEF StoreRule, Granted
      <4> QED
        BY <3>1, <4>1, <4>2 DEF Stored
    <3> QED
      BY <3>2, <3>3
  <2>5. ASSUME HangUp(q) \/ StoreFails(q) PROVE Forgets(q) \/ Fails(q)
    <3>1. /\ request[q].at \in {"begun", "loaded", "stored"}
          /\ gate' \in Requests \cup {0}
          /\ UNCHANGED <<registry, waiters, disk, live, everLive, cutIn, moves, stream>>
      BY <2>5 DEF HangUp, StoreFails, TypeOK
    <3>2. CASE request[q].call = 0
      <4>1. request[q].at = "stored"
        BY <3>1, <3>2 DEF Requested
      <4> QED
        BY <2>5, <3>1, <3>2, <4>1 DEF HangUp, StoreFails, Forgets
    <3>3. CASE request[q].call # 0
      <4>1. Go(q, "failed")
        BY <2>5, <3>3 DEF HangUp, StoreFails
      <4> QED
        BY <3>1, <3>3, <4>1 DEF Fails
    <3> QED
      BY <3>2, <3>3
  <2>6. ASSUME Resolve(q) PROVE Resolved(q) \/ TooLate(q)
    BY <2>6 DEF Resolve, Resolved, TooLate, Answers, ReadyToResolve
  <2>7. ASSUME ResolveByRule(q) PROVE Ruling(q) \/ TooLate(q)
    BY <2>7 DEF ResolveByRule, Ruling, TooLate, Answers
  <2>8. ASSUME Restore(q) PROVE Restored(q)
    BY <2>8 DEF Restore, Restored, registry
  <2>9. ASSUME DrainHead(q) PROVE GivesUp(q) \/ \E c \in Calls : Drained(q, c)
    <3>1. request[q].at = "draining" /\ UNCHANGED <<waiters, rules, cutIn, moves>>
      BY <2>9 DEF DrainHead
    <3>2. CASE Finish(q) /\ UNCHANGED <<registry, stream>>
      BY <3>1, <3>2 DEF GivesUp, cutIn, TypeOK
    <3>3. CASE \E c \in Calls :
                 /\ status[c] = "Pending" /\ PrintOf[c] = request[q].print /\ MarkResolving(c)
                 /\ Set(q, [request[q] EXCEPT !.at = "rule", !.call = c])
      BY <3>1, <3>3 DEF Drained, Takes, TypeOK
    <3> QED
      BY <2>9, <3>2, <3>3 DEF DrainHead
  <2>10. ASSUME StopRefused(q) \/ PauseQueue(q) PROVE GivesUp(q)
    BY <2>10 DEF StopRefused, PauseQueue, GivesUp, cutIn, TypeOK
  <2> QED
    BY <1>2, <2>2, <2>3, <2>4, <2>5, <2>6, <2>7, <2>8, <2>9, <2>10 DEF Serve, Client, OfRequest
<1> QED
  BY <1>1, <1>2 DEF Next, OfOthers

\* Every step keeps the types of what belongs to calls, and of what cuts in.
LEMMA CallsTypedStep == IInv /\ [Next]_vars => CallsTyped'
<1> SUFFICES ASSUME IInv, [Next]_vars PROVE CallsTyped'
  OBVIOUS
<1> USE CallsAssumption, BoundsAssumption DEF IInv, CallsTyped, TypeOK, Pending, Requested,
        registry, waiters, rules, cutIn, stream
<1>1. CASE UNCHANGED <<registry, waiter, verdict, gate, cutIn, moves, known>>
  BY <1>1
<1>2. ASSUME NEW c \in Calls, Evaluate(c) PROVE CallsTyped'
  BY <1>2 DEF Evaluate
<1>3. ASSUME NEW c \in Calls, RegisterRefused(c) PROVE CallsTyped'
  BY <1>3 DEF RegisterRefused
<1>4. ASSUME NEW c \in Calls, Registered(c) PROVE CallsTyped'
  BY <1>4 DEF Registered, Publish, Bumped
<1>5. ASSUME NEW c \in Calls, Receive(c) PROVE CallsTyped'
  BY <1>5 DEF Receive, Meaning
<1>6. ASSUME NEW c \in Calls, SeeCancel(c) PROVE CallsTyped'
  BY <1>6 DEF SeeCancel
<1>7. ASSUME NEW c \in Calls, LeaveEntry(c) PROVE CallsTyped'
  BY <1>7 DEF LeaveEntry, Gone, RemoveAll, Publish, Bumped
<1>8. ASSUME NEW c \in Calls, LeaveNothing(c) PROVE CallsTyped'
  BY <1>8 DEF LeaveNothing, Gone
<1>9. ASSUME NEW c \in Calls, Recheck(c) PROVE CallsTyped'
  BY <1>9 DEF Recheck
<1>10. ASSUME NEW c \in Calls, Abandon(c) PROVE CallsTyped'
  BY <1>10 DEF Abandon
<1>11. ASSUME NEW q \in Requests, NEW c \in Calls, Decided(q, c) PROVE CallsTyped'
  BY <1>11 DEF Decided, Takes, MarkResolving, Set, NoRequest, Reread, Publish, Bumped
<1>12. ASSUME NEW q \in Requests, RejectAndStop(q) PROVE CallsTyped'
  BY <1>12 DEF RejectAndStop, Arrives, Set, NoRequest
<1>13. ASSUME NEW q \in Requests, GivesUp(q) PROVE CallsTyped'
  BY <1>13 DEF GivesUp, Finish, Set, NoRequest
<1>14. ASSUME NEW q \in Requests, NEW c \in Calls, Drained(q, c) PROVE CallsTyped'
  BY <1>14 DEF Drained, Takes, MarkResolving, Set, Reread, Publish, Bumped
<1>15. ASSUME NEW q \in Requests, LoadFile(q) PROVE CallsTyped'
  BY <1>15 DEF LoadFile, Set
<1>16. ASSUME NEW q \in Requests, Conflict(q) PROVE CallsTyped'
  BY <1>16 DEF Conflict, Set
<1>17. ASSUME NEW q \in Requests, Forgets(q) PROVE CallsTyped'
  BY <1>17 DEF Forgets, Finish, Set, NoRequest
<1>18. ASSUME NEW q \in Requests, Fails(q) PROVE CallsTyped'
  BY <1>18 DEF Fails, Go, Set, NoRequest
<1>19. ASSUME NEW q \in Requests, InstallRule(q) PROVE CallsTyped'
  BY <1>19 DEF InstallRule, Set, NoRequest
<1>20. ASSUME NEW q \in Requests, Resolved(q) PROVE CallsTyped'
  BY <1>20 DEF Resolved, Answers, AfterAnswer, ReadyToResolve, SendSignal, Set, NoRequest,
     Publish, Bumped
<1>21. ASSUME NEW q \in Requests, TooLate(q) PROVE CallsTyped'
  BY <1>21 DEF TooLate, RemoveQuietly, Go, Set, NoRequest, Reread, Publish, Bumped
<1>22. ASSUME NEW q \in Requests, Restored(q) PROVE CallsTyped'
  <2>1. UNCHANGED <<waiters, rules, cutIn, moves>>
    BY <1>22 DEF Restored
  <2>2. CASE UNCHANGED <<registry, stream>>
    BY <2>1, <2>2
  <2>3. CASE /\ request[q].call \in Pending
             /\ status' = [status EXCEPT ![request[q].call] = "Pending"]
             /\ revision' = Bumped(1) /\ Reread(status')
    BY <2>1, <2>3 DEF Reread, Publish, Bumped
  <2> QED
    BY <1>22, <2>2, <2>3 DEF Restored
<1>23. ASSUME NEW q \in Requests, Ruling(q) PROVE CallsTyped'
  BY <1>23 DEF Ruling, Answers, SendSignal, Set, NoRequest, Publish, Bumped
<1>24. ASSUME NEW q \in Requests, ReplaceDocument(q) PROVE CallsTyped'
  BY <1>24 DEF ReplaceDocument, Arrives, Set, NoRequest
<1>25. ASSUME CancelApprovals PROVE CallsTyped'
  BY <1>25 DEF CancelApprovals, TakePending, RemoveAll, Publish, Bumped
<1>26. ASSUME CancelToken PROVE CallsTyped'
  BY <1>26 DEF CancelToken
<1>27. ASSUME NEW q \in Requests, StopRun(q) PROVE CallsTyped'
  BY <1>27 DEF StopRun, TakePending, RemoveAll, Go, Set, NoRequest, Publish, Bumped
<1>28. ASSUME NEW c \in Children, CancelChild(c) PROVE CallsTyped'
  BY <1>28 DEF CancelChild
<1>29. ASSUME RetireServer PROVE CallsTyped'
  BY <1>29 DEF RetireServer
<1>30. ASSUME InvalidateServer PROVE CallsTyped'
  BY <1>30 DEF InvalidateServer, RemoveAll, Publish, Bumped
<1>31. ASSUME EditFile PROVE CallsTyped'
  BY <1>31 DEF EditFile
<1>32. ASSUME NEW q \in Requests, Stored(q) \/ CheckCover(q)
      PROVE  CallsTyped'
  BY <1>1, <1>32 DEF Stored, CheckCover
<1>33. ASSUME ReloadPermissions
      PROVE  CallsTyped'
  BY <1>1, <1>33 DEF ReloadPermissions
<1>34. CASE UNCHANGED vars
  BY <1>1, <1>34 DEF vars
<1> QED
  BY <1>2, <1>3, <1>4, <1>5, <1>6, <1>7, <1>8, <1>9, <1>10, <1>11, <1>12, <1>13, <1>14, <1>15,
     <1>16, <1>17, <1>18, <1>19, <1>20, <1>21, <1>22, <1>23, <1>24, <1>25, <1>26, <1>27, <1>28,
     <1>29, <1>30, <1>31, <1>32, <1>33, <1>34, Branches DEF OfCall, OfRequest, OfOthers

\* Every step keeps the types of channels and of what clients were told.
LEMMA SignalsTypedStep == IInv /\ [Next]_vars => SignalsTyped'
<1> SUFFICES ASSUME IInv, [Next]_vars PROVE SignalsTyped'
  OBVIOUS
<1> USE CallsAssumption, BoundsAssumption DEF IInv, TypeOK, SignalsTyped, Signals, Allows,
        Requested, Pending, Holding, registry, waiters, rules, cutIn, stream
<1>1. CASE UNCHANGED <<signal, told>>
  BY <1>1
<1>2. ASSUME NEW c \in Calls, Registered(c) PROVE SignalsTyped'
  BY <1>2 DEF Registered, Publish, Bumped
<1>3. ASSUME NEW c \in Calls, Receive(c) PROVE SignalsTyped'
  BY <1>3 DEF Receive, Meaning
<1>4. ASSUME NEW c \in Calls, SeeCancel(c) PROVE SignalsTyped'
  BY <1>4 DEF SeeCancel
<1>5. ASSUME NEW c \in Calls, LeaveEntry(c) PROVE SignalsTyped'
  BY <1>5 DEF LeaveEntry, Gone, RemoveAll, Publish, Bumped
<1>6. ASSUME NEW q \in Requests, NEW c \in Calls, Decided(q, c) PROVE SignalsTyped'
  BY <1>6 DEF Decided, Takes, MarkResolving, Set, NoRequest, Reread, Publish, Bumped
<1>7. ASSUME NEW q \in Requests, NEW c \in Calls, Drained(q, c) PROVE SignalsTyped'
  BY <1>7 DEF Drained, Takes, MarkResolving, Set, Reread, Publish, Bumped
<1>8. ASSUME NEW q \in Requests, Resolved(q) PROVE SignalsTyped'
  BY <1>8 DEF Resolved, Answers, AfterAnswer, ReadyToResolve, SendSignal, Set, NoRequest, Publish,
     Bumped
<1>9. ASSUME NEW q \in Requests, TooLate(q) PROVE SignalsTyped'
  BY <1>9 DEF TooLate, RemoveQuietly, Go, Set, NoRequest, Reread, Publish, Bumped
<1>10. ASSUME NEW q \in Requests, Restored(q) PROVE SignalsTyped'
  BY <1>10 DEF Restored, Finish, Set, NoRequest, Reread, Publish, Bumped
<1>11. ASSUME NEW q \in Requests, Ruling(q) PROVE SignalsTyped'
  BY <1>11 DEF Ruling, Answers, SendSignal, Set, NoRequest, Publish, Bumped
<1>12. ASSUME CancelApprovals PROVE SignalsTyped'
  BY <1>12 DEF CancelApprovals, TakePending, RemoveAll, Publish, Bumped
<1>13. ASSUME NEW q \in Requests, StopRun(q) PROVE SignalsTyped'
  BY <1>13 DEF StopRun, TakePending, RemoveAll, Go, Set, NoRequest, Publish, Bumped
<1>14. ASSUME InvalidateServer PROVE SignalsTyped'
  BY <1>14 DEF InvalidateServer, RemoveAll, Publish, Bumped
<1>15. ASSUME NEW c \in Calls, Evaluate(c) \/ RegisterRefused(c) \/ LeaveNothing(c) \/ Recheck(c)
             \/ Abandon(c)
      PROVE  SignalsTyped'
  BY <1>1, <1>15 DEF Evaluate, RegisterRefused, LeaveNothing, Recheck, Abandon
<1>16. ASSUME NEW q \in Requests, RejectAndStop(q) \/ GivesUp(q) \/ LoadFile(q) \/ Conflict(q) \/
             Stored(q) \/ Forgets(q) \/ Fails(q) \/ InstallRule(q) \/ CheckCover(q) \/
             ReplaceDocument(q)
      PROVE  SignalsTyped'
  BY <1>1, <1>16 DEF RejectAndStop, GivesUp, LoadFile, Conflict, Stored, Forgets, Fails,
     InstallRule, CheckCover, ReplaceDocument
<1>17. ASSUME CancelToken \/ (\E c \in Children : CancelChild(c)) \/ RetireServer \/ EditFile \/
             ReloadPermissions
      PROVE  SignalsTyped'
  BY <1>1, <1>17 DEF CancelToken, CancelChild, RetireServer, EditFile, ReloadPermissions
<1>18. CASE UNCHANGED vars
  BY <1>1, <1>18 DEF vars
<1> QED
  BY <1>2, <1>3, <1>4, <1>5, <1>6, <1>7, <1>8, <1>9, <1>10, <1>11, <1>12, <1>13, <1>14, <1>15,
     <1>16, <1>17, <1>18, Branches DEF OfCall, OfRequest, OfOthers

\* Every step keeps the types of the rules: what is installed was read or granted.
LEMMA RulesTypedStep == IInv /\ [Next]_vars => RulesTyped'
<1> SUFFICES ASSUME IInv, [Next]_vars PROVE RulesTyped'
  OBVIOUS
<1> USE CallsAssumption, BoundsAssumption DEF IInv, TypeOK, RulesTyped, Effects, Ruled, Request,
        registry, waiters, rules, cutIn, stream
<1>1. CASE UNCHANGED <<disk, live, everLive>>
  BY <1>1
<1>2. ASSUME NEW q \in Requests, Stored(q) PROVE RulesTyped'
  BY <1>2 DEF Stored, Granted, Set
<1>3. ASSUME NEW q \in Requests, InstallRule(q) PROVE RulesTyped'
  BY <1>3 DEF InstallRule, Set, NoRequest
<1>4. ASSUME NEW q \in Requests, ReplaceDocument(q) PROVE RulesTyped'
  BY <1>4 DEF ReplaceDocument, Arrives, Set, NoRequest
<1>5. ASSUME EditFile PROVE RulesTyped'
  BY <1>5 DEF EditFile
<1>6. ASSUME ReloadPermissions PROVE RulesTyped'
  BY <1>6 DEF ReloadPermissions
<1>7. ASSUME NEW c \in Calls, Evaluate(c) \/ RegisterRefused(c) \/ Registered(c) \/ Receive(c) \/
             SeeCancel(c) \/ LeaveEntry(c) \/ LeaveNothing(c) \/ Recheck(c) \/ Abandon(c)
      PROVE  RulesTyped'
  BY <1>1, <1>7 DEF Evaluate, RegisterRefused, Registered, Receive, SeeCancel, LeaveEntry,
     LeaveNothing, Recheck, Abandon
<1>8. ASSUME NEW q \in Requests, (\E c \in Calls : Decided(q, c)) \/ RejectAndStop(q) \/
             GivesUp(q) \/ (\E c \in Calls : Drained(q, c)) \/ LoadFile(q) \/ Conflict(q) \/
             Forgets(q) \/ Fails(q) \/ Resolved(q) \/ TooLate(q) \/ Restored(q) \/ CheckCover(q)
             \/ Ruling(q) \/ StopRun(q)
      PROVE  RulesTyped'
  BY <1>1, <1>8 DEF Decided, RejectAndStop, GivesUp, Drained, LoadFile, Conflict, Forgets, Fails,
     Resolved, TooLate, Restored, CheckCover, Ruling, StopRun, Takes, Go, Answers, SendSignal
<1>9. ASSUME CancelApprovals \/ CancelToken \/ (\E c \in Children : CancelChild(c)) \/
             RetireServer \/ InvalidateServer
      PROVE  RulesTyped'
  BY <1>1, <1>9 DEF CancelApprovals, CancelToken, CancelChild, RetireServer, InvalidateServer
<1>10. CASE UNCHANGED vars
  BY <1>1, <1>10 DEF vars
<1> QED
  BY <1>2, <1>3, <1>4, <1>5, <1>6, <1>7, <1>8, <1>9, <1>10, Branches DEF OfCall, OfRequest,
     OfOthers

\* The slot of no request.
LEMMA NoRequestTyped == NoRequest \in Request
<1>1. [p \in Prints |-> {}] \in [Prints -> SUBSET Effects]
  OBVIOUS
<1> QED
  BY <1>1 DEF NoRequest, Request

\* Requests change one at a time.
LEMMA SetTyped ==
  ASSUME RequestsTyped, NEW q \in Requests, NEW r \in Request, Set(q, r)
  PROVE  RequestsTyped'
BY DEF RequestsTyped, Set

\* A request that goes on keeps what it works on.
LEMMA GoTyped ==
  ASSUME RequestsTyped, NEW q \in Requests, NEW at \in Places, Go(q, at)
  PROVE  RequestsTyped'
<1> DEFINE r == [NoRequest EXCEPT !.at = at, !.call = request[q].call,
                                  !.decision = request[q].decision,
                                  !.stop = request[q].stop, !.print = request[q].print]
<1>1. r \in Request
  BY RequestFields, NoRequestTyped DEF Request, Places
<1>2. Set(q, r)
  BY DEF Go
<1> QED
  BY <1>1, <1>2, SetTyped

\* Every step keeps the types of requests.
LEMMA RequestsTypedStep == IInv /\ [Next]_vars => RequestsTyped'
<1> SUFFICES ASSUME IInv, [Next]_vars PROVE RequestsTyped'
  OBVIOUS
<1>1. RequestsTyped /\ Requested /\ disk \in [Prints -> SUBSET Effects]
  BY DEF IInv, TypeOK, RequestsTyped
<1>2. CASE UNCHANGED request
  BY <1>1, <1>2 DEF RequestsTyped
<1>3. ASSUME NEW q \in Requests, GivesUp(q) \/ Forgets(q) \/ Restored(q) PROVE RequestsTyped'
  BY <1>1, <1>3, NoRequestTyped, SetTyped DEF GivesUp, Forgets, Restored, Finish
<1>4. ASSUME NEW q \in Requests, Fails(q) \/ TooLate(q) \/ CheckCover(q) \/ StopRun(q)
      PROVE  RequestsTyped'
  <2>1. PICK at \in Places : Go(q, at)
    BY <1>4 DEF Fails, TooLate, CheckCover, StopRun, Places
  <2> QED
    BY <1>1, <2>1, GoTyped
<1>5. ASSUME NEW q \in Requests, NEW c \in Calls, Decided(q, c) PROVE RequestsTyped'
  <2>1. PICK d \in Decisions, stop \in BOOLEAN :
          Takes(q, c, [NoRequest EXCEPT !.at = IF d = "AllowWorkspace" THEN "failed" ELSE "begun",
                                        !.call = c, !.decision = d, !.stop = stop])
    BY <1>5 DEF Decided
  <2>2. [NoRequest EXCEPT !.at = IF d = "AllowWorkspace" THEN "failed" ELSE "begun",
                          !.call = c, !.decision = d, !.stop = stop] \in Request
    BY NoRequestTyped DEF Request
  <2> QED
    BY <1>1, <2>1, <2>2, SetTyped DEF Takes
<1>6. ASSUME NEW q \in Requests, RejectAndStop(q) PROVE RequestsTyped'
  <2>1. PICK c \in Pending : Set(q, [NoRequest EXCEPT !.at = "stop", !.call = c])
    BY <1>6 DEF RejectAndStop
  <2>2. [NoRequest EXCEPT !.at = "stop", !.call = c] \in Request
    BY NoRequestTyped DEF Request, Pending
  <2> QED
    BY <1>1, <2>1, <2>2, SetTyped
<1>7. ASSUME NEW q \in Requests, NEW c \in Calls, Drained(q, c) PROVE RequestsTyped'
  <2>1. [request[q] EXCEPT !.at = "rule", !.call = c] \in Request
    BY <1>1, RequestFields DEF Request
  <2> QED
    BY <1>1, <1>7, <2>1, SetTyped DEF Drained, Takes
<1>8. ASSUME NEW q \in Requests, LoadFile(q) PROVE RequestsTyped'
  <2> DEFINE p == PrintOf[request[q].call]
             n == request[q].attempt + 1
  <2>1. p \in Prints
    BY <1>1, <1>8 DEF LoadFile, Requested, Prints
  <2>2. n \in 0..2
    BY <1>1, <1>8, RequestFields DEF LoadFile, Requested
  <2>3. Set(q, [request[q] EXCEPT !.at = "loaded", !.print = p, !.doc = disk, !.attempt = n])
    BY <1>8 DEF LoadFile
  <2>4. request[q] \in Request
    BY <1>1, RequestFields
  <2> HIDE DEF p, n
  <2>5. [request[q] EXCEPT !.at = "loaded", !.print = p, !.doc = disk, !.attempt = n] \in Request
    BY <1>1, <2>1, <2>2, <2>4 DEF Request
  <2> QED
    BY <1>1, <2>3, <2>5, SetTyped
<1>9. ASSUME NEW q \in Requests, Conflict(q) PROVE RequestsTyped'
  <2>1. PICK at \in {"begun", "failed"} : Set(q, [request[q] EXCEPT !.at = at])
    BY <1>9 DEF Conflict
  <2>2. [request[q] EXCEPT !.at = at] \in Request
    BY <1>1, RequestFields DEF Request
  <2> QED
    BY <1>1, <2>1, <2>2, SetTyped
<1>10. ASSUME NEW q \in Requests, Stored(q) PROVE RequestsTyped'
  <2> DEFINE doc == Granted(request[q])
  <2>1. doc \in [Prints -> SUBSET Effects]
    <3>1. request[q].doc \in [Prints -> SUBSET Effects]
      BY <1>1, RequestFields
    <3> QED
      BY <3>1 DEF Granted, Effects
  <2>2. Set(q, [request[q] EXCEPT !.at = "stored", !.doc = doc])
    BY <1>10 DEF Stored
  <2> HIDE DEF doc
  <2>3. [request[q] EXCEPT !.at = "stored", !.doc = doc] \in Request
    BY <1>1, <2>1, RequestFields DEF Request
  <2> QED
    BY <1>1, <2>2, <2>3, SetTyped
<1>11. ASSUME NEW q \in Requests, InstallRule(q) PROVE RequestsTyped'
  <2>1. [request[q] EXCEPT !.at = "written"] \in Request
    BY <1>1, RequestFields DEF Request
  <2>2. [NoRequest EXCEPT !.at = "draining", !.print = request[q].print] \in Request
    BY <1>1, RequestFields, NoRequestTyped DEF Request
  <2> QED
    BY <1>1, <1>11, <2>1, <2>2, SetTyped DEF InstallRule
<1>12. ASSUME NEW q \in Requests, Resolved(q) PROVE RequestsTyped'
  <2>1. AfterAnswer(request[q]) \in Request
    <3>1. CASE request[q].decision = "AllowSession"
      <4>1. PrintOf[request[q].call] \in Prints
        BY <1>1, <1>12, <3>1 DEF Resolved, ReadyToResolve, Requested, Prints
      <4>2. [NoRequest EXCEPT !.at = "draining", !.print = PrintOf[request[q].call]] \in Request
        BY <4>1, NoRequestTyped DEF Request
      <4> QED
        BY <3>1, <4>2 DEF AfterAnswer
    <3>2. [NoRequest EXCEPT !.at = "stopping", !.call = request[q].call] \in Request
      BY <1>1, RequestFields, NoRequestTyped DEF Request
    <3> QED
      BY <3>1, <3>2, NoRequestTyped DEF AfterAnswer
  <2> QED
    BY <1>1, <1>12, <2>1, SetTyped DEF Resolved, Answers
<1>13. ASSUME NEW q \in Requests, Ruling(q) PROVE RequestsTyped'
  <2>1. [request[q] EXCEPT !.at = "draining", !.call = 0] \in Request
    BY <1>1, RequestFields DEF Request
  <2> QED
    BY <1>1, <1>13, <2>1, SetTyped DEF Ruling, Answers
<1>14. ASSUME NEW q \in Requests, ReplaceDocument(q) PROVE RequestsTyped'
  <2>1. PICK p \in Prints : /\ disk' = [disk EXCEPT ![p] = {"Allow"}]
                           /\ Set(q, [NoRequest EXCEPT !.at = "stored", !.print = p, !.doc = disk'])
    BY <1>14 DEF ReplaceDocument
  <2>2. disk' \in [Prints -> SUBSET Effects]
    BY <1>1, <2>1 DEF Effects
  <2>3. [NoRequest EXCEPT !.at = "stored", !.print = p, !.doc = disk'] \in Request
    BY <2>2, NoRequestTyped DEF Request
  <2> QED
    BY <1>1, <2>1, <2>3, SetTyped
<1>15. ASSUME NEW c \in Calls, OfCall(c) PROVE RequestsTyped'
  BY <1>2, <1>15 DEF OfCall, Evaluate, RegisterRefused, Registered, Receive, SeeCancel,
     LeaveEntry, LeaveNothing, Recheck, Abandon
<1>16. CASE OfOthers
  BY <1>2, <1>16 DEF OfOthers, CancelApprovals, CancelToken, CancelChild, RetireServer,
     InvalidateServer, EditFile, ReloadPermissions
<1>17. CASE UNCHANGED vars
  BY <1>2, <1>17 DEF vars
<1> QED
  BY <1>3, <1>4, <1>5, <1>6, <1>7, <1>8, <1>9, <1>10, <1>11, <1>12, <1>13, <1>14, <1>15, <1>16,
     <1>17, Branches DEF OfRequest

\* An entry and its waiter come together; whoever takes the entry fills the channel.
LEMMA WaiterStep == IInv /\ [Next]_vars => EveryWaiterAnswerable'
<1> SUFFICES ASSUME IInv, [Next]_vars PROVE EveryWaiterAnswerable'
  OBVIOUS
<1> USE CallsAssumption, BoundsAssumption DEF IInv, EveryWaiterAnswerable, Heard, TypeOK, Pending,
        Allows, Requested, Holding, registry, waiters, rules, cutIn, stream
<1>1. CASE UNCHANGED <<status, waiter, signal>>
  BY <1>1
<1>2. ASSUME NEW c \in Calls, Evaluate(c) PROVE EveryWaiterAnswerable'
  BY <1>2 DEF Evaluate
<1>3. ASSUME NEW c \in Calls, RegisterRefused(c) PROVE EveryWaiterAnswerable'
  BY <1>3 DEF RegisterRefused
<1>4. ASSUME NEW c \in Calls, Registered(c) PROVE EveryWaiterAnswerable'
  BY <1>4 DEF Registered, Publish, Bumped
<1>5. ASSUME NEW c \in Calls, Receive(c) PROVE EveryWaiterAnswerable'
  BY <1>5 DEF Receive, Meaning
<1>6. ASSUME NEW c \in Calls, SeeCancel(c) PROVE EveryWaiterAnswerable'
  BY <1>6 DEF SeeCancel
<1>7. ASSUME NEW c \in Calls, LeaveEntry(c) PROVE EveryWaiterAnswerable'
  BY <1>7 DEF LeaveEntry, Gone, RemoveAll, Publish, Bumped
<1>8. ASSUME NEW c \in Calls, LeaveNothing(c) PROVE EveryWaiterAnswerable'
  BY <1>8 DEF LeaveNothing, Gone
<1>9. ASSUME NEW c \in Calls, Recheck(c) PROVE EveryWaiterAnswerable'
  BY <1>9 DEF Recheck
<1>10. ASSUME NEW c \in Calls, Abandon(c) PROVE EveryWaiterAnswerable'
  BY <1>10 DEF Abandon
<1>11. ASSUME NEW q \in Requests, NEW c \in Calls, Decided(q, c) PROVE EveryWaiterAnswerable'
  BY <1>11 DEF Decided, Takes, MarkResolving, Set, NoRequest, Reread, Publish, Bumped
<1>12. ASSUME NEW q \in Requests, NEW c \in Calls, Drained(q, c) PROVE EveryWaiterAnswerable'
  BY <1>12 DEF Drained, Takes, MarkResolving, Set, Reread, Publish, Bumped
<1>13. ASSUME NEW q \in Requests, Resolved(q) PROVE EveryWaiterAnswerable'
  BY <1>13 DEF Resolved, Answers, AfterAnswer, ReadyToResolve, SendSignal, Set, NoRequest,
     Publish, Bumped
<1>14. ASSUME NEW q \in Requests, TooLate(q) PROVE EveryWaiterAnswerable'
  BY <1>14 DEF TooLate, RemoveQuietly, Go, Set, NoRequest, Reread, Publish, Bumped
<1>15. ASSUME NEW q \in Requests, Restored(q) PROVE EveryWaiterAnswerable'
  BY <1>15 DEF Restored, Finish, Set, NoRequest, Reread, Publish, Bumped
<1>16. ASSUME NEW q \in Requests, Ruling(q) PROVE EveryWaiterAnswerable'
  BY <1>16 DEF Ruling, Answers, SendSignal, Set, NoRequest, Publish, Bumped
<1>17. ASSUME CancelApprovals PROVE EveryWaiterAnswerable'
  BY <1>17 DEF CancelApprovals, TakePending, RemoveAll, Publish, Bumped
<1>18. ASSUME NEW q \in Requests, StopRun(q) PROVE EveryWaiterAnswerable'
  BY <1>18 DEF StopRun, TakePending, RemoveAll, Go, Set, NoRequest, Publish, Bumped
<1>19. ASSUME InvalidateServer PROVE EveryWaiterAnswerable'
  BY <1>19 DEF InvalidateServer, RemoveAll, Publish, Bumped
<1>20. ASSUME NEW q \in Requests, RejectAndStop(q) \/ GivesUp(q) \/ LoadFile(q) \/ Conflict(q) \/
             Stored(q) \/ Forgets(q) \/ Fails(q) \/ InstallRule(q) \/ CheckCover(q) \/
             ReplaceDocument(q)
      PROVE  EveryWaiterAnswerable'
  BY <1>1, <1>20 DEF RejectAndStop, GivesUp, LoadFile, Conflict, Stored, Forgets, Fails,
     InstallRule, CheckCover, ReplaceDocument
<1>21. ASSUME CancelToken \/ (\E c \in Children : CancelChild(c)) \/ RetireServer \/ EditFile \/
             ReloadPermissions
      PROVE  EveryWaiterAnswerable'
  BY <1>1, <1>21 DEF CancelToken, CancelChild, RetireServer, EditFile, ReloadPermissions
<1>22. CASE UNCHANGED vars
  BY <1>1, <1>22 DEF vars
<1> QED
  BY <1>2, <1>3, <1>4, <1>5, <1>6, <1>7, <1>8, <1>9, <1>10, <1>11, <1>12, <1>13, <1>14, <1>15,
     <1>16, <1>17, <1>18, <1>19, <1>20, <1>21, <1>22, Branches DEF OfCall, OfRequest, OfOthers

\* An entry is taken by one request while it waits, and given back by that request.
LEMMA HeldStep == IInv /\ [Next]_vars => Held'
<1> SUFFICES ASSUME IInv, [Next]_vars PROVE Held'
  OBVIOUS
<1> USE CallsAssumption, BoundsAssumption DEF IInv, Held, Holds, EveryWaiterAnswerable, TypeOK,
        Pending, Allows, Requested, Holding, registry, waiters, rules, cutIn, stream
<1>1. CASE UNCHANGED <<status, waiter, request>>
  BY <1>1
<1>2. ASSUME NEW c \in Calls, Evaluate(c) PROVE Held'
  BY <1>2 DEF Evaluate
<1>3. ASSUME NEW c \in Calls, RegisterRefused(c) PROVE Held'
  BY <1>3 DEF RegisterRefused
<1>4. ASSUME NEW c \in Calls, Registered(c) PROVE Held'
  BY <1>4 DEF Registered, Publish, Bumped
<1>5. ASSUME NEW c \in Calls, Receive(c) PROVE Held'
  BY <1>5 DEF Receive, Meaning
<1>6. ASSUME NEW c \in Calls, SeeCancel(c) PROVE Held'
  BY <1>6 DEF SeeCancel
<1>7. ASSUME NEW c \in Calls, LeaveEntry(c) PROVE Held'
  BY <1>7 DEF LeaveEntry, Gone, RemoveAll, Publish, Bumped
<1>8. ASSUME NEW c \in Calls, LeaveNothing(c) PROVE Held'
  BY <1>8 DEF LeaveNothing, Gone
<1>9. ASSUME NEW c \in Calls, Recheck(c) PROVE Held'
  BY <1>9 DEF Recheck
<1>10. ASSUME NEW c \in Calls, Abandon(c) PROVE Held'
  BY <1>10 DEF Abandon
<1>11. ASSUME NEW q \in Requests, NEW c \in Calls, Decided(q, c) PROVE Held'
  BY <1>11 DEF Decided, Takes, MarkResolving, Set, NoRequest, Reread, Publish, Bumped
<1>12. ASSUME NEW q \in Requests, RejectAndStop(q) PROVE Held'
  BY <1>12 DEF RejectAndStop, Arrives, Set, NoRequest
<1>13. ASSUME NEW q \in Requests, GivesUp(q) PROVE Held'
  BY <1>13 DEF GivesUp, Finish, Set, NoRequest
<1>14. ASSUME NEW q \in Requests, NEW c \in Calls, Drained(q, c) PROVE Held'
  BY <1>14 DEF Drained, Takes, MarkResolving, Set, Reread, Publish, Bumped
<1>15. ASSUME NEW q \in Requests, LoadFile(q) PROVE Held'
  BY <1>15 DEF LoadFile, Set
<1>16. ASSUME NEW q \in Requests, Conflict(q) PROVE Held'
  BY <1>16 DEF Conflict, Set
<1>17. ASSUME NEW q \in Requests, Stored(q) PROVE Held'
  BY <1>17 DEF Stored, Granted, Set
<1>18. ASSUME NEW q \in Requests, Forgets(q) PROVE Held'
  BY <1>18 DEF Forgets, Finish, Set, NoRequest
<1>19. ASSUME NEW q \in Requests, Fails(q) PROVE Held'
  BY <1>19 DEF Fails, Go, Set, NoRequest
<1>20. ASSUME NEW q \in Requests, InstallRule(q) PROVE Held'
  BY <1>20 DEF InstallRule, Set, NoRequest
<1>21. ASSUME NEW q \in Requests, Resolved(q) PROVE Held'
  BY <1>21 DEF Resolved, Answers, AfterAnswer, ReadyToResolve, SendSignal, Set, NoRequest,
     Publish, Bumped
<1>22. ASSUME NEW q \in Requests, TooLate(q) PROVE Held'
  BY <1>22 DEF TooLate, RemoveQuietly, Go, Set, NoRequest, Reread, Publish, Bumped
<1>23. ASSUME NEW q \in Requests, Restored(q) PROVE Held'
  BY <1>23 DEF Restored, Finish, Set, NoRequest, Reread, Publish, Bumped
<1>24. ASSUME NEW q \in Requests, CheckCover(q) PROVE Held'
  BY <1>24 DEF CheckCover, Go, Set, NoRequest, AllowsWithoutAsk
<1>25. ASSUME NEW q \in Requests, Ruling(q) PROVE Held'
  BY <1>25 DEF Ruling, Answers, SendSignal, Set, NoRequest, Publish, Bumped
<1>26. ASSUME NEW q \in Requests, ReplaceDocument(q) PROVE Held'
  BY <1>26 DEF ReplaceDocument, Arrives, Set, NoRequest
<1>27. ASSUME CancelApprovals PROVE Held'
  BY <1>27 DEF CancelApprovals, TakePending, RemoveAll, Publish, Bumped
<1>28. ASSUME NEW q \in Requests, StopRun(q) PROVE Held'
  BY <1>28 DEF StopRun, TakePending, RemoveAll, Go, Set, NoRequest, Publish, Bumped
<1>29. ASSUME InvalidateServer PROVE Held'
  BY <1>29 DEF InvalidateServer, RemoveAll, Publish, Bumped
<1>30. ASSUME CancelToken \/ (\E c \in Children : CancelChild(c)) \/ RetireServer \/ EditFile \/
             ReloadPermissions
      PROVE  Held'
  BY <1>1, <1>30 DEF CancelToken, CancelChild, RetireServer, EditFile, ReloadPermissions
<1>31. CASE UNCHANGED vars
  BY <1>1, <1>31 DEF vars
<1> QED
  BY <1>2, <1>3, <1>4, <1>5, <1>6, <1>7, <1>8, <1>9, <1>10, <1>11, <1>12, <1>13, <1>14, <1>15,
     <1>16, <1>17, <1>18, <1>19, <1>20, <1>21, <1>22, <1>23, <1>24, <1>25, <1>26, <1>27, <1>28,
     <1>29, <1>30, <1>31, Branches DEF OfCall, OfRequest, OfOthers

\* Who fills a channel tells clients the same thing in the same step.
LEMMA HeardStep == IInv /\ [Next]_vars => Heard'
<1> SUFFICES ASSUME IInv, [Next]_vars PROVE Heard'
  OBVIOUS
<1> USE CallsAssumption, BoundsAssumption DEF IInv, Heard, EveryWaiterAnswerable, TypeOK, Pending,
        Allows, Requested, Holding, registry, waiters, rules, cutIn, stream
<1>1. CASE UNCHANGED <<registry, waiters, stream>>
  BY <1>1
<1>2. ASSUME NEW c \in Calls, Evaluate(c) PROVE Heard'
  BY <1>2 DEF Evaluate
<1>3. ASSUME NEW c \in Calls, RegisterRefused(c) PROVE Heard'
  BY <1>3 DEF RegisterRefused
<1>4. ASSUME NEW c \in Calls, Registered(c) PROVE Heard'
  BY <1>4 DEF Registered, Publish, Bumped
<1>5. ASSUME NEW c \in Calls, Receive(c) PROVE Heard'
  BY <1>5 DEF Receive, Meaning
<1>6. ASSUME NEW c \in Calls, SeeCancel(c) PROVE Heard'
  BY <1>6 DEF SeeCancel
<1>7. ASSUME NEW c \in Calls, LeaveEntry(c) PROVE Heard'
  BY <1>7 DEF LeaveEntry, Gone, RemoveAll, Publish, Bumped
<1>8. ASSUME NEW c \in Calls, LeaveNothing(c) PROVE Heard'
  BY <1>8 DEF LeaveNothing, Gone
<1>9. ASSUME NEW c \in Calls, Recheck(c) PROVE Heard'
  BY <1>9 DEF Recheck
<1>10. ASSUME NEW c \in Calls, Abandon(c) PROVE Heard'
  BY <1>10 DEF Abandon
<1>11. ASSUME NEW q \in Requests, NEW c \in Calls, Decided(q, c) PROVE Heard'
  BY <1>11 DEF Decided, Takes, MarkResolving, Set, NoRequest, Reread, Publish, Bumped
<1>12. ASSUME NEW q \in Requests, NEW c \in Calls, Drained(q, c) PROVE Heard'
  BY <1>12 DEF Drained, Takes, MarkResolving, Set, Reread, Publish, Bumped
<1>13. ASSUME NEW q \in Requests, Resolved(q) PROVE Heard'
  BY <1>13 DEF Resolved, Answers, AfterAnswer, ReadyToResolve, SendSignal, Set, NoRequest,
     Publish, Bumped
<1>14. ASSUME NEW q \in Requests, TooLate(q) PROVE Heard'
  BY <1>14 DEF TooLate, RemoveQuietly, Go, Set, NoRequest, Reread, Publish, Bumped
<1>15. ASSUME NEW q \in Requests, Restored(q) PROVE Heard'
  BY <1>15 DEF Restored, Finish, Set, NoRequest, Reread, Publish, Bumped
<1>16. ASSUME NEW q \in Requests, Ruling(q) PROVE Heard'
  BY <1>16 DEF Ruling, Answers, SendSignal, Set, NoRequest, Publish, Bumped
<1>17. ASSUME CancelApprovals PROVE Heard'
  BY <1>17 DEF CancelApprovals, TakePending, RemoveAll, Publish, Bumped
<1>18. ASSUME NEW q \in Requests, StopRun(q) PROVE Heard'
  BY <1>18 DEF StopRun, TakePending, RemoveAll, Go, Set, NoRequest, Publish, Bumped
<1>19. ASSUME InvalidateServer PROVE Heard'
  BY <1>19 DEF InvalidateServer, RemoveAll, Publish, Bumped
<1>20. ASSUME NEW q \in Requests, RejectAndStop(q) \/ GivesUp(q) \/ LoadFile(q) \/ Conflict(q) \/
             Stored(q) \/ Forgets(q) \/ Fails(q) \/ InstallRule(q) \/ CheckCover(q) \/
             ReplaceDocument(q)
      PROVE  Heard'
  BY <1>1, <1>20 DEF RejectAndStop, GivesUp, LoadFile, Conflict, Stored, Forgets, Fails,
     InstallRule, CheckCover, ReplaceDocument
<1>21. ASSUME CancelToken \/ (\E c \in Children : CancelChild(c)) \/ RetireServer \/ EditFile \/
             ReloadPermissions
      PROVE  Heard'
  BY <1>1, <1>21 DEF CancelToken, CancelChild, RetireServer, EditFile, ReloadPermissions
<1>22. CASE UNCHANGED vars
  BY <1>1, <1>22 DEF vars
<1> QED
  BY <1>2, <1>3, <1>4, <1>5, <1>6, <1>7, <1>8, <1>9, <1>10, <1>11, <1>12, <1>13, <1>14, <1>15,
     <1>16, <1>17, <1>18, <1>19, <1>20, <1>21, <1>22, Branches DEF OfCall, OfRequest, OfOthers

\* A request goes on with the call and the decision it began with.
LEMMA RequestedStep == IInv /\ [Next]_vars => Requested'
<1> SUFFICES ASSUME IInv, [Next]_vars PROVE Requested'
  OBVIOUS
<1> USE CallsAssumption, BoundsAssumption DEF IInv, Decisions, Effects, Request, TypeOK, Pending,
        Allows, Requested, Holding, registry, waiters, rules, cutIn, stream
<1>1. CASE UNCHANGED <<request>>
  BY <1>1
<1>2. ASSUME NEW q \in Requests, NEW c \in Calls, Decided(q, c) PROVE Requested'
  BY <1>2 DEF Decided, Takes, MarkResolving, Set, NoRequest, Reread, Publish, Bumped
<1>3. ASSUME NEW q \in Requests, RejectAndStop(q) PROVE Requested'
  BY <1>3 DEF RejectAndStop, Arrives, Set, NoRequest
<1>4. ASSUME NEW q \in Requests, GivesUp(q) PROVE Requested'
  BY <1>4 DEF GivesUp, Finish, Set, NoRequest
<1>5. ASSUME NEW q \in Requests, NEW c \in Calls, Drained(q, c) PROVE Requested'
  BY <1>5 DEF Drained, Takes, MarkResolving, Set, Reread, Publish, Bumped
<1>6. ASSUME NEW q \in Requests, LoadFile(q) PROVE Requested'
  BY <1>6 DEF LoadFile, Set
<1>7. ASSUME NEW q \in Requests, Conflict(q) PROVE Requested'
  BY <1>7 DEF Conflict, Set
<1>8. ASSUME NEW q \in Requests, Stored(q) PROVE Requested'
  BY <1>8 DEF Stored, Granted, Set
<1>9. ASSUME NEW q \in Requests, Forgets(q) PROVE Requested'
  BY <1>9 DEF Forgets, Finish, Set, NoRequest
<1>10. ASSUME NEW q \in Requests, Fails(q) PROVE Requested'
  BY <1>10 DEF Fails, Go, Set, NoRequest
<1>11. ASSUME NEW q \in Requests, InstallRule(q) PROVE Requested'
  BY <1>11 DEF InstallRule, Set, NoRequest
<1>12. ASSUME NEW q \in Requests, Resolved(q) PROVE Requested'
  BY <1>12 DEF Resolved, Answers, AfterAnswer, ReadyToResolve, SendSignal, Set, NoRequest,
     Publish, Bumped
<1>13. ASSUME NEW q \in Requests, TooLate(q) PROVE Requested'
  BY <1>13 DEF TooLate, RemoveQuietly, Go, Set, NoRequest, Reread, Publish, Bumped
<1>14. ASSUME NEW q \in Requests, Restored(q) PROVE Requested'
  BY <1>14 DEF Restored, Finish, Set, NoRequest, Reread, Publish, Bumped
<1>15. ASSUME NEW q \in Requests, CheckCover(q) PROVE Requested'
  BY <1>15 DEF CheckCover, Go, Set, NoRequest, AllowsWithoutAsk
<1>16. ASSUME NEW q \in Requests, Ruling(q) PROVE Requested'
  BY <1>16 DEF Ruling, Answers, SendSignal, Set, NoRequest, Publish, Bumped
<1>17. ASSUME NEW q \in Requests, ReplaceDocument(q) PROVE Requested'
  BY <1>17 DEF ReplaceDocument, Arrives, Set, NoRequest
<1>18. ASSUME NEW q \in Requests, StopRun(q) PROVE Requested'
  BY <1>18 DEF StopRun, TakePending, RemoveAll, Go, Set, NoRequest, Publish, Bumped
<1>19. ASSUME NEW c \in Calls, Evaluate(c) \/ RegisterRefused(c) \/ Registered(c) \/ Receive(c) \/
             SeeCancel(c) \/ LeaveEntry(c) \/ LeaveNothing(c) \/ Recheck(c) \/ Abandon(c)
      PROVE  Requested'
  BY <1>1, <1>19 DEF Evaluate, RegisterRefused, Registered, Receive, SeeCancel, LeaveEntry,
     LeaveNothing, Recheck, Abandon
<1>20. ASSUME CancelApprovals \/ CancelToken \/ (\E c \in Children : CancelChild(c)) \/
             RetireServer \/ InvalidateServer \/ EditFile \/ ReloadPermissions
      PROVE  Requested'
  BY <1>1, <1>20 DEF CancelApprovals, CancelToken, CancelChild, RetireServer, InvalidateServer,
     EditFile, ReloadPermissions
<1>21. CASE UNCHANGED vars
  BY <1>1, <1>21 DEF vars
<1> QED
  BY <1>2, <1>3, <1>4, <1>5, <1>6, <1>7, <1>8, <1>9, <1>10, <1>11, <1>12, <1>13, <1>14, <1>15,
     <1>16, <1>17, <1>18, <1>19, <1>20, <1>21, Branches DEF OfCall, OfRequest, OfOthers

\* A rule is stored before it is installed, and installed before it answers.
LEMMA RuledStep == IInv /\ [Next]_vars => Ruled'
<1> SUFFICES ASSUME IInv, [Next]_vars PROVE Ruled'
  OBVIOUS
<1> USE CallsAssumption, BoundsAssumption DEF IInv, Ruled, RuleBeforeTool, Heard, Request, Prints,
        Effects, EveryWaiterAnswerable, TypeOK, Pending, Allows, Requested, Holding, registry,
        waiters, rules, cutIn, stream
<1>1. CASE UNCHANGED <<request, rules, signal>>
  BY <1>1
<1>2. ASSUME NEW c \in Calls, Receive(c) PROVE Ruled'
  BY <1>2 DEF Receive, Meaning
<1>3. ASSUME NEW c \in Calls, SeeCancel(c) PROVE Ruled'
  BY <1>3 DEF SeeCancel
<1>4. ASSUME NEW c \in Calls, LeaveEntry(c) PROVE Ruled'
  BY <1>4 DEF LeaveEntry, Gone, RemoveAll, Publish, Bumped
<1>5. ASSUME NEW q \in Requests, NEW c \in Calls, Decided(q, c) PROVE Ruled'
  BY <1>5 DEF Decided, Takes, MarkResolving, Set, NoRequest, Reread, Publish, Bumped
<1>6. ASSUME NEW q \in Requests, RejectAndStop(q) PROVE Ruled'
  BY <1>6 DEF RejectAndStop, Arrives, Set, NoRequest
<1>7. ASSUME NEW q \in Requests, GivesUp(q) PROVE Ruled'
  BY <1>7 DEF GivesUp, Finish, Set, NoRequest
<1>8. ASSUME NEW q \in Requests, NEW c \in Calls, Drained(q, c) PROVE Ruled'
  BY <1>8 DEF Drained, Takes, MarkResolving, Set, Reread, Publish, Bumped
<1>9. ASSUME NEW q \in Requests, LoadFile(q) PROVE Ruled'
  BY <1>9 DEF LoadFile, Set
<1>10. ASSUME NEW q \in Requests, Conflict(q) PROVE Ruled'
  BY <1>10 DEF Conflict, Set
<1>11. ASSUME NEW q \in Requests, Stored(q) PROVE Ruled'
  <2>1. request[q].print = PrintOf[request[q].call] /\ request[q].call \in Calls
    BY <1>11 DEF Stored
  <2>2. /\ request' = [request EXCEPT ![q] = [request[q] EXCEPT !.at = "stored",
                                                                 !.doc = Granted(request[q])]]
        /\ UNCHANGED <<live, everLive, signal>>
    BY <1>11 DEF Stored, Set
  <2>3. request[q].print \in Prints /\ request[q].doc \in [Prints -> SUBSET Effects]
    <3>1. request[q].print \in Prints
      BY <2>1, PrintsOfCalls
    <3> QED
      BY <3>1
  <2>4. "Allow" \in Granted(request[q])[request[q].print]
    BY <2>3 DEF Granted
  <2> QED
    BY <2>1, <2>2, <2>3, <2>4
<1>12. ASSUME NEW q \in Requests, Forgets(q) PROVE Ruled'
  BY <1>12 DEF Forgets, Finish, Set, NoRequest
<1>13. ASSUME NEW q \in Requests, Fails(q) PROVE Ruled'
  BY <1>13 DEF Fails, Go, Set, NoRequest
<1>14. ASSUME NEW q \in Requests, InstallRule(q) PROVE Ruled'
  BY <1>14 DEF InstallRule, Set, NoRequest
<1>15. ASSUME NEW q \in Requests, Resolved(q) PROVE Ruled'
  BY <1>15 DEF Resolved, Answers, AfterAnswer, ReadyToResolve, SendSignal, Set, NoRequest,
     Publish, Bumped
<1>16. ASSUME NEW q \in Requests, TooLate(q) PROVE Ruled'
  BY <1>16 DEF TooLate, RemoveQuietly, Go, Set, NoRequest, Reread, Publish, Bumped
<1>17. ASSUME NEW q \in Requests, Restored(q) PROVE Ruled'
  BY <1>17 DEF Restored, Finish, Set, NoRequest, Reread, Publish, Bumped
<1>18. ASSUME NEW q \in Requests, CheckCover(q) PROVE Ruled'
  BY <1>18 DEF CheckCover, Go, Set, NoRequest, AllowsWithoutAsk
<1>19. ASSUME NEW q \in Requests, Ruling(q) PROVE Ruled'
  BY <1>19 DEF Ruling, Answers, SendSignal, Set, NoRequest, Publish, Bumped
<1>20. ASSUME NEW q \in Requests, ReplaceDocument(q) PROVE Ruled'
  BY <1>20 DEF ReplaceDocument, Arrives, Set, NoRequest
<1>21. ASSUME CancelApprovals PROVE Ruled'
  BY <1>21 DEF CancelApprovals, TakePending, RemoveAll, Publish, Bumped
<1>22. ASSUME NEW q \in Requests, StopRun(q) PROVE Ruled'
  BY <1>22 DEF StopRun, TakePending, RemoveAll, Go, Set, NoRequest, Publish, Bumped
<1>23. ASSUME InvalidateServer PROVE Ruled'
  BY <1>23 DEF InvalidateServer, RemoveAll, Publish, Bumped
<1>24. ASSUME EditFile PROVE Ruled'
  BY <1>24 DEF EditFile
<1>25. ASSUME ReloadPermissions PROVE Ruled'
  BY <1>25 DEF ReloadPermissions
<1>26. ASSUME NEW c \in Calls, Evaluate(c) \/ RegisterRefused(c) \/ Registered(c) \/
             LeaveNothing(c) \/ Recheck(c) \/ Abandon(c)
      PROVE  Ruled'
  BY <1>1, <1>26 DEF Evaluate, RegisterRefused, Registered, LeaveNothing, Recheck, Abandon
<1>27. ASSUME CancelToken \/ (\E c \in Children : CancelChild(c)) \/ RetireServer
      PROVE  Ruled'
  BY <1>1, <1>27 DEF CancelToken, CancelChild, RetireServer
<1>28. CASE UNCHANGED vars
  BY <1>1, <1>28 DEF vars
<1> QED
  BY <1>2, <1>3, <1>4, <1>5, <1>6, <1>7, <1>8, <1>9, <1>10, <1>11, <1>12, <1>13, <1>14, <1>15,
     <1>16, <1>17, <1>18, <1>19, <1>20, <1>21, <1>22, <1>23, <1>24, <1>25, <1>26, <1>27, <1>28,
     Branches DEF OfCall, OfRequest, OfOthers

\* A waiter goes on to the rules only with a permission clients were told of.
LEMMA ObeyedStep == IInv /\ [Next]_vars => AnswersAreObeyed'
<1> SUFFICES ASSUME IInv, [Next]_vars PROVE AnswersAreObeyed'
  OBVIOUS
<1> USE CallsAssumption, BoundsAssumption DEF IInv, AnswersAreObeyed, Heard,
        EveryWaiterAnswerable, TypeOK, Pending, Allows, Requested, Holding, registry, waiters,
        rules, cutIn, stream
<1>1. CASE UNCHANGED <<waiter, told>>
  BY <1>1
<1>2. ASSUME NEW c \in Calls, Evaluate(c) PROVE AnswersAreObeyed'
  BY <1>2 DEF Evaluate
<1>3. ASSUME NEW c \in Calls, RegisterRefused(c) PROVE AnswersAreObeyed'
  BY <1>3 DEF RegisterRefused
<1>4. ASSUME NEW c \in Calls, Registered(c) PROVE AnswersAreObeyed'
  BY <1>4 DEF Registered, Publish, Bumped
<1>5. ASSUME NEW c \in Calls, Receive(c) PROVE AnswersAreObeyed'
  BY <1>5 DEF Receive, Meaning
<1>6. ASSUME NEW c \in Calls, SeeCancel(c) PROVE AnswersAreObeyed'
  BY <1>6 DEF SeeCancel
<1>7. ASSUME NEW c \in Calls, LeaveEntry(c) PROVE AnswersAreObeyed'
  BY <1>7 DEF LeaveEntry, Gone, RemoveAll, Publish, Bumped
<1>8. ASSUME NEW c \in Calls, LeaveNothing(c) PROVE AnswersAreObeyed'
  BY <1>8 DEF LeaveNothing, Gone
<1>9. ASSUME NEW c \in Calls, Recheck(c) PROVE AnswersAreObeyed'
  BY <1>9 DEF Recheck
<1>10. ASSUME NEW c \in Calls, Abandon(c) PROVE AnswersAreObeyed'
  BY <1>10 DEF Abandon
<1>11. ASSUME NEW q \in Requests, NEW c \in Calls, Decided(q, c) PROVE AnswersAreObeyed'
  BY <1>11 DEF Decided, Takes, MarkResolving, Set, NoRequest, Reread, Publish, Bumped
<1>12. ASSUME NEW q \in Requests, NEW c \in Calls, Drained(q, c) PROVE AnswersAreObeyed'
  BY <1>12 DEF Drained, Takes, MarkResolving, Set, Reread, Publish, Bumped
<1>13. ASSUME NEW q \in Requests, Resolved(q) PROVE AnswersAreObeyed'
  BY <1>13 DEF Resolved, Answers, AfterAnswer, ReadyToResolve, SendSignal, Set, NoRequest,
     Publish, Bumped
<1>14. ASSUME NEW q \in Requests, TooLate(q) PROVE AnswersAreObeyed'
  BY <1>14 DEF TooLate, RemoveQuietly, Go, Set, NoRequest, Reread, Publish, Bumped
<1>15. ASSUME NEW q \in Requests, Restored(q) PROVE AnswersAreObeyed'
  BY <1>15 DEF Restored, Finish, Set, NoRequest, Reread, Publish, Bumped
<1>16. ASSUME NEW q \in Requests, Ruling(q) PROVE AnswersAreObeyed'
  BY <1>16 DEF Ruling, Answers, SendSignal, Set, NoRequest, Publish, Bumped
<1>17. ASSUME CancelApprovals PROVE AnswersAreObeyed'
  BY <1>17 DEF CancelApprovals, TakePending, RemoveAll, Publish, Bumped
<1>18. ASSUME NEW q \in Requests, StopRun(q) PROVE AnswersAreObeyed'
  BY <1>18 DEF StopRun, TakePending, RemoveAll, Go, Set, NoRequest, Publish, Bumped
<1>19. ASSUME InvalidateServer PROVE AnswersAreObeyed'
  BY <1>19 DEF InvalidateServer, RemoveAll, Publish, Bumped
<1>20. ASSUME NEW q \in Requests, RejectAndStop(q) \/ GivesUp(q) \/ LoadFile(q) \/ Conflict(q) \/
             Stored(q) \/ Forgets(q) \/ Fails(q) \/ InstallRule(q) \/ CheckCover(q) \/
             ReplaceDocument(q)
      PROVE  AnswersAreObeyed'
  BY <1>1, <1>20 DEF RejectAndStop, GivesUp, LoadFile, Conflict, Stored, Forgets, Fails,
     InstallRule, CheckCover, ReplaceDocument
<1>21. ASSUME CancelToken \/ (\E c \in Children : CancelChild(c)) \/ RetireServer \/ EditFile \/
             ReloadPermissions
      PROVE  AnswersAreObeyed'
  BY <1>1, <1>21 DEF CancelToken, CancelChild, RetireServer, EditFile, ReloadPermissions
<1>22. CASE UNCHANGED vars
  BY <1>1, <1>22 DEF vars
<1> QED
  BY <1>2, <1>3, <1>4, <1>5, <1>6, <1>7, <1>8, <1>9, <1>10, <1>11, <1>12, <1>13, <1>14, <1>15,
     <1>16, <1>17, <1>18, <1>19, <1>20, <1>21, <1>22, Branches DEF OfCall, OfRequest, OfOthers

\* The list and the event that tells it change in one step.
LEMMA ToldStep == IInv /\ [Next]_vars => EventsTellTheQueue'
<1> SUFFICES ASSUME IInv, [Next]_vars PROVE EventsTellTheQueue'
  OBVIOUS
<1> USE CallsAssumption, BoundsAssumption DEF IInv, EventsTellTheQueue, TypeOK, Pending, Allows,
        Requested, Holding, registry, waiters, rules, cutIn, stream
<1>1. CASE UNCHANGED <<status, known>>
  BY <1>1
<1>2. ASSUME NEW c \in Calls, Registered(c) PROVE EventsTellTheQueue'
  BY <1>2 DEF Registered, Publish, Bumped
<1>3. ASSUME NEW c \in Calls, LeaveEntry(c) PROVE EventsTellTheQueue'
  BY <1>3 DEF LeaveEntry, Gone, RemoveAll, Publish, Bumped
<1>4. ASSUME NEW q \in Requests, NEW c \in Calls, Decided(q, c) PROVE EventsTellTheQueue'
  BY <1>4 DEF Decided, Takes, MarkResolving, Set, NoRequest, Reread, Publish, Bumped
<1>5. ASSUME NEW q \in Requests, NEW c \in Calls, Drained(q, c) PROVE EventsTellTheQueue'
  BY <1>5 DEF Drained, Takes, MarkResolving, Set, Reread, Publish, Bumped
<1>6. ASSUME NEW q \in Requests, Resolved(q) PROVE EventsTellTheQueue'
  BY <1>6 DEF Resolved, Answers, AfterAnswer, ReadyToResolve, SendSignal, Set, NoRequest, Publish,
     Bumped
<1>7. ASSUME NEW q \in Requests, TooLate(q) PROVE EventsTellTheQueue'
  BY <1>7 DEF TooLate, RemoveQuietly, Go, Set, NoRequest, Reread, Publish, Bumped
<1>8. ASSUME NEW q \in Requests, Restored(q) PROVE EventsTellTheQueue'
  BY <1>8 DEF Restored, Finish, Set, NoRequest, Reread, Publish, Bumped
<1>9. ASSUME NEW q \in Requests, Ruling(q) PROVE EventsTellTheQueue'
  BY <1>9 DEF Ruling, Answers, SendSignal, Set, NoRequest, Publish, Bumped
<1>10. ASSUME CancelApprovals PROVE EventsTellTheQueue'
  BY <1>10 DEF CancelApprovals, TakePending, RemoveAll, Publish, Bumped
<1>11. ASSUME NEW q \in Requests, StopRun(q) PROVE EventsTellTheQueue'
  BY <1>11 DEF StopRun, TakePending, RemoveAll, Go, Set, NoRequest, Publish, Bumped
<1>12. ASSUME InvalidateServer PROVE EventsTellTheQueue'
  BY <1>12 DEF InvalidateServer, RemoveAll, Publish, Bumped
<1>13. ASSUME NEW c \in Calls, Evaluate(c) \/ RegisterRefused(c) \/ Receive(c) \/ SeeCancel(c) \/
             LeaveNothing(c) \/ Recheck(c) \/ Abandon(c)
      PROVE  EventsTellTheQueue'
  BY <1>1, <1>13 DEF Evaluate, RegisterRefused, Receive, SeeCancel, LeaveNothing, Recheck, Abandon
<1>14. ASSUME NEW q \in Requests, RejectAndStop(q) \/ GivesUp(q) \/ LoadFile(q) \/ Conflict(q) \/
             Stored(q) \/ Forgets(q) \/ Fails(q) \/ InstallRule(q) \/ CheckCover(q) \/
             ReplaceDocument(q)
      PROVE  EventsTellTheQueue'
  BY <1>1, <1>14 DEF RejectAndStop, GivesUp, LoadFile, Conflict, Stored, Forgets, Fails,
     InstallRule, CheckCover, ReplaceDocument
<1>15. ASSUME CancelToken \/ (\E c \in Children : CancelChild(c)) \/ RetireServer \/ EditFile \/
             ReloadPermissions
      PROVE  EventsTellTheQueue'
  BY <1>1, <1>15 DEF CancelToken, CancelChild, RetireServer, EditFile, ReloadPermissions
<1>16. CASE UNCHANGED vars
  BY <1>1, <1>16 DEF vars
<1> QED
  BY <1>2, <1>3, <1>4, <1>5, <1>6, <1>7, <1>8, <1>9, <1>10, <1>11, <1>12, <1>13, <1>14, <1>15,
     <1>16, Branches DEF OfCall, OfRequest, OfOthers

-----------------------------------------------------------------------------
\* Nothing is asked, requested or granted at first.
LEMMA InitIInv == Init => IInv
<1> SUFFICES ASSUME Init PROVE IInv
  OBVIOUS
<1> USE CallsAssumption, BoundsAssumption DEF Init
<1>1. TypeOK
  <2>1. CallsTyped
    <3>1. 0 \in 0..MaxMoves
      OBVIOUS
    <3>2. /\ status \in [Calls -> {"none", "Pending", "Resolving"}]
          /\ waiter \in [Calls -> {"idle", "asking", "waiting", "leaving", "recheck", "allowed",
                                   "exempt", "denied"}]
          /\ verdict \in [Calls -> {"none", "allow", "rule", "deny"}]
      OBVIOUS
    <3> QED
      BY <3>1, <3>2 DEF CallsTyped
  <2>4. SignalsTyped
    BY DEF SignalsTyped, Signals
  <2>2. RulesTyped
    BY DEF RulesTyped
  <2>3. RequestsTyped
    BY NoRequestTyped DEF RequestsTyped
  <2> QED
    BY <2>1, <2>2, <2>3, <2>4 DEF TypeOK, CallsTyped, SignalsTyped, RulesTyped, RequestsTyped
<1>2. EveryWaiterAnswerable /\ AnswersAreObeyed /\ EventsTellTheQueue /\ Heard
  BY DEF EveryWaiterAnswerable, AnswersAreObeyed, EventsTellTheQueue, Heard, Pending, Allows
<1>3. Held /\ Requested
  BY DEF Held, Holds, Holding, Requested, NoRequest
<1>4. Ruled
  BY DEF Ruled, RuleBeforeTool, NoRequest
<1> QED
  BY <1>1, <1>2, <1>3, <1>4 DEF IInv

\* What IInv says holds all along.
THEOREM IInvInvariant == Spec => []IInv
<1>1. IInv /\ [Next]_vars => IInv'
  <2>1. IInv /\ [Next]_vars => TypeOK'
    BY CallsTypedStep, SignalsTypedStep, RulesTypedStep, RequestsTypedStep
       DEF TypeOK, CallsTyped, SignalsTyped, RulesTyped, RequestsTyped
  <2> QED
    BY <2>1, WaiterStep, HeldStep, HeardStep, RequestedStep, RuledStep, ObeyedStep, ToldStep
       DEF IInv
<1> QED
  BY <1>1, InitIInv, PTL DEF Spec

\* However decisions, cancellations, refreshes and dropped requests interleave, an entry has
\* its waiter, a waiter without an entry has an answer in its channel, and an entry that
\* is being resolved belongs to exactly one request.
THEOREM NobodyStranded == Spec => []NobodyIsStranded
<1>1. IInv => ResolvingHasOneOwner
  <2> SUFFICES ASSUME IInv, NEW c \in Calls
               PROVE  /\ status[c] = "Resolving" => Cardinality(Holders(c)) = 1
                      /\ status[c] = "Pending"   => Holders(c) = {}
    BY DEF ResolvingHasOneOwner
  <2>1. CASE status[c] = "Resolving"
    <3>1. PICK q \in Requests : Holds(q, c) /\ \A o \in Requests : Holds(o, c) => o = q
      BY <2>1 DEF IInv, Held
    <3>2. Holders(c) = {q}
      BY <3>1 DEF Holders, Holds
    <3> QED
      BY <2>1, <3>2, FS_Singleton
  <2>2. CASE status[c] = "Pending"
    BY <2>2 DEF IInv, Held, Holders, Holds
  <2> QED
    BY <2>1, <2>2
<1>2. IInv => NobodyIsStranded
  BY <1>1 DEF IInv, NobodyIsStranded
<1> QED
  BY <1>2, IInvInvariant, PTL

\* A call that was asked about runs only when clients were told that it was allowed.
THEOREM AnswersObeyed == Spec => []AnswersAreObeyed
<1>1. IInv => AnswersAreObeyed
  BY DEF IInv
<1> QED
  BY <1>1, IInvInvariant, PTL

\* A client that follows the events knows exactly the approvals there are.
THEOREM EventsTell == Spec => []EventsTellTheQueue
<1>1. IInv => EventsTellTheQueue
  BY DEF IInv
<1> QED
  BY <1>1, IInvInvariant, PTL

\* A permanent permission lets a tool go only once its rule is in force, and a call that
\* only a rule had allowed goes only while no Ask or Deny has replaced the rule.
THEOREM RulesGuard == Spec => RulesGuardTools
<1>1. IInv => RuleBeforeTool
  BY DEF IInv, Ruled
<1>2. IInv /\ [Next]_vars =>
        [\A c \in Calls : waiter[c] = "recheck" /\ waiter'[c] = "allowed" /\ told[c] = "Rule"
                            => live[PrintOf[c]] \subseteq {"Allow"}]_vars
  <2> SUFFICES ASSUME IInv, Next, NEW c \in Calls, waiter[c] = "recheck",
                      waiter'[c] = "allowed", told[c] = "Rule"
               PROVE  live[PrintOf[c]] \subseteq {"Allow"}
    OBVIOUS
  <2>1. waiter # waiter' /\ waiter \in [Calls -> {"idle", "asking", "waiting", "leaving",
                                                  "recheck", "allowed", "exempt", "denied"}]
    BY DEF IInv, TypeOK
  <2>2. PICK d \in Calls : OfCall(d)
    <3>1. ASSUME NEW q \in Requests, OfRequest(q) PROVE UNCHANGED waiter
      BY <3>1 DEF OfRequest, Decided, Takes, Drained, TooLate, Restored, RejectAndStop, GivesUp,
         LoadFile, Conflict, Stored, Forgets, Fails, InstallRule, Resolved, Ruling, Answers,
         CheckCover, ReplaceDocument, StopRun, waiters
    <3>2. OfOthers => UNCHANGED waiter
      BY DEF OfOthers, CancelApprovals, CancelToken, CancelChild, RetireServer,
         InvalidateServer, EditFile, ReloadPermissions, waiters
    <3> QED
      BY <2>1, <3>1, <3>2, Branches
  <2>3. Recheck(c)
    BY <2>1, <2>2 DEF OfCall, Evaluate, RegisterRefused, Registered, Receive, SeeCancel,
       LeaveEntry, LeaveNothing, Gone, Recheck, Abandon, waiters
  <2>4. ~StillDenied(c)
    BY <2>1, <2>3 DEF Recheck
  <2>5. verdict[c] = "rule"
    BY DEF IInv, Heard, TypeOK
  <2>6. live[PrintOf[c]] \subseteq {"Allow", "Ask", "Deny"}
    BY DEF IInv, TypeOK, Prints, Effects
  <2> QED
    BY <2>4, <2>5, <2>6 DEF StillDenied
<1> QED
  BY <1>1, <1>2, IInvInvariant, PTL DEF RulesGuardTools, RuleStillHolds, Spec

=============================================================================
