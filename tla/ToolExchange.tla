---------------------------- MODULE ToolExchange ----------------------------
(***************************************************************************)
(* What one execution promises about its tool calls, whatever the engine   *)
(* does inside: batches of calls are offered one after the other; a batch  *)
(* is persisted as one pending exchange before anything runs, a call is    *)
(* marked as started before it runs and at most once, and the exchange is  *)
(* completed once, with the report of every tool that ran and a refusal    *)
(* for every other call.  This is the contract of ExecutionRecorder        *)
(* (crates/agent-core/src/recorder.rs) together with that of the tools.    *)
(***************************************************************************)
EXTENDS Naturals

CONSTANT Widths  \* numbers of calls in a batch

VARIABLES
  width,     \* number of calls of the batch at hand
  exchange,  \* its exchange: none, pending or committed
  started,   \* calls marked as started
  reported,  \* what the tools reported
  recorded,  \* the answers of a committed exchange
  over       \* the execution has ended

vars == <<width, exchange, started, reported, recorded, over>>

Reports  == {"success", "error"}
Refusals == {"invalid", "denied", "unrecorded", "budget", "guardrail", "interrupted"}

Init ==
  /\ width = 0 /\ exchange = "none"
  /\ started = {} /\ reported = <<>> /\ recorded = <<>>
  /\ over = FALSE

\* The model proposes a new batch; the previous one is settled.
Offer(n) ==
  /\ ~over /\ exchange # "pending"
  /\ width' = n
  /\ exchange' = "none" /\ started' = {}
  /\ reported' = [i \in 1..n |-> "none"] /\ recorded' = <<>>
  /\ UNCHANGED over

Begin ==
  /\ ~over /\ exchange = "none" /\ width > 0
  /\ exchange' = "pending"
  /\ UNCHANGED <<width, started, reported, recorded, over>>

Start(i) ==
  /\ ~over /\ exchange = "pending" /\ i \notin started
  /\ started' = started \cup {i}
  /\ UNCHANGED <<width, exchange, reported, recorded, over>>

Return(i, report) ==
  /\ ~over /\ exchange = "pending" /\ i \in started /\ reported[i] = "none"
  /\ reported' = [reported EXCEPT ![i] = report]
  /\ UNCHANGED <<width, exchange, started, recorded, over>>

\* Only when every started tool has reported; the execution may end with it.
Commit ==
  /\ ~over /\ exchange = "pending"
  /\ \A i \in started : reported[i] # "none"
  /\ exchange' = "committed"
  /\ recorded' \in [1..width -> Reports \cup Refusals]
  /\ \A i \in 1..width :
       IF i \in started THEN recorded'[i] = reported[i] ELSE recorded'[i] \in Refusals
  /\ over' \in BOOLEAN
  /\ UNCHANGED <<width, started, reported>>

\* The execution ends; a pending exchange is left to the recovery of the host.
End ==
  /\ ~over /\ over' = TRUE
  /\ UNCHANGED <<width, exchange, started, reported, recorded>>

Next ==
  \/ \E n \in Widths : Offer(n)
  \/ Begin \/ Commit \/ End
  \/ \E i \in 1..width : Start(i) \/ \E report \in Reports : Return(i, report)

Spec == Init /\ [][Next]_vars
=============================================================================
