-------------------------- MODULE DurableHistory ---------------------------
(***************************************************************************)
(* What the store promises about the history of one session, without files *)
(* and tables: a history is a sequence of facts.  A fact is first accepted *)
(* and later published, one at a time and in the order of acceptance.      *)
(* Crashes, failed writes, recovery and the rewriting of the conversation  *)
(* file are stutters: nothing published is lost, changed or repeated, and  *)
(* nothing accepted is dropped.  Only an explicit clear empties a history, *)
(* and only while nothing is accepted.  StagedHistory implements it.       *)
(***************************************************************************)
EXTENDS Naturals, Sequences

VARIABLES facts,        \* what a reader of the session sees
          accepted      \* the fact under way, if any

historyVars == <<facts, accepted>>

HistoryInit == facts = <<>> /\ accepted = <<>>

(* The store takes responsibility for one more fact.                       *)
Accept == /\ accepted = <<>>
          /\ Len(accepted') = 1
          /\ UNCHANGED facts

(* Readers see it.                                                         *)
Publish == /\ accepted # <<>>
           /\ facts' = facts \o accepted
           /\ accepted' = <<>>

Clear == /\ accepted = <<>>
         /\ facts' = <<>>
         /\ UNCHANGED accepted

HistoryNext == Accept \/ Publish \/ Clear

HistorySpec == HistoryInit /\ [][HistoryNext]_historyVars
=============================================================================
