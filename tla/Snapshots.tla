----------------------------- MODULE Snapshots -----------------------------
(***************************************************************************)
(* What the snapshot queries of the runtime promise, without how they keep *)
(* the promise: facts change in the store and are announced by numbered    *)
(* events; an answer carries a watermark and a value that misses nothing   *)
(* announced up to that watermark.  A reader who applies every event above *)
(* the watermark therefore never loses a change.  Observation implements   *)
(* this promise; ClientSync builds on it.                                  *)
(***************************************************************************)
EXTENDS Naturals

CONSTANTS Parts,        \* the facts a snapshot is made of
          Scopes,       \* the sets of parts a query reads together
          Readers,      \* queries that may be under way together
          MaxChanges    \* bound: changes of one part

VARIABLES sequence,     \* number of the last event
          store,        \* store[p]: changes made to part p
          told,         \* told[p]: changes of p announced by an event
          reply         \* reply[r]: what the query of r has been answered

snapshotVars == <<sequence, store, told, reply>>

NoReply == [kind |-> "none"]
Busy == [kind |-> "busy"]
Answered(seq, value) == [kind |-> "snapshot", sequence |-> seq, value |-> value]

SnapshotsInit == /\ sequence = 0
                 /\ store = [p \in Parts |-> 0]
                 /\ told = [p \in Parts |-> 0]
                 /\ reply = [r \in Readers |-> NoReply]

(* A change becomes visible to readers before its event has a number.      *)
Change(p) == /\ store[p] < MaxChanges
             /\ store' = [store EXCEPT ![p] = @ + 1]
             /\ UNCHANGED <<sequence, told, reply>>

(* The event of a change made before.                                      *)
Announce(p) == /\ told[p] < store[p]
               /\ told' = [told EXCEPT ![p] = @ + 1]
               /\ sequence' = sequence + 1
               /\ UNCHANGED <<store, reply>>

(* Change and event become visible together.                               *)
ChangeAndAnnounce(p) == /\ store[p] < MaxChanges
                        /\ store' = [store EXCEPT ![p] = @ + 1]
                        /\ told' = [told EXCEPT ![p] = @ + 1]
                        /\ sequence' = sequence + 1
                        /\ UNCHANGED reply

(* An event about something no snapshot contains.                          *)
AnnounceOther == /\ sequence' = sequence + 1
                 /\ UNCHANGED <<store, told, reply>>

(* The values an answer with the watermark of this moment may have.        *)
Current(scope) ==
    {v \in [scope -> 0 .. MaxChanges] :
        \A p \in scope : told[p] <= v[p] /\ v[p] <= store[p]}

Answer(r) ==
    /\ UNCHANGED <<sequence, store, told>>
    /\ reply'[r] # reply[r]
    /\ \E scope \in Scopes : \E v \in Current(scope) :
         reply' = [reply EXCEPT ![r] = Answered(sequence, v)]

Refuse(r) == /\ reply' = [reply EXCEPT ![r] = Busy]
             /\ UNCHANGED <<sequence, store, told>>

Ask(r) == /\ reply' = [reply EXCEPT ![r] = NoReply]
          /\ UNCHANGED <<sequence, store, told>>

SnapshotsNext ==
    \/ \E p \in Parts : Change(p) \/ Announce(p) \/ ChangeAndAnnounce(p)
    \/ AnnounceOther
    \/ \E r \in Readers : Answer(r) \/ Refuse(r) \/ Ask(r)

SnapshotsSpec == SnapshotsInit /\ [][SnapshotsNext]_snapshotVars
=============================================================================
