----------------------------- MODULE MCApprovals -----------------------------
(* Small instances of Approvals for TLC. *)
EXTENDS Approvals

\* Both calls ask for the same exact rule.
OneRule == [c \in Calls |-> 10]
=============================================================================
