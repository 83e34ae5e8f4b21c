-------------------------------- MODULE Retain --------------------------------
(***************************************************************************)
(* The queues of the runtime are deques, and VecDeque::retain is how an    *)
(* input leaves one of them from wherever it stands.                       *)
(***************************************************************************)
EXTENDS Integers, Sequences

\* The elements of s outside of gone, in their order.
Minus(s, gone) ==
  LET kept[i \in 0..Len(s)] ==
        IF i = 0 THEN <<>>
        ELSE IF s[i] \in gone THEN kept[i - 1]
        ELSE Append(kept[i - 1], s[i])
  IN  kept[Len(s)]
=============================================================================
