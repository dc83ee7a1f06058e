----------------------------- MODULE MCFreeform -----------------------------
(* A small group chat for TLC, one agent of which sends twice. *)
EXTENDS Freeform

CONSTANTS a1, a2

Pair == {a1, a2}

\* an empty speech, and one with a mention whose first part is cut
Remarks  ==
  {[kind |-> "text", before |-> 0, mention |-> FALSE, after |-> 0],
   [kind |-> "text", before |-> 2, mention |-> TRUE, after |-> 1]}

Sent == [a \in Pair |-> IF a = a1 THEN 2 ELSE 1]
=============================================================================
