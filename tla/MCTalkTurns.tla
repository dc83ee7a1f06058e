---------------------------- MODULE MCTalkTurns -----------------------------
(* Small turn-based sessions for TLC. *)
EXTENDS TalkTurns

Speech(before) == [kind |-> "text", before |-> before, mention |-> FALSE, after |-> 0]
To(before, after) == [kind |-> "text", before |-> before, mention |-> TRUE, after |-> after]

\* nothing, a plain speech, and speeches to an agent, one of them too long
\* before the mention
Utterances == {Speech(0), Speech(2), To(1, 0), To(2, 2), To(6, 3)}
=============================================================================
