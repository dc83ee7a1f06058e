----------------------------- MODULE Discussion -----------------------------
(***************************************************************************)
(* What a talk or whisper session promises, whichever way it is held: an   *)
(* agent speaks at most PerAgent times, one speech at a time, only while   *)
(* the session is open and never again once it has fallen silent (it said  *)
(* Over, skipped too often, used up its characters or lost its             *)
(* connection), and the session closes.  TalkTurns and Freeform implement  *)
(* this.                                                                   *)
(***************************************************************************)
EXTENDS Naturals

CONSTANTS Agents, PerAgent

VARIABLES
  said,      \* speeches of every agent: entries that are not Over
  silent,    \* agents that will not speak again
  open       \* the session has not ended

vars == <<said, silent, open>>

Init ==
  /\ said = [a \in Agents |-> 0]
  /\ silent \in SUBSET Agents        \* with PerAgent = 0 nobody ever speaks
  /\ open = TRUE

\* A speech may be the agent's last one; others do not fall silent by it.
Speak(a) ==
  /\ open /\ a \notin silent /\ said[a] < PerAgent
  /\ said' = [said EXCEPT ![a] = @ + 1]
  /\ silent' \in {silent, silent \union {a}}
  /\ UNCHANGED open

FallSilent ==
  /\ \E some \in SUBSET (Agents \ silent) : silent' = silent \union some
  /\ UNCHANGED <<said, open>>

Close == open /\ open' = FALSE /\ UNCHANGED <<said, silent>>

Next == FallSilent \/ Close \/ \E a \in Agents : Speak(a)

Spec == Init /\ [][Next]_vars /\ WF_vars(Close)

=============================================================================
