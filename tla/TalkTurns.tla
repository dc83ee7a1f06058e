----------------------------- MODULE TalkTurns ------------------------------
(***************************************************************************)
(* A turn-based session: runTurnBased.  The game's goroutine asks the      *)
(* agents of a random order one by one, max_count.per_day rounds at most.  *)
(***************************************************************************)
EXTENDS CommunicationSession, SequencesExt

CONSTANTS
  PerDay,                  \* max_count.per_day
  Texts                    \* the speeches an agent may answer with

ASSUME TurnsAssumption == PerDay \in Nat /\ Texts \in SUBSET Text

VARIABLES
  hasError,   \* Agent.HasError
  s,          \* the CommunicationSession
  order,      \* s.agents, shuffled
  i,          \* the round, from 0
  next,       \* position in order of the agent to visit
  cnt,        \* something other than Over was said this round
  pc          \* "start", "round", "ended", or "panic"

vars == <<hasError, s, order, i, next, cnt, pc>>

Value(a) == <<a, hasError[a]>>

Answers == Texts \union {Plain("Skip"), Plain("Over"), Plain("ForceSkip")}

-----------------------------------------------------------------------------

Init ==
  /\ hasError = [a \in Agents |-> FALSE]
  /\ s = NewCommunicationSession
  /\ order = SetToSeq(Agents)
  /\ i = 0 /\ next = 1 /\ cnt = FALSE
  /\ pc = "start"

\* runTurnBased, up to its loop: the agents are shuffled.
Begin ==
  /\ pc = "start"
  /\ order' \in SetToSeqs(Agents)
  /\ pc' = IF PerDay = 0 THEN "ended" ELSE "round"
  /\ UNCHANGED <<hasError, s, i, next, cnt>>

\* variant: the round goes on with an agent that has nothing left
Visiting_all(a) == pc = "round" /\ next <= Len(order) /\ a = order[next]

Visiting(a) ==
  /\ pc = "round" /\ next <= Len(order) /\ a = order[next]
  /\ CanAgentTalk(s, Value(a))

SkipAgent ==
  /\ pc = "round" /\ next <= Len(order)
  /\ ~CanAgentTalk(s, Value(order[next]))
  /\ next' = next + 1
  /\ UNCHANGED <<hasError, s, order, i, cnt, pc>>

\* variant: only a speech keeps the session going
KeepsGoing_textOnly(kind) == kind = "text"

KeepsGoing(kind) == kind # "Over"

\* The answer is recorded under the value the agent has by now.
Record(k, text) ==
  /\ s' = BuildTalk(s, k, text, i)
  /\ cnt' = (cnt \/ KeepsGoing(Last(s'.talks).kind))
  /\ next' = next + 1

\* getTalkWhisperText: a client that answers ForceSkip meant Skip.
FromClient(text) == IF text.kind = "ForceSkip" THEN Plain("Skip") ELSE text

Answered(a) ==
  /\ Visiting(a)
  /\ \E text \in Answers :
       /\ ~BuildFails(s, Value(a), FromClient(text))
       /\ Record(Value(a), FromClient(text))
  /\ UNCHANGED <<hasError, order, i, pc>>

NoAnswer == Plain("ForceSkip")

\* The request failed: it timed out and the agent lives, or the agent is lost.
Failed(a) ==
  /\ Visiting(a)
  /\ \E lost \in BOOLEAN :
       /\ hasError' = [hasError EXCEPT ![a] = lost]
       /\ Record(<<a, lost>>, NoAnswer)
  /\ UNCHANGED <<order, i, pc>>

\* The slice in trimByWords or trimByRunes takes the process down.
Panics(a) ==
  /\ Visiting(a)
  /\ \E text \in Texts : BuildFails(s, Value(a), text)
  /\ pc' = "panic"
  /\ UNCHANGED <<hasError, s, order, i, next, cnt>>

EndRound ==
  /\ pc = "round" /\ next > Len(order)
  /\ IF cnt /\ i + 1 < PerDay
     THEN i' = i + 1 /\ next' = 1 /\ cnt' = FALSE /\ UNCHANGED pc
     ELSE pc' = "ended" /\ UNCHANGED <<i, next, cnt>>
  /\ UNCHANGED <<hasError, s, order>>

Next ==
  \/ Begin \/ SkipAgent \/ EndRound
  \/ \E a \in Agents : Answered(a) \/ Failed(a) \/ Panics(a)

Spec == Init /\ [][Next]_vars

\* Every request is answered or times out, and nothing else blocks the loop.
FairSpec == Spec /\ WF_vars(Next)

-----------------------------------------------------------------------------
(* Properties *)

TypeOK ==
  /\ hasError \in [Agents -> BOOLEAN]
  /\ s.talks \in Seq(Talk)
  /\ \A m \in {s.count, s.skip, s.length} :
       DOMAIN m \subseteq Key /\ \A k \in DOMAIN m : m[k] \in Int
  /\ order \in SetToSeqs(Agents)
  /\ i \in Nat /\ next \in 1..Len(order) + 1 /\ cnt \in BOOLEAN
  /\ pc \in {"start", "round", "ended", "panic"}

By(a)     == {n \in DOMAIN s.talks : s.talks[n].agent[1] = a}
Kind(n)   == s.talks[n].kind
Said(a)   == Cardinality({n \in By(a) : Kind(n) # "Over"})

\* A talk's turn is the number of its speaker's earlier talks, for agents that
\* stopped, failed or ran out as for those that did not: what an agent reads in
\* "turn" (runTurnBased's i) is how often it has been asked.
TurnCountsTalks ==
  \A n \in DOMAIN s.talks :
    s.talks[n].turn = Cardinality({m \in By(s.talks[n].agent[1]) : m < n})

\* The remaining count an agent is told in its next request (RemainCountMap)
\* follows from the transcript alone: every entry of it took one, unless an
\* Over of its own, or for want of skips, took what was left.
RemainTruthful ==
  \A a \in Agents :
    ~hasError[a] =>
      \/ s.count[Value(a)] = PerAgent - Cardinality(By(a))
      \/ s.count[Value(a)] = 0 /\ \E n \in By(a) : Kind(n) = "Over"

\* The skips charged to an agent were really skips: since its last speech the
\* transcript shows at least as many, the skips imposed by a failed request
\* come for free, and no agent owes any.
SkipsCharged ==
  \A a \in Agents :
    ~hasError[a] =>
      LET spoke == {n \in By(a) : Kind(n) = "text"}
          since == {n \in By(a) : \A m \in spoke : m < n}
      IN  /\ s.skip[Value(a)] \in 0..MaxSkip
          /\ MaxSkip - s.skip[Value(a)]
               <= Cardinality({n \in since : Kind(n) = "Skip"})

\* What an agent is told of its turns, speeches and skips follows from the
\* transcript that it can read.
CountersTruthful == TypeOK /\ TurnCountsTalks /\ RemainTruthful /\ SkipsCharged

\* A session that stops before its last round stops in silence: every agent
\* that could still be asked has just said Over.
EndsInSilence ==
  pc = "ended" /\ i + 1 < PerDay =>
    \A a \in Agents :
      CanAgentTalk(s, Value(a)) =>
        /\ By(a) # {}
        /\ \A n \in By(a) : (\A m \in By(a) : m <= n) => Kind(n) = "Over"

\* What agent a got through, in the first n talks, beyond the free characters of
\* every speech: what processText is to charge it for.
Above(n, free) == IF n > free THEN n - free ELSE 0
Spent(a, n) ==
  LET cost(m) == Above(s.talks[m].common, Base) + Above(s.talks[m].mentionText, MentionLength)
      upTo[m \in 0..n] ==
        IF m = 0 THEN 0 ELSE upTo[m - 1] + (IF m \in By(a) THEN cost(m) ELSE 0)
  IN  upTo[n]

\* Over a session an agent gets no more through than max_length.per_agent, or,
\* when only the single speech is limited, than the free characters: wherever
\* every cut that is due is made.  (Counting without spaces, what follows a
\* mention passes whole when nothing is left for it.)
LengthBudget ==
  \A a \in Agents :
    /\ LengthPerAgent # NoLimit /\ Cuts(0) => Spent(a, Len(s.talks)) <= LengthPerAgent
    /\ LengthPerAgent = NoLimit /\ ~Unlimited /\ Cuts(Base) /\ Cuts(MentionLength) =>
         Spent(a, Len(s.talks)) = 0

\* However characters are counted, an agent that has used up its own is not asked
\* again: only its last speech can take it past max_length.per_agent.
AskedWithinBudget ==
  LengthPerAgent # NoLimit =>
    \A a \in Agents : \A n \in By(a) : Spent(a, n - 1) < LengthPerAgent

\* Beside its mention, which no limit counts, a speech is no longer than
\* max_length.per_talk, unless nothing was left for what follows the mention and
\* it could not be cut to that.
PerTalkCut ==
  \A n \in DOMAIN s.talks :
    LET talk == s.talks[n]
        tag  == IF talk.mention THEN TagLength + Blanks ELSE 0
    IN  PerTalk # NoLimit =>
          /\ Cuts(PerTalk - talk.common) => SpeechLength(talk) <= PerTalk + tag
          /\ Cuts(PerTalk) => talk.common <= PerTalk

\* No way of placing mentions and of splitting what it says over its speeches
\* gets an agent past a limit of length, as far as the code counts.
LimitsHold == LengthBudget /\ AskedWithinBudget /\ PerTalkCut

\* The session is held as Discussion promises, whatever is answered.
D == INSTANCE Discussion WITH
       said   <- [a \in Agents |-> Said(a)],
       silent <- {a \in Agents : ~CanAgentTalk(s, Value(a))},
       open   <- pc \in {"start", "round"}

Discusses == D!Spec

-----------------------------------------------------------------------------
(* Documented promises the code does not keep *)

\* "If the speech is over, set the remaining count to 0": nobody is asked again
\* after an Over.
OverIsFinal ==
  \A n, m \in DOMAIN s.talks :
    (Kind(n) = "Over" /\ s.talks[n].agent[1] = s.talks[m].agent[1]) => m <= n

\* "Limit the speech to max_length.per_talk characters": the speech with its
\* mention, which is not counted when the rest is cut.
PerTalkBoundsTalks ==
  \A n \in DOMAIN s.talks : PerTalk # NoLimit => SpeechLength(s.talks[n]) <= PerTalk

\* per_day is "the maximum total number of speeches for all agents per day".
PerDayBoundsTalks == Len(s.talks) <= PerDay

\* "Limit mention_after to max_length.mention_length + remain_length
\* characters": cutting a speech down never stops the session.
NeverPanics == pc # "panic"

=============================================================================
