------------------------ MODULE CommunicationSession ------------------------
(***************************************************************************)
(* The accounting of one talk or whisper session, logic.CommunicationSession: *)
(* how many speeches, how many characters and how many skips every speaker *)
(* has left, and what buildTalk makes of an answer.  Sessions are records; *)
(* TalkTurns and Freeform run them.                                        *)
(*                                                                         *)
(* A speech is not a string but what the limits are about: the counted     *)
(* length before its first mention of another agent, whether it has one,   *)
(* and the counted length after it.  What becomes of it has the same three *)
(* parts, the mention between two blanks.                                  *)
(***************************************************************************)
EXTENDS Integers, Sequences, FiniteSets

CONSTANTS
  Agents,                  \* the agents of the session, two or more
  PerAgent,                \* max_count.per_agent
  MaxSkip,                 \* max_skip
  LengthPerAgent,          \* max_length.per_agent, or NoLimit
  BaseLength,              \* max_length.base_length, or NoLimit
  MentionLength,           \* max_length.mention_length
  PerTalk,                 \* max_length.per_talk, or NoLimit
  CountMode,               \* count_in_word, count_spaces, or neither of them
  TagLength                \* the counted length of a mention, "@Agent[01]"

NoLimit == -1              \* the config's "no limit", a nil pointer

ASSUME SessionAssumption ==
  /\ IsFiniteSet(Agents) /\ Cardinality(Agents) >= 2
  /\ PerAgent \in Nat /\ MaxSkip \in Nat /\ MentionLength \in Nat
  /\ LengthPerAgent \in Nat \union {NoLimit}
  /\ BaseLength \in Nat \union {NoLimit} /\ PerTalk \in Nat \union {NoLimit}
  /\ CountMode \in {"words", "characters", "nonspaces"}
  /\ TagLength \in Nat \ {0}

Key    == Agents \X BOOLEAN          \* model.Agent as a value: HasError is part of it
Kinds  == {"text", "Skip", "Over", "ForceSkip"}
Text   == [kind : Kinds, before : Nat, mention : BOOLEAN, after : Nat]
Talk   == [agent : Key, turn : Nat, kind : Kinds \ {"ForceSkip"},
           common : Nat, mention : BOOLEAN, mentionText : Nat]

Plain(kind) == [kind |-> kind, before |-> 0, mention |-> FALSE, after |-> 0]

-----------------------------------------------------------------------------
(* Maps keyed by agent values: a missing key reads as zero *)

Get(m, k)    == IF k \in DOMAIN m THEN m[k] ELSE 0
Put(m, k, v) == [x \in (DOMAIN m) \union {k} |-> IF x = k THEN v ELSE m[x]]

\* remainLength += value, when the agent has a limit
Allowance(length, k) == IF k \in DOMAIN length THEN length[k] ELSE 0

Charge(length, k, cost) ==
  IF cost > 0 /\ k \in DOMAIN length THEN Put(length, k, length[k] - cost) ELSE length

NewCommunicationSession ==
  LET speakers == {<<a, FALSE>> : a \in Agents}
  IN  [count  |-> [k \in speakers |-> PerAgent],
       length |-> [k \in IF LengthPerAgent = NoLimit THEN {} ELSE speakers
                     |-> LengthPerAgent],
       skip   |-> [k \in speakers |-> MaxSkip],
       talks  |-> <<>>]

AllAgentsDone(s, keys) == \A k \in keys : Get(s.count, k) <= 0

CanAgentTalk(s, k) ==
  /\ Get(s.count, k) > 0
  /\ k \in DOMAIN s.length => s.length[k] > 0

-----------------------------------------------------------------------------
(* TrimLength.  Counting words or characters it cuts with a slice, and a   *)
(* negative limit is a run-time error; counting the characters that are    *)
(* not spaces it cuts after the limit-th, and a limit below 1 is never met. *)

TrimFails(limit) == CountMode # "nonspaces" /\ limit < 0
Cuts(limit)      == CountMode # "nonspaces" \/ limit >= 1

Trim(n, limit) == IF n > limit /\ Cuts(limit) THEN limit ELSE n

(* The limits per agent and per speech, and then the limit per talk.  The  *)
(* part before the mention is charged as it arrived, the part after it as  *)
(* it was cut; the mention itself is counted by neither limit, nor are the *)
(* blanks put around it.                                                   *)
Unlimited == LengthPerAgent = NoLimit /\ BaseLength = NoLimit
Base      == IF BaseLength = NoLimit THEN 0 ELSE BaseLength

\* variant: the common part is never charged
LimitCommon_free(length, k, n) ==
  [common |-> Trim(n, Base + Allowance(length, k)), length |-> length]

LimitCommon(length, k, n) ==
  [common |-> Trim(n, Base + Allowance(length, k)),
   length |-> Charge(length, k, n - Base)]

LimitMention(length, k, n) ==
  LET limit == MentionLength + Allowance(length, k)
      kept  == Trim(n, limit)
  IN  [kept |-> kept, fails |-> TrimFails(limit),
       length |-> Charge(length, k, kept - MentionLength)]

LimitTalk(common, mention, after) ==
  IF PerTalk = NoLimit \/ common + after <= PerTalk
  THEN [common |-> common, mention |-> mention, after |-> after]
  ELSE IF common > PerTalk
  THEN [common |-> Trim(common, PerTalk), mention |-> FALSE, after |-> 0]
  ELSE [common |-> common, mention |-> mention, after |-> Trim(after, PerTalk - common)]

\* Without a limit per agent or per speech the text is not looked into: its
\* mention is part of the common text.
WholeLength(text) == text.before + text.after + (IF text.mention THEN TagLength ELSE 0)

ProcessText(length, k, text) ==
  LET mention == text.mention /\ ~Unlimited
      first   == IF Unlimited THEN [common |-> WholeLength(text), length |-> length]
                 ELSE LimitCommon(length, k, text.before)
      second  == IF mention THEN LimitMention(first.length, k, text.after)
                 ELSE [kept |-> 0, fails |-> FALSE, length |-> first.length]
      cut     == LimitTalk(first.common, mention, second.kept)
  IN  [common |-> cut.common, mention |-> cut.mention, mentionText |-> cut.after,
       length |-> second.length, fails |-> second.fails,
       kind |-> IF cut.common + cut.after = 0 /\ ~cut.mention THEN "Over" ELSE "text"]

-----------------------------------------------------------------------------
(* processSkipOver and buildTalk *)

SkipOver(s, k, kind) ==
  IF kind = "Skip" /\ Get(s.skip, k) <= 0 THEN "Over"
  ELSE IF kind = "ForceSkip" THEN "Skip" ELSE kind

\* variant: a speech does not give the skips back
RemainSkip_noReset(s, k, kind) ==
  IF kind = "Skip" /\ Get(s.skip, k) > 0 THEN Put(s.skip, k, s.skip[k] - 1) ELSE s.skip

RemainSkip(s, k, kind) ==
  IF kind = "Skip" /\ Get(s.skip, k) > 0 THEN Put(s.skip, k, s.skip[k] - 1)
  ELSE IF SkipOver(s, k, kind) = "text" THEN Put(s.skip, k, MaxSkip) ELSE s.skip

RemainCount(s, k, kind) ==
  Put(s.count, k, IF SkipOver(s, k, kind) = "Over" THEN 0 ELSE Get(s.count, k) - 1)

\* The session after buildTalk and appendTalk of k's answer.
BuildTalk(s, k, text, turn) ==
  LET kind == SkipOver(s, k, text.kind)
      body == IF kind = "text" THEN ProcessText(s.length, k, text)
              ELSE [kind |-> kind, common |-> 0, mention |-> FALSE, mentionText |-> 0,
                    length |-> s.length]
  IN  [count  |-> RemainCount(s, k, text.kind),
       length |-> body.length,
       skip   |-> RemainSkip(s, k, text.kind),
       talks  |-> Append(s.talks, [agent |-> k, turn |-> turn, kind |-> body.kind,
                                   common |-> body.common, mention |-> body.mention,
                                   mentionText |-> body.mentionText])]

\* The length of the speech that is sent out: commonText + mention + mentionText.
Blanks == IF CountMode = "characters" THEN 2 ELSE 0
SpeechLength(talk) ==
  talk.common + talk.mentionText + (IF talk.mention THEN TagLength + Blanks ELSE 0)

\* buildTalk never returns: a slice in it has a negative bound.
BuildFails(s, k, text) ==
  text.kind = "text" /\ ProcessText(s.length, k, text).fails

=============================================================================
