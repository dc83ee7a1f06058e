-------------------------- MODULE TalkTurnsProofs ---------------------------
(***************************************************************************)
(* What holds of a turn-based session for any agents, any limits and any   *)
(* speeches: what an agent is told follows from the transcript, the        *)
(* session ends early only in silence, nobody gets past its limits of      *)
(* length, and every step is one that Discussion allows.                   *)
(***************************************************************************)
EXTENDS TalkTurns, SequenceTheorems, FiniteSetTheorems, TLAPS

-----------------------------------------------------------------------------
(* The accounting of CommunicationSession *)

Maps(m) == DOMAIN m \subseteq Key /\ \A k \in DOMAIN m : m[k] \in Int

\* Putting a value under a key leaves every other key alone.
LEMMA PutProperties ==
  ASSUME NEW m, Maps(m), NEW k \in Key, NEW v \in Int
  PROVE  /\ Maps(Put(m, k, v))
         /\ DOMAIN Put(m, k, v) = DOMAIN m \union {k}
         /\ Put(m, k, v)[k] = v
         /\ \A x \in DOMAIN m : x # k => Put(m, k, v)[x] = m[x]
BY DEF Put, Maps

\* Charging never gives anything back, and touches nobody else.
LEMMA ChargeProperties ==
  ASSUME NEW length, Maps(length), NEW k \in Key, NEW cost \in Int
  PROVE  /\ Maps(Charge(length, k, cost))
         /\ DOMAIN Charge(length, k, cost) = DOMAIN length
         /\ \A x \in DOMAIN length : x # k => Charge(length, k, cost)[x] = length[x]
         /\ k \in DOMAIN length =>
              Charge(length, k, cost)[k] = length[k] - Above(cost, 0)
<1>1. CASE cost > 0 /\ k \in DOMAIN length
  <2> DEFINE charged == Put(length, k, length[k] - cost)
  <2>1. length[k] - cost \in Int /\ DOMAIN length \union {k} = DOMAIN length
    BY <1>1 DEF Maps
  <2>2. Charge(length, k, cost) = charged /\ Above(cost, 0) = cost
    BY <1>1 DEF Charge, Above
  <2>3. /\ Maps(charged) /\ DOMAIN charged = DOMAIN length
        /\ charged[k] = length[k] - cost
        /\ \A x \in DOMAIN length : x # k => charged[x] = length[x]
    <3> HIDE DEF charged
    <3> QED
      BY <2>1, PutProperties DEF charged
  <2>4. QED
    BY <2>2, <2>3
<1>2. CASE ~(cost > 0 /\ k \in DOMAIN length)
  BY <1>2 DEF Charge, Above, Maps
<1>3. QED
  BY <1>1, <1>2

\* What trimming leaves is no longer than what arrived, and within the limit when
\* there is anything to cut with.
LEMMA TrimProperties ==
  ASSUME NEW n \in Nat, NEW limit \in Int, ~TrimFails(limit)
  PROVE  /\ Trim(n, limit) \in Nat
         /\ Trim(n, limit) <= n
         /\ limit >= 0 /\ Cuts(limit) => Trim(n, limit) <= limit
BY DEF Trim, TrimFails, Cuts

\* What the limit per speech leaves of the two parts of one.
WithinTalk(common, after) ==
  /\ Cuts(PerTalk - common) => common + after <= PerTalk
  /\ Cuts(PerTalk) => common <= PerTalk

\* The limit per speech only cuts further, and is kept where something can be cut.
LEMMA LimitTalkProperties ==
  ASSUME NEW common \in Nat, NEW after \in Nat, NEW mention \in BOOLEAN
  PROVE  LET cut == LimitTalk(common, mention, after)
         IN  /\ cut.common \in Nat /\ cut.common <= common
             /\ cut.after \in Nat /\ cut.after <= after
             /\ cut.mention \in BOOLEAN
             /\ PerTalk # NoLimit => WithinTalk(cut.common, cut.after)
<1> DEFINE cut == LimitTalk(common, mention, after)
<1>0. PerTalk \in Nat \union {NoLimit}
  BY SessionAssumption
<1>1. CASE PerTalk = NoLimit \/ common + after <= PerTalk
  <2>1. cut.common = common /\ cut.after = after /\ cut.mention = mention
    BY <1>1 DEF LimitTalk
  <2>2. QED
    BY <1>0, <1>1, <2>1 DEF WithinTalk, NoLimit
<1>2. CASE ~(PerTalk = NoLimit \/ common + after <= PerTalk) /\ common > PerTalk
  <2>1. cut.common = Trim(common, PerTalk) /\ cut.after = 0 /\ cut.mention = FALSE
    BY <1>2 DEF LimitTalk
  <2>2. PerTalk \in Nat /\ ~TrimFails(PerTalk)
    BY <1>0, <1>2 DEF TrimFails
  <2>3. /\ Trim(common, PerTalk) \in Nat /\ Trim(common, PerTalk) <= common
        /\ Cuts(PerTalk) => Trim(common, PerTalk) <= PerTalk
        /\ ~Cuts(PerTalk) => Trim(common, PerTalk) = common
    BY <2>2, TrimProperties DEF Trim
  <2>4. WithinTalk(cut.common, cut.after)
    <3>1. CASE Cuts(PerTalk)
      BY <2>1, <2>2, <2>3, <3>1 DEF WithinTalk
    <3>2. CASE ~Cuts(PerTalk)
      <4>1. cut.common = common /\ ~Cuts(PerTalk - common)
        BY <1>2, <2>1, <2>2, <2>3, <3>2 DEF Cuts
      <4>2. QED
        BY <3>2, <4>1 DEF WithinTalk
    <3>3. QED
      BY <3>1, <3>2
  <2>5. /\ cut.common \in Nat /\ cut.common <= common
        /\ cut.after \in Nat /\ cut.after <= after
    <3>1. cut.common = Trim(common, PerTalk) /\ cut.after = 0
      BY <2>1, Zenon
    <3> HIDE DEF cut
    <3>2. QED
      BY <2>3, <3>1
  <2>6. cut.mention \in BOOLEAN
    BY <2>1, Zenon
  <2>7. QED
    BY <2>4, <2>5, <2>6, Zenon
<1>3. CASE ~(PerTalk = NoLimit \/ common + after <= PerTalk) /\ ~(common > PerTalk)
  <2>1. cut.common = common /\ cut.after = Trim(after, PerTalk - common) /\ cut.mention = mention
    BY <1>3 DEF LimitTalk
  <2>2. PerTalk - common \in Nat /\ ~TrimFails(PerTalk - common)
    BY <1>0, <1>3 DEF TrimFails
  <2>3. /\ Trim(after, PerTalk - common) \in Nat /\ Trim(after, PerTalk - common) <= after
        /\ Cuts(PerTalk - common) => Trim(after, PerTalk - common) <= PerTalk - common
    BY <2>2, TrimProperties
  <2>4. WithinTalk(cut.common, cut.after)
    BY <1>0, <1>3, <2>1, <2>2, <2>3 DEF WithinTalk
  <2>5. QED
    BY <2>1, <2>3, <2>4
<1>4. QED
  BY <1>1, <1>2, <1>3

\* What a speech cost its speaker, who had so much left before and has so much now;
\* and the configurations in which every speech is cut to its free characters.
CostOf(talk) == Above(talk.common, Base) + Above(talk.mentionText, MentionLength)
Paid(talk, before, now) ==
  /\ CostOf(talk) <= before - now
  /\ Cuts(0) => CostOf(talk) <= before - Above(now, 0)
AllFree == LengthPerAgent = NoLimit /\ ~Unlimited /\ Cuts(Base) /\ Cuts(MentionLength)

\* What becomes of a speech of somebody who has characters left: its parts, what
\* is charged for it, and that no more of it gets through than was left.
LEMMA ProcessTextProperties ==
  ASSUME NEW length, Maps(length), NEW k \in Key, NEW text \in Text,
         k \in DOMAIN length => length[k] > 0,
         ~ProcessText(length, k, text).fails
  PROVE  LET body == ProcessText(length, k, text)
         IN  /\ body.kind \in {"text", "Over"}
             /\ body.common \in Nat /\ body.mentionText \in Nat /\ body.mention \in BOOLEAN
             /\ Maps(body.length) /\ DOMAIN body.length = DOMAIN length
             /\ \A x \in DOMAIN length : x # k => body.length[x] = length[x]
             /\ k \in DOMAIN length => body.length[k] <= length[k]
             /\ PerTalk # NoLimit => WithinTalk(body.common, body.mentionText)
             /\ LengthPerAgent # NoLimit /\ k \in DOMAIN length =>
                  Paid(body, length[k], body.length[k])
             /\ AllFree /\ k \notin DOMAIN length => CostOf(body) = 0
<1> DEFINE body    == ProcessText(length, k, text)
           mention == text.mention /\ ~Unlimited
           first   == IF Unlimited THEN [common |-> WholeLength(text), length |-> length]
                      ELSE LimitCommon(length, k, text.before)
           second  == IF mention THEN LimitMention(first.length, k, text.after)
                      ELSE [kept |-> 0, fails |-> FALSE, length |-> first.length]
           cut     == LimitTalk(first.common, mention, second.kept)
<1>1. /\ body.common = cut.common /\ body.mentionText = cut.after /\ body.mention = cut.mention
      /\ body.length = second.length /\ body.fails = second.fails
      /\ body.kind \in {"text", "Over"}
  BY DEF ProcessText
<1>2. text.before \in Nat /\ text.after \in Nat /\ text.mention \in BOOLEAN
  BY DEF Text
<1>3. /\ Base \in Nat /\ MentionLength \in Nat
      /\ LengthPerAgent \in Nat \union {NoLimit} /\ NoLimit = -1
  BY SessionAssumption DEF Base, NoLimit
<1>4. Allowance(length, k) \in Nat /\ (k \in DOMAIN length => Allowance(length, k) = length[k])
  BY DEF Allowance, Maps
<1>5. /\ first.common \in Nat
      /\ Maps(first.length) /\ DOMAIN first.length = DOMAIN length
      /\ \A x \in DOMAIN length : x # k => first.length[x] = length[x]
      /\ k \in DOMAIN length => first.length[k] <= length[k]
      /\ ~Unlimited /\ k \in DOMAIN length =>
           /\ Above(first.common, Base) <= length[k]
           /\ first.length[k] = length[k] - Above(text.before, Base)
           /\ first.common <= text.before
      /\ ~Unlimited /\ k \notin DOMAIN length /\ Cuts(Base) => first.common <= Base
  <2>1. CASE Unlimited
    <3>1. WholeLength(text) \in Nat
      BY <1>2, SessionAssumption DEF WholeLength
    <3>2. QED
      BY <2>1, <3>1 DEF Maps
  <2>2. CASE ~Unlimited
    <3> DEFINE limit == Base + Allowance(length, k)
    <3>1. /\ limit \in Nat /\ ~TrimFails(limit) /\ (k \in DOMAIN length => limit >= 1)
          /\ k \notin DOMAIN length => limit = Base
      BY <1>3, <1>4 DEF TrimFails, Allowance
    <3>2. /\ first.common = Trim(text.before, limit)
          /\ first.length = Charge(length, k, text.before - Base)
      BY <2>2 DEF LimitCommon
    <3>3. /\ first.common \in Nat /\ first.common <= text.before
          /\ k \in DOMAIN length => first.common <= limit
          /\ k \notin DOMAIN length /\ Cuts(Base) => first.common <= Base
      BY <3>1, <3>2, <1>2, TrimProperties DEF Cuts
    <3>4. Above(text.before - Base, 0) = Above(text.before, Base)
      BY <1>2, <1>3 DEF Above
    <3>5. text.before - Base \in Int /\ Above(text.before, Base) \in Nat
      BY <1>2, <1>3 DEF Above
    <3>6. k \in DOMAIN length => Above(first.common, Base) <= length[k]
      BY <3>3, <1>3, <1>4 DEF Above, Maps
    <3>7. /\ Maps(first.length) /\ DOMAIN first.length = DOMAIN length
          /\ \A x \in DOMAIN length : x # k => first.length[x] = length[x]
          /\ k \in DOMAIN length => first.length[k] = length[k] - Above(text.before, Base)
      BY <3>2, <3>4, <3>5, ChargeProperties
    <3>8. QED
      BY <3>3, <3>5, <3>6, <3>7 DEF Maps
  <2>3. QED
    BY <2>1, <2>2
<1>6. /\ second.kept \in Nat
      /\ Maps(second.length) /\ DOMAIN second.length = DOMAIN length
      /\ \A x \in DOMAIN length : x # k => second.length[x] = length[x]
      /\ k \in DOMAIN length => second.length[k] = first.length[k] - Above(second.kept, MentionLength)
      /\ CountMode # "nonspaces" /\ k \in DOMAIN length =>
           second.kept = 0 \/ second.kept <= MentionLength + first.length[k]
      /\ k \notin DOMAIN length /\ Cuts(MentionLength) => second.kept <= MentionLength
  <2>1. CASE ~mention
    <3>1. second.kept = 0 /\ second.length = first.length
      BY <2>1
    <3>2. Above(0, MentionLength) = 0
      BY <1>3 DEF Above
    <3>3. QED
      BY <2>1, <3>1, <3>2, <1>3, <1>5 DEF Maps
  <2>2. CASE mention
    <3> DEFINE limit == MentionLength + Allowance(first.length, k)
    <3>1. /\ limit \in Int /\ (k \in DOMAIN length => limit = MentionLength + first.length[k])
          /\ k \notin DOMAIN length => limit = MentionLength
      BY <1>3, <1>5 DEF Allowance, Maps
    <3>2. /\ second.kept = Trim(text.after, limit) /\ second.fails = TrimFails(limit)
          /\ second.length = Charge(first.length, k, second.kept - MentionLength)
      BY <2>2, Zenon DEF LimitMention
    <3>3. ~TrimFails(limit)
      BY <3>2, <1>1
    <3>4. /\ second.kept \in Nat
          /\ Cuts(limit) => second.kept <= limit
      <4>1. Cuts(limit) => limit >= 0
        BY <3>1, <3>3 DEF TrimFails, Cuts
      <4>2. /\ Trim(text.after, limit) \in Nat
            /\ Cuts(limit) => Trim(text.after, limit) <= limit
        <5> HIDE DEF limit
        <5> QED
          BY <4>1, <3>1, <3>3, <1>2, TrimProperties
      <4>3. QED
        BY <4>2, <3>2
    <3>5. /\ second.kept - MentionLength \in Int
          /\ Above(second.kept - MentionLength, 0) = Above(second.kept, MentionLength)
      BY <3>4, <1>3 DEF Above
    <3>6. CountMode # "nonspaces" => Cuts(limit)
      BY DEF Cuts
    <3>7. /\ Maps(second.length) /\ DOMAIN second.length = DOMAIN length
          /\ \A x \in DOMAIN length : x # k => second.length[x] = length[x]
          /\ k \in DOMAIN length =>
               second.length[k] = first.length[k] - Above(second.kept, MentionLength)
      <4> HIDE DEF limit
      <4> QED
        BY <3>2, <3>5, <1>5, ChargeProperties
    <3>8. QED
      BY <3>1, <3>4, <3>6, <3>7
  <2>3. QED
    BY <2>1, <2>2
<1>7. /\ cut.common \in Nat /\ cut.common <= first.common
      /\ cut.after \in Nat /\ cut.after <= second.kept /\ cut.mention \in BOOLEAN
      /\ PerTalk # NoLimit => WithinTalk(cut.common, cut.after)
  <2>1. mention \in BOOLEAN
    BY <1>2
  <2>2. QED
    BY <2>1, <1>5, <1>6, LimitTalkProperties
<1>8. k \in DOMAIN length => second.length[k] <= length[k]
  BY <1>3, <1>5, <1>6 DEF Above, Maps
<1>9. ASSUME LengthPerAgent # NoLimit, k \in DOMAIN length
      PROVE  Paid(body, length[k], second.length[k])
  <2>1. ~Unlimited
    BY <1>9 DEF Unlimited
  <2>2. length[k] \in Int /\ first.length[k] \in Int /\ second.length[k] \in Int
    BY <1>5, <1>6, <1>9 DEF Maps
  <2>3. /\ Above(cut.common, Base) <= length[k]
        /\ Above(cut.common, Base) <= length[k] - first.length[k]
    BY <1>2, <1>3, <1>5, <1>7, <1>9, <2>1, <2>2 DEF Above
  <2>4. Cuts(0) => second.kept = 0 \/ second.kept <= MentionLength + first.length[k]
    BY <1>6, <1>9 DEF Cuts
  <2>5. Above(cut.after, MentionLength) <= Above(second.kept, MentionLength)
    BY <1>3, <1>6, <1>7 DEF Above
  <2>6. CostOf(body) = Above(cut.common, Base) + Above(cut.after, MentionLength)
    BY <1>1 DEF CostOf
  <2>7. second.length[k] = first.length[k] - Above(second.kept, MentionLength)
    BY <1>6, <1>9
  <2>8. /\ Above(cut.common, Base) \in Nat /\ Above(cut.after, MentionLength) \in Nat
        /\ Above(second.kept, MentionLength) \in Nat
    BY <1>3, <1>6, <1>7 DEF Above
  <2>9. CostOf(body) <= length[k] - second.length[k]
    BY <2>2, <2>3, <2>5, <2>6, <2>7, <2>8
  <2>10. Cuts(0) => CostOf(body) <= length[k] - Above(second.length[k], 0)
    BY <1>3, <1>6, <1>7, <2>2, <2>3, <2>4, <2>5, <2>6, <2>7 DEF Above
  <2>11. QED
    BY <2>9, <2>10 DEF Paid
<1>10. ASSUME AllFree, k \notin DOMAIN length PROVE CostOf(body) = 0
  <2>1. cut.common <= Base /\ cut.after <= MentionLength
    BY <1>3, <1>5, <1>6, <1>7, <1>10 DEF AllFree
  <2>2. QED
    BY <1>1, <1>3, <1>7, <2>1 DEF CostOf, Above
<1>11. QED
  BY <1>1, <1>5, <1>6, <1>7, <1>8, <1>9, <1>10

-----------------------------------------------------------------------------
(* One turn: an answer or a failed request *)

Well(a) == <<a, FALSE>>      \* the value of an agent that has not been lost
Gone(a) == <<a, TRUE>>

\* An agent is accounted for as long as it is well, and what is put down for it
\* once it is gone leaves it nothing to say.
KeysSound ==
  /\ Maps(s.count) /\ Maps(s.skip) /\ Maps(s.length)
  /\ \A a \in Agents :
       /\ Well(a) \in DOMAIN s.count /\ Well(a) \in DOMAIN s.skip
       /\ Well(a) \in DOMAIN s.length <=> LengthPerAgent # NoLimit
       /\ Gone(a) \notin DOMAIN s.length
       /\ s.skip[Well(a)] \in 0..MaxSkip
       /\ ~hasError[a] => Gone(a) \notin DOMAIN s.count
       /\ hasError[a] => Get(s.count, Gone(a)) <= 0

\* What Answered and Failed have in common.
TakesTurn(a, lost, text) ==
  /\ Visiting(a)
  /\ ~BuildFails(s, <<a, lost>>, text)
  /\ lost => text.kind = "ForceSkip"
  /\ Record(<<a, lost>>, text)
  /\ hasError' = [hasError EXCEPT ![a] = lost]
  /\ UNCHANGED <<order, i, pc>>

LEMMA Visited ==
  ASSUME TypeOK, KeysSound, NEW a \in Agents, Visiting(a)
  PROVE  /\ ~hasError[a] /\ Value(a) = Well(a)
         /\ s.count[Well(a)] > 0
         /\ Well(a) \in DOMAIN s.length => s.length[Well(a)] > 0
<1>1. CanAgentTalk(s, Value(a)) /\ hasError[a] \in BOOLEAN
  BY DEF Visiting, TypeOK
<1>2. ~hasError[a]
  <2>1. SUFFICES ASSUME hasError[a] PROVE FALSE
    OBVIOUS
  <2>2. Value(a) = Gone(a)
    BY <1>1, <2>1 DEF Value, Gone
  <2>3. Get(s.count, Gone(a)) <= 0 /\ Get(s.count, Gone(a)) \in Int
    BY <2>1 DEF KeysSound, Get, Maps
  <2>4. QED
    BY <1>1, <2>2, <2>3 DEF CanAgentTalk
<1>3. Value(a) = Well(a)
  BY <1>1, <1>2 DEF Value, Well
<1>4. QED
  BY <1>1, <1>2, <1>3 DEF CanAgentTalk, Get, KeysSound

LEMMA AnswersAreTurns ==
  ASSUME TypeOK, KeysSound, NEW a \in Agents, Answered(a) \/ Failed(a)
  PROVE  \E lost \in BOOLEAN, text \in Text : TakesTurn(a, lost, text)
<1>1. \A kind \in Kinds : Plain(kind) \in Text
  BY DEF Plain, Text
<1>2. Answers \subseteq Text
  BY <1>1, TurnsAssumption DEF Answers, Kinds
<1>3. CASE Answered(a)
  <2>1. PICK text \in Answers :
           /\ ~BuildFails(s, Value(a), FromClient(text))
           /\ Record(Value(a), FromClient(text))
    BY <1>3 DEF Answered
  <2>2. FromClient(text) \in Text
    BY <1>1, <1>2 DEF FromClient, Kinds
  <2>3. ~hasError[a] /\ Value(a) = <<a, FALSE>>
    BY <1>3, Visited DEF Answered, Well
  <2>4. hasError' = [hasError EXCEPT ![a] = FALSE]
    BY <1>3, <2>3 DEF Answered, TypeOK
  <2>5. TakesTurn(a, FALSE, FromClient(text))
    BY <1>3, <2>1, <2>3, <2>4 DEF TakesTurn, Answered
  <2>6. QED
    BY <2>2, <2>5
<1>4. CASE Failed(a)
  <2>1. PICK lost \in BOOLEAN :
           /\ hasError' = [hasError EXCEPT ![a] = lost]
           /\ Record(<<a, lost>>, NoAnswer)
    BY <1>4 DEF Failed
  <2>2. NoAnswer \in Text /\ NoAnswer.kind = "ForceSkip"
    BY <1>1 DEF NoAnswer, Kinds, Plain
  <2>3. TakesTurn(a, lost, NoAnswer)
    BY <1>4, <2>1, <2>2 DEF TakesTurn, Failed, BuildFails
  <2>4. QED
    BY <2>2, <2>3
<1>5. QED
  BY <1>3, <1>4

\* The accounts after a turn of a that added t to the transcript: nobody else's
\* change, and what a has left.
TurnAdds(a, lost, t) ==
  /\ s'.talks = Append(s.talks, t) /\ t.agent = <<a, lost>> /\ t.turn = i
  /\ cnt' = (cnt \/ t.kind # "Over")
  /\ lost => t.kind = "Skip"
  /\ \A b \in Agents \ {a} :
       /\ s'.count[Well(b)] = s.count[Well(b)]
       /\ s'.skip[Well(b)] = s.skip[Well(b)]
       /\ LengthPerAgent # NoLimit => s'.length[Well(b)] = s.length[Well(b)]
  /\ ~lost => \/ s'.count[Well(a)] = s.count[Well(a)] - 1
              \/ s'.count[Well(a)] = 0 /\ t.kind = "Over"
  /\ ~lost => \/ s'.skip[Well(a)] = MaxSkip
              \/ s'.skip[Well(a)] = s.skip[Well(a)] - 1 /\ t.kind = "Skip"
              \/ s'.skip[Well(a)] = s.skip[Well(a)] /\ t.kind # "text"
  /\ LengthPerAgent # NoLimit =>
       /\ s'.length[Well(a)] <= s.length[Well(a)]
       /\ Paid(t, s.length[Well(a)], s'.length[Well(a)])
  /\ AllFree => CostOf(t) = 0
  /\ PerTalk # NoLimit => WithinTalk(t.common, t.mentionText)

\* What a turn adds to the transcript, and what it takes from the agent.
LEMMA TurnEffect ==
  ASSUME TypeOK, KeysSound, NEW a \in Agents, NEW lost \in BOOLEAN, NEW text \in Text,
         TakesTurn(a, lost, text)
  PROVE  KeysSound' /\ \E t \in Talk : TurnAdds(a, lost, t)
<1> DEFINE k    == <<a, lost>>
           kind == SkipOver(s, k, text.kind)
           body == IF kind = "text" THEN ProcessText(s.length, k, text)
                   ELSE [kind |-> kind, common |-> 0, mention |-> FALSE, mentionText |-> 0,
                         length |-> s.length]
           t    == [agent |-> k, turn |-> i, kind |-> body.kind, common |-> body.common,
                    mention |-> body.mention, mentionText |-> body.mentionText]
<1>1. /\ s'.count = RemainCount(s, k, text.kind) /\ s'.skip = RemainSkip(s, k, text.kind)
      /\ s'.length = body.length
      /\ s'.talks = Append(s.talks, t)
      /\ cnt' = (cnt \/ KeepsGoing(Last(s'.talks).kind))
  <2>1. s' = BuildTalk(s, k, text, i) /\ cnt' = (cnt \/ KeepsGoing(Last(s'.talks).kind))
    BY DEF TakesTurn, Record
  <2>2. QED
    BY <2>1 DEF BuildTalk
<1>2. /\ ~hasError[a] /\ s.count[Well(a)] > 0
      /\ Well(a) \in DOMAIN s.length => s.length[Well(a)] > 0
  BY Visited DEF TakesTurn
<1>3. /\ k \in Key /\ (lost => k = Gone(a)) /\ (~lost => k = Well(a))
      /\ \A b \in Agents : Well(b) \in Key /\ Gone(b) \in Key
      /\ \A b \in Agents \ {a} : Well(b) # k /\ Gone(b) # k
      /\ Well(a) # Gone(a)
  BY DEF Key, Well, Gone
<1>4. text.kind \in Kinds /\ kind \in {"text", "Skip", "Over"} /\ (kind = "text" => text.kind = "text")
      /\ (text.kind = "ForceSkip" => kind = "Skip") /\ (text.kind = "text" => kind = "text")
  BY DEF Text, Kinds, SkipOver
<1>5. lost => kind = "Skip" /\ text.kind = "ForceSkip"
  BY <1>4 DEF TakesTurn
<1>6. k \in DOMAIN s.length => s.length[k] > 0
  BY <1>2, <1>3 DEF KeysSound
<1>7. /\ body.kind = kind \/ (kind = "text" /\ body.kind = "Over")
      /\ body.common \in Nat /\ body.mentionText \in Nat /\ body.mention \in BOOLEAN
      /\ Maps(body.length) /\ DOMAIN body.length = DOMAIN s.length
      /\ \A x \in DOMAIN s.length : x # k => body.length[x] = s.length[x]
      /\ k \in DOMAIN s.length => body.length[k] <= s.length[k]
      /\ PerTalk # NoLimit => WithinTalk(body.common, body.mentionText)
      /\ LengthPerAgent # NoLimit /\ k \in DOMAIN s.length => Paid(body, s.length[k], body.length[k])
      /\ AllFree /\ k \notin DOMAIN s.length => CostOf(body) = 0
  <2>1. CASE kind = "text"
    <3>1. body = ProcessText(s.length, k, text)
      BY <2>1
    <3>2. ~ProcessText(s.length, k, text).fails
      BY <1>4, <2>1 DEF TakesTurn, BuildFails
    <3>3. Maps(s.length)
      BY DEF KeysSound
    <3> HIDE DEF body, k
    <3>4. QED
      BY <1>3, <1>6, <2>1, <3>1, <3>2, <3>3, ProcessTextProperties
  <2>2. CASE kind # "text"
    <3>1. /\ body.kind = kind /\ body.common = 0 /\ body.mentionText = 0 /\ body.mention = FALSE
          /\ body.length = s.length
      BY <2>2
    <3>2. /\ Base \in Nat /\ MentionLength \in Nat /\ PerTalk \in Nat \union {NoLimit}
          /\ Maps(s.length)
      BY SessionAssumption DEF Base, NoLimit, KeysSound
    <3>3. k \in DOMAIN s.length => s.length[k] \in Int
      BY <3>2 DEF Maps
    <3> HIDE DEF body, k
    <3>4. CostOf(body) = 0
      BY <3>1, <3>2 DEF CostOf, Above
    <3>5. k \in DOMAIN s.length => Paid(body, s.length[k], body.length[k])
      BY <1>6, <3>1, <3>3, <3>4 DEF Paid, Above
    <3>6. PerTalk # NoLimit => WithinTalk(body.common, body.mentionText)
      BY <3>1, <3>2 DEF WithinTalk
    <3>7. body.common = 0 /\ body.mentionText = 0 /\ body.length = s.length
      BY <3>1, Zenon
    <3>8. /\ body.common \in Nat /\ body.mentionText \in Nat
          /\ k \in DOMAIN s.length => body.length[k] <= s.length[k]
      BY <3>3, <3>7
    <3>9. body.mention \in BOOLEAN
      BY <3>1, Zenon
    <3>10. QED
      BY <3>1, <3>2, <3>4, <3>5, <3>6, <3>8, <3>9, Zenon
  <2>3. QED
    BY <2>1, <2>2
<1>8. t \in Talk /\ Last(s'.talks) = t
  <2>1. t \in Talk
    BY <1>3, <1>4, <1>7 DEF Talk, Kinds, TypeOK
  <2>2. s.talks \in Seq(Talk)
    BY DEF TypeOK
  <2> HIDE DEF t
  <2>3. QED
    BY <1>1, <2>1, <2>2, AppendProperties DEF Last
<1> HIDE DEF body, k, kind
<1>9. /\ Maps(s'.count) /\ DOMAIN s'.count = DOMAIN s.count \union {k}
      /\ s'.count[k] = (IF kind = "Over" THEN 0 ELSE Get(s.count, k) - 1)
      /\ \A x \in DOMAIN s.count : x # k => s'.count[x] = s.count[x]
  <2> DEFINE left  == IF kind = "Over" THEN 0 ELSE Get(s.count, k) - 1
             count == s.count
  <2>1. Maps(count) /\ left \in Int
    BY DEF KeysSound, Get, Maps
  <2>2. s'.count = Put(count, k, left)
    BY <1>1 DEF RemainCount, kind
  <2>3. /\ Maps(Put(count, k, left)) /\ DOMAIN Put(count, k, left) = DOMAIN count \union {k}
        /\ Put(count, k, left)[k] = left
        /\ \A x \in DOMAIN count : x # k => Put(count, k, left)[x] = count[x]
    <3> HIDE DEF left, count
    <3> QED
      BY <1>3, <2>1 DEF Put, Maps
  <2>4. QED
    BY <2>2, <2>3
<1>10. /\ Maps(s'.skip) /\ DOMAIN s.skip \subseteq DOMAIN s'.skip
       /\ \A x \in DOMAIN s.skip : x # k => s'.skip[x] = s.skip[x]
       /\ lost => s'.skip = s.skip
       /\ ~lost => \/ s'.skip[k] = MaxSkip /\ kind = "text"
                   \/ s'.skip[k] = s.skip[k] - 1 /\ s.skip[k] > 0 /\ kind = "Skip"
                   \/ s'.skip[k] = s.skip[k] /\ kind # "text"
  <2> DEFINE skip == s.skip
  <2>1. Maps(skip) /\ MaxSkip \in Int
    BY SessionAssumption DEF KeysSound
  <2>0. ASSUME NEW v \in Int
        PROVE  /\ Maps(Put(skip, k, v)) /\ DOMAIN Put(skip, k, v) = DOMAIN skip \union {k}
               /\ Put(skip, k, v)[k] = v
               /\ \A x \in DOMAIN skip : x # k => Put(skip, k, v)[x] = skip[x]
    <3> HIDE DEF skip
    <3> QED
      BY <1>3, <2>1 DEF Put, Maps
  <2>2. CASE text.kind = "Skip" /\ Get(s.skip, k) > 0
    <3>1. k \in DOMAIN s.skip /\ s.skip[k] > 0 /\ kind = "Skip" /\ s.skip[k] - 1 \in Int
      BY <2>1, <2>2 DEF Get, Maps, kind, SkipOver
    <3>2. s'.skip = Put(s.skip, k, s.skip[k] - 1)
      BY <1>1, <2>2 DEF RemainSkip
    <3>3. QED
      BY <1>5, <2>0, <2>2, <3>1, <3>2
  <2>3. CASE ~(text.kind = "Skip" /\ Get(s.skip, k) > 0) /\ kind = "text"
    <3>1. s'.skip = Put(s.skip, k, MaxSkip)
      BY <1>1, <2>3 DEF RemainSkip, kind
    <3>2. QED
      BY <1>5, <2>0, <2>1, <2>3, <3>1
  <2>4. CASE ~(text.kind = "Skip" /\ Get(s.skip, k) > 0) /\ kind # "text"
    <3>1. s'.skip = s.skip
      BY <1>1, <2>4 DEF RemainSkip, kind
    <3>2. QED
      BY <2>1, <2>4, <3>1
  <2>5. QED
    BY <2>2, <2>3, <2>4
<1>11. hasError' = [hasError EXCEPT ![a] = lost] /\ hasError \in [Agents -> BOOLEAN]
  BY DEF TakesTurn, TypeOK
<1>12. \A b \in Agents : b # a =>
         /\ s'.count[Well(b)] = s.count[Well(b)]
         /\ s'.skip[Well(b)] = s.skip[Well(b)]
         /\ LengthPerAgent # NoLimit => s'.length[Well(b)] = s.length[Well(b)]
         /\ Get(s'.count, Gone(b)) = Get(s.count, Gone(b))
  BY <1>1, <1>3, <1>7, <1>9, <1>10 DEF KeysSound, Get
<1>13. /\ ~lost => \/ s'.count[Well(a)] = s.count[Well(a)] - 1
                   \/ s'.count[Well(a)] = 0 /\ kind = "Over"
       /\ lost => s'.count[Well(a)] = s.count[Well(a)] /\ Get(s'.count, Gone(a)) = -1
  <2>1. Well(a) \in DOMAIN s.count /\ Gone(a) \notin DOMAIN s.count
    BY <1>2 DEF KeysSound
  <2>2. CASE lost
    BY <1>3, <1>5, <1>9, <2>1, <2>2 DEF Get
  <2>3. CASE ~lost
    BY <1>3, <1>9, <2>1, <2>3 DEF Get
  <2>4. QED
    BY <2>2, <2>3
<1>14. KeysSound'
  <2>1. Maps(s'.count) /\ Maps(s'.skip) /\ Maps(s'.length)
    BY <1>1, <1>7, <1>9, <1>10
  <2>2. ASSUME NEW b \in Agents
        PROVE /\ Well(b) \in DOMAIN s'.count /\ Well(b) \in DOMAIN s'.skip
              /\ Well(b) \in DOMAIN s'.length <=> LengthPerAgent # NoLimit
              /\ Gone(b) \notin DOMAIN s'.length
    BY <1>1, <1>7, <1>9, <1>10 DEF KeysSound
  <2>3. ASSUME NEW b \in Agents PROVE s'.skip[Well(b)] \in 0..MaxSkip
    <3>1. s.skip[Well(b)] \in 0..MaxSkip /\ Well(b) \in DOMAIN s.skip /\ MaxSkip \in Nat
      BY SessionAssumption DEF KeysSound
    <3>2. CASE b = a /\ ~lost
      BY <1>3, <1>10, <3>1, <3>2
    <3>3. CASE b # a \/ lost
      BY <1>10, <1>12, <3>1, <3>3
    <3>4. QED
      BY <3>2, <3>3
  <2>4. ASSUME NEW b \in Agents
        PROVE /\ ~hasError'[b] => Gone(b) \notin DOMAIN s'.count
              /\ hasError'[b] => Get(s'.count, Gone(b)) <= 0
    <3>1. CASE b = a
      <4>1. hasError'[a] = lost
        BY <1>11
      <4>2. ~lost => Gone(a) \notin DOMAIN s'.count
        BY <1>2, <1>3, <1>9 DEF KeysSound
      <4>3. QED
        BY <1>13, <3>1, <4>1, <4>2
    <3>2. CASE b # a
      <4>1. hasError'[b] = hasError[b]
        BY <1>11, <3>2
      <4>2. Gone(b) \in DOMAIN s'.count <=> Gone(b) \in DOMAIN s.count
        BY <1>3, <1>9, <3>2
      <4>3. QED
        BY <1>12, <3>2, <4>1, <4>2 DEF KeysSound
    <3>3. QED
      BY <3>1, <3>2
  <2>5. QED
    BY <2>1, <2>2, <2>3, <2>4 DEF KeysSound
<1>15. LengthPerAgent # NoLimit =>
         /\ s'.length[Well(a)] <= s.length[Well(a)]
         /\ Paid(body, s.length[Well(a)], s'.length[Well(a)])
  <2>1. SUFFICES ASSUME LengthPerAgent # NoLimit
                 PROVE  /\ s'.length[Well(a)] <= s.length[Well(a)]
                        /\ Paid(body, s.length[Well(a)], s'.length[Well(a)])
    OBVIOUS
  <2>2. Well(a) \in DOMAIN s.length /\ s.length[Well(a)] \in Int /\ s.length[Well(a)] > 0
    BY <1>2, <2>1 DEF KeysSound, Maps
  <2>3. CASE ~lost
    BY <1>1, <1>3, <1>7, <2>1, <2>2, <2>3
  <2>4. CASE lost
    <3>1. body.common = 0 /\ body.mentionText = 0 /\ body.length = s.length
      BY <1>5, <2>4 DEF body
    <3>2. Base \in Nat /\ MentionLength \in Nat
      BY SessionAssumption DEF Base, NoLimit
    <3>3. CostOf(body) = 0
      BY <3>1, <3>2 DEF CostOf, Above
    <3>4. QED
      BY <1>1, <2>2, <3>1, <3>3 DEF Paid, Above
  <2>5. QED
    BY <2>3, <2>4
<1>16. /\ t.agent = <<a, lost>> /\ t.turn = i /\ t.kind = body.kind
       /\ t.common = body.common /\ t.mentionText = body.mentionText
  BY DEF k
<1> HIDE DEF t
<1>17. cnt' = (cnt \/ t.kind # "Over") /\ (lost => t.kind = "Skip")
  BY <1>1, <1>5, <1>7, <1>8, <1>16 DEF KeepsGoing
<1>18. /\ ~lost => \/ s'.count[Well(a)] = s.count[Well(a)] - 1
                   \/ s'.count[Well(a)] = 0 /\ t.kind = "Over"
       /\ ~lost => \/ s'.skip[Well(a)] = MaxSkip
                   \/ s'.skip[Well(a)] = s.skip[Well(a)] - 1 /\ t.kind = "Skip"
                   \/ s'.skip[Well(a)] = s.skip[Well(a)] /\ t.kind # "text"
  BY <1>3, <1>7, <1>10, <1>13, <1>16
<1>19. /\ CostOf(t) = CostOf(body)
       /\ LengthPerAgent # NoLimit => Paid(t, s.length[Well(a)], s'.length[Well(a)])
       /\ AllFree => CostOf(t) = 0
       /\ PerTalk # NoLimit => WithinTalk(t.common, t.mentionText)
  <2>1. CostOf(t) = CostOf(body)
    BY <1>16 DEF CostOf
  <2>2. LengthPerAgent # NoLimit => Paid(t, s.length[Well(a)], s'.length[Well(a)])
    BY <1>15, <2>1 DEF Paid
  <2>3. AllFree => k \notin DOMAIN s.length
    BY <1>3 DEF AllFree, KeysSound
  <2>4. QED
    BY <1>7, <1>16, <2>1, <2>2, <2>3
<1>20. QED
  BY <1>1, <1>7, <1>8, <1>12, <1>14, <1>15, <1>16, <1>17, <1>18, <1>19 DEF TurnAdds

-----------------------------------------------------------------------------
(* The transcript and the round *)

\* Who may still speak, in terms of the accounts.
MayTalk(a) ==
  /\ ~hasError[a] /\ s.count[Well(a)] > 0
  /\ LengthPerAgent # NoLimit => s.length[Well(a)] > 0

LEMMA CanAgentTalkMeans ==
  TypeOK /\ KeysSound => \A a \in Agents : CanAgentTalk(s, Value(a)) <=> MayTalk(a)
<1> SUFFICES ASSUME TypeOK, KeysSound, NEW a \in Agents
             PROVE  CanAgentTalk(s, Value(a)) <=> MayTalk(a)
  OBVIOUS
<1>1. CASE hasError[a]
  <2>1. Value(a) = Gone(a)
    BY <1>1 DEF Value, Gone, TypeOK
  <2>2. Get(s.count, Gone(a)) <= 0 /\ Get(s.count, Gone(a)) \in Int
    BY <1>1 DEF KeysSound, Get, Maps
  <2>3. QED
    BY <1>1, <2>1, <2>2 DEF CanAgentTalk, MayTalk
<1>2. CASE ~hasError[a]
  <2>1. Value(a) = Well(a)
    BY <1>2 DEF Value, Well, TypeOK
  <2>2. QED
    BY <1>2, <2>1 DEF CanAgentTalk, MayTalk, KeysSound, Get
<1>3. QED
  BY <1>1, <1>2

\* Only the agent whose turn it was is affected by it, and nobody gets a say back.
LEMMA TurnLeaves ==
  ASSUME TypeOK, KeysSound, NEW a \in Agents, NEW lost \in BOOLEAN, NEW text \in Text,
         TakesTurn(a, lost, text), NEW t \in Talk, TurnAdds(a, lost, t)
  PROVE  /\ MayTalk(a) /\ hasError'[a] = lost
         /\ \A b \in Agents \ {a} : hasError'[b] = hasError[b] /\ (MayTalk(b)' <=> MayTalk(b))
<1>1. hasError' = [hasError EXCEPT ![a] = lost] /\ hasError \in [Agents -> BOOLEAN]
  BY DEF TakesTurn, TypeOK
<1>2. MayTalk(a)
  BY CanAgentTalkMeans DEF TakesTurn, Visiting
<1>3. QED
  BY <1>1, <1>2 DEF MayTalk, TurnAdds

\* The entries of the transcript by every agent, before and after an entry is added.
LEMMA TranscriptGrows ==
  ASSUME TypeOK, NEW t \in Talk, s'.talks = Append(s.talks, t)
  PROVE  LET n == Len(s.talks)
         IN  /\ n \in Nat /\ DOMAIN s.talks = 1..n /\ DOMAIN s'.talks = 1..(n + 1)
             /\ s'.talks \in Seq(Talk) /\ Len(s'.talks) = n + 1
             /\ s'.talks[n + 1] = t
             /\ \A m \in 1..n : s'.talks[m] = s.talks[m]
             /\ \A b : By(b) \subseteq 1..n /\ IsFiniteSet(By(b))
             /\ \A b : By(b)' = IF t.agent[1] = b THEN By(b) \union {n + 1} ELSE By(b)
             /\ \A m \in 1..n : Kind(m)' = Kind(m)
             /\ \A m : m = n + 1 => Kind(m)' = t.kind
<1> DEFINE n == Len(s.talks)
           talks == s.talks
<1>1. /\ n \in Nat /\ DOMAIN talks = 1..n
      /\ Append(talks, t) \in Seq(Talk) /\ Len(Append(talks, t)) = n + 1
      /\ \A m \in 1..n : Append(talks, t)[m] = talks[m]
      /\ Append(talks, t)[n + 1] = t
      /\ DOMAIN Append(talks, t) = 1..(n + 1)
  <2>1. talks \in Seq(Talk)
    BY DEF TypeOK
  <2> HIDE DEF talks
  <2>2. QED
    BY <2>1, AppendProperties, LenProperties DEF n, talks
<1>2. \A b : By(b) \subseteq 1..n
  BY <1>1 DEF By
<1>3. ASSUME NEW b PROVE IsFiniteSet(By(b))
  <2>1. IsFiniteSet(1..n)
    BY <1>1, FS_Interval
  <2>2. QED
    BY <1>2, <2>1, FS_Subset
<1>4. ASSUME NEW b
      PROVE  By(b)' = IF t.agent[1] = b THEN By(b) \union {n + 1} ELSE By(b)
  <2>1. By(b)' = {m \in 1..(n + 1) : s'.talks[m].agent[1] = b}
    BY <1>1 DEF By
  <2>2. By(b) = {m \in 1..n : s.talks[m].agent[1] = b}
    BY <1>1 DEF By
  <2>3. 1..(n + 1) = 1..n \union {n + 1}
    BY <1>1
  <2>4. QED
    BY <1>1, <2>1, <2>2, <2>3
<1>5. (\A m \in 1..n : Kind(m)' = Kind(m)) /\ (\A m : m = n + 1 => Kind(m)' = t.kind)
  <2>1. \A m \in 1..n : s'.talks[m].kind = s.talks[m].kind
    BY <1>1
  <2>2. s'.talks[n + 1].kind = t.kind
    BY <1>1
  <2>3. QED
    BY <2>1, <2>2 DEF Kind
<1>6. QED
  BY <1>1, <1>2, <1>3, <1>4, <1>5

\* Shuffling leaves nobody out.
LEMMA OrderCovers ==
  ASSUME NEW seq \in SetToSeqs(Agents)
  PROVE  /\ Len(seq) = Cardinality(Agents) /\ Len(seq) \in Nat
         /\ \A j \in 1..Len(seq) : seq[j] \in Agents
         /\ \A j, m \in 1..Len(seq) : j # m => seq[j] # seq[m]
         /\ \A a \in Agents : \E j \in 1..Len(seq) : seq[j] = a
<1> DEFINE size == Cardinality(Agents)
<1>1. IsFiniteSet(Agents) /\ size \in Nat
  BY SessionAssumption, FS_CardinalityType
<1>2. seq \in [1..size -> Agents] /\ \A j, m \in 1..size : j # m => seq[j] # seq[m]
  BY DEF SetToSeqs
<1>3. Len(seq) = size
  <2>1. seq \in Seq(Agents)
    BY <1>1, <1>2
  <2>2. QED
    BY <1>1, <1>2, <2>1, LenProperties
<1>4. seq \in Injection(1..size, Agents)
  BY <1>2 DEF Injection, IsInjective
<1>5. IsFiniteSet(1..size) /\ Cardinality(1..size) = size
  BY <1>1, FS_Interval
<1>6. seq \in Surjection(1..size, Agents)
  BY <1>1, <1>4, <1>5, FS_Injection
<1>7. QED
  BY <1>1, <1>2, <1>3, <1>6 DEF Surjection

LEMMA SomeOrder == SetToSeq(Agents) \in SetToSeqs(Agents)
<1>1. IsFiniteSet(Agents)
  BY SessionAssumption
<1>2. PICK f \in Bijection(1..Cardinality(Agents), Agents) : TRUE
  BY <1>1, FS_CardinalityType DEF ExistsBijection
<1>3. f \in [1..Cardinality(Agents) -> Agents] /\ IsInjective(f)
  BY <1>2 DEF Bijection, Injection
<1> DEFINE chosen == SetToSeq(Agents)
<1>4. chosen \in [1..Cardinality(Agents) -> Agents] /\ IsInjective(chosen)
  BY <1>3 DEF SetToSeq
<1>5. QED
  BY <1>4 DEF SetToSeqs, IsInjective

-----------------------------------------------------------------------------
(* The inductive invariant *)

WasAsked(a) == \E j \in 1..(next - 1) : order[j] = a     \* in this round

\* Who may still speak has been asked once in every round.
AskedEveryRound ==
  \A a \in Agents :
    MayTalk(a) => Cardinality(By(a)) = i + (IF WasAsked(a) THEN 1 ELSE 0)

LastWasOver(a) == \A n \in By(a) : (\A m \in By(a) : m <= n) => Kind(n) = "Over"

\* As long as nothing but Over was said in a round, the last word of everybody who
\* was asked in it and may still speak was Over.
QuietSoFar == ~cnt => \A a \in Agents : WasAsked(a) /\ MayTalk(a) => LastWasOver(a)

TurnsInv ==
  /\ TypeOK /\ KeysSound
  /\ pc = "start" => s.talks = <<>> /\ i = 0 /\ next = 1
  /\ AskedEveryRound /\ QuietSoFar
  /\ TurnCountsTalks /\ RemainTruthful /\ SkipsCharged
  /\ pc = "ended" /\ i + 1 < PerDay => ~cnt /\ next = Len(order) + 1

\* A turn of a, that added t: what the lemmas below need to know of it.
Turn(a, lost, t) ==
  /\ TurnAdds(a, lost, t) /\ KeysSound'
  /\ MayTalk(a) /\ pc = "round" /\ next \in 1..Len(order) /\ a = order[next]
  /\ next' = next + 1 /\ UNCHANGED <<order, i, pc>>
  /\ hasError' = [hasError EXCEPT ![a] = lost]
  /\ \A b \in Agents \ {a} : hasError'[b] = hasError[b] /\ (MayTalk(b)' <=> MayTalk(b))

LEMMA TurnTaken ==
  ASSUME TurnsInv, NEW a \in Agents, Answered(a) \/ Failed(a)
  PROVE  \E lost \in BOOLEAN, t \in Talk : Turn(a, lost, t)
<1>1. TypeOK /\ KeysSound
  BY DEF TurnsInv
<1>2. PICK lost \in BOOLEAN, text \in Text : TakesTurn(a, lost, text)
  BY <1>1, AnswersAreTurns
<1>3. KeysSound'
  BY <1>1, <1>2, TurnEffect
<1>4. PICK t \in Talk : TurnAdds(a, lost, t)
  BY <1>1, <1>2, TurnEffect
<1>5. /\ MayTalk(a)
      /\ \A b \in Agents \ {a} : hasError'[b] = hasError[b] /\ (MayTalk(b)' <=> MayTalk(b))
  BY <1>1, <1>2, <1>4, TurnLeaves
<1>6. /\ pc = "round" /\ next \in 1..Len(order) /\ a = order[next]
      /\ next' = next + 1 /\ UNCHANGED <<order, i, pc>>
      /\ hasError' = [hasError EXCEPT ![a] = lost]
  <2>1. order \in SetToSeqs(Agents) /\ next \in 1..(Len(order) + 1)
    BY <1>1 DEF TypeOK
  <2>2. Len(order) \in Nat
    BY <2>1, OrderCovers
  <2>3. QED
    BY <1>2, <2>1, <2>2 DEF TakesTurn, Visiting, Record
<1>7. QED
  BY <1>3, <1>4, <1>5, <1>6 DEF Turn

\* The turn of a is its only one in this round, and nobody else's.
LEMMA TurnAsks ==
  ASSUME TypeOK, NEW a \in Agents, NEW lost, NEW t, Turn(a, lost, t)
  PROVE  /\ ~WasAsked(a) /\ WasAsked(a)'
         /\ \A b \in Agents \ {a} : WasAsked(b)' <=> WasAsked(b)
<1>1. order \in SetToSeqs(Agents)
  BY DEF TypeOK
<1>2. /\ Len(order) \in Nat
      /\ \A j, m \in 1..Len(order) : j # m => order[j] # order[m]
  BY <1>1, OrderCovers
<1>3. next \in 1..Len(order) /\ a = order[next] /\ next' = next + 1 /\ order' = order
  BY DEF Turn
<1>4. QED
  BY <1>2, <1>3 DEF WasAsked

LEMMA TurnKeepsType ==
  ASSUME TurnsInv, NEW a \in Agents, NEW lost \in BOOLEAN, NEW t \in Talk, Turn(a, lost, t)
  PROVE  TypeOK'
<1>1. TypeOK /\ s'.talks = Append(s.talks, t)
  BY DEF TurnsInv, Turn, TurnAdds
<1>2. s'.talks \in Seq(Talk)
  BY <1>1, TranscriptGrows
<1>3. Maps(s'.count) /\ Maps(s'.skip) /\ Maps(s'.length)
  BY DEF Turn, KeysSound
<1>4. \A m \in {s'.count, s'.skip, s'.length} :
        DOMAIN m \subseteq Key /\ \A k \in DOMAIN m : m[k] \in Int
  BY <1>3 DEF Maps
<1>5. /\ hasError' \in [Agents -> BOOLEAN]
      /\ order' \in SetToSeqs(Agents) /\ i' \in Nat /\ next' \in 1..(Len(order') + 1)
      /\ cnt' \in BOOLEAN /\ pc' \in {"start", "round", "ended", "panic"}
  <2>1. order \in SetToSeqs(Agents)
    BY <1>1 DEF TypeOK
  <2>2. Len(order) \in Nat
    BY <2>1, OrderCovers
  <2>3. QED
    BY <1>1, <2>1, <2>2 DEF Turn, TurnAdds, TypeOK
<1>6. QED
  BY <1>2, <1>4, <1>5 DEF TypeOK

\* TurnCountsTalks, with its sets written out.
LEMMA TurnCountsMeans ==
  TurnCountsTalks <=>
    \A m \in DOMAIN s.talks :
      s.talks[m].turn = Cardinality({x \in DOMAIN s.talks :
        s.talks[x].agent[1] = s.talks[m].agent[1] /\ x < m})
<1>1. ASSUME NEW m
      PROVE  {x \in By(s.talks[m].agent[1]) : x < m} =
               {x \in DOMAIN s.talks : s.talks[x].agent[1] = s.talks[m].agent[1] /\ x < m}
  BY DEF By
<1>2. QED
  BY <1>1 DEF TurnCountsTalks

LEMMA TurnKeepsAsked ==
  ASSUME TurnsInv, NEW a \in Agents, NEW lost \in BOOLEAN, NEW t \in Talk, Turn(a, lost, t)
  PROVE  Cardinality(By(a)) = i /\ AskedEveryRound' /\ QuietSoFar' /\ TurnCountsTalks'
<1> DEFINE n == Len(s.talks)
<1>1. /\ TypeOK /\ AskedEveryRound /\ MayTalk(a) /\ i \in Nat /\ i' = i
      /\ s'.talks = Append(s.talks, t) /\ t.agent = <<a, lost>> /\ t.turn = i
      /\ cnt' = (cnt \/ t.kind # "Over")
      /\ \A b \in Agents \ {a} : MayTalk(b)' <=> MayTalk(b)
  BY DEF TurnsInv, Turn, TurnAdds, TypeOK
<1>2. /\ n \in Nat /\ DOMAIN s.talks = 1..n /\ DOMAIN s'.talks = 1..(n + 1)
      /\ s'.talks[n + 1] = t
      /\ \A m \in 1..n : s'.talks[m] = s.talks[m]
      /\ \A b : By(b) \subseteq 1..n /\ IsFiniteSet(By(b))
      /\ \A b : By(b)' = IF t.agent[1] = b THEN By(b) \union {n + 1} ELSE By(b)
      /\ \A m \in 1..n : Kind(m)' = Kind(m)
      /\ \A m : m = n + 1 => Kind(m)' = t.kind
  BY <1>1, TranscriptGrows
<1>3. /\ ~WasAsked(a) /\ WasAsked(a)'
      /\ \A b \in Agents \ {a} : WasAsked(b)' <=> WasAsked(b)
  BY <1>1, TurnAsks
<1>4. Cardinality(By(a)) = i
  BY <1>1, <1>3 DEF AskedEveryRound
<1>5. By(a)' = By(a) \union {n + 1} /\ \A b : b # a => By(b)' = By(b)
  BY <1>1, <1>2
<1>6. AskedEveryRound'
  <2>1. n + 1 \notin By(a) /\ IsFiniteSet(By(a))
    BY <1>2
  <2>2. Cardinality(By(a) \union {n + 1}) = i + 1
    BY <1>4, <2>1, FS_AddElement
  <2>3. ASSUME NEW b \in Agents, MayTalk(b)'
        PROVE  Cardinality(By(b)') = i' + (IF WasAsked(b)' THEN 1 ELSE 0)
    BY <1>1, <1>3, <1>5, <2>2, <2>3 DEF AskedEveryRound
  <2>4. QED
    BY <2>3 DEF AskedEveryRound
<1>7. QuietSoFar'
  <2>1. SUFFICES ASSUME ~cnt', NEW b \in Agents, WasAsked(b)', MayTalk(b)'
                 PROVE  LastWasOver(b)'
    BY DEF QuietSoFar
  <2>2. ~cnt /\ t.kind = "Over"
    BY <1>1, <2>1
  <2>3. CASE b = a
    BY <1>2, <1>5, <2>2, <2>3 DEF LastWasOver
  <2>4. CASE b # a
    <3>1. LastWasOver(b)
      BY <1>1, <1>3, <2>1, <2>2, <2>4 DEF TurnsInv, QuietSoFar
    <3>2. By(b)' = By(b) /\ By(b) \subseteq 1..n
      BY <1>2, <1>5, <2>4
    <3>3. QED
      BY <1>2, <3>1, <3>2 DEF LastWasOver
  <2>5. QED
    BY <2>3, <2>4
<1>8. TurnCountsTalks'
  <2>1. ASSUME NEW m \in DOMAIN s'.talks, NEW b, b = s'.talks[m].agent[1]
        PROVE  s'.talks[m].turn = Cardinality({x \in By(b)' : x < m})
    <3>1. CASE m = n + 1
      <4>1. s'.talks[m].turn = i /\ b = a
        BY <1>1, <1>2, <2>1, <3>1
      <4>2. {x \in By(b)' : x < m} = By(a)
        BY <1>2, <1>5, <3>1, <4>1
      <4>3. QED
        BY <1>4, <4>1, <4>2
    <3>2. CASE m \in 1..n
      <4>1. s'.talks[m] = s.talks[m]
        BY <1>2, <3>2
      <4>2. s.talks[m].turn = Cardinality({x \in By(b) : x < m})
        BY <1>2, <2>1, <3>2, <4>1 DEF TurnsInv, TurnCountsTalks
      <4>3. {x \in By(b)' : x < m} = {x \in By(b) : x < m}
        BY <1>2, <3>2
      <4>4. QED
        BY <4>1, <4>2, <4>3
    <3>3. QED
      BY <1>2, <2>1, <3>1, <3>2
  <2>2. TurnCountsTalks' <=>
          (\A m \in DOMAIN s.talks :
             s.talks[m].turn = Cardinality({x \in DOMAIN s.talks :
               s.talks[x].agent[1] = s.talks[m].agent[1] /\ x < m}))'
    BY TurnCountsMeans, PTL
  <2>3. \A m, b : {x \in By(b)' : x < m} =
                    {x \in DOMAIN s'.talks : s'.talks[x].agent[1] = b /\ x < m}
    BY DEF By
  <2>4. QED
    BY <2>1, <2>2, <2>3
<1>9. QED
  BY <1>4, <1>6, <1>7, <1>8

LEMMA TurnKeepsRemain ==
  ASSUME TurnsInv, NEW a \in Agents, NEW lost \in BOOLEAN, NEW t \in Talk, Turn(a, lost, t)
  PROVE  RemainTruthful'
<1> DEFINE n == Len(s.talks)
<1>1. /\ TypeOK /\ hasError \in [Agents -> BOOLEAN] /\ hasError' = [hasError EXCEPT ![a] = lost]
      /\ s'.talks = Append(s.talks, t) /\ t.agent[1] = a
      /\ MayTalk(a) /\ PerAgent \in Nat
  BY SessionAssumption DEF TurnsInv, Turn, TurnAdds, TypeOK
<1>2. /\ n \in Nat
      /\ \A b : By(b) \subseteq 1..n /\ IsFiniteSet(By(b))
      /\ \A b : By(b)' = IF t.agent[1] = b THEN By(b) \union {n + 1} ELSE By(b)
      /\ \A m \in 1..n : Kind(m)' = Kind(m)
      /\ \A m : m = n + 1 => Kind(m)' = t.kind
  BY <1>1, TranscriptGrows
<1>3. SUFFICES ASSUME NEW b \in Agents, ~hasError'[b]
               PROVE  \/ s'.count[Value(b)'] = PerAgent - Cardinality(By(b)')
                      \/ s'.count[Value(b)'] = 0 /\ \E m \in By(b)' : Kind(m)' = "Over"
  BY DEF RemainTruthful
<1>4. Value(b)' = Well(b) /\ (b # a => Value(b) = Well(b) /\ ~hasError[b])
  BY <1>1, <1>3 DEF Value, Well
<1>5. CASE b # a
  <2>1. s'.count[Well(b)] = s.count[Well(b)] /\ By(b)' = By(b) /\ By(b) \subseteq 1..n
    BY <1>1, <1>2, <1>5 DEF Turn, TurnAdds
  <2>2. \/ s.count[Well(b)] = PerAgent - Cardinality(By(b))
        \/ s.count[Well(b)] = 0 /\ \E m \in By(b) : Kind(m) = "Over"
    BY <1>4, <1>5 DEF TurnsInv, RemainTruthful
  <2>3. QED
    BY <1>2, <1>4, <2>1, <2>2
<1>6. CASE b = a
  <2>1. ~lost /\ ~hasError[a] /\ s.count[Well(a)] > 0
    BY <1>1, <1>3, <1>6 DEF MayTalk
  <2>2. By(a)' = By(a) \union {n + 1} /\ n + 1 \notin By(a) /\ IsFiniteSet(By(a))
    BY <1>1, <1>2
  <2>3. Cardinality(By(a)) \in Nat /\ Cardinality(By(a) \union {n + 1}) = Cardinality(By(a)) + 1
    BY <2>2, FS_AddElement, FS_CardinalityType
  <2>4. Value(a) = Well(a)
    BY <1>1, <2>1 DEF Value, Well
  <2>5. s.count[Well(a)] = PerAgent - Cardinality(By(a))
    BY <2>1, <2>4 DEF TurnsInv, RemainTruthful
  <2>6. \/ s'.count[Well(a)] = s.count[Well(a)] - 1
        \/ s'.count[Well(a)] = 0 /\ t.kind = "Over"
    BY <2>1 DEF Turn, TurnAdds
  <2>7. CASE s'.count[Well(a)] = s.count[Well(a)] - 1
    BY <1>1, <1>4, <1>6, <2>2, <2>3, <2>5, <2>7
  <2>8. CASE s'.count[Well(a)] = 0 /\ t.kind = "Over"
    BY <1>2, <1>4, <1>6, <2>2, <2>8
  <2>9. QED
    BY <2>6, <2>7, <2>8
<1>7. QED
  BY <1>5, <1>6

\* The skips on the transcript since the last speech of an agent.
SkipsSince(a) ==
  {n \in By(a) : Kind(n) = "Skip" /\ \A m \in By(a) : Kind(m) = "text" => m < n}

SkipsCovered ==
  \A b \in Agents :
    ~hasError[b] => /\ s.skip[Value(b)] \in 0..MaxSkip
                    /\ MaxSkip - s.skip[Value(b)] <= Cardinality(SkipsSince(b))

LEMMA SkipsChargedMeans == SkipsCharged <=> SkipsCovered
<1>1. ASSUME NEW a
      PROVE  LET spoke == {n \in By(a) : Kind(n) = "text"}
                 since == {n \in By(a) : \A m \in spoke : m < n}
             IN  {n \in since : Kind(n) = "Skip"} = SkipsSince(a)
  BY DEF SkipsSince
<1>2. QED
  BY <1>1 DEF SkipsCharged, SkipsCovered

LEMMA TurnKeepsSkips ==
  ASSUME TurnsInv, NEW a \in Agents, NEW lost \in BOOLEAN, NEW t \in Talk, Turn(a, lost, t)
  PROVE  SkipsCharged'
<1> DEFINE n == Len(s.talks)
<1>1. /\ TypeOK /\ hasError \in [Agents -> BOOLEAN] /\ hasError' = [hasError EXCEPT ![a] = lost]
      /\ s'.talks = Append(s.talks, t) /\ t.agent[1] = a
      /\ MayTalk(a) /\ MaxSkip \in Nat /\ KeysSound'
  BY SessionAssumption DEF TurnsInv, Turn, TurnAdds, TypeOK
<1>2. /\ n \in Nat
      /\ \A b : By(b) \subseteq 1..n /\ IsFiniteSet(By(b))
      /\ \A b : By(b)' = IF t.agent[1] = b THEN By(b) \union {n + 1} ELSE By(b)
      /\ \A m \in 1..n : Kind(m)' = Kind(m)
      /\ \A m : m = n + 1 => Kind(m)' = t.kind
  BY <1>1, TranscriptGrows
<1>3. SUFFICES ASSUME NEW b \in Agents, ~hasError'[b]
               PROVE  /\ s'.skip[Value(b)'] \in 0..MaxSkip
                      /\ MaxSkip - s'.skip[Value(b)'] <= Cardinality(SkipsSince(b)')
  <2>1. SkipsCharged' <=> SkipsCovered'
    BY SkipsChargedMeans, PTL
  <2>2. QED
    BY <2>1 DEF SkipsCovered
<1>4. Value(b)' = Well(b) /\ (b # a => Value(b) = Well(b) /\ ~hasError[b])
  BY <1>1, <1>3 DEF Value, Well
<1>5. s'.skip[Well(b)] \in 0..MaxSkip
  BY <1>1 DEF KeysSound
<1>6. CASE b # a
  <2>1. s'.skip[Well(b)] = s.skip[Well(b)] /\ By(b)' = By(b) /\ By(b) \subseteq 1..n
    BY <1>1, <1>2, <1>6 DEF Turn, TurnAdds
  <2>2. SkipsSince(b)' = SkipsSince(b)
    BY <1>2, <2>1 DEF SkipsSince
  <2>3. MaxSkip - s.skip[Well(b)] <= Cardinality(SkipsSince(b))
    BY <1>4, <1>6, SkipsChargedMeans DEF TurnsInv, SkipsCovered
  <2>4. QED
    BY <1>4, <1>5, <2>1, <2>2, <2>3
<1>7. CASE b = a
  <2>1. ~lost /\ ~hasError[a]
    BY <1>1, <1>3, <1>7 DEF MayTalk
  <2>2. Value(a) = Well(a)
    BY <1>1, <2>1 DEF Value, Well
  <2>3. /\ s.skip[Well(a)] \in 0..MaxSkip
        /\ MaxSkip - s.skip[Well(a)] <= Cardinality(SkipsSince(a))
    BY <2>1, <2>2, SkipsChargedMeans DEF TurnsInv, SkipsCovered
  <2>4. By(a)' = By(a) \union {n + 1} /\ n + 1 \notin By(a) /\ By(a) \subseteq 1..n
    BY <1>1, <1>2
  <2>5. IsFiniteSet(SkipsSince(a)) /\ IsFiniteSet(By(a) \union {n + 1}) /\ n + 1 \notin SkipsSince(a)
    BY <1>2, <2>4, FS_Subset, FS_AddElement DEF SkipsSince
  <2>6. IsFiniteSet(SkipsSince(a)') /\ Cardinality(SkipsSince(a)') \in Nat
    <3>1. SkipsSince(a)' \subseteq By(a) \union {n + 1}
      BY <2>4 DEF SkipsSince
    <3>2. QED
      BY <2>5, <3>1, FS_Subset, FS_CardinalityType
  <2>7. t.kind # "text" =>
          SkipsSince(a)' = SkipsSince(a) \union (IF t.kind = "Skip" THEN {n + 1} ELSE {})
    BY <1>2, <2>4 DEF SkipsSince
  <2>8. Cardinality(SkipsSince(a)) \in Nat /\ Cardinality(SkipsSince(a) \union {n + 1}) = Cardinality(SkipsSince(a)) + 1
    BY <2>5, FS_AddElement, FS_CardinalityType
  <2>9. t.kind = "Skip" => Cardinality(SkipsSince(a)') = Cardinality(SkipsSince(a)) + 1
    BY <2>7, <2>8
  <2>10. t.kind \notin {"Skip", "text"} => SkipsSince(a)' = SkipsSince(a)
    BY <2>7
  <2>11. \/ s'.skip[Well(a)] = MaxSkip
         \/ s'.skip[Well(a)] = s.skip[Well(a)] - 1 /\ t.kind = "Skip"
         \/ s'.skip[Well(a)] = s.skip[Well(a)] /\ t.kind # "text"
    BY <2>1 DEF Turn, TurnAdds
  <2>12. MaxSkip - s'.skip[Well(a)] <= Cardinality(SkipsSince(a)')
    BY <1>1, <2>3, <2>6, <2>8, <2>9, <2>10, <2>11
  <2>13. QED
    BY <1>4, <1>5, <1>7, <2>12
<1>8. QED
  BY <1>6, <1>7

-----------------------------------------------------------------------------
(* The invariant holds *)

LEMMA TurnKeepsInv ==
  ASSUME TurnsInv, NEW a \in Agents, Answered(a) \/ Failed(a) PROVE TurnsInv'
<1>1. PICK lost \in BOOLEAN, t \in Talk : Turn(a, lost, t)
  BY TurnTaken
<1>2. TypeOK' /\ KeysSound'
  BY <1>1, TurnKeepsType DEF Turn
<1>3. AskedEveryRound' /\ QuietSoFar' /\ TurnCountsTalks'
  BY <1>1, TurnKeepsAsked
<1>4. RemainTruthful' /\ SkipsCharged'
  BY <1>1, TurnKeepsRemain, TurnKeepsSkips
<1>5. pc' = "round"
  BY <1>1 DEF Turn
<1>6. QED
  BY <1>2, <1>3, <1>4, <1>5 DEF TurnsInv

\* Steps that leave the transcript and the accounts alone.
LEMMA QuietStepKeeps ==
  ASSUME UNCHANGED <<hasError, s>>, KeysSound, TurnCountsTalks, RemainTruthful, SkipsCharged
  PROVE  /\ KeysSound' /\ TurnCountsTalks' /\ RemainTruthful' /\ SkipsCharged'
         /\ \A a \in Agents : /\ MayTalk(a)' <=> MayTalk(a)
                              /\ By(a)' = By(a)
                              /\ LastWasOver(a)' <=> LastWasOver(a)
BY DEF KeysSound, TurnCountsTalks, RemainTruthful, SkipsCharged, MayTalk, By, Kind, Value,
       LastWasOver

LEMMA InitHolds == Init => TurnsInv
<1> SUFFICES ASSUME Init PROVE TurnsInv
  OBVIOUS
<1> DEFINE speakers == {<<a, FALSE>> : a \in Agents}
<1>1. /\ s.count = [k \in speakers |-> PerAgent] /\ s.skip = [k \in speakers |-> MaxSkip]
      /\ s.length = [k \in IF LengthPerAgent = NoLimit THEN {} ELSE speakers |-> LengthPerAgent]
      /\ s.talks = <<>>
  BY DEF Init, NewCommunicationSession
<1>2. /\ PerAgent \in Nat /\ MaxSkip \in Nat /\ LengthPerAgent \in Nat \union {NoLimit}
      /\ NoLimit \in Int
  BY SessionAssumption DEF NoLimit
<1>3. /\ hasError \in [Agents -> BOOLEAN] /\ \A a \in Agents : hasError[a] = FALSE
      /\ i = 0 /\ next = 1 /\ cnt = FALSE /\ pc = "start" /\ order = SetToSeq(Agents)
  BY DEF Init
<1> HIDE DEF speakers
<1>0. /\ speakers \subseteq Key
      /\ \A a \in Agents : Well(a) \in speakers /\ Gone(a) \notin speakers
  <2>1. \A a \in Agents : <<a, FALSE>> \in Agents \X BOOLEAN
    OBVIOUS
  <2>2. \A a \in Agents : <<a, TRUE>> \notin speakers
    BY DEF speakers
  <2>3. QED
    BY <2>1, <2>2 DEF Key, Well, Gone, speakers
<1>4. KeysSound
  <2>1. Maps(s.count) /\ Maps(s.skip) /\ Maps(s.length)
    BY <1>0, <1>1, <1>2 DEF Maps
  <2>2. QED
    BY <1>0, <1>1, <1>2, <1>3, <2>1 DEF KeysSound
<1>5. order \in SetToSeqs(Agents) /\ Len(order) \in Nat
  BY <1>3, SomeOrder, OrderCovers
<1>6. TypeOK
  <2>1. s.talks \in Seq(Talk)
    BY <1>1
  <2>2. \A m \in {s.count, s.skip, s.length} :
          DOMAIN m \subseteq Key /\ \A k \in DOMAIN m : m[k] \in Int
    BY <1>4 DEF KeysSound, Maps
  <2>3. i \in Nat /\ next \in 1..(Len(order) + 1)
    BY <1>3, <1>5
  <2>4. cnt \in BOOLEAN /\ pc \in {"start", "round", "ended", "panic"}
    BY <1>3
  <2>5. QED
    BY <1>3, <1>5, <2>1, <2>2, <2>3, <2>4 DEF TypeOK
<1>7. \A a : By(a) = {}
  BY <1>1 DEF By
<1>8. AskedEveryRound /\ QuietSoFar
  BY <1>3, <1>7, FS_EmptySet DEF AskedEveryRound, QuietSoFar, WasAsked
<1>9. TurnCountsTalks
  BY <1>1 DEF TurnCountsTalks
<1>10. \A a \in Agents : Value(a) = Well(a) /\ Well(a) \in speakers
  BY <1>0, <1>3 DEF Value, Well
<1>11. RemainTruthful
  BY <1>1, <1>2, <1>7, <1>10, FS_EmptySet DEF RemainTruthful
<1>12. SkipsCharged
  <2>1. \A a : SkipsSince(a) = {}
    BY <1>7 DEF SkipsSince
  <2>2. \A a \in Agents : s.skip[Value(a)] = MaxSkip
    BY <1>1, <1>10
  <2>3. SkipsCovered
    BY <1>2, <2>1, <2>2, FS_EmptySet DEF SkipsCovered
  <2>4. QED
    BY <2>3, SkipsChargedMeans
<1>13. QED
  BY <1>1, <1>3, <1>4, <1>6, <1>8, <1>9, <1>11, <1>12 DEF TurnsInv

\* The invariant behind what agents are told and when a session ends.
THEOREM TurnsInvHolds == Spec => []TurnsInv
<1>1. TurnsInv /\ [Next]_vars => TurnsInv'
  <2> SUFFICES ASSUME TurnsInv, [Next]_vars PROVE TurnsInv'
    OBVIOUS
  <2>1. /\ TypeOK /\ KeysSound /\ TurnCountsTalks /\ RemainTruthful /\ SkipsCharged
        /\ AskedEveryRound /\ QuietSoFar
        /\ order \in SetToSeqs(Agents) /\ Len(order) \in Nat /\ next \in 1..(Len(order) + 1)
        /\ i \in Nat
    BY OrderCovers DEF TurnsInv, TypeOK
  <2>2. CASE Begin
    <3>1. UNCHANGED <<hasError, s>> /\ order' \in SetToSeqs(Agents) /\ UNCHANGED <<i, next, cnt>>
      BY <2>2 DEF Begin
    <3>2. s.talks = <<>> /\ i = 0 /\ next = 1 /\ \A a : By(a) = {}
      BY <2>2 DEF TurnsInv, Begin, By
    <3>3. TypeOK'
      BY <2>1, <2>2, <3>1, <3>2, OrderCovers DEF TypeOK, Begin
    <3>4. AskedEveryRound' /\ QuietSoFar'
      <4>1. \A a \in Agents : ~WasAsked(a)'
        BY <3>1, <3>2 DEF WasAsked
      <4>2. \A a \in Agents : Cardinality(By(a)') = 0
        BY <2>1, <3>1, <3>2, QuietStepKeeps, FS_EmptySet
      <4>3. QED
        BY <3>1, <3>2, <4>1, <4>2 DEF AskedEveryRound, QuietSoFar
    <3>5. pc' = "ended" => PerDay = 0
      BY <2>2 DEF Begin
    <3>6. pc' # "start"
      BY <2>2 DEF Begin
    <3>7. QED
      BY <2>1, <3>1, <3>2, <3>3, <3>4, <3>5, <3>6, QuietStepKeeps DEF TurnsInv
  <2>3. CASE SkipAgent
    <3>1. /\ UNCHANGED <<hasError, s, order, i, cnt, pc>> /\ next' = next + 1 /\ pc = "round"
          /\ next \in 1..Len(order) /\ ~CanAgentTalk(s, Value(order[next]))
      BY <2>1, <2>3 DEF SkipAgent
    <3>2. TypeOK'
      BY <2>1, <3>1 DEF TypeOK
    <3>3. \A a \in Agents : MayTalk(a) => (WasAsked(a)' <=> WasAsked(a))
      <4>1. \A a \in Agents : MayTalk(a) => a # order[next]
        BY <2>1, <3>1, CanAgentTalkMeans
      <4>2. QED
        BY <2>1, <3>1, <4>1 DEF WasAsked
    <3>4. AskedEveryRound' /\ QuietSoFar'
      <4>1. \A a \in Agents : MayTalk(a)' => MayTalk(a) /\ By(a)' = By(a) /\ (LastWasOver(a)' <=> LastWasOver(a))
        BY <2>1, <3>1, QuietStepKeeps
      <4>2. QED
        BY <2>1, <3>1, <3>3, <4>1 DEF AskedEveryRound, QuietSoFar
    <3>5. QED
      BY <2>1, <3>1, <3>2, <3>4, QuietStepKeeps DEF TurnsInv
  <2>4. CASE EndRound
    <3>1. /\ UNCHANGED <<hasError, s, order>> /\ pc = "round" /\ next = Len(order) + 1
      BY <2>1, <2>4 DEF EndRound
    <3>2. \A a \in Agents : WasAsked(a)
      BY <2>1, <3>1, OrderCovers DEF WasAsked
    <3>3. \A a \in Agents : MayTalk(a)' => MayTalk(a) /\ By(a)' = By(a) /\ (LastWasOver(a)' <=> LastWasOver(a))
      BY <2>1, <3>1, QuietStepKeeps
    <3>4. CASE cnt /\ i + 1 < PerDay
      <4>1. i' = i + 1 /\ next' = 1 /\ pc' = pc /\ cnt' = FALSE
        BY <2>4, <3>4 DEF EndRound
      <4>2. TypeOK'
        <5>1. i' \in Nat /\ next' \in 1..(Len(order') + 1)
          BY <2>1, <3>1, <4>1
        <5>2. cnt' \in BOOLEAN
          BY <4>1
        <5>3. QED
          BY <2>1, <3>1, <4>1, <5>1, <5>2 DEF TypeOK
      <4>3. \A a \in Agents : ~WasAsked(a)'
        BY <4>1 DEF WasAsked
      <4>4. AskedEveryRound' /\ QuietSoFar'
        BY <2>1, <3>2, <3>3, <4>1, <4>3 DEF AskedEveryRound, QuietSoFar
      <4>5. QED
        BY <2>1, <3>1, <4>1, <4>2, <4>4, QuietStepKeeps DEF TurnsInv
    <3>5. CASE ~(cnt /\ i + 1 < PerDay)
      <4>1. pc' = "ended" /\ UNCHANGED <<i, next, cnt>>
        BY <2>4, <3>5 DEF EndRound
      <4>2. TypeOK'
        BY <2>1, <3>1, <4>1 DEF TypeOK
      <4>3. \A a \in Agents : WasAsked(a)' <=> WasAsked(a)
        BY <3>1, <4>1 DEF WasAsked
      <4>4. AskedEveryRound' /\ QuietSoFar'
        BY <2>1, <3>3, <4>1, <4>3 DEF AskedEveryRound, QuietSoFar
      <4>5. QED
        BY <2>1, <3>1, <3>5, <4>1, <4>2, <4>4, QuietStepKeeps DEF TurnsInv
    <3>6. QED
      BY <3>4, <3>5
  <2>5. ASSUME NEW a \in Agents, Answered(a) \/ Failed(a) PROVE TurnsInv'
    BY <2>5, TurnKeepsInv
  <2>6. ASSUME UNCHANGED <<hasError, s, order, i, next, cnt>>, pc' = "panic" \/ UNCHANGED pc
        PROVE  TurnsInv'
    <3>1. TypeOK'
      BY <2>1, <2>6 DEF TypeOK
    <3>2. \A a \in Agents : /\ MayTalk(a)' <=> MayTalk(a)
                            /\ By(a)' = By(a) /\ (LastWasOver(a)' <=> LastWasOver(a))
                            /\ WasAsked(a)' <=> WasAsked(a)
      BY <2>1, <2>6, QuietStepKeeps DEF WasAsked
    <3>3. AskedEveryRound' /\ QuietSoFar'
      BY <2>1, <2>6, <3>2 DEF AskedEveryRound, QuietSoFar
    <3>4. QED
      BY <2>1, <2>6, <3>1, <3>3, QuietStepKeeps DEF TurnsInv
  <2>7. ASSUME NEW a \in Agents, Panics(a) PROVE TurnsInv'
    BY <2>6, <2>7 DEF Panics
  <2>8. CASE UNCHANGED vars
    BY <2>6, <2>8 DEF vars
  <2>9. QED
    BY <2>2, <2>3, <2>4, <2>5, <2>7, <2>8 DEF Next
<1>2. QED
  BY <1>1, InitHolds, PTL DEF Spec

\* What an agent is told of its turns, speeches and skips follows from the
\* transcript, whoever is asked in which order and whatever is answered or lost.
THEOREM CountersTheorem == Spec => []CountersTruthful
<1>1. TurnsInv => CountersTruthful
  BY DEF TurnsInv, CountersTruthful
<1>2. QED
  BY <1>1, TurnsInvHolds, PTL

\* A session that stops before its last round has heard Over from everybody who
\* could still be asked.
THEOREM SilenceTheorem == Spec => []EndsInSilence
<1>1. TurnsInv => EndsInSilence
  <2>1. SUFFICES ASSUME TurnsInv, pc = "ended", i + 1 < PerDay, NEW a \in Agents,
                        CanAgentTalk(s, Value(a))
                 PROVE  By(a) # {} /\ LastWasOver(a)
    BY DEF EndsInSilence, LastWasOver
  <2>2. TypeOK /\ MayTalk(a) /\ ~cnt /\ next = Len(order) + 1 /\ order \in SetToSeqs(Agents)
    BY <2>1, CanAgentTalkMeans DEF TurnsInv, TypeOK
  <2>3. WasAsked(a)
    BY <2>2, OrderCovers DEF WasAsked
  <2>4. Cardinality(By(a)) = i + 1 /\ i \in Nat
    BY <2>1, <2>2, <2>3 DEF TurnsInv, AskedEveryRound, TypeOK
  <2>5. By(a) # {}
    BY <2>4, FS_EmptySet
  <2>6. QED
    BY <2>1, <2>2, <2>3, <2>5 DEF TurnsInv, QuietSoFar
<1>2. QED
  BY <1>1, TurnsInvHolds, PTL

-----------------------------------------------------------------------------
(* The limits of length *)

\* v is the sum of T[1], ..., T[n]: the one running total there is ends in it.
RunningTotal(f, n, T) == f = [m \in 0..n |-> IF m = 0 THEN 0 ELSE f[m - 1] + T[m]]
SumIs(n, T, v) ==
  /\ \E f : RunningTotal(f, n, T)
  /\ \A f : RunningTotal(f, n, T) => f[n] = v

LEMMA SumOfNone == ASSUME NEW T PROVE SumIs(0, T, 0)
<1>1. RunningTotal([m \in 0..0 |-> 0], 0, T)
  BY DEF RunningTotal
<1>2. ASSUME NEW f, RunningTotal(f, 0, T) PROVE f[0] = 0
  BY <1>2 DEF RunningTotal
<1>3. QED
  BY <1>1, <1>2 DEF SumIs

LEMMA SumOfOneMore ==
  ASSUME NEW n \in Nat, NEW T, NEW U, NEW v \in Int, SumIs(n, T, v),
         \A m \in 1..n : U[m] = T[m]
  PROVE  SumIs(n + 1, U, v + U[n + 1])
<1>1. PICK f : RunningTotal(f, n, T)
  BY DEF SumIs
<1> DEFINE longer == [m \in 0..(n + 1) |-> IF m = n + 1 THEN v + U[n + 1] ELSE f[m]]
<1>2. f[n] = v
  BY <1>1 DEF SumIs
<1>3. \A m \in 0..n : f[m] = IF m = 0 THEN 0 ELSE f[m - 1] + T[m]
  BY <1>1 DEF RunningTotal
<1>4. RunningTotal(longer, n + 1, U)
  <2>1. ASSUME NEW m \in 0..(n + 1)
        PROVE  longer[m] = IF m = 0 THEN 0 ELSE longer[m - 1] + U[m]
    <3>1. CASE m = n + 1
      BY <1>2, <3>1
    <3>2. CASE m \in 0..n
      BY <1>3, <3>2
    <3>3. QED
      BY <3>1, <3>2
  <2>2. longer = [m \in 0..(n + 1) |-> longer[m]]
    OBVIOUS
  <2> HIDE DEF longer
  <2>3. QED
    BY <2>1, <2>2 DEF RunningTotal
<1>5. ASSUME NEW g, RunningTotal(g, n + 1, U) PROVE g[n + 1] = v + U[n + 1]
  <2> DEFINE shorter == [m \in 0..n |-> g[m]]
  <2>1. \A m \in 0..(n + 1) : g[m] = IF m = 0 THEN 0 ELSE g[m - 1] + U[m]
    BY <1>5 DEF RunningTotal
  <2>2. \A m \in 0..n : shorter[m] = IF m = 0 THEN 0 ELSE shorter[m - 1] + T[m]
    BY <2>1
  <2>3. RunningTotal(shorter, n, T)
    <3>1. shorter = [m \in 0..n |-> shorter[m]]
      OBVIOUS
    <3> HIDE DEF shorter
    <3>2. QED
      BY <2>2, <3>1 DEF RunningTotal
  <2>4. g[n] = v
    BY <2>3 DEF SumIs
  <2>5. QED
    BY <2>1, <2>4
<1>6. QED
  BY <1>4, <1>5 DEF SumIs

\* The sum is that of any numbers that are the same.
LEMMA SumOfSame ==
  ASSUME NEW n \in Nat, NEW T, NEW U, NEW v, SumIs(n, T, v), \A m \in 1..n : U[m] = T[m]
  PROVE  SumIs(n, U, v)
<1>1. ASSUME NEW f PROVE RunningTotal(f, n, U) <=> RunningTotal(f, n, T)
  <2>1. [m \in 0..n |-> IF m = 0 THEN 0 ELSE f[m - 1] + U[m]]
          = [m \in 0..n |-> IF m = 0 THEN 0 ELSE f[m - 1] + T[m]]
    OBVIOUS
  <2>2. QED
    BY <2>1 DEF RunningTotal
<1>2. QED
  BY <1>1 DEF SumIs

\* What every entry of the transcript cost agent a.
Costs(a) == [n \in 1..Len(s.talks) |-> IF n \in By(a) THEN CostOf(s.talks[n]) ELSE 0]

LEMMA SpentIsSum ==
  ASSUME TypeOK, NEW a, NEW n \in 0..Len(s.talks), NEW v, SumIs(n, Costs(a), v)
  PROVE  Spent(a, n) = v
<1> DEFINE total(f) ==
             f = [m \in 0..n |->
                    IF m = 0 THEN 0
                    ELSE f[m - 1] + (IF m \in By(a) THEN CostOf(s.talks[m]) ELSE 0)]
           upTo == CHOOSE f : total(f)
<1>1. Len(s.talks) \in Nat
  BY LenProperties DEF TypeOK
<1>2. ASSUME NEW f PROVE RunningTotal(f, n, Costs(a)) <=> total(f)
  <2>1. \A m \in 1..n : Costs(a)[m] = IF m \in By(a) THEN CostOf(s.talks[m]) ELSE 0
    BY <1>1 DEF Costs
  <2>2. [m \in 0..n |-> IF m = 0 THEN 0 ELSE f[m - 1] + Costs(a)[m]]
          = [m \in 0..n |->
               IF m = 0 THEN 0
               ELSE f[m - 1] + (IF m \in By(a) THEN CostOf(s.talks[m]) ELSE 0)]
    BY <1>1, <2>1
  <2>3. QED
    BY <2>2 DEF RunningTotal
<1>3. \E f : total(f)
  BY <1>2 DEF SumIs
<1>4. total(upTo)
  BY <1>3
<1>5. Spent(a, n) = upTo[n]
  BY Zenon DEF Spent, CostOf
<1> HIDE DEF upTo
<1>6. QED
  BY <1>2, <1>4, <1>5 DEF SumIs

\* What an agent got through and what it has left never exceed what it had; its
\* characters were not used up whenever it spoke; and no speech is too long.
BudgetKept(a) ==
  \E v \in Int :
    /\ SumIs(Len(s.talks), Costs(a), v)
    /\ LengthPerAgent # NoLimit => /\ v <= LengthPerAgent - s.length[Well(a)]
                                   /\ Cuts(0) => v <= LengthPerAgent - Above(s.length[Well(a)], 0)
    /\ AllFree => v = 0

AskedWithin(a) ==
  \A m \in By(a) : \E v \in Int : SumIs(m - 1, Costs(a), v) /\ v < LengthPerAgent

TalksCut ==
  \A n \in DOMAIN s.talks :
    PerTalk # NoLimit => WithinTalk(s.talks[n].common, s.talks[n].mentionText)

LimitsInv ==
  /\ TalksCut
  /\ \A a \in Agents : BudgetKept(a)
  /\ LengthPerAgent # NoLimit => \A a \in Agents : AskedWithin(a)

LEMMA TurnKeepsLimits ==
  ASSUME TurnsInv, LimitsInv,
         NEW a \in Agents, NEW lost \in BOOLEAN, NEW t \in Talk, Turn(a, lost, t)
  PROVE  LimitsInv'
<1> DEFINE n == Len(s.talks)
<1>1. /\ TypeOK /\ KeysSound /\ KeysSound' /\ TurnAdds(a, lost, t)
      /\ s'.talks = Append(s.talks, t) /\ t.agent[1] = a
  BY DEF TurnsInv, Turn, TurnAdds
<1>2. /\ n \in Nat /\ DOMAIN s.talks = 1..n /\ DOMAIN s'.talks = 1..(n + 1)
      /\ Len(s'.talks) = n + 1
      /\ s'.talks[n + 1] = t
      /\ \A m \in 1..n : s'.talks[m] = s.talks[m]
      /\ \A b : By(b) \subseteq 1..n
      /\ \A b : By(b)' = IF t.agent[1] = b THEN By(b) \union {n + 1} ELSE By(b)
  BY <1>1, TranscriptGrows
<1>3. TalksCut'
  <2>1. PerTalk # NoLimit => WithinTalk(t.common, t.mentionText)
    BY <1>1 DEF TurnAdds
  <2>2. \A m \in 1..n : PerTalk # NoLimit => WithinTalk(s.talks[m].common, s.talks[m].mentionText)
    BY <1>2 DEF LimitsInv, TalksCut
  <2>3. ASSUME NEW m \in 1..(n + 1), PerTalk # NoLimit
        PROVE  WithinTalk(s'.talks[m].common, s'.talks[m].mentionText)
    BY <1>2, <2>1, <2>2, <2>3
  <2>4. QED
    BY <1>2, <2>3 DEF TalksCut, WithinTalk
<1>4. ASSUME NEW b \in Agents
      PROVE  /\ \A m \in 1..n : Costs(b)'[m] = Costs(b)[m]
             /\ Costs(b)'[n + 1] = IF b = a THEN CostOf(t) ELSE 0
  <2>1. \A m \in 1..(n + 1) :
          Costs(b)'[m] = IF m \in By(b)' THEN CostOf(s'.talks[m]) ELSE 0
    BY <1>2 DEF Costs, CostOf, Above, Base
  <2>2. \A m \in 1..n : Costs(b)[m] = IF m \in By(b) THEN CostOf(s.talks[m]) ELSE 0
    BY <1>2 DEF Costs
  <2>3. \A m \in 1..n : m \in By(b)' <=> m \in By(b)
    BY <1>2
  <2>4. n + 1 \in By(b)' <=> b = a
    BY <1>1, <1>2
  <2>5. QED
    BY <1>2, <2>1, <2>2, <2>3, <2>4
<1>5. CostOf(t) \in Int
  BY SessionAssumption DEF Talk, CostOf, Above, Base, NoLimit
<1>6. LengthPerAgent # NoLimit =>
        /\ LengthPerAgent \in Nat
        /\ \A b \in Agents : s.length[Well(b)] \in Int /\ s'.length[Well(b)] \in Int
        /\ s.length[Well(a)] > 0
  BY <1>1, SessionAssumption DEF KeysSound, Turn, MayTalk, Maps
<1>7. ASSUME NEW b \in Agents PROVE BudgetKept(b)'
  <2>1. PICK v \in Int :
           /\ SumIs(n, Costs(b), v)
           /\ LengthPerAgent # NoLimit =>
                /\ v <= LengthPerAgent - s.length[Well(b)]
                /\ Cuts(0) => v <= LengthPerAgent - Above(s.length[Well(b)], 0)
           /\ AllFree => v = 0
    BY DEF LimitsInv, BudgetKept
  <2> DEFINE w == v + Costs(b)'[n + 1]
  <2>2. SumIs(n + 1, Costs(b)', w)
    BY <1>2, <1>4, <2>1, SumOfOneMore
  <2>3. w \in Int /\ (b # a => w = v) /\ (b = a => w = v + CostOf(t))
    BY <1>4, <1>5, <2>1
  <2>4. AllFree => w = 0
    BY <1>1, <2>1, <2>3 DEF TurnAdds
  <2>5. ASSUME LengthPerAgent # NoLimit
        PROVE  /\ w <= LengthPerAgent - s'.length[Well(b)]
               /\ Cuts(0) => w <= LengthPerAgent - Above(s'.length[Well(b)], 0)
    <3>1. CASE b # a
      <4>1. s'.length[Well(b)] = s.length[Well(b)]
        BY <1>1, <2>5, <3>1 DEF TurnAdds
      <4>2. QED
        BY <2>1, <2>3, <2>5, <3>1, <4>1
    <3>2. CASE b = a
      <4>1. Paid(t, s.length[Well(b)], s'.length[Well(b)])
        BY <1>1, <2>5, <3>2 DEF TurnAdds
      <4>2. s.length[Well(b)] > 0 /\ Above(s.length[Well(b)], 0) = s.length[Well(b)]
            /\ Above(s'.length[Well(b)], 0) \in Int
        BY <1>6, <2>5, <3>2 DEF Above
      <4> HIDE DEF w
      <4>3. QED
        BY <1>5, <1>6, <2>1, <2>3, <2>5, <3>2, <4>1, <4>2 DEF Paid
    <3>3. QED
      BY <3>1, <3>2
  <2> HIDE DEF w
  <2>6. Len(s'.talks) = n + 1
    BY <1>2
  <2>7. QED
    BY <2>2, <2>3, <2>4, <2>5, <2>6 DEF BudgetKept, AllFree, Unlimited, Cuts, Base
<1>8. ASSUME LengthPerAgent # NoLimit, NEW b \in Agents PROVE AskedWithin(b)'
  <2>1. SUFFICES ASSUME NEW m \in By(b)'
                 PROVE  \E v \in Int : SumIs(m - 1, Costs(b)', v) /\ v < LengthPerAgent
    BY DEF AskedWithin
  <2>2. m \in 1..(n + 1)
    BY <1>2
  <2>3. \E v \in Int : SumIs(m - 1, Costs(b), v) /\ v < LengthPerAgent
    <3>1. CASE m \in By(b)
      BY <1>8, <3>1 DEF LimitsInv, AskedWithin
    <3>2. CASE m \notin By(b)
      <4>1. b = a /\ m = n + 1 /\ m - 1 = n
        BY <1>1, <1>2, <2>1, <3>2
      <4>2. PICK v \in Int : SumIs(n, Costs(b), v) /\ v <= LengthPerAgent - s.length[Well(b)]
        BY <1>8 DEF LimitsInv, BudgetKept
      <4>3. v < LengthPerAgent
        BY <1>6, <1>8, <4>1, <4>2
      <4>4. QED
        BY <4>1, <4>2, <4>3
    <3>3. QED
      BY <3>1, <3>2
  <2>4. PICK v \in Int : SumIs(m - 1, Costs(b), v) /\ v < LengthPerAgent
    BY <2>3
  <2>5. m - 1 \in Nat /\ \A x \in 1..(m - 1) : Costs(b)'[x] = Costs(b)[x]
    BY <1>2, <1>4, <2>2
  <2>6. SumIs(m - 1, Costs(b)', v)
    BY <2>4, <2>5, SumOfSame
  <2>7. QED
    BY <2>4, <2>6
<1>9. QED
  BY <1>3, <1>7, <1>8 DEF LimitsInv

LEMMA LimitsAtFirst == Init => LimitsInv
<1> SUFFICES ASSUME Init PROVE LimitsInv
  OBVIOUS
<1>1. s.talks = <<>> /\ s = NewCommunicationSession
  BY DEF Init, NewCommunicationSession
<1>2. TalksCut /\ \A a \in Agents : AskedWithin(a)
  BY <1>1 DEF TalksCut, AskedWithin, By
<1>3. ASSUME NEW a \in Agents PROVE BudgetKept(a)
  <2>1. LengthPerAgent # NoLimit => s.length[Well(a)] = LengthPerAgent
    BY <1>1 DEF NewCommunicationSession, Well
  <2>2. SumIs(Len(s.talks), Costs(a), 0)
    BY <1>1, SumOfNone
  <2>3. LengthPerAgent # NoLimit =>
          /\ 0 <= LengthPerAgent - s.length[Well(a)]
          /\ 0 <= LengthPerAgent - Above(s.length[Well(a)], 0)
    BY <2>1, SessionAssumption DEF Above
  <2>4. QED
    BY <2>2, <2>3 DEF BudgetKept
<1>4. QED
  BY <1>2, <1>3 DEF LimitsInv

\* However characters are counted, no splitting of what it says and no placing of
\* mentions gets an agent past max_length.per_agent but with its last speech, nor
\* the parts of a speech beside its mention past max_length.per_talk where they
\* can be cut.
THEOREM LimitsTheorem == Spec => []LimitsHold
<1>1. TurnsInv /\ LimitsInv /\ [Next]_vars => LimitsInv'
  <2> SUFFICES ASSUME TurnsInv, LimitsInv, [Next]_vars PROVE LimitsInv'
    OBVIOUS
  <2>1. ASSUME NEW a \in Agents, Answered(a) \/ Failed(a) PROVE LimitsInv'
    <3>1. PICK lost \in BOOLEAN, t \in Talk : Turn(a, lost, t)
      BY <2>1, TurnTaken
    <3>2. QED
      BY <3>1, TurnKeepsLimits
  <2>2. CASE UNCHANGED s
    <3>1. \A a : Costs(a)' = Costs(a) /\ By(a)' = By(a)
      BY <2>2 DEF Costs, CostOf, By, Above, Base
    <3>2. \A a : BudgetKept(a)' <=> BudgetKept(a)
      BY <2>2, <3>1 DEF BudgetKept, Cuts, AllFree, Above, Base, Unlimited
    <3>3. \A a : AskedWithin(a)' <=> AskedWithin(a)
      BY <3>1 DEF AskedWithin
    <3>4. TalksCut'
      BY <2>2 DEF LimitsInv, TalksCut, WithinTalk, Cuts
    <3>5. QED
      BY <3>2, <3>3, <3>4 DEF LimitsInv
  <2>3. QED
    BY <2>1, <2>2 DEF Next, Begin, SkipAgent, EndRound, Panics, vars
<1>2. TurnsInv /\ LimitsInv => LimitsHold
  <2> SUFFICES ASSUME TurnsInv, LimitsInv PROVE LimitsHold
    OBVIOUS
  <2>1. TypeOK /\ KeysSound /\ Len(s.talks) \in Nat /\ DOMAIN s.talks = 1..Len(s.talks)
        /\ s.talks \in Seq(Talk)
    BY LenProperties DEF TurnsInv, TypeOK
  <2>2. LengthBudget
    <3>1. SUFFICES ASSUME NEW a \in Agents
                   PROVE  /\ LengthPerAgent # NoLimit /\ Cuts(0) => Spent(a, Len(s.talks)) <= LengthPerAgent
                          /\ AllFree => Spent(a, Len(s.talks)) = 0
      BY DEF LengthBudget, AllFree
    <3>2. PICK v \in Int :
             /\ SumIs(Len(s.talks), Costs(a), v)
             /\ LengthPerAgent # NoLimit =>
                  (Cuts(0) => v <= LengthPerAgent - Above(s.length[Well(a)], 0))
             /\ AllFree => v = 0
      BY DEF LimitsInv, BudgetKept
    <3>3. Spent(a, Len(s.talks)) = v
      BY <2>1, <3>2, SpentIsSum
    <3>4. LengthPerAgent # NoLimit => LengthPerAgent \in Int /\ s.length[Well(a)] \in Int
      BY <2>1, SessionAssumption DEF KeysSound, Maps
    <3>5. QED
      BY <3>2, <3>3, <3>4 DEF Above
  <2>3. AskedWithinBudget
    <3>1. SUFFICES ASSUME LengthPerAgent # NoLimit, NEW a \in Agents, NEW m \in By(a)
                   PROVE  Spent(a, m - 1) < LengthPerAgent
      BY DEF AskedWithinBudget
    <3>2. PICK v \in Int : SumIs(m - 1, Costs(a), v) /\ v < LengthPerAgent
      BY <3>1 DEF LimitsInv, AskedWithin
    <3>3. m - 1 \in 0..Len(s.talks)
      BY <2>1 DEF By
    <3>4. Spent(a, m - 1) = v
      BY <2>1, <3>2, <3>3, SpentIsSum
    <3>5. QED
      BY <3>2, <3>4
  <2>4. PerTalkCut
    <3>1. SUFFICES ASSUME NEW n \in DOMAIN s.talks, PerTalk # NoLimit
                   PROVE  LET talk == s.talks[n]
                              tag  == IF talk.mention THEN TagLength + Blanks ELSE 0
                          IN  /\ Cuts(PerTalk - talk.common) => SpeechLength(talk) <= PerTalk + tag
                              /\ Cuts(PerTalk) => talk.common <= PerTalk
      BY DEF PerTalkCut
    <3> DEFINE talk == s.talks[n]
               tag  == IF talk.mention THEN TagLength + Blanks ELSE 0
    <3>2. WithinTalk(talk.common, talk.mentionText)
      BY <3>1 DEF LimitsInv, TalksCut
    <3>3. talk \in Talk
      BY <2>1
    <3>4. tag \in Nat /\ SpeechLength(talk) = talk.common + talk.mentionText + tag
      BY SessionAssumption DEF SpeechLength, Blanks
    <3>5. talk.common \in Nat /\ talk.mentionText \in Nat /\ PerTalk \in Int
      BY <3>3, SessionAssumption DEF Talk, NoLimit
    <3> HIDE DEF talk, tag
    <3>6. /\ Cuts(PerTalk - talk.common) => SpeechLength(talk) <= PerTalk + tag
          /\ Cuts(PerTalk) => talk.common <= PerTalk
      BY <3>2, <3>4, <3>5 DEF WithinTalk
    <3>7. QED
      BY <3>6 DEF talk, tag
  <2>5. QED
    BY <2>2, <2>3, <2>4 DEF LimitsHold
<1>3. QED
  BY <1>1, <1>2, LimitsAtFirst, TurnsInvHolds, PTL DEF Spec

-----------------------------------------------------------------------------
(* Every step is one that Discussion allows *)

SaidByAll == [a \in Agents |-> Said(a)]
CannotTalk == {a \in Agents : ~CanAgentTalk(s, Value(a))}
Silent     == {a \in Agents : ~MayTalk(a)}
IsOpen     == pc \in {"start", "round"}

SilentAgrees == CannotTalk = Silent

LEMMA SilentMeans == TypeOK /\ KeysSound => SilentAgrees
BY CanAgentTalkMeans DEF SilentAgrees, CannotTalk, Silent

\* A turn is a speech, or the agent falls silent by an Over.
LEMMA TurnDiscusses ==
  ASSUME TurnsInv, TurnsInv', NEW a \in Agents, NEW lost \in BOOLEAN, NEW t \in Talk,
         Turn(a, lost, t)
  PROVE  /\ a \notin CannotTalk /\ CannotTalk' \in {CannotTalk, CannotTalk \union {a}}
         /\ Said(a) < PerAgent
         /\ SaidByAll' = IF t.kind = "Over" THEN SaidByAll
                         ELSE [SaidByAll EXCEPT ![a] = @ + 1]
<1> DEFINE n == Len(s.talks)
<1>1. /\ TypeOK /\ KeysSound /\ TypeOK' /\ KeysSound' /\ RemainTruthful
      /\ s'.talks = Append(s.talks, t) /\ t.agent[1] = a
      /\ MayTalk(a) /\ PerAgent \in Nat
      /\ \A b \in Agents \ {a} : MayTalk(b)' <=> MayTalk(b)
  BY SessionAssumption DEF TurnsInv, Turn, TurnAdds
<1>2. CannotTalk = Silent /\ CannotTalk' = Silent'
  <2>1. TypeOK' /\ KeysSound' => SilentAgrees'
    BY SilentMeans, PTL
  <2>2. QED
    BY <1>1, <2>1, SilentMeans DEF SilentAgrees
<1>3. /\ n \in Nat
      /\ \A b : By(b) \subseteq 1..n /\ IsFiniteSet(By(b))
      /\ \A b : By(b)' = IF t.agent[1] = b THEN By(b) \union {n + 1} ELSE By(b)
      /\ \A m \in 1..n : Kind(m)' = Kind(m)
      /\ \A m : m = n + 1 => Kind(m)' = t.kind
  BY <1>1, TranscriptGrows
<1>4. a \notin CannotTalk /\ CannotTalk' \in {CannotTalk, CannotTalk \union {a}}
  BY <1>1, <1>2 DEF Silent
<1> DEFINE Spoken(b) == {m \in By(b) : Kind(m) # "Over"}
<1>5. \A b : /\ Spoken(b) \subseteq By(b) /\ Said(b) = Cardinality(Spoken(b))
             /\ Said(b)' = Cardinality(Spoken(b)')
  BY DEF Said
<1>6. ASSUME NEW b \in Agents \ {a} PROVE Said(b)' = Said(b)
  <2>1. Spoken(b)' = Spoken(b)
    BY <1>1, <1>3
  <2>2. QED
    BY <1>5, <2>1
<1>7. /\ IsFiniteSet(Spoken(a)) /\ Cardinality(Spoken(a)) \in Nat
      /\ Cardinality(Spoken(a)) <= Cardinality(By(a))
  BY <1>3, <1>5, FS_Subset, FS_CardinalityType
<1>8. Said(a)' = IF t.kind = "Over" THEN Said(a) ELSE Said(a) + 1
  <2>1. Spoken(a)' = Spoken(a) \union (IF t.kind = "Over" THEN {} ELSE {n + 1})
    BY <1>1, <1>3
  <2>2. n + 1 \notin Spoken(a)
    BY <1>3
  <2>3. Cardinality(Spoken(a) \union {n + 1}) = Cardinality(Spoken(a)) + 1
    BY <1>7, <2>2, FS_AddElement
  <2>4. CASE t.kind = "Over"
    BY <1>5, <2>1, <2>4
  <2>5. CASE t.kind # "Over"
    BY <1>5, <2>1, <2>3, <2>5
  <2>6. QED
    BY <2>4, <2>5
<1>9. Said(a) < PerAgent
  <2>1. Value(a) = Well(a) /\ ~hasError[a] /\ s.count[Well(a)] > 0
    BY <1>1 DEF MayTalk, Value, Well, TypeOK
  <2>2. s.count[Well(a)] = PerAgent - Cardinality(By(a)) /\ Cardinality(By(a)) \in Nat
    BY <1>1, <1>3, <2>1, FS_CardinalityType DEF RemainTruthful
  <2>3. QED
    BY <1>1, <1>5, <1>7, <2>1, <2>2
<1>10. SaidByAll' = IF t.kind = "Over" THEN SaidByAll
                    ELSE [SaidByAll EXCEPT ![a] = @ + 1]
  BY <1>6, <1>8 DEF SaidByAll
<1>11. QED
  BY <1>4, <1>9, <1>10

\* A turn-based session keeps what Discussion promises: nobody speaks more often than
\* max_count.per_agent, after the end, or once it has fallen silent.
THEOREM DiscussesTheorem == Spec => D!Init /\ [][D!Next]_(D!vars)
<1>1. Init => D!Init
  <2> SUFFICES ASSUME Init PROVE D!Init
    OBVIOUS
  <2>1. \A a : By(a) = {}
    BY DEF Init, NewCommunicationSession, By
  <2>2. \A a \in Agents : Said(a) = 0
    <3>1. \A a : {n \in By(a) : Kind(n) # "Over"} = {}
      BY <2>1
    <3>2. QED
      BY <3>1, FS_EmptySet DEF Said
  <2>3. SaidByAll = [a \in Agents |-> 0] /\ CannotTalk \in SUBSET Agents /\ IsOpen = TRUE
    BY <2>2 DEF SaidByAll, CannotTalk, IsOpen, Init
  <2>4. QED
    BY <2>3 DEF D!Init, SaidByAll, CannotTalk, IsOpen
<1>2. TurnsInv /\ TurnsInv' /\ [Next]_vars => [D!Next]_(D!vars)
  <2> SUFFICES ASSUME TurnsInv, TurnsInv', [Next]_vars PROVE [D!Next]_(D!vars)
    OBVIOUS
  <2>1. CASE UNCHANGED <<hasError, s>>
    <3>1. SaidByAll' = SaidByAll /\ CannotTalk' = CannotTalk
      BY <2>1 DEF SaidByAll, Said, By, Kind, CannotTalk, Value
    <3>2. IsOpen' = IsOpen \/ (IsOpen = TRUE /\ IsOpen' = FALSE)
      BY DEF IsOpen, Next, Begin, SkipAgent, EndRound, Answered, Failed, Panics, Visiting, vars
    <3>3. CASE IsOpen' = IsOpen
      BY <3>1, <3>3 DEF D!vars, SaidByAll, CannotTalk, IsOpen
    <3>4. CASE IsOpen = TRUE /\ IsOpen' = FALSE
      BY <3>1, <3>4 DEF D!Next, D!Close, SaidByAll, CannotTalk, IsOpen
    <3>5. QED
      BY <3>2, <3>3, <3>4
  <2>2. ASSUME NEW a \in Agents, Answered(a) \/ Failed(a) PROVE D!Next
    <3>1. PICK lost \in BOOLEAN, t \in Talk : Turn(a, lost, t)
      BY <2>2, TurnTaken
    <3>2. /\ a \notin CannotTalk /\ CannotTalk' \in {CannotTalk, CannotTalk \union {a}}
          /\ Said(a) < PerAgent
          /\ SaidByAll' = IF t.kind = "Over" THEN SaidByAll
                          ELSE [SaidByAll EXCEPT ![a] = @ + 1]
      BY <3>1, TurnDiscusses
    <3>3. IsOpen = TRUE /\ IsOpen' = TRUE
      BY <3>1 DEF IsOpen, Turn
    <3>4. CASE t.kind = "Over"
      <4>1. \E some \in SUBSET (Agents \ CannotTalk) : CannotTalk' = CannotTalk \union some
        <5>1. CASE CannotTalk' = CannotTalk
          <6>1. {} \in SUBSET (Agents \ CannotTalk) /\ CannotTalk' = CannotTalk \union {}
            BY <5>1
          <6>2. QED
            BY <6>1
        <5>2. CASE CannotTalk' = CannotTalk \union {a}
          <6>1. {a} \in SUBSET (Agents \ CannotTalk)
            BY <3>2
          <6>2. QED
            BY <5>2, <6>1
        <5>3. QED
          BY <3>2, <5>1, <5>2
      <4>2. QED
        BY <3>2, <3>3, <3>4, <4>1 DEF D!Next, D!FallSilent, SaidByAll, CannotTalk, IsOpen
    <3>5. CASE t.kind # "Over"
      <4>1. SaidByAll[a] = Said(a)
        BY DEF SaidByAll
      <4>2. D!Speak(a)
        BY <3>2, <3>3, <3>5, <4>1 DEF D!Speak, SaidByAll, CannotTalk, IsOpen
      <4>3. QED
        BY <4>2 DEF D!Next
    <3>6. QED
      BY <3>4, <3>5
  <2>3. QED
    BY <2>1, <2>2 DEF Next, Begin, SkipAgent, EndRound, Panics, vars
<1>3. QED
  BY <1>1, <1>2, TurnsInvHolds, PTL DEF Spec
=============================================================================
