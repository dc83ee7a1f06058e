--------------------------- MODULE FreeformProofs ---------------------------
(***************************************************************************)
(* What holds of a group chat for any agents, limits, speeches, capacity   *)
(* of the channel and interleaving of its goroutines: everybody is told    *)
(* the same discussion, nobody adds to it once its end is announced, and   *)
(* every step is one that Discussion allows.                               *)
(***************************************************************************)
EXTENDS Freeform, SequenceTheorems, FiniteSetTheorems, TLAPS

-----------------------------------------------------------------------------
(* The accounting of CommunicationSession, for keys of both kinds *)

Maps(m) == DOMAIN m \subseteq Key /\ \A k \in DOMAIN m : m[k] \in Int

\* What is left under every key is no more than before, and the same under others.
Lessens(new, length, k) ==
  /\ Maps(new) /\ DOMAIN new = DOMAIN length
  /\ \A x \in DOMAIN length : x # k => new[x] = length[x]
  /\ k \in DOMAIN length => new[k] <= length[k]

LEMMA PutIs ==
  ASSUME NEW m, Maps(m), NEW k \in Key, NEW v \in Int
  PROVE  /\ Maps(Put(m, k, v)) /\ DOMAIN Put(m, k, v) = DOMAIN m \union {k}
         /\ Put(m, k, v)[k] = v /\ \A x \in DOMAIN m : x # k => Put(m, k, v)[x] = m[x]
BY DEF Put, Maps

LEMMA ChargeLessens ==
  ASSUME NEW length, Maps(length), NEW k \in Key, NEW cost \in Int
  PROVE  Lessens(Charge(length, k, cost), length, k)
<1>1. CASE cost > 0 /\ k \in DOMAIN length
  <2> DEFINE now  == length[k]
             left == now - cost
  <2>1. now \in Int
    BY <1>1 DEF Maps
  <2>2. DOMAIN length \union {k} = DOMAIN length
    BY <1>1
  <2>3. Charge(length, k, cost) = Put(length, k, left)
    BY <1>1 DEF Charge
  <2> HIDE DEF now
  <2>4. left \in Int /\ left <= now
    BY <1>1, <2>1
  <2> HIDE DEF left
  <2>5. left <= length[k]
    BY <2>4 DEF now
  <2>6. /\ Maps(Put(length, k, left)) /\ DOMAIN Put(length, k, left) = DOMAIN length
        /\ Put(length, k, left)[k] = left
        /\ \A x \in DOMAIN length : x # k => Put(length, k, left)[x] = length[x]
    BY <2>2, <2>4, PutIs
  <2> QED BY <2>3, <2>5, <2>6 DEF Lessens
<1>2. CASE ~(cost > 0 /\ k \in DOMAIN length)
  BY <1>2 DEF Charge, Lessens, Maps
<1>3. QED
  BY <1>1, <1>2

LEMMA LessensTwice ==
  ASSUME NEW length, Maps(length), NEW k, NEW new, Lessens(new, length, k), NEW last, Lessens(last, new, k)
  PROVE  Lessens(last, length, k)
<1>1. k \in DOMAIN length => last[k] \in Int /\ new[k] \in Int /\ length[k] \in Int
  BY DEF Lessens, Maps
<1>2. k \in DOMAIN length => last[k] <= length[k]
  BY <1>1 DEF Lessens
<1>3. QED
  BY <1>2 DEF Lessens

LEMMA TrimIs ==
  ASSUME NEW n \in Nat, NEW limit \in Int, ~TrimFails(limit)
  PROVE  Trim(n, limit) \in Nat
BY DEF Trim, TrimFails, Cuts

LEMMA LimitTalkIs ==
  ASSUME NEW common \in Nat, NEW after \in Nat, NEW mention \in BOOLEAN
  PROVE  LET cut == LimitTalk(common, mention, after)
         IN  cut.common \in Nat /\ cut.after \in Nat /\ cut.mention \in BOOLEAN
<1> DEFINE cut == LimitTalk(common, mention, after)
<1>1. PerTalk \in Nat \union {NoLimit}
  BY SessionAssumption
<1>0. cut.mention \in BOOLEAN
  <2>1. cut.mention \in {mention, FALSE}
    BY Zenon DEF LimitTalk
  <2> QED BY <2>1, Zenon
<1>2. CASE PerTalk = NoLimit \/ common + after <= PerTalk
  BY <1>2 DEF LimitTalk
<1>3. CASE ~(PerTalk = NoLimit \/ common + after <= PerTalk) /\ common > PerTalk
  <2>1. cut.common = Trim(common, PerTalk) /\ cut.after = 0
    BY <1>3 DEF LimitTalk
  <2>2. PerTalk \in Nat /\ ~TrimFails(PerTalk)
    BY <1>1, <1>3 DEF TrimFails
  <2> QED BY <1>0, <2>1, <2>2, TrimIs
<1>4. CASE ~(PerTalk = NoLimit \/ common + after <= PerTalk) /\ ~(common > PerTalk)
  <2>1. cut.common = common /\ cut.after = Trim(after, PerTalk - common)
    BY <1>4 DEF LimitTalk
  <2>2. PerTalk - common \in Nat /\ ~TrimFails(PerTalk - common)
    BY <1>1, <1>4 DEF TrimFails
  <2> QED BY <1>0, <2>1, <2>2, TrimIs
<1>5. QED
  BY <1>2, <1>3, <1>4

\* What becomes of a speech under a key that has characters left, or no limit.
LEMMA ProcessTextIs ==
  ASSUME NEW length, Maps(length), NEW k \in Key, NEW text \in Text,
         k \in DOMAIN length => length[k] > 0, ~ProcessText(length, k, text).fails
  PROVE  LET body == ProcessText(length, k, text)
         IN  /\ body.kind \in {"text", "Over"} /\ body.common \in Nat /\ body.mentionText \in Nat
             /\ body.mention \in BOOLEAN
             /\ Lessens(body.length, length, k)
<1> DEFINE body    == ProcessText(length, k, text)
           mention == text.mention /\ ~Unlimited
           first   == IF Unlimited THEN [common |-> WholeLength(text), length |-> length]
                      ELSE LimitCommon(length, k, text.before)
           second  == IF mention THEN LimitMention(first.length, k, text.after)
                      ELSE [kept |-> 0, fails |-> FALSE, length |-> first.length]
           cut     == LimitTalk(first.common, mention, second.kept)
<1>1. /\ body.common = cut.common /\ body.mentionText = cut.after /\ body.mention = cut.mention
      /\ body.length = second.length /\ body.fails = second.fails
      /\ body.kind \in {"text", "Over"}
  BY DEF ProcessText
<1>2. text.before \in Nat /\ text.after \in Nat /\ text.mention \in BOOLEAN
  BY DEF Text
<1>3. Base \in Nat /\ MentionLength \in Nat
  BY SessionAssumption DEF Base, NoLimit
<1>4. \A m : Maps(m) => Allowance(m, k) \in Int /\ (k \in DOMAIN m => Allowance(m, k) = m[k])
  BY DEF Allowance, Maps
<1>5. first.common \in Nat /\ Lessens(first.length, length, k)
  <2>1. CASE Unlimited
    <3>1. WholeLength(text) \in Nat
      BY <1>2, SessionAssumption DEF WholeLength
    <3> QED BY <2>1, <3>1 DEF Lessens, Maps
  <2>2. CASE ~Unlimited
    <3> DEFINE limit == Base + Allowance(length, k)
    <3>1. Allowance(length, k) \in Nat
      BY DEF Allowance, Maps
    <3>2. limit \in Nat /\ ~TrimFails(limit)
      BY <1>3, <3>1 DEF TrimFails
    <3>3. /\ first.common = Trim(text.before, limit)
          /\ first.length = Charge(length, k, text.before - Base) /\ text.before - Base \in Int
      BY <1>2, <1>3, <2>2 DEF LimitCommon
    <3> HIDE DEF limit
    <3> QED BY <1>2, <3>2, <3>3, TrimIs, ChargeLessens
  <2> QED BY <2>1, <2>2
<1>6. second.kept \in Nat /\ Lessens(second.length, length, k)
  <2>1. CASE ~mention
    BY <1>5, <2>1
  <2>2. CASE mention
    <3> DEFINE some  == first.length
               limit == MentionLength + Allowance(some, k)
    <3>1. Maps(some)
      BY <1>5 DEF Lessens
    <3>2. limit \in Int
      BY <1>3, <1>4, <3>1
    <3>3. /\ second.kept = Trim(text.after, limit) /\ second.fails = TrimFails(limit)
          /\ second.length = Charge(some, k, second.kept - MentionLength)
      BY <2>2, Zenon DEF LimitMention
    <3>4. ~TrimFails(limit)
      BY <1>1, <3>3
    <3> HIDE DEF limit, some
    <3>5. second.kept \in Nat
      BY <1>2, <3>2, <3>3, <3>4, TrimIs
    <3>6. second.kept - MentionLength \in Int
      BY <1>3, <3>5
    <3>7. Lessens(second.length, some, k)
      BY <3>1, <3>3, <3>6, ChargeLessens
    <3>8. Lessens(second.length, length, k)
      BY <1>5, <3>7, LessensTwice DEF some
    <3> QED BY <3>5, <3>8
  <2> QED BY <2>1, <2>2
<1>7. cut.common \in Nat /\ cut.after \in Nat /\ cut.mention \in BOOLEAN
  <2>1. mention \in BOOLEAN
    BY <1>2
  <2> QED BY <1>5, <1>6, <2>1, LimitTalkIs
<1>8. QED
  BY <1>1, <1>6, <1>7

\* What buildTalk leaves of a session q, and what it adds to it, by key k's text.
Built(new, q, k, text) ==
  /\ Maps(new.skip) /\ Lessens(new.length, q.length, k)
  /\ Maps(new.count) /\ DOMAIN new.count = DOMAIN q.count \union {k}
  /\ \A x \in DOMAIN q.count : x # k => new.count[x] = q.count[x]
  /\ new.count[k] = 0 \/ (new.count[k] = Get(q.count, k) - 1 /\ text.kind # "Over")
  /\ \E t \in Talk : /\ t.agent = k /\ (text.kind = "Over" => t.kind = "Over")
                     /\ new.talks = Append(q.talks, t)

LEMMA BuildTalkIs ==
  ASSUME NEW q, Maps(q.count), Maps(q.skip), Maps(q.length), q.talks \in Seq(Talk),
         NEW k \in Key, NEW text \in Text, NEW turn \in Nat, ~BuildFails(q, k, text),
         k \in DOMAIN q.length => q.length[k] > 0 \/ text.kind # "text"
  PROVE  Built(BuildTalk(q, k, text, turn), q, k, text)
<1> DEFINE new  == BuildTalk(q, k, text, turn)
           kind == SkipOver(q, k, text.kind)
           body == IF kind = "text" THEN ProcessText(q.length, k, text)
                   ELSE [kind |-> kind, common |-> 0, mention |-> FALSE, mentionText |-> 0,
                         length |-> q.length]
           t    == [agent |-> k, turn |-> turn, kind |-> body.kind,
                    common |-> body.common, mention |-> body.mention,
                    mentionText |-> body.mentionText]
<1>1. /\ new.count = RemainCount(q, k, text.kind) /\ new.skip = RemainSkip(q, k, text.kind)
      /\ new.length = body.length /\ new.talks = Append(q.talks, t)
  BY DEF BuildTalk
<1>2. /\ text.kind \in Kinds /\ kind \in {"text", "Skip", "Over"}
      /\ (kind = "text" <=> text.kind = "text") /\ (text.kind = "Over" => kind = "Over")
  BY DEF Text, Kinds, SkipOver
<1>3. /\ body.kind \in {"text", "Skip", "Over"} /\ (kind = "Over" => body.kind = "Over")
      /\ body.common \in Nat /\ body.mentionText \in Nat /\ body.mention \in BOOLEAN
      /\ Lessens(body.length, q.length, k)
  <2>1. CASE kind = "text"
    <3>1. body = ProcessText(q.length, k, text)
      BY <2>1
    <3>2. ~ProcessText(q.length, k, text).fails /\ (k \in DOMAIN q.length => q.length[k] > 0)
      BY <1>2, <2>1 DEF BuildFails
    <3> HIDE DEF body, kind
    <3> QED BY <2>1, <3>1, <3>2, ProcessTextIs
  <2>2. CASE kind # "text"
    <3>1. /\ body.kind = kind /\ body.common = 0 /\ body.mentionText = 0
          /\ body.length = q.length
      BY <2>2
    <3>3. body.mention \in BOOLEAN
      BY <2>2, Zenon
    <3>2. Lessens(q.length, q.length, k)
      BY DEF Lessens, Maps
    <3> HIDE DEF body, kind
    <3> QED BY <1>2, <2>2, <3>1, <3>2, <3>3
  <2> QED BY <2>1, <2>2
<1> HIDE DEF body
<1>4. t \in Talk /\ t.agent = k /\ (text.kind = "Over" => t.kind = "Over")
  <2>1. t.kind \in Kinds \ {"ForceSkip"}
    BY <1>3 DEF Kinds
  <2> QED BY <1>2, <1>3, <2>1 DEF Talk
<1>5. /\ Maps(new.count) /\ DOMAIN new.count = DOMAIN q.count \union {k}
      /\ \A x \in DOMAIN q.count : x # k => new.count[x] = q.count[x]
      /\ new.count[k] = (IF kind = "Over" THEN 0 ELSE Get(q.count, k) - 1)
  <2> DEFINE count == q.count
             left  == IF kind = "Over" THEN 0 ELSE Get(count, k) - 1
  <2>1. left \in Int /\ Maps(count)
    BY DEF Get, Maps
  <2>2. new.count = Put(count, k, left)
    BY <1>1 DEF RemainCount
  <2> HIDE DEF left, new, count
  <2>3. /\ Maps(Put(count, k, left)) /\ DOMAIN Put(count, k, left) = DOMAIN count \union {k}
        /\ Put(count, k, left)[k] = left
        /\ \A x \in DOMAIN count : x # k => Put(count, k, left)[x] = count[x]
    BY <2>1, PutIs
  <2> QED BY <2>2, <2>3 DEF left, count
<1>6. Maps(new.skip)
  <2> DEFINE skip == q.skip
  <2>1. MaxSkip \in Int /\ Maps(skip)
    BY SessionAssumption
  <2>2. CASE text.kind = "Skip" /\ Get(skip, k) > 0
    <3> DEFINE left == skip[k] - 1
    <3>1. left \in Int
      BY <2>2 DEF Get, Maps
    <3>2. new.skip = Put(skip, k, left)
      BY <1>1, <2>2 DEF RemainSkip
    <3> HIDE DEF new, left, skip
    <3>3. Maps(Put(skip, k, left))
      BY <2>1, <3>1, PutIs
    <3> QED BY <3>2, <3>3
  <2>3. CASE ~(text.kind = "Skip" /\ Get(skip, k) > 0)
    <3>1. new.skip = Put(skip, k, MaxSkip) \/ new.skip = skip
      BY <1>1, <2>3 DEF RemainSkip
    <3> HIDE DEF new, skip
    <3>2. Maps(Put(skip, k, MaxSkip))
      BY <2>1, PutIs
    <3> QED BY <2>1, <3>1, <3>2
  <2> QED BY <2>2, <2>3
<1>7. QED
  <2>1. new.count[k] = 0 \/ (new.count[k] = Get(q.count, k) - 1 /\ text.kind # "Over")
    BY <1>2, <1>5
  <2>2. Lessens(new.length, q.length, k)
    BY <1>1, <1>3
  <2>3. \E x \in Talk : x.agent = k /\ (text.kind = "Over" => x.kind = "Over") /\ new.talks = Append(q.talks, x)
    BY <1>1, <1>4
  <2> HIDE DEF new, t, kind
  <2>4. Built(new, q, k, text)
    BY <1>5, <1>6, <2>1, <2>2, <2>3 DEF Built
  <2> QED BY <2>4 DEF new

-----------------------------------------------------------------------------
(* The transcript and what is read of it *)

LEMMA PrefixIs ==
  ASSUME NEW S, NEW u \in Seq(S), NEW v \in Seq(S)
  PROVE  IsPrefix(u, v) <=> Len(u) <= Len(v) /\ \A n \in 1..Len(u) : u[n] = v[n]
<1>1. Len(u) \in Nat /\ Len(v) \in Nat /\ SubSeq(u, 1, Len(u)) = u
      /\ \A n \in 1..Len(v) : v[n] \in S
  BY SubSeqFull, LenProperties, ElementOfSeq
<1> SUFFICES ASSUME Len(u) <= Len(v)
             PROVE  u = SubSeq(v, 1, Len(u)) <=> \A n \in 1..Len(u) : u[n] = v[n]
  BY <1>1 DEF IsPrefix
<1> DEFINE front == SubSeq(v, 1, Len(u))
<1>2. front \in Seq(S) /\ Len(front) = Len(u) /\ \A n \in 1..Len(u) : front[n] = v[n]
  <2>1. \A n \in 1..Len(u) : v[n] \in S
    BY <1>1
  <2> QED BY <1>1, <2>1, SubSeqProperties
<1> HIDE DEF front
<1>3. u = front <=> \A n \in 1..Len(u) : u[n] = front[n]
  BY <1>2, SeqEqual
<1> QED BY <1>2, <1>3 DEF front

LEMMA PrefixGrows ==
  ASSUME NEW S, NEW u \in Seq(S), NEW v \in Seq(S), IsPrefix(u, v), NEW x \in S
  PROVE  IsPrefix(u, Append(v, x))
<1> DEFINE w == Append(v, x)
<1>1. w \in Seq(S) /\ Len(w) = Len(v) + 1 /\ \A n \in 1..Len(v) : w[n] = v[n]
  BY AppendProperties
<1>2. Len(u) <= Len(v) /\ \A n \in 1..Len(u) : u[n] = v[n]
  BY PrefixIs
<1>3. Len(u) \in Nat /\ Len(v) \in Nat
  BY LenProperties
<1> HIDE DEF w
<1>4. Len(u) <= Len(w) /\ \A n \in 1..Len(u) : u[n] = w[n]
  BY <1>1, <1>2, <1>3
<1>5. IsPrefix(u, w)
  BY <1>1, <1>4, PrefixIs
<1> QED BY <1>5 DEF w

LEMMA PrefixSelf ==
  ASSUME NEW S, NEW u \in Seq(S)
  PROVE  IsPrefix(u, u)
BY PrefixIs, LenProperties

\* A discussion is all but its last talk, and that.
LEMMA FrontLast ==
  ASSUME NEW S, NEW v \in Seq(S), v # <<>>
  PROVE  v = Front(v) \o <<Last(v)>> /\ Last(v) \in S /\ Front(v) \in Seq(S)
<1>1. Len(v) \in Nat \ {0}
  BY EmptySeq, LenProperties
<1>2. \A n \in 1..Len(v) : v[n] \in S
  BY ElementOfSeq
<1>3. Last(v) \in S
  BY <1>1, <1>2 DEF Last
<1>4. Front(v) \in Seq(S)
  <2> DEFINE m == Len(v) - 1
  <2>1. m \in Int /\ \A n \in 1..m : v[n] \in S
    BY <1>1, <1>2
  <2> QED BY <2>1, SubSeqProperties DEF Front
<1>5. v = Front(v) \o <<Last(v)>>
  <2>1. Len(v) \in 1..Len(v) /\ 1 \in 1..Len(v)
    BY <1>1
  <2>2. SubSeq(v, 1, Len(v)) = SubSeq(v, 1, Len(v) - 1) \o <<v[Len(v)]>>
    BY <2>1, SubSeqRecursiveSecond
  <2> QED BY <2>2, SubSeqFull DEF Front, Last
<1> QED BY <1>3, <1>4, <1>5

LEMMA FrontAppend ==
  ASSUME NEW S, NEW v \in Seq(S), NEW x \in S
  PROVE  Front(Append(v, x)) = v /\ Append(v, x) # <<>>
<1> DEFINE w == Append(v, x)
           f == Front(w)
<1>1. w \in Seq(S) /\ w # <<>> /\ Len(w) = Len(v) + 1 /\ \A n \in 1..Len(v) : w[n] = v[n]
  BY AppendProperties
<1>2. Len(v) \in Nat /\ \A n \in 1..Len(v) : v[n] \in S
  BY LenProperties, ElementOfSeq
<1>3. f = SubSeq(w, 1, Len(v))
  BY <1>1, <1>2 DEF Front
<1> HIDE DEF w
<1>4. f \in Seq(S) /\ Len(f) = Len(v) /\ \A n \in 1..Len(v) : f[n] = v[n]
  <2>1. \A n \in 1..Len(v) : w[n] \in S
    BY <1>1, <1>2
  <2> HIDE DEF f
  <2> QED BY <1>1, <1>2, <1>3, <2>1, SubSeqProperties
<1> HIDE DEF f
<1>5. f = v
  BY <1>4, SeqEqual
<1> QED BY <1>1, <1>5 DEF f, w

-----------------------------------------------------------------------------
(* The invariant *)

Well(a) == <<a, FALSE>>
Gone(a) == <<a, TRUE>>

\* An agent is a key of its own until its connection breaks, and then another, under
\* which it has no speech left and no limit of characters.
Accounts ==
  /\ Maps(s.count) /\ Maps(s.skip) /\ Maps(s.length)
  /\ DOMAIN turnMap \subseteq Key /\ \A k \in DOMAIN turnMap : turnMap[k] \in Nat
  /\ \A a \in Agents : /\ Well(a) \in DOMAIN s.count /\ Gone(a) \notin DOMAIN s.length
                       /\ Get(s.count, Gone(a)) <= 0

\* The consumer runs only while the game's goroutine waits for it, or after a panic.
Phases == consumer.at # "done" => main \in {"chat", "panic"}

\* The agent whose speech is being built has one left under the key it was validated by,
\* whatever has become of its connection since.
SpeaksBy == \A a \in Agents : Validated(a) => CanAgentTalk(s, Well(a))

\* What an agent has said and what it has left make no more than it was given.
SaidSound ==
  \A a \in Agents :
    /\ Said(a) <= PerAgent
    /\ ~hasError[a] \/ Validated(a) => Said(a) + s.count[Well(a)] <= PerAgent

\* Only the last talk may be missing from what an agent has been sent, and only for one
\* that the consumer has yet to tell.
Pending(a) == consumer.at = "send" /\ a \in consumer.untold
Reads ==
  /\ consumer.at = "send" => s.talks # <<>>
  /\ \A a \in Agents :
       /\ IsPrefix(received[a], s.talks)
       /\ ~hasError[a] => received[a] = IF Pending(a) THEN Front(s.talks) ELSE s.talks

FreeInv == TypeOK /\ Accounts /\ Phases /\ SpeaksBy /\ SaidSound /\ Reads

LEMMA MessagesAreTexts == Messages \subseteq Text
<1>1. \A kind \in Kinds : Plain(kind) \in Text
  BY DEF Plain, Text
<1> QED BY <1>1, FreeformAssumption DEF Messages, Kinds

LEMMA NoSubmissionIs == NoSubmission \in [agent : Agents, text : Messages]
<1>1. \E a \in Agents : TRUE
  <2>1. Agents # {}
    BY SessionAssumption, FS_EmptySet
  <2> QED BY <2>1
<1> QED BY <1>1 DEF NoSubmission, Messages

\* Who may still speak, in terms of the accounts.
MayTalk(a) == ~hasError[a] /\ CanAgentTalk(s, Well(a))

LEMMA CanAgentTalkMeans ==
  TypeOK /\ Accounts => \A a \in Agents : CanAgentTalk(s, Value(a)) <=> MayTalk(a)
<1> SUFFICES ASSUME TypeOK, Accounts, NEW a \in Agents
             PROVE  CanAgentTalk(s, Value(a)) <=> MayTalk(a)
  OBVIOUS
<1>1. CASE hasError[a]
  <2>1. Value(a) = Gone(a)
    BY <1>1 DEF Value, Gone, TypeOK
  <2>2. Get(s.count, Gone(a)) <= 0 /\ Get(s.count, Gone(a)) \in Int
    BY DEF Accounts, Get, Maps
  <2> QED BY <1>1, <2>1, <2>2 DEF CanAgentTalk, MayTalk
<1>2. CASE ~hasError[a]
  <2>1. Value(a) = Well(a)
    BY <1>2 DEF Value, Well, TypeOK
  <2> QED BY <1>2, <2>1 DEF MayTalk
<1> QED BY <1>1, <1>2

-----------------------------------------------------------------------------
(* What a talk that is built does *)

\* t is added to the discussion as a's.
Adds(a, t) ==
  /\ consumer.at = "build" /\ consumer.submission.agent = a /\ main = "chat"
  /\ consumer' = [consumer EXCEPT !.at = "send", !.untold = Agents]
  /\ UNCHANGED <<hasError, received, main>>
  /\ s'.talks = Append(s.talks, t) /\ t.agent = Value(a)
  /\ consumer.submission.text.kind = "Over" => t.kind = "Over"
  /\ Accounts'
  /\ \A b \in Agents : CanAgentTalk(s, Well(b))' => CanAgentTalk(s, Well(b))
  /\ \A b \in Agents \ {a} : /\ s'.count[Well(b)] = s.count[Well(b)]
                             /\ CanAgentTalk(s, Well(b)) => CanAgentTalk(s, Well(b))'
  /\ hasError[a] => s'.count[Well(a)] = s.count[Well(a)]
  /\ ~hasError[a] => \/ s'.count[Well(a)] = 0
                     \/ /\ s'.count[Well(a)] = s.count[Well(a)] - 1
                        /\ consumer.submission.text.kind # "Over"

LEMMA BuildsAdds ==
  ASSUME FreeInv, Builds, main' # "panic"
  PROVE  \E t \in Talk : Adds(consumer.submission.agent, t)
<1> DEFINE a    == consumer.submission.agent
           k    == Value(a)
           text == consumer.submission.text
           turn == Get(turnMap, k)
           new  == BuildTalk(s, k, text, turn)
<1>1. /\ TypeOK /\ Accounts /\ Phases /\ SpeaksBy
      /\ a \in Agents /\ text \in Text /\ hasError[a] \in BOOLEAN /\ k = <<a, hasError[a]>>
  BY MessagesAreTexts DEF FreeInv, TypeOK, Value
<1>2. k \in Key /\ turn \in Nat
  BY <1>1 DEF Key, Accounts, Get
<1>3. /\ s' = new /\ ~BuildFails(s, k, text) /\ turnMap' = Put(turnMap, k, turn + 1)
      /\ consumer' = [consumer EXCEPT !.at = "send", !.untold = Agents]
      /\ UNCHANGED <<hasError, received, main>> /\ main = "chat" /\ consumer.at = "build"
  BY <1>1 DEF Builds, Running, Phases
<1>4. k \in DOMAIN s.length => s.length[k] > 0 \/ text.kind # "text"
  <2>1. CASE hasError[a]
    BY <1>1, <2>1 DEF Accounts, Gone
  <2>2. CASE ~hasError[a]
    <3>1. text.kind # "Over" => CanAgentTalk(s, k)
      BY <1>1, <1>3, <2>2 DEF SpeaksBy, Validated, Well
    <3> QED BY <3>1 DEF CanAgentTalk
  <2> QED BY <2>1, <2>2
<1>5. /\ Maps(s.count) /\ Maps(s.skip) /\ Maps(s.length) /\ s.talks \in Seq(Talk)
  BY <1>1 DEF Accounts, TypeOK
<1> HIDE DEF a, k, text, turn
<1>6. Built(new, s, k, text)
  BY <1>1, <1>2, <1>3, <1>4, <1>5, BuildTalkIs
<1> HIDE DEF new
<1>7. /\ Maps(s'.skip) /\ Lessens(s'.length, s.length, k)
      /\ Maps(s'.count) /\ DOMAIN s'.count = DOMAIN s.count \union {k}
      /\ \A x \in DOMAIN s.count : x # k => s'.count[x] = s.count[x]
      /\ s'.count[k] = 0 \/ (s'.count[k] = Get(s.count, k) - 1 /\ text.kind # "Over")
  BY <1>3, <1>6 DEF Built
<1>8. /\ DOMAIN s'.length = DOMAIN s.length /\ Maps(s'.length)
      /\ \A x \in DOMAIN s.length : x # k => s'.length[x] = s.length[x]
      /\ k \in DOMAIN s.length => s'.length[k] <= s.length[k]
  BY <1>7 DEF Lessens
<1>9. \A b \in Agents \ {a} : Well(b) # k /\ Gone(b) # k
  BY <1>1 DEF Well, Gone
<1>10. Accounts'
  <2>1. DOMAIN turnMap' \subseteq Key /\ \A x \in DOMAIN turnMap' : turnMap'[x] \in Nat
    BY <1>1, <1>2, <1>3 DEF Accounts, Put
  <2>2. ASSUME NEW b \in Agents
        PROVE  Well(b) \in DOMAIN s'.count /\ Gone(b) \notin DOMAIN s'.length
    BY <1>1, <1>7, <1>8 DEF Accounts
  <2>3. ASSUME NEW b \in Agents PROVE Get(s'.count, Gone(b)) <= 0
    <3>1. Get(s.count, Gone(b)) <= 0
      BY <1>1 DEF Accounts
    <3>2. CASE Gone(b) # k
      <4>1. Get(s'.count, Gone(b)) = Get(s.count, Gone(b))
        BY <1>7, <3>2 DEF Get
      <4> QED BY <3>1, <4>1
    <3>3. CASE Gone(b) = k
      <4> DEFINE before == Get(s.count, k)
      <4>1. Get(s'.count, Gone(b)) = s'.count[k]
        BY <1>7, <3>3 DEF Get
      <4>2. before \in Int /\ before <= 0
        BY <1>5, <3>1, <3>3 DEF Get, Maps
      <4>3. s'.count[k] = 0 \/ s'.count[k] = before - 1
        BY <1>7
      <4> HIDE DEF before
      <4> QED BY <4>1, <4>2, <4>3
    <3> QED BY <3>2, <3>3
  <2> QED BY <1>7, <1>8, <2>1, <2>2, <2>3 DEF Accounts
<1>11. ASSUME NEW b \in Agents, Well(b) # k
       PROVE  s'.count[Well(b)] = s.count[Well(b)] /\ (CanAgentTalk(s, Well(b))' <=> CanAgentTalk(s, Well(b)))
  <2>1. Well(b) \in DOMAIN s.count
    BY <1>1 DEF Accounts
  <2> QED BY <1>7, <1>8, <1>11, <2>1 DEF CanAgentTalk, Get
<1>12. ASSUME ~hasError[a]
       PROVE  /\ k = Well(a) /\ (CanAgentTalk(s', k) => CanAgentTalk(s, k))
              /\ \/ s'.count[Well(a)] = 0
                 \/ (s'.count[Well(a)] = s.count[Well(a)] - 1 /\ text.kind # "Over")
  <2>1. k = Well(a)
    BY <1>1, <1>12 DEF Well
  <2>2. k \in DOMAIN s.count /\ k \in DOMAIN s'.count
    BY <1>1, <1>7, <2>1 DEF Accounts
  <2> DEFINE before == s.count[k]
  <2>3. before \in Int /\ Get(s.count, k) = before
    BY <1>5, <2>2 DEF Maps, Get
  <2>4. s'.count[k] = 0 \/ (s'.count[k] = before - 1 /\ text.kind # "Over")
    <3> HIDE DEF before
    <3> QED BY <1>7, <2>3, Zenon
  <2>5. ASSUME CanAgentTalk(s', k) PROVE CanAgentTalk(s, k)
    <3>1. s'.count[k] > 0
      BY <2>2, <2>5 DEF CanAgentTalk, Get
    <3>2. before > 0
      <4> HIDE DEF before
      <4> QED BY <2>3, <2>4, <3>1
    <3>3. ASSUME k \in DOMAIN s.length PROVE s.length[k] > 0
      <4> DEFINE old == s.length[k]
                 now == s'.length[k]
      <4>1. now > 0 /\ now <= old
        BY <1>8, <2>5, <3>3 DEF CanAgentTalk
      <4>2. now \in Int /\ old \in Int
        BY <1>5, <1>8, <3>3 DEF Maps
      <4> HIDE DEF old, now
      <4>3. old > 0
        BY <4>1, <4>2
      <4> QED BY <4>3 DEF old
    <3> QED BY <2>3, <3>2, <3>3 DEF CanAgentTalk
  <2> QED BY <2>1, <2>4, <2>5
<1>13. hasError[a] => Well(a) # k
  BY <1>1 DEF Well
<1>14. PICK t \in Talk : /\ t.agent = k /\ (text.kind = "Over" => t.kind = "Over")
                         /\ s'.talks = Append(s.talks, t)
  BY <1>3, <1>6 DEF Built
<1>15. /\ \A b \in Agents : CanAgentTalk(s, Well(b))' => CanAgentTalk(s, Well(b))
       /\ \A b \in Agents \ {a} : /\ s'.count[Well(b)] = s.count[Well(b)]
                                  /\ CanAgentTalk(s, Well(b)) => CanAgentTalk(s, Well(b))'
  <2>1. ASSUME NEW b \in Agents PROVE CanAgentTalk(s, Well(b))' => CanAgentTalk(s, Well(b))
    <3>1. CASE Well(b) = k
      <4>1. ~hasError[a] /\ b = a
        BY <1>9, <1>13, <3>1
      <4> QED BY <1>12, <3>1, <4>1
    <3> QED BY <1>11, <3>1
  <2> QED BY <1>9, <1>11, <2>1
<1>16. Adds(a, t)
  BY <1>1, <1>3, <1>10, <1>11, <1>12, <1>13, <1>14, <1>15 DEF Adds, a, k, text
<1> QED BY <1>16 DEF a

\* What an agent has said is a number, and grows by what is added as its.
LEMMA SaidIs ==
  ASSUME TypeOK, NEW b
  PROVE  Said(b) \in Nat
<1> DEFINE talks  == s.talks
           spoken == {n \in By(b) : talks[n].kind # "Over"}
<1>1. talks \in Seq(Talk)
  BY DEF TypeOK
<1> HIDE DEF talks
<1>2. Len(talks) \in Nat /\ DOMAIN talks = 1..Len(talks)
  BY <1>1, LenProperties
<1>3. IsFiniteSet(1..Len(talks))
  <2>1. 1 \in Int /\ Len(talks) \in Int
    BY <1>2
  <2> QED BY <2>1, FS_Interval
<1>4. spoken \subseteq 1..Len(talks)
  BY <1>2 DEF By, talks
<1>5. Cardinality(spoken) \in Nat
  BY <1>3, <1>4, FS_Subset, FS_CardinalityType
<1> QED BY <1>5 DEF Said, talks

LEMMA SaidGrows ==
  ASSUME TypeOK, NEW t \in Talk, s'.talks = Append(s.talks, t), NEW b
  PROVE  Said(b)' = IF t.agent[1] = b /\ t.kind # "Over" THEN Said(b) + 1 ELSE Said(b)
<1> DEFINE talks == s.talks
           more  == s'.talks
           n     == Len(talks)
           old   == {m \in DOMAIN talks : talks[m].agent[1] = b /\ talks[m].kind # "Over"}
           new   == {m \in DOMAIN more : more[m].agent[1] = b /\ more[m].kind # "Over"}
<1>1. talks \in Seq(Talk) /\ more = Append(talks, t)
  BY DEF TypeOK
<1>2. Said(b) = Cardinality(old) /\ Said(b)' = Cardinality(new)
  <2>1. old = {m \in By(b) : talks[m].kind # "Over"}
    BY DEF By
  <2>2. new = {m \in By(b)' : more[m].kind # "Over"}
    BY DEF By
  <2> QED BY <2>1, <2>2 DEF Said
<1> HIDE DEF talks, more
<1>3. /\ n \in Nat /\ DOMAIN talks = 1..n /\ DOMAIN more = 1..(n + 1)
      /\ more[n + 1] = t /\ \A m \in 1..n : more[m] = talks[m]
  <2>1. /\ Append(talks, t) \in Seq(Talk) /\ Len(Append(talks, t)) = Len(talks) + 1
        /\ \A m \in 1..Len(talks) : Append(talks, t)[m] = talks[m]
        /\ Append(talks, t)[Len(talks) + 1] = t
    BY <1>1, AppendProperties
  <2>2. more \in Seq(Talk) /\ Len(more) = n + 1
    BY <1>1, <2>1
  <2>3. DOMAIN talks = 1..n /\ n \in Nat /\ DOMAIN more = 1..Len(more)
    BY <1>1, <2>2, LenProperties
  <2> QED BY <1>1, <2>1, <2>2, <2>3
<1> HIDE DEF n
<1>4. 1..(n + 1) = 1..n \union {n + 1} /\ n + 1 \notin 1..n
  BY <1>3
<1>5. IsFiniteSet(old) /\ n + 1 \notin old
  <2>1. 1 \in Int /\ n \in Int
    BY <1>3
  <2>2. IsFiniteSet(1..n)
    BY <2>1, FS_Interval
  <2> QED BY <1>3, <1>4, <2>2, FS_Subset
<1>6. CASE t.agent[1] = b /\ t.kind # "Over"
  <2>1. new = old \union {n + 1}
    BY <1>3, <1>4, <1>6
  <2>2. Cardinality(old \union {n + 1}) = Cardinality(old) + 1
    BY <1>5, FS_AddElement
  <2> HIDE DEF old, new
  <2> QED BY <1>2, <1>6, <2>1, <2>2
<1>7. CASE ~(t.agent[1] = b /\ t.kind # "Over")
  <2>1. new = old
    BY <1>3, <1>4, <1>7
  <2> HIDE DEF old, new
  <2> QED BY <1>2, <1>7, <2>1
<1> QED BY <1>6, <1>7

-----------------------------------------------------------------------------
(* The steps that add nothing to the discussion *)

\* Nothing is added; a connection that is broken stays so; whoever's speech is going to
\* be built has been validated.
Quiet ==
  /\ UNCHANGED s
  /\ DOMAIN turnMap' \subseteq Key /\ \A k \in DOMAIN turnMap' : turnMap'[k] \in Nat
  /\ \A a \in Agents : hasError[a] => hasError'[a]
  /\ \A a \in Agents : Validated(a)' => Validated(a) \/ CanAgentTalk(s, Value(a))
  /\ consumer'.at = "send" => consumer.at = "send"
  /\ Phases'

\* The consumer tells an agent of the last talk, or nobody of anything.
Reading ==
  \/ /\ UNCHANGED received
     /\ \A a \in Agents : ~hasError'[a] => (Pending(a)' <=> Pending(a))
  \/ \E a \in Agents : /\ UNCHANGED hasError /\ ~hasError[a] /\ Pending(a)
                       /\ received' = [received EXCEPT ![a] = @ \o Told(a)]
                       /\ consumer' = [consumer EXCEPT !.untold = @ \ {a}]

\* The session is closed by steps that change nothing else.
Closing == \/ main' \in {"start", "chat"} <=> main \in {"start", "chat"}
           \/ /\ main \in {"start", "chat"} /\ main' \notin {"start", "chat"}
              /\ UNCHANGED <<hasError, s, consumer>>

LEMMA StepIs ==
  ASSUME FreeInv, [Next]_vars
  PROVE  \/ Quiet /\ Reading /\ Closing
         \/ \E t \in Talk : Adds(consumer.submission.agent, t) /\ Builds
<1>1. TypeOK /\ Accounts /\ Phases
  BY DEF FreeInv
<1>2. ASSUME UNCHANGED <<hasError, s, turnMap, received, consumer>>,
             main = "chat" => main' \in {"chat", "panic"} \/ consumer.at = "done",
             main = "panic" => main' = "panic",
             \/ main' \in {"start", "chat"} <=> main \in {"start", "chat"}
             \/ main = "chat" /\ main' \notin {"start", "chat"}
      PROVE  Quiet /\ Reading /\ Closing
  <2>1. Quiet
    BY <1>1, <1>2 DEF Quiet, Accounts, Phases, Validated
  <2>2. Reading
    BY <1>2 DEF Reading, Pending
  <2>3. Closing
    BY <1>2 DEF Closing
  <2> QED BY <2>1, <2>2, <2>3
<1>3. CASE UNCHANGED vars
  BY <1>2, <1>3 DEF vars
<1>4. CASE Start
  <2>1. hasError' \in [Agents -> BOOLEAN] /\ \A a \in Agents : hasError[a] => hasError'[a]
    BY <1>1, <1>4 DEF Start, MayFail, TypeOK
  <2>2. consumer.at = "done" /\ consumer'.at = "select" /\ main' = "chat"
    BY <1>1, <1>4 DEF Start, Phases, Selecting, Consumer
  <2>3. DOMAIN turnMap' \subseteq Key /\ \A k \in DOMAIN turnMap' : turnMap'[k] \in Nat
    BY <1>4, <2>1 DEF Start, Key
  <2>4. Quiet
    BY <1>4, <2>1, <2>2, <2>3 DEF Quiet, Start, Validated, Phases
  <2>5. Reading /\ Closing
    BY <1>4, <2>2 DEF Reading, Closing, Start, Pending
  <2> QED BY <2>4, <2>5
<1>5. CASE Wait \/ Drain \/ Timeout
  BY <1>1, <1>2, <1>5 DEF Wait, Drain, Timeout
<1>6. CASE SendEnd
  <2>1. hasError' \in [Agents -> BOOLEAN] /\ \A a \in Agents : hasError[a] => hasError'[a]
    BY <1>1, <1>6 DEF SendEnd, MayFail, TypeOK
  <2>2. consumer.at = "done" /\ consumer' = consumer
    BY <1>1, <1>6 DEF SendEnd, Phases
  <2>3. Quiet
    BY <1>1, <1>6, <2>1, <2>2 DEF Quiet, SendEnd, Validated, Phases, Accounts
  <2>4. Reading /\ Closing
    BY <1>6, <2>2 DEF Reading, Closing, SendEnd, Pending
  <2> QED BY <2>3, <2>4
<1>7. ASSUME NEW a \in Agents, ClientSends(a) \/ ConnectionBreaks(a) \/ Submits(a) \/ StopsListening(a)
      PROVE  Quiet /\ Reading /\ Closing
  BY <1>2, <1>7 DEF ClientSends, ConnectionBreaks, Submits, StopsListening
<1>8. ASSUME NEW a \in Agents, Hears(a) PROVE Quiet /\ Reading /\ Closing
  <2>1. \A b \in Agents : hasError[b] => hasError'[b]
    BY <1>1, <1>8 DEF Hears, TypeOK
  <2>2. Quiet
    BY <1>1, <1>8, <2>1 DEF Quiet, Hears, Validated, Phases, Accounts
  <2>3. Reading /\ Closing
    BY <1>8 DEF Reading, Closing, Hears, Pending
  <2> QED BY <2>2, <2>3
<1>9. CASE Takes
  <2>1. consumer'.at \in {"build", "check"} /\ consumer.at = "select" /\ main = "chat" /\ main' = main
    BY <1>1, <1>9 DEF Takes, Running, Phases, Consumer
  <2>2. ASSUME NEW a \in Agents, Validated(a)' PROVE CanAgentTalk(s, Value(a))
    <3> DEFINE submission == Head(talkChannel)
    <3>1. consumer' = Consumer(IF Valid(submission.agent, submission.text)
                               THEN "build" ELSE "check", submission, {})
      BY <1>9 DEF Takes
    <3> HIDE DEF submission
    <3>2. Valid(submission.agent, submission.text) /\ submission.agent = a
          /\ submission.text.kind # "Over"
      BY <2>2, <3>1 DEF Validated, Consumer
    <3> QED BY <3>2 DEF Valid
  <2>3. Quiet
    BY <1>1, <1>9, <2>1, <2>2 DEF Quiet, Takes, Phases, Accounts
  <2>4. Reading /\ Closing
    BY <1>9, <2>1 DEF Reading, Closing, Takes, Pending
  <2> QED BY <2>3, <2>4
<1>10. CASE Builds /\ main' = "panic"
  <2>1. UNCHANGED <<hasError, s, turnMap, received, consumer>> \/ UNCHANGED main
    BY <1>10 DEF Builds
  <2>2. main = "chat"
    BY <1>1, <1>10 DEF Builds, Running, Phases
  <2> QED BY <1>2, <1>10, <2>1, <2>2
<1>11. CASE Builds /\ main' # "panic"
  BY <1>11, BuildsAdds
<1>12. CASE HasSent \/ Checks \/ StopsConsuming
  <2>1. /\ consumer'.at \notin {"send", "build"} /\ main' = main /\ main = "chat"
        /\ UNCHANGED <<hasError, s, turnMap, received>>
        /\ consumer.at = "send" => consumer.untold = {}
    BY <1>1, <1>12 DEF HasSent, Checks, StopsConsuming, Running, Phases, Selecting, Consumer, TypeOK
  <2>2. Quiet
    BY <1>1, <2>1 DEF Quiet, Validated, Phases, Accounts
  <2>3. Reading /\ Closing
    BY <2>1 DEF Reading, Closing, Pending
  <2> QED BY <2>2, <2>3
<1>13. ASSUME NEW a \in Agents, Sends(a) PROVE Quiet /\ Reading /\ Closing
  <2>1. /\ consumer' = [consumer EXCEPT !.untold = @ \ {a}] /\ Pending(a)
        /\ consumer'.at = "send" /\ consumer'.untold = consumer.untold \ {a} /\ main = "chat"
        /\ UNCHANGED <<s, turnMap, main>>
        /\ \/ ~hasError[a] /\ UNCHANGED hasError
              /\ received' = [received EXCEPT ![a] = @ \o Told(a)]
           \/ hasError' = [hasError EXCEPT ![a] = TRUE] /\ UNCHANGED received
    BY <1>1, <1>13 DEF Sends, Pending, Running, Phases, TypeOK
  <2>2. hasError'[a] \/ UNCHANGED hasError
    BY <1>1, <2>1 DEF TypeOK
  <2>3. \A b \in Agents : hasError[b] => hasError'[b]
    BY <1>1, <2>1 DEF TypeOK
  <2>4. Quiet
    BY <1>1, <2>1, <2>3 DEF Quiet, Validated, Phases, Accounts, Pending
  <2>5. Reading
    <3>1. CASE UNCHANGED hasError /\ ~hasError[a] /\ received' = [received EXCEPT ![a] = @ \o Told(a)]
      BY <2>1, <3>1 DEF Reading
    <3>2. CASE hasError' = [hasError EXCEPT ![a] = TRUE] /\ UNCHANGED received
      <4>1. \A b \in Agents : ~hasError'[b] => (Pending(b)' <=> Pending(b))
        BY <1>1, <2>1, <3>2 DEF TypeOK, Pending
      <4> QED BY <3>2, <4>1 DEF Reading
    <3> QED BY <2>1, <3>1, <3>2
  <2> QED BY <2>1, <2>4, <2>5 DEF Closing
<1> QED
  BY <1>3, <1>4, <1>5, <1>6, <1>7, <1>8, <1>9, <1>10, <1>11, <1>12, <1>13
  DEF Next, Main, Consume, Listen

-----------------------------------------------------------------------------
(* The invariant holds *)

LEMMA InitFree == Init => FreeInv
<1> SUFFICES ASSUME Init PROVE FreeInv
  OBVIOUS
<1> DEFINE speakers == {<<a, FALSE>> : a \in Agents}
<1>1. /\ s.talks = <<>> /\ DOMAIN s.count = speakers /\ DOMAIN s.skip = speakers
      /\ DOMAIN s.length \subseteq speakers
      /\ \A k \in speakers : s.count[k] = PerAgent /\ s.skip[k] = MaxSkip
      /\ \A k \in DOMAIN s.length : s.length[k] \in Int
      /\ PerAgent \in Nat /\ MaxSkip \in Nat
  <2>1. s = [count  |-> [k \in speakers |-> PerAgent],
             length |-> [k \in IF LengthPerAgent = NoLimit THEN {} ELSE speakers |-> LengthPerAgent],
             skip   |-> [k \in speakers |-> MaxSkip],
             talks  |-> <<>>]
    BY DEF Init, NewCommunicationSession
  <2>2. PerAgent \in Nat /\ MaxSkip \in Nat /\ (LengthPerAgent # NoLimit => LengthPerAgent \in Nat)
    BY SessionAssumption
  <2> HIDE DEF speakers
  <2> QED BY <2>1, <2>2
<1>2. speakers \subseteq Key /\ \A a \in Agents : Well(a) \in speakers /\ Gone(a) \notin speakers
  <2>1. ASSUME NEW k \in speakers PROVE k \in Key /\ k[2] = FALSE
    <3>1. PICK a \in Agents : k = <<a, FALSE>>
      OBVIOUS
    <3> HIDE DEF speakers
    <3>2. k \in Key
      BY <3>1 DEF Key
    <3>3. k[2] = FALSE
      BY <3>1
    <3> QED BY <3>2, <3>3
  <2>2. ASSUME NEW a \in Agents PROVE Well(a) \in speakers
    BY DEF Well
  <2>3. ASSUME NEW a \in Agents PROVE Gone(a) \notin speakers
    <3>1. \A k \in speakers : k[2] = FALSE
      BY <2>1
    <3>2. Gone(a)[2] = TRUE
      BY DEF Gone
    <3> HIDE DEF speakers
    <3> QED BY <3>1, <3>2
  <2> QED BY <2>1, <2>2, <2>3
<1> HIDE DEF speakers
<1>3. Maps(s.count) /\ Maps(s.skip) /\ Maps(s.length)
  BY <1>1, <1>2 DEF Maps
<1>4. DOMAIN turnMap = {}
  BY DEF Init
<1>5. Accounts
  BY <1>1, <1>2, <1>3, <1>4 DEF Accounts, Get
<1>6. TypeOK
  <2>1. \A m \in {s.count, s.skip, s.length, turnMap} :
          DOMAIN m \subseteq Key /\ \A k \in DOMAIN m : m[k] \in Int
    BY <1>3, <1>4 DEF Maps
  <2>2. <<>> \in Seq(Talk) /\ <<>> \in Seq(Messages \union {Broken})
        /\ <<>> \in Seq([agent : Agents, text : Messages])
    OBVIOUS
  <2>3. unsent \in [Agents -> Nat] /\ \A a \in Agents : unsent[a] <= MaxSent[a]
    BY FreeformAssumption DEF Init
  <2>4. listener \in [Agents -> [at : {"idle", "handing", "done"}, text : Messages]]
    BY DEF Init, Stopped, Listener, Messages
  <2>5. consumer \in [at : {"select", "build", "send", "check", "done"},
                      submission : [agent : Agents, text : Messages], untold : SUBSET Agents]
    BY NoSubmissionIs DEF Init, Consumer
  <2> QED BY <1>1, <2>1, <2>2, <2>3, <2>4, <2>5 DEF TypeOK, Init
<1>7. consumer.at = "done"
  BY DEF Init, Consumer
<1>8. SaidSound
  <2>1. ASSUME NEW a \in Agents PROVE Said(a) = 0 /\ s.count[Well(a)] = PerAgent
    <3>1. {n \in By(a) : s.talks[n].kind # "Over"} = {}
      BY <1>1 DEF By
    <3>2. Said(a) = 0
      BY <3>1, FS_EmptySet DEF Said
    <3> QED BY <1>1, <1>2, <3>2
  <2> QED BY <1>1, <2>1 DEF SaidSound
<1>9. Reads
  <2>1. \A a \in Agents : received[a] = <<>>
    BY DEF Init
  <2>2. IsPrefix(<<>>, <<>>)
    <3>1. <<>> \in Seq(Talk)
      OBVIOUS
    <3> QED BY <3>1, PrefixSelf
  <2> QED BY <1>1, <1>7, <2>1, <2>2 DEF Reads, Pending
<1> QED BY <1>5, <1>6, <1>7, <1>8, <1>9 DEF FreeInv, Phases, SpeaksBy, Validated

LEMMA TypeStep == FreeInv /\ [Next]_vars => TypeOK'
<1> SUFFICES ASSUME FreeInv, [Next]_vars PROVE TypeOK'
  OBVIOUS
<1> DEFINE Submissions == [agent : Agents, text : Messages]
           Consumers   == [at : {"select", "build", "send", "check", "done"},
                           submission : Submissions, untold : SUBSET Agents]
           Listeners   == [at : {"idle", "handing", "done"}, text : Messages]
<1>1. TypeOK /\ Accounts /\ Phases
  BY DEF FreeInv
<1>2. Plain("Over") \in Messages /\ NoSubmission \in Submissions
  BY NoSubmissionIs DEF Messages
<1>3. Listening \in Listeners /\ Stopped \in Listeners /\ Selecting \in Consumers
      /\ [Selecting EXCEPT !.at = "done"] \in Consumers
      /\ \A text \in Messages : Listener("handing", text) \in Listeners
  BY <1>2 DEF Listening, Stopped, Selecting, Consumer, Listener
<1>4. ASSUME MayFail PROVE hasError' \in [Agents -> BOOLEAN]
  BY <1>1, <1>4 DEF MayFail, TypeOK
<1>5. CASE UNCHANGED vars
  BY <1>1, <1>5 DEF vars, TypeOK
<1>6. CASE Start
  <2>1. hasError' \in [Agents -> BOOLEAN]
    BY <1>4, <1>6 DEF Start
  <2>2. DOMAIN turnMap' \subseteq Key /\ \A k \in DOMAIN turnMap' : turnMap'[k] \in Int
    BY <1>6, <2>1 DEF Start, Key
  <2>3. listener' \in [Agents -> Listeners]
    BY <1>3, <1>6 DEF Start
  <2> QED BY <1>1, <1>3, <1>6, <2>1, <2>2, <2>3 DEF Start, TypeOK
<1>7. CASE Wait \/ Timeout
  BY <1>1, <1>7 DEF Wait, Timeout, TypeOK
<1>8. CASE Drain
  <2>1. msgChan' \in [Agents -> Seq(Messages \union {Broken})]
    BY <1>8 DEF Drain
  <2> QED BY <1>1, <1>8, <2>1 DEF Drain, TypeOK
<1>9. CASE SendEnd
  BY <1>1, <1>4, <1>9 DEF SendEnd, TypeOK
<1>10. ASSUME NEW a \in Agents, ClientSends(a) \/ ConnectionBreaks(a) PROVE TypeOK'
  <2>1. PICK text \in Messages \union {Broken} : msgChan' = [msgChan EXCEPT ![a] = Append(@, text)]
    BY <1>10 DEF ClientSends, ConnectionBreaks
  <2>2. msgChan' \in [Agents -> Seq(Messages \union {Broken})]
    BY <1>1, <2>1, AppendProperties DEF TypeOK
  <2>3. unsent' \in [Agents -> Nat] /\ \A b \in Agents : unsent'[b] <= MaxSent[b]
    <3>1. unsent[a] \in Nat \ {0} /\ MaxSent[a] \in Nat /\ unsent[a] <= MaxSent[a]
      BY <1>1, <1>10, FreeformAssumption DEF ClientSends, ConnectionBreaks, TypeOK
    <3>2. PICK left \in Nat : left <= MaxSent[a] /\ unsent' = [unsent EXCEPT ![a] = left]
      <4>1. unsent' = [unsent EXCEPT ![a] = unsent[a] - 1] \/ unsent' = [unsent EXCEPT ![a] = 0]
        BY <1>10 DEF ClientSends, ConnectionBreaks
      <4>2. /\ unsent[a] - 1 \in Nat /\ unsent[a] - 1 <= MaxSent[a]
            /\ 0 \in Nat /\ 0 <= MaxSent[a]
        BY <3>1
      <4> QED BY <4>1, <4>2
    <3> QED BY <1>1, <3>2 DEF TypeOK
  <2> QED BY <1>1, <1>10, <2>2, <2>3 DEF ClientSends, ConnectionBreaks, TypeOK
<1>11. ASSUME NEW a \in Agents, Hears(a) PROVE TypeOK'
  <2> DEFINE waiting == msgChan[a]
             text    == Head(waiting)
  <2>1. waiting \in Seq(Messages \union {Broken}) /\ waiting # <<>>
    BY <1>1, <1>11 DEF Hears, TypeOK
  <2>2. text \in Messages \union {Broken} /\ Tail(waiting) \in Seq(Messages \union {Broken})
    BY <2>1, HeadTailProperties
  <2>3. msgChan' \in [Agents -> Seq(Messages \union {Broken})]
    BY <1>1, <1>11, <2>2 DEF Hears, TypeOK
  <2>4. hasError' \in [Agents -> BOOLEAN]
    BY <1>1, <1>11 DEF Hears, TypeOK
  <2>5. listener' \in [Agents -> Listeners]
    <3>1. text # Broken => Listener("handing", text) \in Listeners
      BY <1>3, <2>2
    <3>2. PICK next \in Listeners : listener' = [listener EXCEPT ![a] = next]
      BY <1>1, <1>3, <1>11, <3>1 DEF Hears, TypeOK
    <3> QED BY <1>1, <3>2 DEF TypeOK
  <2> QED BY <1>1, <1>11, <2>3, <2>4, <2>5 DEF Hears, TypeOK
<1>12. ASSUME NEW a \in Agents, Submits(a) PROVE TypeOK'
  <2>1. [agent |-> a, text |-> listener[a].text] \in Submissions
    BY <1>1 DEF TypeOK
  <2>2. talkChannel' \in Seq(Submissions)
    <3> DEFINE one == [agent |-> a, text |-> listener[a].text]
    <3>1. talkChannel' = Append(talkChannel, one) /\ talkChannel \in Seq(Submissions)
      BY <1>1, <1>12 DEF Submits, TypeOK
    <3> HIDE DEF one
    <3> QED BY <2>1, <3>1, AppendProperties DEF one
  <2>3. listener' \in [Agents -> Listeners]
    BY <1>1, <1>3, <1>12 DEF Submits, TypeOK
  <2> QED BY <1>1, <1>12, <2>2, <2>3 DEF Submits, TypeOK
<1>13. ASSUME NEW a \in Agents, StopsListening(a) PROVE TypeOK'
  <2>1. listener' \in [Agents -> Listeners]
    BY <1>1, <1>3, <1>13 DEF StopsListening, TypeOK
  <2> QED BY <1>1, <1>13, <2>1 DEF StopsListening, TypeOK
<1>14. CASE Takes
  <2>1. Head(talkChannel) \in Submissions /\ Tail(talkChannel) \in Seq(Submissions)
    BY <1>1, <1>14, HeadTailProperties DEF Takes, TypeOK
  <2>2. consumer' \in Consumers
    BY <1>14, <2>1 DEF Takes, Consumer
  <2> QED BY <1>1, <1>14, <2>1, <2>2 DEF Takes, TypeOK
<1>15. CASE Builds /\ main' = "panic"
  <2>1. UNCHANGED <<hasError, s, turnMap, msgChan, unsent, received, listener, talkChannel,
                    consumer, cancelled>>
    BY <1>15 DEF Builds, Running
  <2> QED BY <1>1, <1>15, <2>1 DEF TypeOK
<1>16. CASE Builds /\ main' # "panic"
  <2>1. PICK t \in Talk : Adds(consumer.submission.agent, t)
    BY <1>15, <1>16, BuildsAdds
  <2>2. s'.talks \in Seq(Talk)
    <3> DEFINE talks == s.talks
    <3>1. s'.talks = Append(talks, t) /\ talks \in Seq(Talk)
      BY <1>1, <2>1 DEF Adds, TypeOK
    <3> HIDE DEF talks
    <3> QED BY <3>1, AppendProperties
  <2>3. \A m \in {s'.count, s'.skip, s'.length, turnMap'} :
          DOMAIN m \subseteq Key /\ \A k \in DOMAIN m : m[k] \in Int
    BY <2>1 DEF Adds, Accounts, Maps
  <2>4. consumer' \in Consumers
    BY <1>1, <2>1 DEF Adds, TypeOK
  <2> QED BY <1>1, <1>16, <2>1, <2>2, <2>3, <2>4 DEF Adds, Builds, TypeOK
<1>17. CASE HasSent \/ Checks \/ StopsConsuming
  <2>1. consumer' \in Consumers /\ cancelled' \in BOOLEAN
    BY <1>1, <1>3, <1>17 DEF HasSent, Checks, StopsConsuming, TypeOK
  <2> QED BY <1>1, <1>17, <2>1 DEF HasSent, Checks, StopsConsuming, TypeOK
<1>18. ASSUME NEW a \in Agents, Sends(a) PROVE TypeOK'
  <2>1. consumer' \in Consumers /\ hasError' \in [Agents -> BOOLEAN]
    BY <1>1, <1>18 DEF Sends, TypeOK
  <2>2. received' \in [Agents -> Seq(Talk)]
    <3>1. Told(a) \in Seq(Talk)
      <4>1. s.talks # <<>> /\ s.talks \in Seq(Talk)
        BY <1>18 DEF FreeInv, Reads, Sends, TypeOK
      <4>2. Last(s.talks) \in Talk
        BY <4>1, FrontLast
      <4> QED BY <4>2 DEF Told
    <3>2. received[a] \o Told(a) \in Seq(Talk)
      BY <1>1, <3>1, ConcatProperties DEF TypeOK
    <3> QED BY <1>1, <1>18, <3>2 DEF Sends, TypeOK
  <2> QED BY <1>1, <1>18, <2>1, <2>2 DEF Sends, TypeOK
<1> QED
  BY <1>5, <1>6, <1>7, <1>8, <1>9, <1>10, <1>11, <1>12, <1>13, <1>14, <1>15, <1>16, <1>17, <1>18
  DEF Next, Main, Consume, Listen

\* A step that adds nothing keeps the accounts and what has been said.
LEMMA QuietStep ==
  ASSUME FreeInv, TypeOK', Quiet, Reading
  PROVE  FreeInv'
<1>1. /\ TypeOK /\ Accounts /\ SpeaksBy /\ SaidSound /\ Reads /\ s' = s
      /\ \A a \in Agents : CanAgentTalk(s, Value(a)) => MayTalk(a)
  BY CanAgentTalkMeans DEF FreeInv, Quiet
<1>2. Accounts'
  BY <1>1 DEF Accounts, Quiet
<1>3. \A a \in Agents : Validated(a)' => Validated(a) \/ MayTalk(a)
  BY <1>1 DEF Quiet
<1>4. SpeaksBy'
  BY <1>1, <1>3 DEF SpeaksBy, MayTalk
<1>5. SaidSound'
  <2>1. \A a \in Agents : Said(a)' = Said(a)
    BY <1>1 DEF Said, By
  <2>2. \A a \in Agents : (~hasError[a] \/ Validated(a))' => ~hasError[a] \/ Validated(a)
    BY <1>3 DEF Quiet, MayTalk
  <2> QED BY <1>1, <2>1, <2>2 DEF SaidSound
<1>6. Reads'
  <2>1. (consumer.at = "send" => s.talks # <<>>)'
    BY <1>1 DEF Reads, Quiet
  <2>2. CASE /\ UNCHANGED received
             /\ \A a \in Agents : ~hasError'[a] => (Pending(a)' <=> Pending(a))
    BY <1>1, <2>1, <2>2 DEF Reads, Quiet
  <2>3. ASSUME NEW a \in Agents, UNCHANGED hasError, ~hasError[a], Pending(a),
               received' = [received EXCEPT ![a] = @ \o Told(a)],
               consumer' = [consumer EXCEPT !.untold = @ \ {a}]
        PROVE  Reads'
    <3>1. received[a] = Front(s.talks) /\ s.talks # <<>> /\ s.talks \in Seq(Talk)
      BY <1>1, <2>3 DEF Reads, Pending, TypeOK
    <3>2. received'[a] = s.talks /\ \A b \in Agents \ {a} : received'[b] = received[b]
      <4>1. s.talks = Front(s.talks) \o <<Last(s.talks)>>
        BY <3>1, FrontLast
      <4>2. received' = [received EXCEPT ![a] = s.talks]
        BY <2>3, <3>1, <4>1 DEF Told
      <4> QED BY <1>1, <4>2 DEF TypeOK
    <3>3. ~Pending(a)' /\ \A b \in Agents \ {a} : Pending(b)' <=> Pending(b)
      BY <1>1, <2>3 DEF Pending, TypeOK
    <3>4. IsPrefix(s.talks, s.talks)
      BY <3>1, PrefixSelf
    <3> QED BY <1>1, <2>1, <2>3, <3>2, <3>3, <3>4 DEF Reads
  <2> QED BY <2>2, <2>3 DEF Reading
<1> QED BY <1>2, <1>4, <1>5, <1>6 DEF FreeInv, Quiet

\* A talk that is added is one the agent had left.
LEMMA AddsCounted ==
  ASSUME FreeInv, NEW t \in Talk, NEW a \in Agents, Adds(a, t)
  PROVE  /\ \A b \in Agents \ {a} : Said(b)' = Said(b)
         /\ Said(a)' = IF t.kind = "Over" THEN Said(a) ELSE Said(a) + 1
         /\ Said(a) \in Nat /\ Said(a)' <= PerAgent /\ (t.kind # "Over" => Said(a) < PerAgent)
         /\ ~hasError[a] => Said(a)' + s'.count[Well(a)] <= PerAgent
<1>1. /\ TypeOK /\ Accounts /\ SpeaksBy /\ SaidSound /\ s'.talks = Append(s.talks, t)
      /\ t.agent = Value(a) /\ consumer.at = "build" /\ consumer.submission.agent = a
      /\ consumer.submission.text.kind = "Over" => t.kind = "Over"
  BY DEF FreeInv, Adds
<1>2. t.agent[1] = a
  BY <1>1 DEF Value
<1>3. /\ \A b \in Agents \ {a} : Said(b)' = Said(b)
      /\ Said(a)' = IF t.kind = "Over" THEN Said(a) ELSE Said(a) + 1
  BY <1>1, <1>2, SaidGrows
<1> DEFINE before == s.count[Well(a)]
           after  == s'.count[Well(a)]
           said   == Said(a)
           over   == consumer.submission.text.kind = "Over"
<1>4. before \in Int /\ after \in Int /\ said \in Nat /\ PerAgent \in Nat
  <2>1. Accounts'
    BY DEF Adds
  <2> QED BY <1>1, <2>1, SaidIs, SessionAssumption DEF Accounts, Maps
<1>5. said <= PerAgent /\ (~hasError[a] \/ ~over => said + before <= PerAgent)
  BY <1>1 DEF SaidSound, Validated
<1>6. ~over => before > 0
  <2>1. ~over => CanAgentTalk(s, Well(a))
    BY <1>1 DEF SpeaksBy, Validated
  <2> QED BY <1>1, <2>1 DEF CanAgentTalk, Get, Accounts
<1>7. /\ hasError[a] => after = before
      /\ ~hasError[a] => after = 0 \/ (after = before - 1 /\ ~over)
      /\ over => t.kind = "Over"
  BY DEF Adds
<1> HIDE DEF before, after, said, over
<1>8. ~over => said + 1 <= PerAgent
  BY <1>4, <1>5, <1>6
<1>9. CASE t.kind = "Over"
  <2>1. Said(a)' = said
    BY <1>3, <1>9 DEF said
  <2>2. ~hasError[a] => said + after <= PerAgent
    BY <1>4, <1>5, <1>6, <1>7
  <2>3. Said(a)' <= PerAgent /\ (~hasError[a] => Said(a)' + after <= PerAgent)
    BY <1>5, <2>1, <2>2
  <2> QED BY <1>3, <1>4, <1>9, <2>3 DEF said, after
<1>10. CASE t.kind # "Over"
  <2>1. Said(a)' = said + 1 /\ ~over
    BY <1>3, <1>7, <1>10 DEF said
  <2>2. ~hasError[a] => said + 1 + after <= PerAgent
    BY <1>4, <1>5, <1>6, <1>7, <1>8, <2>1
  <2>3. Said(a)' <= PerAgent /\ (~hasError[a] => Said(a)' + after <= PerAgent) /\ said < PerAgent
    BY <1>4, <1>8, <2>1, <2>2
  <2> QED BY <1>3, <1>4, <1>10, <2>3 DEF said, after
<1> QED BY <1>9, <1>10

LEMMA AddsStep ==
  ASSUME FreeInv, TypeOK', NEW t \in Talk, Adds(consumer.submission.agent, t)
  PROVE  FreeInv'
<1>0. PICK a \in Agents : a = consumer.submission.agent
  BY DEF FreeInv, TypeOK
<1>1. /\ TypeOK /\ SaidSound /\ Reads /\ Adds(a, t)
      /\ UNCHANGED <<hasError, received, main>> /\ main = "chat" /\ consumer.at = "build"
      /\ consumer'.at = "send" /\ consumer'.untold = Agents /\ s'.talks = Append(s.talks, t)
  BY <1>0 DEF FreeInv, Adds, TypeOK
<1>2. Accounts'
  BY DEF Adds
<1>3. Phases' /\ SpeaksBy' /\ \A b \in Agents : ~Validated(b)' /\ Pending(b)'
  BY <1>1 DEF Phases, SpeaksBy, Validated, Pending
<1>4. /\ \A b \in Agents \ {a} : Said(b)' = Said(b) /\ s'.count[Well(b)] = s.count[Well(b)]
      /\ Said(a)' <= PerAgent /\ (~hasError[a] => Said(a)' + s'.count[Well(a)] <= PerAgent)
  <2>1. \A b \in Agents \ {a} : s'.count[Well(b)] = s.count[Well(b)]
    BY <1>1 DEF Adds
  <2> QED BY <1>1, <2>1, AddsCounted
<1>5. SaidSound'
  <2> SUFFICES ASSUME NEW b \in Agents
               PROVE  Said(b)' <= PerAgent /\ (~hasError[b] => Said(b)' + s'.count[Well(b)] <= PerAgent)
    BY <1>1, <1>3 DEF SaidSound
  <2>1. CASE b = a
    BY <1>4, <2>1
  <2>2. CASE b # a
    BY <1>1, <1>4, <2>2 DEF SaidSound
  <2> QED BY <2>1, <2>2
<1>6. Reads'
  <2>1. s.talks \in Seq(Talk)
    BY <1>1 DEF TypeOK
  <2>2. s'.talks # <<>> /\ Front(s'.talks) = s.talks
    BY <1>1, <2>1, FrontAppend
  <2>3. ASSUME NEW b \in Agents PROVE IsPrefix(received[b], s'.talks)
    <3>1. received[b] \in Seq(Talk) /\ IsPrefix(received[b], s.talks)
      BY <1>1 DEF TypeOK, Reads
    <3> QED BY <1>1, <2>1, <3>1, PrefixGrows
  <2>4. \A b \in Agents : ~hasError[b] => received[b] = s.talks
    BY <1>1 DEF Reads, Pending
  <2> QED BY <1>1, <1>3, <2>2, <2>3, <2>4 DEF Reads
<1> QED BY <1>2, <1>3, <1>5, <1>6 DEF FreeInv

\* The invariant of a group chat.
THEOREM FreeInvHolds == Spec => []FreeInv
<1>1. FreeInv /\ [Next]_vars => FreeInv'
  BY TypeStep, StepIs, QuietStep, AddsStep
<1> QED BY <1>1, InitFree, PTL DEF Spec

-----------------------------------------------------------------------------
(* What the game relies on *)

\* Whatever order the listeners and the consumer run in, and whenever connections break,
\* every agent is sent the beginning of the one discussion, and all of it while its
\* connection holds and nothing is on its way.
THEOREM OneTranscriptTheorem == Spec => []OneTranscript
<1>1. FreeInv => OneTranscript
  BY DEF FreeInv, OneTranscript, SameTranscript, Reads, Pending
<1> QED BY <1>1, FreeInvHolds, PTL

\* After runFreeform's Wait nobody adds to the discussion or tells anybody of it: the
\* consumer is gone by then, whatever it had been doing when the context was cancelled.
THEOREM ClosesTheorem == Spec => TranscriptCloses
<1>1. FreeInv /\ [Next]_vars =>
        [(main \in {"drain", "end", "ended"}) => UNCHANGED <<s, received>>]_vars
  <2> SUFFICES ASSUME FreeInv, [Next]_vars, main \in {"drain", "end", "ended"}
               PROVE  UNCHANGED <<s, received>>
    OBVIOUS
  <2>1. consumer.at = "done"
    BY DEF FreeInv, Phases, TypeOK
  <2>2. ~\E t \in Talk : Adds(consumer.submission.agent, t) /\ Builds
    BY <2>1 DEF Builds
  <2>3. Quiet /\ Reading
    BY <2>2, StepIs
  <2> QED BY <2>1, <2>3 DEF Quiet, Reading, Pending
<1> QED BY <1>1, FreeInvHolds, PTL DEF Spec, TranscriptCloses

-----------------------------------------------------------------------------
(* Every step is one that Discussion allows *)

SaidByAll  == [a \in Agents |-> Said(a)]
CannotTalk == {a \in Agents : ~CanAgentTalk(s, Value(a)) /\ ~Validated(a)}
IsOpen     == main \in {"start", "chat"}

Silent       == {a \in Agents : ~MayTalk(a) /\ ~Validated(a)}
SilentAgrees == CannotTalk = Silent

LEMMA SilentMeans == TypeOK /\ Accounts => SilentAgrees
BY CanAgentTalkMeans DEF SilentAgrees, CannotTalk, Silent

\* A group chat keeps what Discussion promises: nobody speaks more often than
\* max_count.per_agent, after the end, or once it has fallen silent, although what an
\* agent may still say is decided in one step and recorded in another.
THEOREM DiscussesTheorem == Spec => Discusses
<1>1. Init => D!Init
  <2> SUFFICES ASSUME Init PROVE D!Init
    OBVIOUS
  <2>1. \A a : {n \in By(a) : s.talks[n].kind # "Over"} = {}
    BY DEF Init, NewCommunicationSession, By
  <2>2. \A a \in Agents : Said(a) = 0
    BY <2>1, FS_EmptySet DEF Said
  <2>3. SaidByAll = [a \in Agents |-> 0] /\ CannotTalk \in SUBSET Agents /\ IsOpen = TRUE
    BY <2>2 DEF SaidByAll, CannotTalk, IsOpen, Init
  <2> QED BY <2>3 DEF D!Init, SaidByAll, CannotTalk, IsOpen
<1>2. FreeInv /\ FreeInv' /\ [Next]_vars => [D!Next]_(D!vars)
  <2> SUFFICES ASSUME FreeInv, FreeInv', [Next]_vars PROVE [D!Next]_(D!vars)
    OBVIOUS
  <2>1. CannotTalk = Silent /\ CannotTalk' = Silent'
    <3>1. TypeOK' /\ Accounts' => SilentAgrees'
      BY SilentMeans, PTL
    <3> QED BY <3>1, SilentMeans DEF FreeInv, SilentAgrees
  <2>2. ASSUME CannotTalk \subseteq CannotTalk', SaidByAll' = SaidByAll, IsOpen' = IsOpen
        PROVE  D!Next
    <3>1. CannotTalk' \ CannotTalk \in SUBSET (Agents \ CannotTalk)
          /\ CannotTalk' = CannotTalk \union (CannotTalk' \ CannotTalk)
      BY <2>2 DEF CannotTalk
    <3>2. \E some \in SUBSET (Agents \ CannotTalk) : CannotTalk' = CannotTalk \union some
      BY <3>1
    <3> QED BY <2>2, <3>2 DEF D!Next, D!FallSilent, SaidByAll, CannotTalk, IsOpen
  <2>3. CASE Quiet /\ Reading /\ Closing
    <3>1. s' = s /\ \A a \in Agents : Said(a)' = Said(a)
      BY <2>3 DEF Quiet, Said, By
    <3>2. SaidByAll' = SaidByAll
      BY <3>1 DEF SaidByAll
    <3>3. CASE main' \in {"start", "chat"} <=> main \in {"start", "chat"}
      <4>1. \A a \in Agents : MayTalk(a)' \/ Validated(a)' => MayTalk(a) \/ Validated(a)
        BY <2>3, <3>1, CanAgentTalkMeans DEF FreeInv, Quiet, MayTalk
      <4>2. CannotTalk \subseteq CannotTalk'
        BY <2>1, <4>1 DEF Silent
      <4>3. IsOpen' = IsOpen
        BY <3>3 DEF IsOpen
      <4> QED BY <2>2, <3>2, <4>2, <4>3
    <3>4. CASE /\ main \in {"start", "chat"} /\ main' \notin {"start", "chat"}
               /\ UNCHANGED <<hasError, s, consumer>>
      <4>1. CannotTalk' = CannotTalk
        BY <3>4 DEF CannotTalk, Value, Validated
      <4>2. IsOpen = TRUE /\ IsOpen' = FALSE
        BY <3>4 DEF IsOpen
      <4> QED BY <3>2, <4>1, <4>2 DEF D!Next, D!Close, SaidByAll, CannotTalk, IsOpen
    <3> QED BY <2>3, <3>3, <3>4 DEF Closing
  <2>4. ASSUME NEW t \in Talk, Adds(consumer.submission.agent, t) PROVE D!Next
    <3>0. PICK a \in Agents : a = consumer.submission.agent
      BY DEF FreeInv, TypeOK
    <3>1. Adds(a, t) /\ consumer.at = "build" /\ consumer'.at = "send"
          /\ UNCHANGED <<hasError, main>> /\ main = "chat"
      BY <2>4, <3>0 DEF Adds, FreeInv, TypeOK
    <3>2. \A b \in Agents \ {a} : b \in Silent' <=> b \in Silent
      <4>1. \A b \in Agents \ {a} : /\ ~Validated(b) /\ ~Validated(b)'
                                    /\ MayTalk(b)' <=> MayTalk(b)
        BY <3>1 DEF Adds, Validated, MayTalk
      <4> QED BY <4>1 DEF Silent
    <3>3. MayTalk(a)' => MayTalk(a)
      BY <3>1 DEF Adds, MayTalk
    <3>4. ~Validated(a)'
      BY <3>1 DEF Validated
    <3>5. /\ \A b \in Agents \ {a} : Said(b)' = Said(b)
          /\ Said(a)' = IF t.kind = "Over" THEN Said(a) ELSE Said(a) + 1
          /\ Said(a) \in Nat /\ (t.kind # "Over" => Said(a) < PerAgent)
      BY <3>1, AddsCounted
    <3>6. IsOpen = TRUE /\ IsOpen' = TRUE
      BY <3>1 DEF IsOpen
    <3>7. CASE t.kind = "Over"
      <4>1. SaidByAll' = SaidByAll
        BY <3>5, <3>7 DEF SaidByAll
      <4>2. CASE a \in Silent'
        <5>1. CannotTalk \subseteq CannotTalk'
          BY <2>1, <3>2, <4>2 DEF Silent
        <5> QED BY <2>2, <3>6, <4>1, <5>1
      <4>3. CASE a \notin Silent'
        <5>1. a \notin Silent
          BY <3>1, <3>3, <3>4, <4>3 DEF Silent
        <5>2. CannotTalk \subseteq CannotTalk'
          BY <2>1, <3>2, <5>1 DEF Silent
        <5> QED BY <2>2, <3>6, <4>1, <5>2
      <4> QED BY <4>2, <4>3
    <3>8. CASE t.kind # "Over"
      <4>1. Validated(a)
        BY <3>1, <3>8 DEF Adds, Validated
      <4>2. a \notin CannotTalk /\ CannotTalk' \in {CannotTalk, CannotTalk \union {a}}
        BY <2>1, <3>1, <3>2, <4>1 DEF Silent
      <4>3. SaidByAll' = [SaidByAll EXCEPT ![a] = Said(a) + 1] /\ SaidByAll[a] = Said(a)
        BY <3>1, <3>5, <3>8 DEF SaidByAll
      <4>4. D!Speak(a)
        BY <3>5, <3>6, <3>8, <4>2, <4>3 DEF D!Speak, SaidByAll, CannotTalk, IsOpen
      <4> QED BY <3>1, <4>4 DEF D!Next
    <3> QED BY <3>7, <3>8
  <2> QED BY <2>3, <2>4, StepIs
<1> QED BY <1>1, <1>2, FreeInvHolds, PTL DEF Spec, Discusses
=============================================================================
