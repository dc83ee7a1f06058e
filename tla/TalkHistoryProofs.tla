------------------------- MODULE TalkHistoryProofs --------------------------
(***************************************************************************)
(* TalkHistory's indexes for any number of agents, any plan of the days    *)
(* and either way of holding a session: no history is cut out of bounds,   *)
(* and none repeats what a history carried before on the same day.         *)
(***************************************************************************)
EXTENDS TalkHistory, TLAPS

\* The inductive invariant.  At dawn the indexes still are those of the day
\* before: there is nothing to say of them until DAILY_INITIALIZE, only that
\* nothing of the new day has been sent.
Reset == section \in {"day", "dusk", "night", "finish"}

Fresh ==
  section = "dawn" =>
    \A a \in Agents : /\ sentTalks[a] = {} /\ sentWhispers[a] = {}
                       /\ castTalks[a] = {} /\ castWhispers[a] = {}

Within ==
  Reset =>
    \A a \in Agents :
      /\ lastTalk[a] <= talks /\ lastWhisper[a] <= WhispersFor(a)
      /\ sentTalks[a] \subseteq 1..lastTalk[a] /\ castTalks[a] \subseteq 1..talks
      /\ sentWhispers[a] \subseteq 1..lastWhisper[a]
      /\ castWhispers[a] \subseteq 1..WhispersFor(a)

HistoryInv == TypeOK /\ Fresh /\ Within

LEMMA InitHistory == Init => HistoryInv
BY HistoryAssumption DEF Init, HistoryInv, TypeOK, Fresh, Within, Reset

\* What a request leaves behind, before its answer is appended.
Sound ==
  /\ hasError' \in [Agents -> BOOLEAN]
  /\ lastTalk' \in [Agents -> Nat] /\ lastWhisper' \in [Agents -> Nat]
  /\ sentTalks' \in [Agents -> SUBSET Nat]
  /\ sentWhispers' \in [Agents -> SUBSET Nat]
  /\ UNCHANGED <<castTalks, castWhispers>>
  /\ \A a \in Agents :
       /\ lastTalk'[a] <= talks /\ lastWhisper'[a] <= WhispersFor(a)
       /\ sentTalks'[a] \subseteq 1..lastTalk'[a]
       /\ sentWhispers'[a] \subseteq 1..lastWhisper'[a]
       /\ castTalks'[a] \subseteq 1..talks /\ castWhispers'[a] \subseteq 1..WhispersFor(a)

\* A request, whoever it is sent to and whatever histories it carries, keeps
\* the indexes within the lists and what was sent below the indexes.
LEMMA SendKeeps ==
  ASSUME HistoryInv, Reset, NEW asked \in SUBSET Agents,
         NEW withTalks, NEW withWhispers, Send(asked, withTalks, withWhispers)
  PROVE  Sound
<1>1. \A a \in Agents : WhispersFor(a) \in Nat
  BY DEF HistoryInv, TypeOK, WhispersFor
<1>2. \A a \in Agents :
        lastTalk[a] <= talks /\ lastWhisper[a] <= WhispersFor(a)
  BY DEF HistoryInv, Within
<1>3. PICK lost \in SUBSET asked :
        /\ hasError' = [a \in Agents |-> hasError[a] \/ a \in lost]
        /\ LET reached == {a \in asked : ~hasError[a] /\ a \notin lost}
           IN  /\ sentTalks' = [a \in Agents |->
                    IF a \in reached \intersect withTalks
                    THEN sentTalks[a] \union (lastTalk[a] + 1)..talks ELSE sentTalks[a]]
               /\ sentWhispers' = [a \in Agents |->
                    IF a \in reached \intersect withWhispers
                    THEN sentWhispers[a] \union (lastWhisper[a] + 1)..WhispersFor(a)
                    ELSE sentWhispers[a]]
  BY DEF Send
<1>4. /\ lastTalk' = [a \in Agents |-> IF a \in asked THEN talks ELSE lastTalk[a]]
      /\ lastWhisper' =
           [a \in Agents |-> IF a \in asked THEN WhispersFor(a) ELSE lastWhisper[a]]
  BY DEF Send, Minimize
<1>5. hasError' \in [Agents -> BOOLEAN]
  BY <1>3
<1>6. lastTalk' \in [Agents -> Nat] /\ lastWhisper' \in [Agents -> Nat]
  BY <1>1, <1>4 DEF HistoryInv, TypeOK
<1>7. ASSUME NEW a \in Agents
      PROVE  /\ lastTalk'[a] <= talks /\ lastWhisper'[a] <= WhispersFor(a)
             /\ sentTalks'[a] \subseteq 1..lastTalk'[a]
             /\ sentWhispers'[a] \subseteq 1..lastWhisper'[a]
  <2>1. lastTalk[a] \in Nat /\ lastWhisper[a] \in Nat /\ talks \in Nat
    BY DEF HistoryInv, TypeOK
  <2>2. sentTalks[a] \subseteq 1..lastTalk[a] /\ sentWhispers[a] \subseteq 1..lastWhisper[a]
    BY DEF HistoryInv, Within
  <2>3. /\ lastTalk'[a] = IF a \in asked THEN talks ELSE lastTalk[a]
        /\ lastWhisper'[a] = IF a \in asked THEN WhispersFor(a) ELSE lastWhisper[a]
    BY <1>4
  <2>4. /\ \/ sentTalks'[a] = sentTalks[a]
           \/ /\ a \in asked
              /\ sentTalks'[a] = sentTalks[a] \union (lastTalk[a] + 1)..talks
        /\ \/ sentWhispers'[a] = sentWhispers[a]
           \/ /\ a \in asked
              /\ sentWhispers'[a]
                   = sentWhispers[a] \union (lastWhisper[a] + 1)..WhispersFor(a)
    BY <1>3
  <2> QED
    BY <1>1, <1>2, <2>1, <2>2, <2>3, <2>4
<1>8. /\ sentTalks' \in [Agents -> SUBSET Nat]
      /\ sentWhispers' \in [Agents -> SUBSET Nat]
  <2>1. ASSUME NEW a \in Agents
        PROVE  sentTalks'[a] \subseteq Nat /\ sentWhispers'[a] \subseteq Nat
    BY <1>6, <1>7
  <2> QED BY <1>3, <2>1
<1>9. UNCHANGED <<castTalks, castWhispers>>
  BY DEF Send, casts
<1>10. \A a \in Agents :
         castTalks'[a] \subseteq 1..talks /\ castWhispers'[a] \subseteq 1..WhispersFor(a)
  BY <1>9 DEF HistoryInv, Within
<1> QED BY <1>5, <1>6, <1>7, <1>8, <1>9, <1>10 DEF Sound

LEMMA NextHistory == HistoryInv /\ [Next]_vars => HistoryInv'
<1> SUFFICES ASSUME HistoryInv, [Next]_vars PROVE HistoryInv'
  OBVIOUS
<1> USE DEF HistoryInv
<1>1. CASE DailyInitialize
  BY <1>1
  DEF DailyInitialize, TypeOK, Fresh, Within, Reset, WhispersFor, conversation, casts
<1>2. CASE ChatTalk
  <2>1. /\ Reset /\ section' = section /\ section # "dawn"
        /\ talks \in Nat /\ talks' = talks + 1
        /\ UNCHANGED <<whispers, castWhispers, lastTalk, lastWhisper, sentTalks, sentWhispers, day, step>>
    BY <1>2 DEF ChatTalk, ActionIs, Reset, control, feeds, TypeOK
  <2>2. /\ hasError' \in [Agents -> BOOLEAN] /\ castTalks' \in [Agents -> SUBSET Nat]
        /\ \A a \in Agents : castTalks'[a] \subseteq castTalks[a] \union {talks + 1}
    BY <1>2, <2>1 DEF ChatTalk, Broadcast, TypeOK
  <2>3. TypeOK'
    BY <2>1, <2>2 DEF TypeOK
  <2>4. \A a \in Agents : WhispersFor(a)' = WhispersFor(a)
    BY <2>1 DEF WhispersFor
  <2>5. \A a \in Agents :
          /\ lastTalk[a] \in Nat /\ lastTalk[a] <= talks /\ castTalks[a] \subseteq 1..talks
          /\ lastWhisper[a] <= WhispersFor(a) /\ sentTalks[a] \subseteq 1..lastTalk[a]
          /\ sentWhispers[a] \subseteq 1..lastWhisper[a]
          /\ castWhispers[a] \subseteq 1..WhispersFor(a)
    BY <2>1 DEF Within, TypeOK
  <2>6. Within'
    BY <2>1, <2>2, <2>4, <2>5 DEF Within
  <2> QED
    BY <2>1, <2>3, <2>6 DEF Fresh
<1>11. CASE ChatWhisper
  <2>1. /\ Reset /\ section' = section /\ section # "dawn"
        /\ whispers \in Nat /\ whispers' = whispers + 1
        /\ UNCHANGED <<talks, castTalks, lastTalk, lastWhisper, sentTalks, sentWhispers, day, step>>
    BY <1>11 DEF ChatWhisper, ActionIs, Reset, control, feeds, TypeOK
  <2>2. /\ hasError' \in [Agents -> BOOLEAN] /\ castWhispers' \in [Agents -> SUBSET Nat]
        /\ \A a \in Agents :
             castWhispers'[a] \subseteq
               castWhispers[a] \union (IF a \in Werewolves THEN {whispers + 1} ELSE {})
    BY <1>11, <2>1 DEF ChatWhisper, Broadcast, TypeOK
  <2>3. TypeOK'
    BY <2>1, <2>2 DEF TypeOK
  <2>4. \A a \in Agents :
          /\ WhispersFor(a) = IF a \in Werewolves THEN whispers ELSE 0
          /\ WhispersFor(a)' = IF a \in Werewolves THEN whispers + 1 ELSE 0
    BY <2>1 DEF WhispersFor
  <2>5. \A a \in Agents :
          /\ lastWhisper[a] \in Nat /\ lastTalk[a] <= talks /\ castTalks[a] \subseteq 1..talks
          /\ lastWhisper[a] <= WhispersFor(a) /\ sentTalks[a] \subseteq 1..lastTalk[a]
          /\ sentWhispers[a] \subseteq 1..lastWhisper[a]
          /\ castWhispers[a] \subseteq 1..WhispersFor(a)
    BY <2>1 DEF Within, TypeOK
  <2>6. Within'
    BY <2>1, <2>2, <2>4, <2>5 DEF Within
  <2> QED
    BY <2>1, <2>3, <2>6 DEF Fresh
<1>3. CASE EndAction
  BY <1>3
  DEF EndAction, TypeOK, Fresh, Within, Reset, WhispersFor, conversation, feeds, casts
<1>4. CASE EndSection
  BY <1>4
  DEF EndSection, TypeOK, Fresh, Within, Reset, WhispersFor, conversation, feeds, casts
<1>5. CASE DailyFinish
  <2>1. Reset /\ Send(Agents, Agents, Werewolves)
    BY <1>5 DEF DailyFinish, Reset
  <2>2. \A a \in Agents : WhispersFor(a)' = WhispersFor(a)
    BY <1>5 DEF DailyFinish, WhispersFor, conversation
  <2>3. Sound
    BY <2>1, SendKeeps DEF Sound
  <2> QED
    BY <1>5, <2>2, <2>3 DEF DailyFinish, Sound, TypeOK, Fresh, Within, conversation
<1>6. CASE AdvanceDay
  BY <1>6 DEF AdvanceDay, TypeOK, Fresh, Within, Reset
<1>7. ASSUME NEW a \in Agents, Talk(a) PROVE HistoryInv'
  <2>1. Reset /\ Send({a}, Agents, {}) /\ section' = section /\ section # "dawn"
    BY <1>7 DEF Talk, TalkTo, ActionIs, Reset, control
  <2>2. \A b \in Agents : WhispersFor(b)' = WhispersFor(b)
    BY <1>7 DEF Talk, WhispersFor
  <2>3. talks' = talks + 1 /\ talks \in Nat
    BY <1>7 DEF Talk, TypeOK
  <2>4. Sound
    BY <2>1, SendKeeps DEF Sound
  <2>5. TypeOK'
    BY <1>7, <2>3, <2>4 DEF Talk, TypeOK, Sound, control
  <2>6. Within'
    BY <2>2, <2>3, <2>4 DEF Within, Sound
  <2> QED
    BY <2>1, <2>5, <2>6 DEF Fresh
<1>8. ASSUME NEW a \in Agents, Whisper(a) PROVE HistoryInv'
  <2>1. Reset /\ Send({a}, {}, Werewolves) /\ section' = section /\ section # "dawn"
    BY <1>8 DEF Whisper, WhisperTo, ActionIs, Reset, control
  <2>2. whispers' = whispers + 1 /\ whispers \in Nat
    BY <1>8 DEF Whisper, TypeOK
  <2>3. \A b \in Agents : WhispersFor(b)' \in Nat /\ WhispersFor(b) \in Nat
                            /\ WhispersFor(b) <= WhispersFor(b)'
    BY <2>2 DEF WhispersFor
  <2>4. Sound
    BY <2>1, SendKeeps DEF Sound
  <2>5. TypeOK'
    BY <1>8, <2>2, <2>4 DEF Whisper, TypeOK, Sound, control
  <2>6. ASSUME NEW b \in Agents
        PROVE  /\ lastWhisper'[b] <= WhispersFor(b)'
               /\ castWhispers'[b] \subseteq 1..WhispersFor(b)'
    <3>1. /\ lastWhisper'[b] \in Nat /\ lastWhisper'[b] <= WhispersFor(b)
          /\ castWhispers'[b] \subseteq 1..WhispersFor(b)
      BY <2>4 DEF Sound
    <3> QED BY <2>3, <3>1
  <2>7. Within'
    BY <1>8, <2>4, <2>6 DEF Whisper, Within, Sound
  <2> QED
    BY <2>1, <2>5, <2>7 DEF Fresh
<1>9. ASSUME NEW a \in Agents, Attack(a) PROVE HistoryInv'
  <2>1. Reset /\ Send({a}, {}, Werewolves) /\ section' = section /\ section # "dawn"
    BY <1>9 DEF Attack, ActionIs, Reset, control
  <2>2. \A b \in Agents : WhispersFor(b)' = WhispersFor(b)
    BY <1>9 DEF Attack, WhispersFor, conversation
  <2>3. Sound
    BY <2>1, SendKeeps DEF Sound
  <2> QED
    BY <1>9, <2>1, <2>2, <2>3
    DEF Attack, Sound, TypeOK, Fresh, Within, control, conversation
<1>10. CASE UNCHANGED vars
  BY <1>10
  DEF vars, TypeOK, Fresh, Within, Reset, WhispersFor, conversation, feeds, casts, control
<1> QED
  BY <1>1, <1>2, <1>3, <1>4, <1>5, <1>6, <1>7, <1>8, <1>9, <1>10, <1>11 DEF Next

\* The inductive invariant of a day's indexes.
THEOREM HistoryInvHolds == Spec => []HistoryInv
BY InitHistory, NextHistory, PTL DEF Spec

\* The slices minimize takes are within the lists, for every plan of the days.
THEOREM IndexTheorem == Spec => []IndexInBounds
<1>1. HistoryInv => IndexInBounds
  BY DEF HistoryInv, Within, Reset, IndexInBounds
<1> QED BY <1>1, HistoryInvHolds, PTL

\* No history repeats what an earlier one of the day carried, and nobody gets more
\* than the lists it may read, in histories or as broadcasts.
THEOREM HistoriesOnceTheorem == Spec => []HistoriesOnce
<1>1. HistoryInv => HistoriesOnce
  BY DEF HistoryInv, Within, Reset, HistoriesOnce
<1> QED BY <1>1, HistoryInvHolds, PTL

\* Type correctness of the history's state.
THEOREM TypeTheorem == Spec => []TypeOK
<1>1. HistoryInv => TypeOK
  BY DEF HistoryInv
<1> QED BY <1>1, HistoryInvHolds, PTL

-----------------------------------------------------------------------------
(* The day's talk is complete when the night falls, under plans in which a *)
(* talk is the last conversation of a day and none is held at night.  The  *)
(* condition is needed: a whisper after the talk moves the talk's index    *)
(* and sends none of it.  The default configurations meet it.              *)

TalksLastIn(plan) ==
  /\ \A i, j \in 1..Len(plan.day) :
       i < j /\ plan.day[i] = "talk" => plan.day[j] \notin {"whisper", "attack"}
  /\ \A i \in 1..Len(plan.night) : plan.night[i] # "talk"

TalksLast == TalksLastIn(FirstDay) /\ TalksLastIn(OtherDays)

\* Nothing was said on a day whose plan has not come to its talk.
Begun == \E i \in 1..Len(Plan.day) : i <= step /\ Plan.day[i] = "talk"

Quiet ==
  /\ step >= 1
  /\ section = "dawn" => talks = 0
  /\ section = "day" => talks = 0 \/ Begun

\* A healthy agent was sent the talk below its index; at night that is all.
Told ==
  section \in {"day", "dusk", "night"} =>
    \A a \in Agents : ~hasError[a] => 1..lastTalk[a] \subseteq sentTalks[a]

AllTold == section = "night" => \A a \in Agents : lastTalk[a] = talks

CompleteInv == HistoryInv /\ Quiet /\ Told /\ AllTold

LEMMA PlanHasTalksLast == TalksLast => Plan \in Plans /\ TalksLastIn(Plan)
BY HistoryAssumption DEF TalksLast, Plan

\* A request that carries the talk, or finds none beyond the index of those it
\* is sent to, leaves the healthy agents with the talk below their indexes.
LEMMA SendTells ==
  ASSUME HistoryInv, Reset, NEW asked \in SUBSET Agents,
         NEW withTalks, NEW withWhispers, Send(asked, withTalks, withWhispers),
         \A a \in asked : a \in withTalks \/ lastTalk[a] = talks,
         NEW a \in Agents, ~hasError[a] => 1..lastTalk[a] \subseteq sentTalks[a],
         ~hasError'[a]
  PROVE  1..lastTalk'[a] \subseteq sentTalks'[a]
<1>1. PICK lost \in SUBSET asked :
        /\ hasError' = [b \in Agents |-> hasError[b] \/ b \in lost]
        /\ LET reached == {b \in asked : ~hasError[b] /\ b \notin lost}
           IN  sentTalks' = [b \in Agents |->
                 IF b \in reached \intersect withTalks
                 THEN sentTalks[b] \union (lastTalk[b] + 1)..talks ELSE sentTalks[b]]
  BY DEF Send
<1>2. ~hasError[a] /\ a \notin lost
  BY <1>1
<1>3. lastTalk'[a] = IF a \in asked THEN talks ELSE lastTalk[a]
  BY DEF Send, Minimize
<1>4. lastTalk[a] \in Nat /\ talks \in Nat /\ 1..lastTalk[a] \subseteq sentTalks[a]
  BY <1>2 DEF HistoryInv, TypeOK
<1>5. CASE a \in asked /\ a \in withTalks
  <2>1. sentTalks'[a] = sentTalks[a] \union (lastTalk[a] + 1)..talks
    BY <1>1, <1>2, <1>5
  <2> QED BY <1>3, <1>4, <1>5, <2>1
<1>6. CASE a \in asked /\ a \notin withTalks
  <2>1. sentTalks'[a] = sentTalks[a] /\ lastTalk[a] = talks
    BY <1>1, <1>6
  <2> QED BY <1>3, <1>4, <1>6, <2>1
<1>7. CASE a \notin asked
  BY <1>1, <1>3, <1>4, <1>7
<1> QED BY <1>5, <1>6, <1>7

\* Whoever has been sent a request has its index at the end of the talk.
LEMMA SendMoves ==
  ASSUME NEW asked, NEW withTalks, NEW withWhispers,
         Send(asked, withTalks, withWhispers), NEW a \in Agents
  PROVE  lastTalk'[a] = IF a \in asked THEN talks ELSE lastTalk[a]
BY DEF Send, Minimize

\* A request without the talk is only sent when there is no talk to send.
LEMMA NothingToSend ==
  ASSUME TalksLast, CompleteInv, ActionIs("whisper") \/ ActionIs("attack"), NEW a \in Agents
  PROVE  lastTalk[a] = talks
<1>1. Plan \in Plans /\ TalksLastIn(Plan)
  BY PlanHasTalksLast
<1>2. CASE section = "night"
  BY <1>2 DEF CompleteInv, AllTold
<1>3. CASE section = "day"
  <2>1. step \in Nat /\ step <= Len(Plan.day) /\ Plan.day[step] \in {"whisper", "attack"}
    BY <1>3 DEF ActionIs, Current, CompleteInv, HistoryInv, TypeOK
  <2>2. ~Begun
    <3>1. SUFFICES ASSUME NEW i \in 1..Len(Plan.day), i <= step, Plan.day[i] = "talk"
                   PROVE  FALSE
      BY DEF Begun
    <3>2. Len(Plan.day) \in Nat
      BY <1>1 DEF Plans
    <3>3. step \in 1..Len(Plan.day) /\ i # step
      BY <2>1, <3>1, <3>2
    <3> QED BY <1>1, <2>1, <3>1, <3>2, <3>3 DEF TalksLastIn
  <2>3. talks = 0 /\ lastTalk[a] \in Nat /\ lastTalk[a] <= talks
    BY <1>3, <2>2 DEF CompleteInv, Quiet, HistoryInv, TypeOK, Within, Reset
  <2> QED BY <2>3
<1> QED BY <1>2, <1>3 DEF ActionIs

LEMMA InitComplete == Init => CompleteInv
<1> SUFFICES ASSUME Init PROVE CompleteInv
  OBVIOUS
<1>1. HistoryInv
  BY InitHistory
<1> QED BY <1>1 DEF Init, CompleteInv, Quiet, Told, AllTold

\* A request in the middle of a section keeps the invariant, when it carries the
\* talk or there is none to carry, and no talk is appended at night.
LEMMA RequestKeeps ==
  ASSUME CompleteInv, HistoryInv', Reset, NEW asked \in SUBSET Agents,
         NEW withTalks, NEW withWhispers, Send(asked, withTalks, withWhispers),
         \A a \in asked : a \in withTalks \/ lastTalk[a] = talks,
         section \in {"day", "night"}, UNCHANGED control,
         \/ UNCHANGED talks
         \/ section = "day" /\ Begun
  PROVE  CompleteInv'
<1>1. section' = section /\ step' = step /\ (Begun => Begun')
  BY DEF control, Begun, Plan
<1>2. Quiet'
  BY <1>1 DEF CompleteInv, Quiet
<1>3. ASSUME NEW a \in Agents, ~hasError'[a]
      PROVE  1..lastTalk'[a] \subseteq sentTalks'[a]
  <2>1. ~hasError[a] => 1..lastTalk[a] \subseteq sentTalks[a]
    BY DEF CompleteInv, Told
  <2> QED BY <1>3, <2>1, SendTells DEF CompleteInv
<1>4. Told'
  BY <1>3 DEF Told
<1>5. AllTold'
  <2>1. ASSUME NEW a \in Agents, section = "night" PROVE lastTalk'[a] = talks'
    <3>1. lastTalk[a] = talks /\ talks' = talks
      BY <2>1 DEF CompleteInv, AllTold
    <3>2. lastTalk'[a] = IF a \in asked THEN talks ELSE lastTalk[a]
      BY SendMoves
    <3> QED BY <3>1, <3>2
  <2> QED BY <1>1, <2>1 DEF AllTold
<1> QED BY <1>2, <1>4, <1>5 DEF CompleteInv

\* When a talk may be appended it is day, and the talk has begun.
LEMMA TalkBegins ==
  ASSUME TalksLast, CompleteInv, ActionIs("talk")
  PROVE  section = "day" /\ Begun
<1>1. Plan \in Plans /\ TalksLastIn(Plan)
  BY PlanHasTalksLast
<1>2. step \in Nat
  BY DEF CompleteInv, HistoryInv, TypeOK
<1>3. /\ Len(Current) \in Nat /\ Current \in Seq(Actions)
      /\ step <= Len(Current) /\ Current[step] = "talk"
  BY <1>1 DEF ActionIs, Current, Plans
<1>4. step >= 1
  BY DEF CompleteInv, Quiet
<1>5. section = "day"
  BY <1>1, <1>2, <1>3, <1>4 DEF ActionIs, Current, TalksLastIn
<1>6. Begun
  BY <1>2, <1>3, <1>4, <1>5 DEF Begun, Current
<1> QED BY <1>5, <1>6

LEMMA NextComplete == TalksLast /\ CompleteInv /\ [Next]_vars => CompleteInv'
<1> SUFFICES ASSUME TalksLast, CompleteInv, [Next]_vars PROVE CompleteInv'
  OBVIOUS
<1>0. HistoryInv /\ HistoryInv'
  BY NextHistory DEF CompleteInv
<1>1. CASE DailyInitialize
  BY <1>0, <1>1
  DEF DailyInitialize, CompleteInv, HistoryInv, TypeOK, Quiet, Told, AllTold, conversation
<1>2. CASE ChatTalk \/ ChatWhisper
  <2>1. UNCHANGED <<feeds, control>> /\ \A a \in Agents : hasError[a] => hasError'[a]
    BY <1>2 DEF ChatTalk, ChatWhisper, Broadcast
  <2>2. section \in {"day", "night"} /\ step' = step
    BY <1>2, <2>1 DEF ChatTalk, ChatWhisper, ActionIs, control
  <2>3. (section = "day" /\ Begun) \/ UNCHANGED talks
    BY <1>2, TalkBegins DEF ChatTalk, ChatWhisper
  <2>4. Quiet'
    BY <2>1, <2>2, <2>3 DEF CompleteInv, Quiet, Begun, Plan, control
  <2>5. Told' /\ AllTold'
    BY <2>1, <2>2, <2>3 DEF CompleteInv, Told, AllTold, feeds, control
  <2> QED BY <1>0, <2>4, <2>5 DEF CompleteInv
<1>3. CASE EndAction
  <2>1. step' = step + 1 /\ section' = section /\ day' = day /\ UNCHANGED <<talks, hasError, feeds>>
    BY <1>3 DEF EndAction, conversation
  <2>2. step \in Nat
    BY <1>0 DEF HistoryInv, TypeOK
  <2>3. Begun => Begun'
    BY <2>1, <2>2 DEF Begun, Plan
  <2>4. Quiet'
    BY <2>1, <2>2, <2>3 DEF CompleteInv, Quiet
  <2> QED BY <1>0, <2>1, <2>4 DEF CompleteInv, Told, AllTold, feeds
<1>4. CASE EndSection
  BY <1>0, <1>4
  DEF EndSection, CompleteInv, Quiet, Told, AllTold, conversation, feeds
<1>5. CASE DailyFinish
  <2>1. Reset /\ Send(Agents, Agents, Werewolves) /\ talks' = talks /\ step' = 1
        /\ section = "dusk" /\ section' = "night"
    BY <1>5 DEF DailyFinish, Reset, conversation
  <2>2. ASSUME NEW a \in Agents, ~hasError'[a]
        PROVE  1..lastTalk'[a] \subseteq sentTalks'[a]
    <3>1. ~hasError[a] => 1..lastTalk[a] \subseteq sentTalks[a]
      BY <2>1 DEF CompleteInv, Told
    <3> QED BY <1>0, <2>1, <2>2, <3>1, SendTells
  <2>3. \A a \in Agents : lastTalk'[a] = talks'
    BY <2>1, SendMoves
  <2> QED BY <1>0, <2>1, <2>2, <2>3 DEF CompleteInv, Quiet, Told, AllTold
<1>6. CASE AdvanceDay
  BY <1>0, <1>6 DEF AdvanceDay, CompleteInv, Quiet, Told, AllTold
<1>7. ASSUME NEW a \in Agents, Talk(a) PROVE CompleteInv'
  <2>1. section = "day" /\ Begun
    BY <1>7, TalkBegins DEF Talk
  <2>2. Reset /\ Send({a}, Agents, {}) /\ UNCHANGED control
    BY <1>7, <2>1 DEF Talk, TalkTo, Reset
  <2> QED BY <1>0, <2>1, <2>2, RequestKeeps
<1>8. ASSUME NEW a \in Agents, Whisper(a) PROVE CompleteInv'
  <2>1. ActionIs("whisper") /\ Send({a}, {}, Werewolves) /\ UNCHANGED <<talks, control>>
    BY <1>8 DEF Whisper, WhisperTo
  <2>2. lastTalk[a] = talks
    BY <2>1, NothingToSend
  <2>3. section \in {"day", "night"} /\ Reset
    BY <2>1 DEF ActionIs, Reset
  <2> QED BY <1>0, <2>1, <2>2, <2>3, RequestKeeps
<1>9. ASSUME NEW a \in Agents, Attack(a) PROVE CompleteInv'
  <2>1. ActionIs("attack") /\ Send({a}, {}, Werewolves) /\ UNCHANGED <<talks, control>>
    BY <1>9 DEF Attack, conversation
  <2>2. lastTalk[a] = talks
    BY <2>1, NothingToSend
  <2>3. section \in {"day", "night"} /\ Reset
    BY <2>1 DEF ActionIs, Reset
  <2> QED BY <1>0, <2>1, <2>2, <2>3, RequestKeeps
<1>10. CASE UNCHANGED vars
  <2>1. (Begun => Begun') /\ section' = section /\ talks' = talks /\ step' = step
    BY <1>10 DEF vars, Begun, Plan, control, conversation
  <2> QED
    BY <1>0, <1>10, <2>1 DEF vars, CompleteInv, Quiet, Told, AllTold, feeds
<1> QED
  BY <1>1, <1>2, <1>3, <1>4, <1>5, <1>6, <1>7, <1>8, <1>9, <1>10 DEF Next

\* DAILY_FINISH leaves no healthy agent without part of the day's talk, for
\* any agents and any plan in which the talk is a day's last conversation.
THEOREM TalksTheorem == TalksLast /\ Spec => []TalksComplete
<1>1. CompleteInv => TalksComplete
  BY DEF CompleteInv, Told, TalksComplete
<1>2. TalksLast => (Spec => []CompleteInv)
  <2> SUFFICES ASSUME TalksLast PROVE Spec => []CompleteInv
    OBVIOUS
  <2>1. Init => CompleteInv
    BY InitComplete
  <2>2. CompleteInv /\ [Next]_vars => CompleteInv'
    BY NextComplete
  <2> QED BY <2>1, <2>2, PTL DEF Spec
<1> QED BY <1>1, <1>2, PTL

=============================================================================
