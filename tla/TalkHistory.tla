---------------------------- MODULE TalkHistory -----------------------------
(***************************************************************************)
(* What the agents are sent of the conversation: requestToAgent, minimize  *)
(* and the two last-index maps.  Talks and whispers of the day are lists   *)
(* that only grow, here their lengths; a request carries the part of a     *)
(* list that lies beyond the index its agent had at the request before.    *)
(* In a group chat every entry is broadcast when it is said, as well.      *)
(***************************************************************************)
EXTENDS Integers, Sequences, FiniteSets

CONSTANTS
  Agents, Werewolves,
  Modes,                   \* how sessions are held: "turns", "chat"
  FirstDay, OtherDays,     \* a day's actions in order: [day, night : Seq(action)]
  MaxTalks,                \* bound on the talks, and on the whispers, of a day
  MaxDays                  \* bound on the days

Actions == {"talk", "whisper", "attack", "other"}
Plans   == [day : Seq(Actions), night : Seq(Actions)]

ASSUME HistoryAssumption ==
  /\ Werewolves \subseteq Agents /\ Modes \subseteq {"turns", "chat"}
  /\ FirstDay \in Plans /\ OtherDays \in Plans
  /\ MaxTalks \in Nat /\ MaxDays \in Nat

VARIABLES
  hasError,     \* Agent.HasError
  talks,        \* len(gameStatus.Talks) of the current day
  whispers,     \* len(gameStatus.Whispers)
  lastTalk,     \* lastTalkIdxMap
  lastWhisper,  \* lastWhisperIdxMap
  sentTalks,    \* external: the day's talks an agent got in histories, by index
  sentWhispers, \* external: the day's whispers it got in histories
  castTalks,    \* external: the day's talks it got one by one, as broadcasts
  castWhispers, \* external: the day's whispers it got as broadcasts
  day,          \* currentDay
  section,      \* "dawn", "day", "dusk", "night", "finish"
  step          \* index of the section's current action

vars == <<hasError, talks, whispers, lastTalk, lastWhisper, sentTalks,
          sentWhispers, castTalks, castWhispers, day, section, step>>
conversation == <<talks, whispers>>
feeds == <<lastTalk, lastWhisper, sentTalks, sentWhispers>>
casts == <<castTalks, castWhispers>>
control == <<day, section, step>>

Plan == IF day = 0 THEN FirstDay ELSE OtherDays
Current == IF section = "day" THEN Plan.day ELSE Plan.night
ActionIs(name) ==
  section \in {"day", "night"} /\ step <= Len(Current) /\ Current[step] = name

-----------------------------------------------------------------------------

Init ==
  /\ hasError = [a \in Agents |-> FALSE]
  /\ talks = 0 /\ whispers = 0
  /\ lastTalk = [a \in Agents |-> 0] /\ lastWhisper = [a \in Agents |-> 0]
  /\ sentTalks = [a \in Agents |-> {}] /\ sentWhispers = [a \in Agents |-> {}]
  /\ castTalks = [a \in Agents |-> {}] /\ castWhispers = [a \in Agents |-> {}]
  /\ day = 0 /\ section = "dawn" /\ step = 1

\* buildInfo: only a werewolf's WhisperList is filled.
WhispersFor(a) == IF a \in Werewolves THEN whispers ELSE 0

\* variant: remembers the index of the last entry, not the one after it
Minimize_lastEntry(asked) ==
  /\ lastTalk' = [a \in Agents |-> IF a \in asked THEN talks - 1 ELSE lastTalk[a]]
  /\ lastWhisper' =
       [a \in Agents |-> IF a \in asked THEN WhispersFor(a) - 1 ELSE lastWhisper[a]]

\* minimize, for each agent asked: both indexes move whatever is sent.
Minimize(asked) ==
  /\ lastTalk' = [a \in Agents |-> IF a \in asked THEN talks ELSE lastTalk[a]]
  /\ lastWhisper' =
       [a \in Agents |-> IF a \in asked THEN WhispersFor(a) ELSE lastWhisper[a]]

\* The packets are built for everybody asked, and reach those who are not lost.
Send(asked, withTalks, withWhispers) ==
  /\ Minimize(asked)
  /\ \E lost \in SUBSET asked :
       /\ hasError' = [a \in Agents |-> hasError[a] \/ a \in lost]
       /\ LET reached == {a \in asked : ~hasError[a] /\ a \notin lost}
          IN  /\ sentTalks' = [a \in Agents |->
                   IF a \in reached \intersect withTalks
                   THEN sentTalks[a] \union (lastTalk[a] + 1)..talks ELSE sentTalks[a]]
              /\ sentWhispers' = [a \in Agents |->
                   IF a \in reached \intersect withWhispers
                   THEN sentWhispers[a] \union (lastWhisper[a] + 1)..WhispersFor(a)
                   ELSE sentWhispers[a]]
  /\ UNCHANGED casts

\* variant: the maps survive the night
DailyInitialize_keepsIndexes ==
  /\ section = "dawn" /\ section' = "day" /\ step' = 1
  /\ UNCHANGED <<hasError, conversation, feeds, casts, day>>

\* progressDay: resetLastIdxMaps, with every DAILY_INITIALIZE (and INITIALIZE).
DailyInitialize ==
  /\ section = "dawn" /\ section' = "day" /\ step' = 1
  /\ lastTalk' = [a \in Agents |-> 0] /\ lastWhisper' = [a \in Agents |-> 0]
  /\ UNCHANGED <<hasError, conversation, sentTalks, sentWhispers, casts, day>>

TalkTo(a) == Send({a}, Agents, {})
WhisperTo(a) == Send({a}, {}, Werewolves)

\* One turn of a talk session: TALK to an agent, and its answer is appended.
Talk(a) ==
  /\ "turns" \in Modes /\ ActionIs("talk") /\ talks < MaxTalks /\ ~hasError[a]
  /\ TalkTo(a)
  /\ talks' = talks + 1
  /\ UNCHANGED <<whispers, control>>

Whisper(a) ==
  /\ "turns" \in Modes /\ ActionIs("whisper") /\ whispers < MaxTalks
  /\ a \in Werewolves /\ ~hasError[a]
  /\ WhisperTo(a)
  /\ whispers' = whispers + 1
  /\ UNCHANGED <<talks, control>>

\* send: the n-th entry goes to the agents of the session, and reaches those who
\* are not lost; no index moves.
Broadcast(cast, members, n) ==
  \E lost \in SUBSET members :
    /\ hasError' = [a \in Agents |-> hasError[a] \/ a \in lost]
    /\ cast' = [a \in Agents |-> IF a \in members \ lost /\ ~hasError[a]
                                 THEN cast[a] \union {n} ELSE cast[a]]

\* A speech in a group chat: appended and broadcast, no request is sent.
ChatTalk ==
  /\ "chat" \in Modes /\ ActionIs("talk") /\ talks < MaxTalks
  /\ talks' = talks + 1
  /\ Broadcast(castTalks, Agents, talks + 1)
  /\ UNCHANGED <<whispers, castWhispers, feeds, control>>

ChatWhisper ==
  /\ "chat" \in Modes /\ ActionIs("whisper") /\ whispers < MaxTalks
  /\ whispers' = whispers + 1
  /\ Broadcast(castWhispers, Werewolves, whispers + 1)
  /\ UNCHANGED <<talks, castTalks, feeds, control>>

\* ATTACK to one of the voters, the werewolves.
Attack(a) ==
  /\ ActionIs("attack") /\ a \in Werewolves /\ ~hasError[a]
  /\ Send({a}, {}, Werewolves)
  /\ UNCHANGED <<conversation, control>>

EndAction ==
  /\ section \in {"day", "night"} /\ step <= Len(Current)
  /\ step' = step + 1
  /\ UNCHANGED <<hasError, conversation, feeds, casts, day, section>>

\* The section is over, or shouldFinish cuts it short after an action.
EndSection ==
  /\ step > 1 \/ Current = <<>>
  /\ \/ section = "day" /\ section' = "dusk"
     \/ section = "night" /\ section' = "finish"
  /\ UNCHANGED <<hasError, conversation, feeds, casts, day, step>>

\* variant: the talk only goes to the werewolves, like the whispers
DailyFinish_werewolves ==
  /\ section = "dusk" /\ section' = "night" /\ step' = 1
  /\ Send(Agents, Werewolves, Werewolves)
  /\ UNCHANGED <<conversation, day>>

\* progressNight: DAILY_FINISH to everyone, with the whispers for werewolves.
DailyFinish ==
  /\ section = "dusk" /\ section' = "night" /\ step' = 1
  /\ Send(Agents, Agents, Werewolves)
  /\ UNCHANGED <<conversation, day>>

\* The next day has lists of its own; the index maps are not touched yet.
AdvanceDay ==
  /\ section = "finish" /\ day < MaxDays
  /\ day' = day + 1 /\ section' = "dawn"
  /\ talks' = 0 /\ whispers' = 0
  /\ sentTalks' = [a \in Agents |-> {}] /\ sentWhispers' = [a \in Agents |-> {}]
  /\ castTalks' = [a \in Agents |-> {}] /\ castWhispers' = [a \in Agents |-> {}]
  /\ UNCHANGED <<hasError, lastTalk, lastWhisper, step>>

Next ==
  \/ DailyInitialize \/ ChatTalk \/ ChatWhisper \/ EndAction \/ EndSection
  \/ DailyFinish \/ AdvanceDay
  \/ \E a \in Agents : Talk(a) \/ Whisper(a) \/ Attack(a)

Spec == Init /\ [][Next]_vars

-----------------------------------------------------------------------------
(* Properties *)

TypeOK ==
  /\ hasError \in [Agents -> BOOLEAN]
  /\ talks \in Nat /\ whispers \in Nat /\ day \in Nat /\ step \in Nat
  /\ lastTalk \in [Agents -> Nat] /\ lastWhisper \in [Agents -> Nat]
  /\ sentTalks \in [Agents -> SUBSET Nat] /\ sentWhispers \in [Agents -> SUBSET Nat]
  /\ castTalks \in [Agents -> SUBSET Nat] /\ castWhispers \in [Agents -> SUBSET Nat]
  /\ section \in {"dawn", "day", "dusk", "night", "finish"}

\* talks[lastTalkIdx:] and whispers[lastWhisperIdx:] never have a bound beyond
\* the list: whenever a request with a history may be built, the indexes have
\* been reset for the lists of this day.
IndexInBounds ==
  section \in {"day", "dusk", "night"} =>
    \A a \in Agents : lastTalk[a] <= talks /\ lastWhisper[a] <= WhispersFor(a)

\* No history repeats an earlier history of the day: what the histories of an agent
\* carried lies below its index, where the next one starts.  And nobody gets more
\* than the lists it may read hold, a villager no whisper, in whichever way.
\* (A history does repeat what was broadcast: see NothingTwice.)
HistoriesOnce ==
  section \in {"day", "dusk", "night"} =>
    \A a \in Agents :
      /\ sentTalks[a] \subseteq 1..lastTalk[a] /\ castTalks[a] \subseteq 1..talks
      /\ sentWhispers[a] \subseteq 1..lastWhisper[a]
      /\ castWhispers[a] \subseteq 1..WhispersFor(a)

\* DAILY_FINISH completes the day's talk: at night the histories of a healthy
\* agent hold all of it, what was broadcast included.
TalksComplete ==
  section = "night" =>
    \A a \in Agents : ~hasError[a] => 1..lastTalk[a] \subseteq sentTalks[a]

\* No entry reaches an agent twice in a day.  Not so in group chats: a broadcast
\* moves no index, and DAILY_FINISH sends every talk of the day again.
NothingTwice ==
  \A a \in Agents : castTalks[a] \intersect sentTalks[a] = {}

\* "The conversation history up until that point is sent. [...] whisper history
\* is still sent to werewolves": at night a werewolf misses no whisper it is
\* not sent with its next request.
WhispersComplete ==
  section = "night" =>
    \A a \in Werewolves :
      ~hasError[a] => 1..lastWhisper[a] \subseteq sentWhispers[a]
=============================================================================
