-------------------------------- MODULE Game --------------------------------
(***************************************************************************)
(* The game engine of package logic: Game.Start and everything it calls up *)
(* to, and not including, a talk or whisper session.  One goroutine runs   *)
(* the whole game; what is nondeterministic is what the agents answer and  *)
(* when their connections fail.                                            *)
(*                                                                         *)
(* A model.Agent is a Go struct used BY VALUE as the key of StatusMap and  *)
(* in votes, guards and results, and its field HasError is part of that    *)
(* value.  A key here is therefore a pair <<agent, HasError>>: the moment  *)
(* an agent's error flag rises, looking it up in a map filled before finds *)
(* nothing.                                                                *)
(***************************************************************************)
EXTENDS Integers, Sequences, FiniteSets

CONSTANTS
  N,                        \* number of agents; agents are their Idx, 1..N
  Role,                     \* the role dealt to each agent
  DayPhases, NightPhases,   \* logic.day_phases and logic.night_phases
  MaxDay,                   \* game.max_day, negative for "no limit"
  ErrorLimit,               \* int(len(agents) * max_continue_error_ratio)
  VoteMaxCount, VoteAllowSelfVote,
  AttackVoteMaxCount, AttackVoteAllowSelfVote, AttackVoteAllowNoTarget,
  Nil

Agents  == 1..N
Roles   == {"WEREWOLF", "POSSESSED", "SEER", "BODYGUARD", "VILLAGER", "MEDIUM"}
Statuses == {"ALIVE", "DEAD"}
Key     == Agents \X BOOLEAN          \* values of the struct model.Agent
Judge   == [agent : Key, target : Key]
Vote    == [agent : Key, target : Key]
NoDay   == -1                         \* a nil only_day or except_day
Phase   == [actions : Seq(STRING), onlyDay : Nat \union {NoDay},
                                 exceptDay : Nat \union {NoDay}]

ASSUME ConfigAssumption ==
  /\ N \in Nat /\ Role \in [Agents -> Roles]
  /\ DayPhases \in Seq(Phase) /\ NightPhases \in Seq(Phase)
  /\ MaxDay \in Int /\ ErrorLimit \in Nat
  /\ VoteMaxCount \in Nat /\ AttackVoteMaxCount \in Nat
  /\ VoteAllowSelfVote \in BOOLEAN /\ AttackVoteAllowSelfVote \in BOOLEAN
  /\ AttackVoteAllowNoTarget \in BOOLEAN
ASSUME NilAssumption == Nil \notin Key /\ Nil \notin Judge

VARIABLES
  hasError,   \* Agent.HasError of every agent
  gs,         \* gameStatuses[currentDay]
  day,        \* currentDay
  section,    \* "day" or "night": isDaytime
  phase,      \* index of the section's next or current phase
  action,     \* index of the phase's next or current action
  poll,       \* locals of doExecution/doAttack while votes are collected
  winSide,    \* winSide
  pc          \* the statement the game goroutine is at

vars == <<hasError, gs, day, section, phase, action, poll, winSide, pc>>

-----------------------------------------------------------------------------
(* Agents, keys and the status map *)

Species(a) == IF Role[a] = "WEREWOLF" THEN "WEREWOLF" ELSE "HUMAN"

Value(a) == <<a, hasError[a]>>        \* *agent

Put(m, k, v) == [x \in (DOMAIN m) \union {k} |-> IF x = k THEN v ELSE m[x]]

IsAlive(k) == k \in DOMAIN gs.statusMap /\ gs.statusMap[k] = "ALIVE"

\* variant: looks an agent up as it was before it failed
AliveAgents_asDealt == {a \in Agents : IsAlive(<<a, FALSE>>)}

AliveAgents     == {a \in Agents : IsAlive(Value(a))}
AliveWerewolves == {a \in AliveAgents : Species(a) = "WEREWOLF"}

NewGameStatus(statusMap) ==
  [votes |-> {}, attackVotes |-> {}, executed |-> Nil, attacked |-> Nil,
   guard |-> Nil, divined |-> Nil, medium |-> Nil, statusMap |-> statusMap]

NewInitializeGameStatus ==
  NewGameStatus([k \in {<<a, FALSE>> : a \in Agents} |-> "ALIVE"])

\* variant: starts the new day from a fresh map instead of a copy
NextDay_freshMap(g) == NewInitializeGameStatus

NextDay(g) == NewGameStatus(g.statusMap)

AliveOf(statusMap, species) ==
  {k \in DOMAIN statusMap : statusMap[k] = "ALIVE" /\ Species(k[1]) = species}

CalcWinSideTeam(statusMap) ==
  LET humans    == Cardinality(AliveOf(statusMap, "HUMAN"))
      werewolfs == Cardinality(AliveOf(statusMap, "WEREWOLF"))
  IN  IF humans <= werewolfs THEN "WEREWOLF"
      ELSE IF werewolfs = 0 THEN "VILLAGER" ELSE "NONE"

ErrorAgents == {a \in Agents : hasError[a]}

TooManyErrors == Cardinality(ErrorAgents) >= ErrorLimit

-----------------------------------------------------------------------------
(* Counting votes *)

Received(ballots, k) == Cardinality({v \in ballots : v.target = k})

Targets(ballots) == {v.target : v \in ballots}

MaxCountCandidates(ballots) ==
  {k \in Targets(ballots) :
     \A other \in Targets(ballots) : Received(ballots, other) <= Received(ballots, k)}

VotedCandidates(ballots) == MaxCountCandidates(ballots)

\* variant: forgets that votes for werewolves do not count
AttackVotedCandidates_anyone(ballots) == MaxCountCandidates(ballots)

AttackVotedCandidates(ballots) ==
  MaxCountCandidates({v \in ballots : Role[v.target[1]] # "WEREWOLF"})

\* variant: compares the attacked agent with the bodyguard
IsGuarded_bodyguard(g, k) ==
  g.guard # Nil /\ g.guard.agent = k /\ g.statusMap[g.guard.agent] = "ALIVE"

IsGuarded(g, k) ==
  /\ g.guard # Nil
  /\ g.guard.target = k
  /\ g.guard.agent \in DOMAIN g.statusMap
  /\ g.statusMap[g.guard.agent] = "ALIVE"

-----------------------------------------------------------------------------
(* Control *)

\* Agents are visited in order of their Idx: the next one, if there is any.
First(agents) == {a \in agents : \A b \in agents : a <= b}

Phases == IF section = "day" THEN DayPhases ELSE NightPhases

NoPoll == [request |-> "NONE", waiting |-> {}, ballots |-> {}, round |-> 0]

Round(request, voters, round) ==
  [request |-> request, waiting |-> voters, ballots |-> {}, round |-> round]

At(label) == pc = label

ActionIs(name) ==
  /\ At("action")
  /\ action <= Len(Phases[phase].actions)
  /\ Phases[phase].actions[action] = name

EndAction == pc' = "action" /\ action' = action + 1 /\ poll' = NoPoll

\* An agent whose packet cannot be written, whose connection closes or who
\* fails the NAME probe: any of those asked may be lost.
MayFail(asked) ==
  \E lost \in SUBSET asked :
    hasError' = [a \in Agents |-> hasError[a] \/ a \in lost]

Init ==
  /\ hasError = [a \in Agents |-> FALSE]
  /\ gs = NewInitializeGameStatus
  /\ day = 0 /\ section = "day" /\ phase = 1 /\ action = 1
  /\ poll = NoPoll /\ winSide = "NONE" /\ pc = "initialize"

\* Start: INITIALIZE to everyone.
Initialize ==
  /\ At("initialize")
  /\ MayFail(Agents)
  /\ pc' = "daily_initialize"
  /\ UNCHANGED <<gs, day, section, phase, action, poll, winSide>>

\* progressDay up to its loop: DAILY_INITIALIZE to everyone.
DailyInitialize ==
  /\ At("daily_initialize")
  /\ section' = "day" /\ phase' = 1
  /\ MayFail(Agents)
  /\ pc' = "phase"
  /\ UNCHANGED <<gs, day, action, poll, winSide>>

\* progressNight up to its loop: DAILY_FINISH to everyone.
DailyFinish ==
  /\ At("daily_finish")
  /\ section' = "night" /\ phase' = 1
  /\ MayFail(Agents)
  /\ pc' = "phase"
  /\ UNCHANGED <<gs, day, action, poll, winSide>>

SkippedToday(p) ==
  \/ p.onlyDay # NoDay /\ p.onlyDay # day
  \/ p.exceptDay # NoDay /\ p.exceptDay = day

\* variant: a finished section is always followed by the night
EndSection_toNight == pc' = "daily_finish"

EndSection == pc' = IF section = "day" THEN "daily_finish" ELSE "next_day"

SkipPhase ==
  /\ At("phase") /\ phase <= Len(Phases)
  /\ SkippedToday(Phases[phase])
  /\ phase' = phase + 1
  /\ UNCHANGED <<hasError, gs, day, section, action, poll, winSide, pc>>

EnterPhase ==
  /\ At("phase") /\ phase <= Len(Phases)
  /\ ~SkippedToday(Phases[phase])
  /\ action' = 1 /\ pc' = "action"
  /\ UNCHANGED <<hasError, gs, day, section, phase, poll, winSide>>

LeaveSection ==
  /\ At("phase") /\ phase > Len(Phases)
  /\ EndSection
  /\ UNCHANGED <<hasError, gs, day, section, phase, action, poll, winSide>>

\* shouldFinish: over the error limit winSide is NOT recomputed.
ShouldFinish(statusMap) ==
  \/ TooManyErrors
  \/ CalcWinSideTeam(statusMap) # "NONE"

\* variant: returns from shouldFinish before the winner is stored
RecordWinSide_undecidedOnly(statusMap) ==
  winSide' = IF ShouldFinish(statusMap) THEN winSide ELSE CalcWinSideTeam(statusMap)

RecordWinSide(statusMap) ==
  winSide' = IF TooManyErrors THEN winSide ELSE CalcWinSideTeam(statusMap)

\* The end of executePhase and the shouldFinish test that follows it.
LeavePhase ==
  /\ At("action") /\ action > Len(Phases[phase].actions)
  /\ RecordWinSide(gs.statusMap)
  /\ IF ShouldFinish(gs.statusMap)
     THEN EndSection /\ UNCHANGED phase
     ELSE pc' = "phase" /\ phase' = phase + 1
  /\ UNCHANGED <<hasError, gs, day, section, action, poll>>

-----------------------------------------------------------------------------
(* The actions of a phase *)

\* doTalk and doWhisper: fewer than two speakers is no session; otherwise any
\* of the speakers may be lost while it lasts.
Communicate(name, speakers) ==
  /\ ActionIs(name)
  /\ IF Cardinality(speakers) < 2 THEN UNCHANGED hasError ELSE MayFail(speakers)
  /\ EndAction
  /\ UNCHANGED <<gs, day, section, phase, winSide>>

DoTalk    == Communicate("talk", AliveAgents)
DoWhisper == Communicate("whisper", AliveWerewolves)

UnknownAction ==
  /\ At("action") /\ action <= Len(Phases[phase].actions)
  /\ Phases[phase].actions[action] \notin
       {"talk", "whisper", "execution", "divine", "guard", "attack"}
  /\ EndAction
  /\ UNCHANGED <<hasError, gs, day, section, phase, winSide>>

\* The agent doDivine and doGuard ask: the first living one with the role.
FirstAlive(role) ==
  First({a \in AliveAgents : Role[a] = role})

\* The answer is usable if it names another agent that is alive.
Names(role, a, t) ==
  /\ a \in FirstAlive(role) /\ t \in Agents \ {a}
  /\ IsAlive(Value(t))
  /\ UNCHANGED hasError

NoUsableAnswer(role) == MayFail(FirstAlive(role)) /\ UNCHANGED gs

DoDivine ==
  /\ ActionIs("divine")
  /\ \/ NoUsableAnswer("SEER")
     \/ \E a, t \in Agents :
          /\ Names("SEER", a, t)
          /\ gs' = [gs EXCEPT !.divined = [agent |-> Value(a), target |-> Value(t)]]
  /\ EndAction
  /\ UNCHANGED <<day, section, phase, winSide>>

DoGuard ==
  /\ ActionIs("guard")
  /\ \/ NoUsableAnswer("BODYGUARD")
     \/ \E a, t \in Agents :
          /\ Names("BODYGUARD", a, t)
          /\ gs' = [gs EXCEPT !.guard = [agent |-> Value(a), target |-> Value(t)]]
  /\ EndAction
  /\ UNCHANGED <<day, section, phase, winSide>>

\* doExecution, up to its first round of votes.
BeginExecution ==
  /\ ActionIs("execution")
  /\ IF VoteMaxCount = 0
     THEN EndAction
     ELSE /\ poll' = Round("VOTE", AliveAgents, 1)
          /\ pc' = "poll" /\ UNCHANGED action
  /\ UNCHANGED <<hasError, gs, day, section, phase, winSide>>

\* doAttack, up to its first round of votes.
BeginAttack ==
  /\ ActionIs("attack")
  /\ IF AliveWerewolves = {} \/ AttackVoteMaxCount = 0
     THEN EndAction
     ELSE /\ poll' = Round("ATTACK", AliveWerewolves, 1)
          /\ pc' = "poll" /\ UNCHANGED action
  /\ UNCHANGED <<hasError, gs, day, section, phase, winSide>>

SelfVoteAllowed(request) ==
  IF request = "VOTE" THEN VoteAllowSelfVote ELSE AttackVoteAllowSelfVote

\* One iteration of collectVotes: the answer names an agent, or is useless, or
\* the voter is lost.  A vote for an agent that is not alive does not count.
\* variants: no look at the target's status; the status of its first value
CastVote_anyTarget(a, t) == {[agent |-> Value(a), target |-> Value(t)]}
CastVote_asDealt(a, t) ==
  IF IsAlive(<<t, FALSE>>)
  THEN {[agent |-> Value(a), target |-> <<t, FALSE>>]} ELSE {}

CastVote(a, t) ==
  IF IsAlive(Value(t)) /\ (t # a \/ SelfVoteAllowed(poll.request))
  THEN {[agent |-> Value(a), target |-> Value(t)]}
  ELSE {}

AskVoter ==
  /\ At("poll") /\ poll.waiting # {}
  /\ \E a \in First(poll.waiting) :
       \/ /\ MayFail({a})
          /\ poll' = [poll EXCEPT !.waiting = @ \ {a}]
       \/ \E t \in Agents :
            /\ poll' = [poll EXCEPT !.waiting = @ \ {a},
                                    !.ballots = @ \union CastVote(a, t)]
            /\ UNCHANGED hasError
  /\ UNCHANGED <<gs, day, section, phase, action, winSide, pc>>

Executed(g, k) ==
  [g EXCEPT !.statusMap = Put(@, k, "DEAD"), !.executed = k,
            !.medium = [agent |-> k, target |-> k]]

Attacked(g, k) ==
  IF IsGuarded(g, k) THEN g
  ELSE [g EXCEPT !.statusMap = Put(@, k, "DEAD"), !.attacked = k]

\* The end of executeVote and what doExecution does with the candidates: one
\* candidate is executed, a tie is voted again while rounds are left, and the
\* last tie is broken at random.
CloseVote ==
  /\ At("poll") /\ poll.waiting = {} /\ poll.request = "VOTE"
  /\ LET counted == [gs EXCEPT !.votes = poll.ballots]
         candidates == VotedCandidates(poll.ballots)
     IN  IF Cardinality(candidates) # 1 /\ poll.round < VoteMaxCount
         THEN /\ gs' = counted
              /\ poll' = Round("VOTE", AliveAgents, poll.round + 1)
              /\ UNCHANGED <<action, pc>>
         ELSE /\ \/ candidates = {} /\ gs' = counted
                 \/ \E k \in candidates : gs' = Executed(counted, k)
              /\ EndAction
  /\ UNCHANGED <<hasError, day, section, phase, winSide>>

\* The same for executeAttackVote and doAttack; a last tie may spare everyone.
CloseAttackVote ==
  /\ At("poll") /\ poll.waiting = {} /\ poll.request = "ATTACK"
  /\ LET counted == [gs EXCEPT !.attackVotes = poll.ballots]
         candidates == AttackVotedCandidates(poll.ballots)
         single == Cardinality(candidates) = 1
     IN  IF ~single /\ poll.round < AttackVoteMaxCount
         THEN /\ gs' = counted
              /\ poll' = Round("ATTACK", AliveWerewolves, poll.round + 1)
              /\ UNCHANGED <<action, pc>>
         ELSE /\ \/ /\ candidates = {} \/ (~single /\ AttackVoteAllowNoTarget)
                    /\ gs' = counted
                 \/ /\ single \/ ~AttackVoteAllowNoTarget
                    /\ \E k \in candidates : gs' = Attacked(counted, k)
              /\ EndAction
  /\ UNCHANGED <<hasError, day, section, phase, winSide>>

-----------------------------------------------------------------------------
(* Between days, and the end *)

PastMaxDay(d) == MaxDay >= 0 /\ d >= MaxDay + 1

AdvanceDay ==
  /\ At("next_day")
  /\ gs' = NextDay(gs)
  /\ day' = day + 1
  /\ IF PastMaxDay(day + 1)
     THEN pc' = "finish" /\ UNCHANGED winSide
     ELSE /\ RecordWinSide(gs.statusMap)
          /\ pc' = IF ShouldFinish(gs.statusMap) THEN "finish" ELSE "daily_initialize"
  /\ UNCHANGED <<hasError, section, phase, action, poll>>

\* FINISH to everyone, the result, closeAllAgents, isFinished.
Finish ==
  /\ At("finish")
  /\ MayFail(Agents)
  /\ pc' = "done"
  /\ UNCHANGED <<gs, day, section, phase, action, poll, winSide>>

Next ==
  \/ Initialize \/ DailyInitialize \/ DailyFinish
  \/ SkipPhase \/ EnterPhase \/ LeavePhase \/ LeaveSection
  \/ DoTalk \/ DoWhisper \/ UnknownAction \/ DoDivine \/ DoGuard
  \/ BeginExecution \/ BeginAttack
  \/ AskVoter \/ CloseVote \/ CloseAttackVote
  \/ AdvanceDay \/ Finish

Spec == Init /\ [][Next]_vars

\* Every request has a timeout, so the game goroutine never blocks for good.
FairSpec == Spec /\ WF_vars(Next)

-----------------------------------------------------------------------------
(* Properties *)

StatusMaps == UNION {[D -> Statuses] : D \in SUBSET Key}

\* The shape of the state: every map is keyed by struct values, and the locals
\* of a vote exist exactly while votes are collected.
TypeOK ==
  /\ hasError \in [Agents -> BOOLEAN]
  /\ gs.statusMap \in [DOMAIN gs.statusMap -> Statuses]
  /\ DOMAIN gs.statusMap \subseteq Key
  /\ gs.votes \subseteq Vote /\ gs.attackVotes \subseteq Vote
  /\ gs.executed \in Key \union {Nil} /\ gs.attacked \in Key \union {Nil}
  /\ gs.guard \in Judge \union {Nil}
  /\ gs.divined \in Judge \union {Nil} /\ gs.medium \in Judge \union {Nil}
  /\ day \in Nat /\ section \in {"day", "night"}
  /\ phase \in Nat \ {0} /\ action \in Nat \ {0}
  /\ poll.waiting \subseteq Agents /\ poll.ballots \subseteq Vote
  /\ poll.request = "NONE" <=> pc # "poll"
  /\ winSide \in {"WEREWOLF", "VILLAGER", "NONE"}

\* StatusMap is keyed by agent values and HasError is part of the value, so a
\* write with the value of a failed agent would add a second entry for the same
\* agent.  It never happens: whoever is executed or attacked was copied into a
\* vote while its flag was still down, however the flag moved afterwards.
OneEntryPerAgent == DOMAIN gs.statusMap = {<<a, FALSE>> : a \in Agents}

\* collectVotes asks a list of agents computed before the first request.  The
\* list does not go stale: an agent still to be asked is alive and without error,
\* whatever happened to the voters before it.
VotersStillAlive == \A a \in poll.waiting : IsAlive(Value(a))

\* An agent has one status, whichever value of it is the key, and a vote asks
\* those whom that status and their own error flag leave in the game.
StatusesSound == OneEntryPerAgent /\ VotersStillAlive

\* Nobody is attacked whom a living bodyguard guarded that night, whatever the
\* order of the phases in the configuration (isGuarded reads the guard's status
\* at the time of the attack, and a target must be alive to be guarded).
GuardHolds ==
  (gs.guard # Nil /\ gs.attacked # Nil /\ gs.guard.target = gs.attacked)
     => gs.statusMap[gs.guard.agent] = "DEAD"

\* The victims of a day are dead, are not the same agent, and the one attacked
\* is no werewolf, although votes may name anyone and be collected long before.
VictimsProper ==
  /\ gs.executed # Nil => gs.statusMap[gs.executed] = "DEAD"
  /\ gs.attacked # Nil =>
       /\ gs.statusMap[gs.attacked] = "DEAD"
       /\ Role[gs.attacked[1]] # "WEREWOLF"
       /\ gs.attacked # gs.executed

\* The winner Start reports is the one the final StatusMap gives, unless the game
\* stopped for errors: shouldFinish is the only place that computes it, and no
\* way out of the loops skips it after a death.
WinSideAccurate ==
  (pc \in {"finish", "done"} /\ ~TooManyErrors)
     => winSide = CalcWinSideTeam(gs.statusMap)

\* A status changes only by the death of one living agent, which is recorded as
\* the executed or the attacked agent of the day; nobody returns, not even when
\* NextDay copies the map.
DeathStep ==
  gs'.statusMap # gs.statusMap =>
    \E k \in DOMAIN gs.statusMap :
      /\ gs.statusMap[k] = "ALIVE"
      /\ gs'.statusMap = [gs.statusMap EXCEPT ![k] = "DEAD"]
      /\ \/ gs.executed # k /\ gs'.executed = k
         \/ gs.attacked # k /\ gs'.attacked = k

DeathIsFinal == [][DeathStep]_vars

\* Once a is in error at the start of a phase, its ALIVE entry stays.
FrozenForGood(a) ==
  []((pc = "phase" /\ hasError[a] /\ gs.statusMap[<<a, FALSE>>] = "ALIVE")
       => [](gs.statusMap[<<a, FALSE>>] = "ALIVE"))

\* An agent that is in error at the start of a phase while its entry says ALIVE
\* keeps that entry for the rest of the game: it can no longer be executed or
\* attacked, because a vote for it finds no status.
FailedAgentFrozen == \A a \in Agents : FrozenForGood(a)

\* With a day limit the game ends: no order of failures, ties and skipped phases
\* keeps Start in its loops.
GameEnds == <>(pc = "done")

-----------------------------------------------------------------------------
(* Documented promises the code does not keep *)

AliveWinSide ==
  LET humans    == Cardinality({a \in AliveAgents : Species(a) = "HUMAN"})
      werewolfs == Cardinality({a \in AliveAgents : Species(a) = "WEREWOLF"})
  IN  IF humans <= werewolfs THEN "WEREWOLF"
      ELSE IF werewolfs = 0 THEN "VILLAGER" ELSE "NONE"

\* doc/en/logic.md counts the surviving agents of each species; an agent in
\* error is not alive for any request or status report of the game.
SurvivorsDecide ==
  (pc = "finish" /\ ~TooManyErrors /\ winSide # "NONE") => winSide = AliveWinSide

\* doc/en/logic.md: the game ends when the agents in error EXCEED the ratio.
ErrorsExceedRatio ==
  (pc = "finish" /\ winSide = "NONE" /\ ~PastMaxDay(day))
     => Cardinality(ErrorAgents) > ErrorLimit

\* doc/en/logic.md: a tie is voted again up to vote.max_count times before an
\* agent is chosen at random.
TieIsRevoted ==
  [][(/\ pc = "poll" /\ poll.request = "VOTE" /\ pc' = "action"
      /\ Cardinality(VotedCandidates(poll.ballots)) > 1)
        => poll.round > VoteMaxCount]_vars
=============================================================================
