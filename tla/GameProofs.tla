----------------------------- MODULE GameProofs -----------------------------
(***************************************************************************)
(* What holds of Game for every number of agents, every role table, every  *)
(* order of phases and every limit.  The inductive invariant SafeInv adds  *)
(* to the properties of Game what makes them stable: the targets of the    *)
(* ballots in hand are entries of StatusMap that are still alive, because  *)
(* nobody dies while votes are collected, and every agent value kept in a  *)
(* guard or as a victim was copied before its error flag rose.             *)
(***************************************************************************)
EXTENDS Game, FiniteSetTheorems, TLAPS

Healthy == {<<a, FALSE>> : a \in Agents}

Shape ==
  /\ hasError \in [Agents -> BOOLEAN]
  /\ gs.statusMap \in [Healthy -> Statuses]
  /\ gs = [votes |-> gs.votes, attackVotes |-> gs.attackVotes,
           executed |-> gs.executed, attacked |-> gs.attacked,
           guard |-> gs.guard, divined |-> gs.divined, medium |-> gs.medium,
           statusMap |-> gs.statusMap]
  /\ poll = [request |-> poll.request, waiting |-> poll.waiting,
             ballots |-> poll.ballots, round |-> poll.round]
  /\ poll.waiting \subseteq Agents
  /\ poll.ballots \subseteq Vote

BallotsAlive == \A v \in poll.ballots : IsAlive(v.target)

KeptValuesHealthy ==
  /\ gs.executed # Nil => gs.executed \in Healthy
  /\ gs.attacked # Nil => gs.attacked \in Healthy
  /\ gs.guard # Nil => gs.guard.agent \in Healthy /\ gs.guard.target \in Healthy

SafeInv ==
  /\ Shape
  /\ BallotsAlive
  /\ VotersStillAlive
  /\ KeptValuesHealthy
  /\ GuardHolds
  /\ VictimsProper
  /\ pc # "poll" => poll = NoPoll

-----------------------------------------------------------------------------
(* Lemmas about the operators of Game *)

\* The candidates of a vote received at least one of its ballots.
LEMMA CandidatesVoted ==
  ASSUME NEW ballots, NEW k \in MaxCountCandidates(ballots)
  PROVE  \E v \in ballots : v.target = k
BY DEF MaxCountCandidates, Targets

\* An entry of StatusMap is never mistaken for a nil pointer.
LEMMA HealthyNotNil == ASSUME NEW k \in Healthy PROVE k # Nil
<1>1. PICK a \in Agents : k = <<a, FALSE>>
  BY DEF Healthy
<1>2. k \in Agents \X BOOLEAN
  BY <1>1
<1>3. QED
  BY <1>2, NilAssumption DEF Key

\* An alive key is one of the entries written when the game was created.
LEMMA AliveIsHealthy ==
  ASSUME Shape, NEW k, IsAlive(k)
  PROVE  k \in Healthy /\ gs.statusMap[k] = "ALIVE"
BY DEF Shape, IsAlive

\* The value of an agent is an entry only while its error flag is down.
LEMMA ValueHealthy ==
  ASSUME Shape, NEW a \in Agents, IsAlive(Value(a))
  PROVE  ~hasError[a] /\ Value(a) = <<a, FALSE>>
<1>1. <<a, hasError[a]>> \in Healthy
  BY DEF Shape, IsAlive, Value
<1>2. PICK b \in Agents : <<a, hasError[a]>> = <<b, FALSE>>
  BY <1>1 DEF Healthy
<1>3. hasError[a] = FALSE
  BY <1>2
<1>4. QED
  BY <1>3 DEF Value

\* Failures only raise flags, and only those of the agents asked.
LEMMA FailuresRaise ==
  ASSUME Shape, NEW asked, MayFail(asked)
  PROVE  /\ hasError' \in [Agents -> BOOLEAN]
         /\ \A a \in Agents : hasError[a] => hasError'[a]
         /\ \A a \in Agents : a \notin asked => hasError'[a] = hasError[a]
BY DEF Shape, MayFail

\* Killing an entry keeps the map's keys and changes that entry only.
LEMMA PutKills ==
  ASSUME NEW m \in [Healthy -> Statuses], NEW k \in Healthy
  PROVE  /\ Put(m, k, "DEAD") \in [Healthy -> Statuses]
         /\ Put(m, k, "DEAD")[k] = "DEAD"
         /\ \A x \in Healthy : x # k => Put(m, k, "DEAD")[x] = m[x]
         /\ Put(m, k, "DEAD") = [m EXCEPT ![k] = "DEAD"]
BY DEF Put, Statuses


\* A step that collects no votes and changes neither the status map, nor the
\* guard, nor a victim, whatever else it does.
LEMMA QuietStep ==
  ASSUME SafeInv,
         hasError' \in [Agents -> BOOLEAN],
         gs'.statusMap = gs.statusMap, gs'.guard = gs.guard,
         gs'.executed = gs.executed, gs'.attacked = gs.attacked,
         gs' = [votes |-> gs'.votes, attackVotes |-> gs'.attackVotes,
                executed |-> gs'.executed, attacked |-> gs'.attacked,
                guard |-> gs'.guard, divined |-> gs'.divined,
                medium |-> gs'.medium, statusMap |-> gs'.statusMap],
         poll' = NoPoll
  PROVE  SafeInv'
<1>1. Shape'
  BY DEF SafeInv, Shape, NoPoll
<1>2. BallotsAlive' /\ VotersStillAlive'
  BY DEF NoPoll, BallotsAlive, VotersStillAlive
<1>3. KeptValuesHealthy' /\ GuardHolds' /\ VictimsProper'
  BY DEF SafeInv, KeptValuesHealthy, GuardHolds, VictimsProper
<1>4. QED
  BY <1>1, <1>2, <1>3 DEF SafeInv

\* The same when only the agents' error flags move.
LEMMA FlagStep ==
  ASSUME SafeInv, UNCHANGED gs, poll' = NoPoll,
         hasError' \in [Agents -> BOOLEAN]
  PROVE  SafeInv'
<1>1. gs' = [votes |-> gs'.votes, attackVotes |-> gs'.attackVotes,
             executed |-> gs'.executed, attacked |-> gs'.attacked,
             guard |-> gs'.guard, divined |-> gs'.divined,
             medium |-> gs'.medium, statusMap |-> gs'.statusMap]
  BY DEF SafeInv, Shape
<1>2. QED
  BY <1>1, QuietStep

\* Starting a round asks agents that are alive at that moment.
LEMMA RoundStep ==
  ASSUME SafeInv, UNCHANGED hasError,
         gs'.statusMap = gs.statusMap, gs'.guard = gs.guard,
         gs'.executed = gs.executed, gs'.attacked = gs.attacked,
         gs' = [votes |-> gs'.votes, attackVotes |-> gs'.attackVotes,
                executed |-> gs'.executed, attacked |-> gs'.attacked,
                guard |-> gs'.guard, divined |-> gs'.divined,
                medium |-> gs'.medium, statusMap |-> gs'.statusMap],
         NEW request, NEW voters \in SUBSET AliveAgents, NEW round,
         poll' = Round(request, voters, round), pc' = "poll"
  PROVE  SafeInv'
<1>1. voters \subseteq Agents /\ \A a \in voters : IsAlive(Value(a))
  BY DEF AliveAgents
<1>2. Shape'
  BY <1>1 DEF SafeInv, Shape, Round
<1>3. BallotsAlive'
  BY DEF Round, BallotsAlive
<1>4. VotersStillAlive'
  BY <1>1 DEF Round, VotersStillAlive, IsAlive, Value
<1>5. KeptValuesHealthy' /\ GuardHolds' /\ VictimsProper'
  BY DEF SafeInv, KeptValuesHealthy, GuardHolds, VictimsProper
<1>6. QED
  BY <1>2, <1>3, <1>4, <1>5 DEF SafeInv

-----------------------------------------------------------------------------
(* The initial states and the actions *)

LEMMA InitSafe == Init => SafeInv
<1> SUFFICES ASSUME Init PROVE SafeInv
  OBVIOUS
<1> USE DEF Init, NewInitializeGameStatus, NewGameStatus, NoPoll
<1>1. Shape
  BY DEF Shape, Healthy, Statuses
<1>2. BallotsAlive /\ VotersStillAlive
  BY DEF BallotsAlive, VotersStillAlive
<1>3. KeptValuesHealthy /\ GuardHolds /\ VictimsProper
  BY DEF KeptValuesHealthy, GuardHolds, VictimsProper
<1>4. QED
  BY <1>1, <1>2, <1>3 DEF SafeInv

\* One voter is asked: if it fails, only its own flag moves, and it is no longer
\* among those still to be asked; a ballot enters only for a living target.
LEMMA AskVoterSafe == SafeInv /\ AskVoter => SafeInv'
<1> SUFFICES ASSUME SafeInv, AskVoter PROVE SafeInv'
  OBVIOUS
<1>a. PICK a \in poll.waiting :
        \/ MayFail({a}) /\ poll' = [poll EXCEPT !.waiting = @ \ {a}]
        \/ \E t \in Agents :
             /\ poll' = [poll EXCEPT !.waiting = @ \ {a},
                                     !.ballots = @ \union CastVote(a, t)]
             /\ UNCHANGED hasError
  BY DEF AskVoter, First
<1>0. Shape /\ UNCHANGED gs /\ pc' = "poll"
  BY DEF SafeInv, AskVoter, At
<1>k. KeptValuesHealthy' /\ GuardHolds' /\ VictimsProper'
  BY <1>0 DEF SafeInv, KeptValuesHealthy, GuardHolds, VictimsProper
<1>1. CASE MayFail({a}) /\ poll' = [poll EXCEPT !.waiting = @ \ {a}]
  <2>1. /\ hasError' \in [Agents -> BOOLEAN]
        /\ \A b \in Agents : b # a => hasError'[b] = hasError[b]
    BY <1>0, <1>1, FailuresRaise
  <2>2. /\ poll'.waiting = poll.waiting \ {a} /\ poll'.ballots = poll.ballots
        /\ poll' = [request |-> poll'.request, waiting |-> poll'.waiting,
                    ballots |-> poll'.ballots, round |-> poll'.round]
    BY <1>0, <1>1 DEF Shape
  <2>3. Shape'
    BY <1>0, <2>1, <2>2 DEF Shape
  <2>4. BallotsAlive'
    BY <1>0, <2>2 DEF SafeInv, BallotsAlive, IsAlive
  <2>5. VotersStillAlive'
    BY <1>0, <2>1, <2>2 DEF SafeInv, VotersStillAlive, Shape, IsAlive, Value
  <2>6. QED
    BY <1>0, <1>k, <2>3, <2>4, <2>5 DEF SafeInv
<1>2. CASE \E t \in Agents :
             /\ poll' = [poll EXCEPT !.waiting = @ \ {a},
                                     !.ballots = @ \union CastVote(a, t)]
             /\ UNCHANGED hasError
  <2>1. PICK t \in Agents :
          /\ poll' = [poll EXCEPT !.waiting = @ \ {a},
                                  !.ballots = @ \union CastVote(a, t)]
          /\ UNCHANGED hasError
    BY <1>2
  <2>2. /\ poll'.waiting = poll.waiting \ {a}
        /\ poll'.ballots = poll.ballots \union CastVote(a, t)
        /\ poll' = [request |-> poll'.request, waiting |-> poll'.waiting,
                    ballots |-> poll'.ballots, round |-> poll'.round]
    BY <1>0, <2>1 DEF Shape
  <2>3. a \in Agents
    BY <1>0 DEF Shape
  <2>4. CastVote(a, t) \subseteq Vote /\ \A v \in CastVote(a, t) : IsAlive(v.target)
    BY <1>0, <2>3 DEF CastVote, Vote, Key, Value, Shape
  <2>5. Shape'
    BY <1>0, <2>1, <2>2, <2>4 DEF Shape
  <2>6. BallotsAlive'
    BY <1>0, <2>2, <2>4 DEF SafeInv, BallotsAlive, IsAlive
  <2>7. VotersStillAlive'
    BY <1>0, <2>1, <2>2 DEF SafeInv, VotersStillAlive, IsAlive, Value
  <2>8. QED
    BY <1>0, <1>k, <2>5, <2>6, <2>7 DEF SafeInv
<1>3. QED
  BY <1>a, <1>1, <1>2

\* The locals of a vote exist only while votes are collected.
LEMMA NotPolling ==
  ASSUME SafeInv, NEW name, ActionIs(name)
  PROVE  poll = NoPoll
BY DEF SafeInv, ActionIs, At

LEMMA DivineSafe == SafeInv /\ DoDivine => SafeInv'
<1> SUFFICES ASSUME SafeInv, DoDivine PROVE SafeInv'
  OBVIOUS
<1>0. Shape /\ poll' = NoPoll
  BY DEF SafeInv, DoDivine, EndAction
<1>1. CASE NoUsableAnswer("SEER")
  BY <1>0, <1>1, FailuresRaise, FlagStep DEF NoUsableAnswer
<1>2. CASE \E a, t \in Agents :
             /\ Names("SEER", a, t)
             /\ gs' = [gs EXCEPT !.divined = [agent |-> Value(a), target |-> Value(t)]]
  <2>1. PICK a, t \in Agents :
          /\ Names("SEER", a, t)
          /\ gs' = [gs EXCEPT !.divined = [agent |-> Value(a), target |-> Value(t)]]
    BY <1>2
  <2>2. /\ gs'.statusMap = gs.statusMap /\ gs'.guard = gs.guard
        /\ gs'.executed = gs.executed /\ gs'.attacked = gs.attacked
        /\ gs' = [votes |-> gs'.votes, attackVotes |-> gs'.attackVotes,
                  executed |-> gs'.executed, attacked |-> gs'.attacked,
                  guard |-> gs'.guard, divined |-> gs'.divined,
                  medium |-> gs'.medium, statusMap |-> gs'.statusMap]
    BY <1>0, <2>1 DEF Shape
  <2>3. hasError' \in [Agents -> BOOLEAN]
    BY <1>0, <2>1 DEF Names, Shape
  <2>4. QED
    BY <1>0, <2>2, <2>3, QuietStep
<1>3. QED
  BY <1>1, <1>2 DEF DoDivine

\* A guard is recorded only for a target that is alive, hence not one that was
\* already attacked today; that is what keeps GuardHolds when the guard moves.
LEMMA GuardSafe == SafeInv /\ DoGuard => SafeInv'
<1> SUFFICES ASSUME SafeInv, DoGuard PROVE SafeInv'
  OBVIOUS
<1>0. Shape /\ poll' = NoPoll
  BY DEF SafeInv, DoGuard, EndAction
<1>1. CASE NoUsableAnswer("BODYGUARD")
  BY <1>0, <1>1, FailuresRaise, FlagStep DEF NoUsableAnswer
<1>2. CASE \E a, t \in Agents :
             /\ Names("BODYGUARD", a, t)
             /\ gs' = [gs EXCEPT !.guard = [agent |-> Value(a), target |-> Value(t)]]
  <2>1. PICK a, t \in Agents :
          /\ Names("BODYGUARD", a, t)
          /\ gs' = [gs EXCEPT !.guard = [agent |-> Value(a), target |-> Value(t)]]
    BY <1>2
  <2>2. /\ gs'.statusMap = gs.statusMap
        /\ gs'.guard = [agent |-> Value(a), target |-> Value(t)]
        /\ gs'.executed = gs.executed /\ gs'.attacked = gs.attacked
        /\ gs' = [votes |-> gs'.votes, attackVotes |-> gs'.attackVotes,
                  executed |-> gs'.executed, attacked |-> gs'.attacked,
                  guard |-> gs'.guard, divined |-> gs'.divined,
                  medium |-> gs'.medium, statusMap |-> gs'.statusMap]
    BY <1>0, <2>1 DEF Shape
  <2>3. hasError' = hasError
    BY <2>1 DEF Names
  <2>4. IsAlive(Value(a)) /\ IsAlive(Value(t))
    BY <2>1 DEF Names, FirstAlive, First, AliveAgents
  <2>5. /\ Value(a) \in Healthy /\ Value(t) \in Healthy
        /\ gs.statusMap[Value(t)] = "ALIVE"
    BY <1>0, <2>4, AliveIsHealthy
  <2>6. Shape'
    BY <1>0, <2>2, <2>3 DEF Shape, NoPoll
  <2>7. BallotsAlive' /\ VotersStillAlive'
    BY <1>0 DEF NoPoll, BallotsAlive, VotersStillAlive
  <2>8. KeptValuesHealthy' /\ VictimsProper'
    BY <2>2, <2>5 DEF SafeInv, KeptValuesHealthy, VictimsProper
  <2>9. GuardHolds'
    <3>1. gs.attacked # Nil => gs.attacked # Value(t)
      BY <2>5 DEF SafeInv, VictimsProper
    <3>2. QED
      BY <2>2, <3>1 DEF GuardHolds
  <2>10. QED
    BY <1>0, <2>6, <2>7, <2>8, <2>9 DEF SafeInv
<1>3. QED
  BY <1>1, <1>2 DEF DoGuard

LEMMA BeginSafe == SafeInv /\ (BeginExecution \/ BeginAttack) => SafeInv'
<1> SUFFICES ASSUME SafeInv, BeginExecution \/ BeginAttack PROVE SafeInv'
  OBVIOUS
<1>1. /\ UNCHANGED <<hasError, gs>>
      /\ \/ EndAction
         \/ /\ pc' = "poll"
            /\ \/ poll' = Round("VOTE", AliveAgents, 1)
               \/ poll' = Round("ATTACK", AliveWerewolves, 1)
  BY DEF BeginExecution, BeginAttack
<1>2. /\ hasError' \in [Agents -> BOOLEAN]
      /\ gs' = [votes |-> gs'.votes, attackVotes |-> gs'.attackVotes,
                executed |-> gs'.executed, attacked |-> gs'.attacked,
                guard |-> gs'.guard, divined |-> gs'.divined,
                medium |-> gs'.medium, statusMap |-> gs'.statusMap]
  BY <1>1 DEF SafeInv, Shape
<1>3. CASE EndAction
  BY <1>1, <1>2, <1>3, FlagStep DEF EndAction
<1>4. CASE pc' = "poll" /\ poll' = Round("VOTE", AliveAgents, 1)
  BY <1>1, <1>2, <1>4, RoundStep
<1>5. CASE pc' = "poll" /\ poll' = Round("ATTACK", AliveWerewolves, 1)
  <2>1. AliveWerewolves \in SUBSET AliveAgents
    BY DEF AliveWerewolves
  <2>2. QED
    BY <1>1, <1>2, <1>5, <2>1, RoundStep
<1>6. QED
  BY <1>1, <1>3, <1>4, <1>5

LEMMA AdvanceDaySafe == SafeInv /\ AdvanceDay => SafeInv'
<1> SUFFICES ASSUME SafeInv, AdvanceDay PROVE SafeInv'
  OBVIOUS
<1>1. /\ hasError' = hasError /\ gs' = NewGameStatus(gs.statusMap)
      /\ poll' = NoPoll
  BY DEF SafeInv, AdvanceDay, NextDay, At
<1>2. Shape'
  BY <1>1 DEF SafeInv, Shape, NewGameStatus, NoPoll
<1>3. BallotsAlive' /\ VotersStillAlive'
  BY <1>1 DEF NoPoll, BallotsAlive, VotersStillAlive
<1>4. KeptValuesHealthy' /\ GuardHolds' /\ VictimsProper'
  BY <1>1 DEF NewGameStatus, KeptValuesHealthy, GuardHolds, VictimsProper
<1>5. QED
  BY <1>1, <1>2, <1>3, <1>4 DEF SafeInv

\* Executing a candidate: it was alive when the vote for it was cast, and still
\* is, so the write finds its entry, and it is not today's attacked agent.
LEMMA CloseVoteSafe == SafeInv /\ CloseVote => SafeInv'
<1> SUFFICES ASSUME SafeInv, CloseVote PROVE SafeInv'
  OBVIOUS
<1> DEFINE counted == [gs EXCEPT !.votes = poll.ballots]
           candidates == VotedCandidates(poll.ballots)
<1>0. Shape /\ UNCHANGED hasError /\ pc = "poll"
  BY DEF SafeInv, CloseVote, At
<1>1. /\ counted = [votes |-> poll.ballots, attackVotes |-> gs.attackVotes,
                    executed |-> gs.executed, attacked |-> gs.attacked,
                    guard |-> gs.guard, divined |-> gs.divined,
                    medium |-> gs.medium, statusMap |-> gs.statusMap]
  BY <1>0 DEF Shape
<1>2. CASE gs' = counted /\ poll' = Round("VOTE", AliveAgents, poll.round + 1)
           /\ UNCHANGED pc
  BY <1>0, <1>1, <1>2, RoundStep
<1>3. CASE gs' = counted /\ EndAction
  BY <1>0, <1>1, <1>3, QuietStep DEF EndAction, Shape
<1>4. CASE EndAction /\ \E k \in candidates : gs' = Executed(counted, k)
  <2>1. PICK k \in candidates : gs' = Executed(counted, k)
    BY <1>4
  <2>2. PICK v \in poll.ballots : v.target = k
    BY <2>1, CandidatesVoted DEF VotedCandidates
  <2>3. k \in Healthy /\ gs.statusMap[k] = "ALIVE"
    BY <1>0, <2>2, AliveIsHealthy DEF SafeInv, BallotsAlive
  <2>4. /\ gs'.statusMap = Put(gs.statusMap, k, "DEAD") /\ gs'.guard = gs.guard
        /\ gs'.executed = k /\ gs'.attacked = gs.attacked
        /\ gs' = [votes |-> gs'.votes, attackVotes |-> gs'.attackVotes,
                  executed |-> gs'.executed, attacked |-> gs'.attacked,
                  guard |-> gs'.guard, divined |-> gs'.divined,
                  medium |-> gs'.medium, statusMap |-> gs'.statusMap]
    BY <1>1, <2>1 DEF Executed
  <2>5. /\ gs'.statusMap \in [Healthy -> Statuses]
        /\ gs'.statusMap[k] = "DEAD"
        /\ \A x \in Healthy : x # k => gs'.statusMap[x] = gs.statusMap[x]
    BY <1>0, <2>3, <2>4, PutKills DEF Shape
  <2>6. poll' = NoPoll
    BY <1>4 DEF EndAction
  <2>7. Shape'
    BY <1>0, <2>4, <2>5, <2>6 DEF Shape, NoPoll
  <2>8. BallotsAlive' /\ VotersStillAlive'
    BY <2>6 DEF NoPoll, BallotsAlive, VotersStillAlive
  <2>9. KeptValuesHealthy' /\ GuardHolds'
    BY <2>3, <2>4, <2>5 DEF SafeInv, KeptValuesHealthy, GuardHolds
  <2>10. VictimsProper'
    BY <2>3, <2>4, <2>5 DEF SafeInv, KeptValuesHealthy, VictimsProper
  <2>11. QED
    BY <2>6, <2>7, <2>8, <2>9, <2>10 DEF SafeInv
<1>5. QED
  BY <1>2, <1>3, <1>4 DEF CloseVote

\* The same for an attack, where the guard has its say.
LEMMA CloseAttackVoteSafe == SafeInv /\ CloseAttackVote => SafeInv'
<1> SUFFICES ASSUME SafeInv, CloseAttackVote PROVE SafeInv'
  OBVIOUS
<1> DEFINE counted == [gs EXCEPT !.attackVotes = poll.ballots]
           candidates == AttackVotedCandidates(poll.ballots)
<1>0. Shape /\ UNCHANGED hasError /\ pc = "poll"
  BY DEF SafeInv, CloseAttackVote, At
<1>1. /\ counted = [votes |-> gs.votes, attackVotes |-> poll.ballots,
                    executed |-> gs.executed, attacked |-> gs.attacked,
                    guard |-> gs.guard, divined |-> gs.divined,
                    medium |-> gs.medium, statusMap |-> gs.statusMap]
  BY <1>0 DEF Shape
<1>2. CASE gs' = counted /\ poll' = Round("ATTACK", AliveWerewolves, poll.round + 1)
           /\ UNCHANGED pc
  <2>1. AliveWerewolves \in SUBSET AliveAgents
    BY DEF AliveWerewolves
  <2>2. QED
    BY <1>0, <1>1, <1>2, <2>1, RoundStep
<1>3. CASE gs' = counted /\ EndAction
  BY <1>0, <1>1, <1>3, QuietStep DEF EndAction, Shape
<1>4. CASE EndAction /\ \E k \in candidates : gs' = Attacked(counted, k)
  <2>1. PICK k \in candidates : gs' = Attacked(counted, k)
    BY <1>4
  <2>2. PICK v \in poll.ballots : v.target = k /\ Role[k[1]] # "WEREWOLF"
    BY <2>1, CandidatesVoted DEF AttackVotedCandidates
  <2>3. k \in Healthy /\ gs.statusMap[k] = "ALIVE"
    BY <1>0, <2>2, AliveIsHealthy DEF SafeInv, BallotsAlive
  <2>6. poll' = NoPoll
    BY <1>4 DEF EndAction
  <2>c. CASE IsGuarded(counted, k)
    BY <1>0, <1>1, <1>3, <1>4, <2>1, <2>c DEF Attacked
  <2>d. CASE ~IsGuarded(counted, k)
    <3>4. /\ gs'.statusMap = Put(gs.statusMap, k, "DEAD") /\ gs'.guard = gs.guard
          /\ gs'.executed = gs.executed /\ gs'.attacked = k
          /\ gs' = [votes |-> gs'.votes, attackVotes |-> gs'.attackVotes,
                    executed |-> gs'.executed, attacked |-> gs'.attacked,
                    guard |-> gs'.guard, divined |-> gs'.divined,
                    medium |-> gs'.medium, statusMap |-> gs'.statusMap]
      BY <1>1, <2>1, <2>d DEF Attacked
    <3>5. /\ gs'.statusMap \in [Healthy -> Statuses]
          /\ gs'.statusMap[k] = "DEAD"
          /\ \A x \in Healthy : x # k => gs'.statusMap[x] = gs.statusMap[x]
      BY <1>0, <2>3, <3>4, PutKills DEF Shape
    <3>7. Shape'
      BY <1>0, <2>6, <3>4, <3>5 DEF Shape, NoPoll
    <3>8. BallotsAlive' /\ VotersStillAlive'
      BY <2>6 DEF NoPoll, BallotsAlive, VotersStillAlive
    <3>9. KeptValuesHealthy'
      BY <2>3, <3>4 DEF SafeInv, KeptValuesHealthy
    <3>10. GuardHolds'
      <4>1. (gs.guard # Nil /\ gs.guard.target = k)
              => gs.statusMap[gs.guard.agent] # "ALIVE"
        BY <1>0, <1>1, <2>d DEF IsGuarded, SafeInv, KeptValuesHealthy, Shape
      <4>2. (gs.guard # Nil /\ gs.guard.target = k)
              => gs.statusMap[gs.guard.agent] = "DEAD"
        BY <1>0, <4>1 DEF SafeInv, KeptValuesHealthy, Shape, Statuses
      <4>3. QED
        BY <3>4, <3>5, <4>2 DEF GuardHolds, SafeInv, KeptValuesHealthy
    <3>11. VictimsProper'
      BY <2>2, <2>3, <3>4, <3>5 DEF SafeInv, KeptValuesHealthy, VictimsProper
    <3>12. QED
      BY <2>6, <3>7, <3>8, <3>9, <3>10, <3>11 DEF SafeInv
  <2>7. QED
    BY <2>c, <2>d
<1>5. QED
  BY <1>2, <1>3, <1>4 DEF CloseAttackVote

\* All the other actions move nothing but error flags, the winner and control.
LEMMA ControlSafe ==
  SafeInv /\ (\/ Initialize \/ DailyInitialize \/ DailyFinish \/ SkipPhase
              \/ EnterPhase \/ LeavePhase \/ LeaveSection \/ DoTalk \/ DoWhisper
              \/ UnknownAction \/ Finish) => SafeInv'
<1> SUFFICES ASSUME SafeInv,
                    \/ Initialize \/ DailyInitialize \/ DailyFinish \/ SkipPhase
                    \/ EnterPhase \/ LeavePhase \/ LeaveSection \/ DoTalk
                    \/ DoWhisper \/ UnknownAction \/ Finish
             PROVE  SafeInv'
  OBVIOUS
<1>0. Shape
  BY DEF SafeInv
<1>1. UNCHANGED gs
  BY DEF Initialize, DailyInitialize, DailyFinish, SkipPhase, EnterPhase, LeavePhase,
         LeaveSection, DoTalk, DoWhisper, Communicate, UnknownAction, Finish
<1>2. poll' = NoPoll
  BY DEF SafeInv, Initialize, DailyInitialize, DailyFinish, SkipPhase, EnterPhase,
         LeavePhase, LeaveSection, DoTalk, DoWhisper, Communicate, UnknownAction,
         Finish, At, EndAction
<1>3. UNCHANGED hasError \/ (\E asked : MayFail(asked))
  BY DEF Initialize, DailyInitialize, DailyFinish, SkipPhase, EnterPhase, LeavePhase,
         LeaveSection, DoTalk, DoWhisper, Communicate, UnknownAction, Finish
<1>4. hasError' \in [Agents -> BOOLEAN]
  BY <1>0, <1>3, FailuresRaise DEF Shape
<1>5. QED
  BY <1>1, <1>2, <1>4, FlagStep

\* The inductive invariant holds in every reachable state.
THEOREM SafeInvHolds == Spec => []SafeInv
<1>1. SafeInv /\ [Next]_vars => SafeInv'
  <2> SUFFICES ASSUME SafeInv, [Next]_vars PROVE SafeInv'
    OBVIOUS
  <2>1. CASE UNCHANGED vars
    BY <2>1 DEF vars, SafeInv, Shape, BallotsAlive, VotersStillAlive,
                KeptValuesHealthy, GuardHolds, VictimsProper, IsAlive, Value, NoPoll
  <2>2. CASE Next
    BY <2>2, ControlSafe, DivineSafe, GuardSafe, BeginSafe, AskVoterSafe,
       CloseVoteSafe, CloseAttackVoteSafe, AdvanceDaySafe DEF Next
  <2>3. QED
    BY <2>1, <2>2
<1>2. QED
  BY InitSafe, <1>1, PTL DEF Spec

-----------------------------------------------------------------------------
(* The properties of Game *)

\* Game's StatusMap never gains a second entry for an agent whose value changed.
THEOREM OneEntryHolds == Spec => []OneEntryPerAgent
<1>1. SafeInv => OneEntryPerAgent
  BY DEF SafeInv, Shape, OneEntryPerAgent, Healthy
<1>2. QED
  BY <1>1, SafeInvHolds, PTL

\* An attack never kills whom a living bodyguard guarded, for any order of phases.
THEOREM GuardTheorem == Spec => []GuardHolds
<1>1. SafeInv => GuardHolds
  BY DEF SafeInv
<1>2. QED
  BY <1>1, SafeInvHolds, PTL

\* The day's victims are dead, distinct, and the attacked one is no werewolf.
THEOREM VictimsTheorem == Spec => []VictimsProper
<1>1. SafeInv => VictimsProper
  BY DEF SafeInv
<1>2. QED
  BY <1>1, SafeInvHolds, PTL

\* The precomputed list of voters never holds an agent that cannot be asked.
THEOREM VotersTheorem == Spec => []VotersStillAlive
<1>1. SafeInv => VotersStillAlive
  BY DEF SafeInv
<1>2. QED
  BY <1>1, SafeInvHolds, PTL

\* The status map and the list of voters agree with what the agents are now.
THEOREM StatusesTheorem == Spec => []StatusesSound
<1>1. OneEntryPerAgent /\ VotersStillAlive => StatusesSound
  BY DEF StatusesSound
<1>2. QED
  BY <1>1, OneEntryHolds, VotersTheorem, PTL

\* Only the closing of a vote writes StatusMap, and it kills one living agent.
LEMMA VoteKillsOne == SafeInv /\ CloseVote => DeathStep
<1> SUFFICES ASSUME SafeInv, CloseVote, gs'.statusMap # gs.statusMap
             PROVE  DeathStep
  BY DEF DeathStep
<1>1. Shape
  BY DEF SafeInv
<1>2. PICK k \in VotedCandidates(poll.ballots) :
        gs' = Executed([gs EXCEPT !.votes = poll.ballots], k)
  BY <1>1 DEF CloseVote, Shape
<1>3. PICK v \in poll.ballots : v.target = k
  BY <1>2, CandidatesVoted DEF VotedCandidates
<1>4. k \in Healthy /\ gs.statusMap[k] = "ALIVE"
  BY <1>1, <1>3, AliveIsHealthy DEF SafeInv, BallotsAlive
<1>5. gs'.statusMap = Put(gs.statusMap, k, "DEAD") /\ gs'.executed = k
  BY <1>1, <1>2 DEF Executed, Shape
<1>6. gs'.statusMap = [gs.statusMap EXCEPT ![k] = "DEAD"]
  BY <1>1, <1>4, <1>5, PutKills DEF Shape
<1>7. gs.executed # k
  <2>1. k # Nil
    BY <1>4, HealthyNotNil
  <2>2. QED
    BY <1>4, <2>1 DEF SafeInv, VictimsProper
<1>8. QED
  BY <1>1, <1>4, <1>5, <1>6, <1>7 DEF DeathStep, Shape

LEMMA AttackKillsOne == SafeInv /\ CloseAttackVote => DeathStep
<1> SUFFICES ASSUME SafeInv, CloseAttackVote, gs'.statusMap # gs.statusMap
             PROVE  DeathStep
  BY DEF DeathStep
<1>1. Shape
  BY DEF SafeInv
<1>2. PICK k \in AttackVotedCandidates(poll.ballots) :
        gs' = Attacked([gs EXCEPT !.attackVotes = poll.ballots], k)
  BY <1>1 DEF CloseAttackVote, Shape
<1>3. PICK v \in poll.ballots : v.target = k
  BY <1>2, CandidatesVoted DEF AttackVotedCandidates
<1>4. k \in Healthy /\ gs.statusMap[k] = "ALIVE"
  BY <1>1, <1>3, AliveIsHealthy DEF SafeInv, BallotsAlive
<1>5. gs'.statusMap = Put(gs.statusMap, k, "DEAD") /\ gs'.attacked = k
  BY <1>1, <1>2 DEF Attacked, Shape
<1>6. gs'.statusMap = [gs.statusMap EXCEPT ![k] = "DEAD"]
  BY <1>1, <1>4, <1>5, PutKills DEF Shape
<1>7. gs.attacked # k
  <2>1. k # Nil
    BY <1>4, HealthyNotNil
  <2>2. QED
    BY <1>4, <2>1 DEF SafeInv, VictimsProper
<1>8. QED
  BY <1>1, <1>4, <1>5, <1>6, <1>7 DEF DeathStep, Shape

\* A status changes only by one recorded death, and death is final, also across
\* NextDay's copy of the map.
THEOREM DeathTheorem == Spec => DeathIsFinal
<1>1. SafeInv /\ [Next]_vars => DeathStep
  <2> SUFFICES ASSUME SafeInv, [Next]_vars PROVE DeathStep
    OBVIOUS
  <2>1. CASE UNCHANGED vars
    BY <2>1 DEF vars, DeathStep
  <2>2. CASE AdvanceDay
    BY <2>2 DEF AdvanceDay, NextDay, NewGameStatus, DeathStep
  <2>3. CASE DoDivine
    BY <2>3 DEF DoDivine, NoUsableAnswer, DeathStep, SafeInv, Shape
  <2>4. CASE DoGuard
    BY <2>4 DEF DoGuard, NoUsableAnswer, DeathStep, SafeInv, Shape
  <2>5. CASE UNCHANGED gs
    BY <2>5 DEF DeathStep
  <2>6. CASE CloseVote \/ CloseAttackVote
    BY <2>6, VoteKillsOne, AttackKillsOne
  <2>7. QED
    BY <2>1, <2>2, <2>3, <2>4, <2>5, <2>6
    DEF Next, Initialize, DailyInitialize, DailyFinish, SkipPhase, EnterPhase,
        LeavePhase, LeaveSection, DoTalk, DoWhisper, Communicate, UnknownAction,
        BeginExecution, BeginAttack, AskVoter, Finish
<1>2. QED
  BY <1>1, SafeInvHolds, PTL DEF Spec, DeathIsFinal

-----------------------------------------------------------------------------
(* Agents in error *)

\* Error flags only rise.
LEMMA FlagsRise == SafeInv /\ Next => \A a \in Agents : hasError[a] => hasError'[a]
<1> SUFFICES ASSUME SafeInv, Next PROVE \A a \in Agents : hasError[a] => hasError'[a]
  OBVIOUS
<1>1. UNCHANGED hasError \/ (\E asked : MayFail(asked))
  BY DEF Next, Initialize, DailyInitialize, DailyFinish, SkipPhase, EnterPhase,
         LeavePhase, LeaveSection, DoTalk, DoWhisper, Communicate, UnknownAction,
         DoDivine, DoGuard, NoUsableAnswer, Names, BeginExecution, BeginAttack,
         AskVoter, CloseVote, CloseAttackVote, AdvanceDay, Finish
<1>2. QED
  BY <1>1, FailuresRaise DEF SafeInv

\* Agent a has failed, its entry says ALIVE, and no ballot in hand can change that.
Frozen(a) ==
  /\ hasError[a] /\ gs.statusMap[<<a, FALSE>>] = "ALIVE"
  /\ \A v \in poll.ballots : v.target # <<a, FALSE>>

\* What a step leaves behind of an agent nobody has a ballot for.
LEMMA FrozenStep ==
  ASSUME NEW a \in Agents
  PROVE  SafeInv /\ Frozen(a) /\ [Next]_vars => Frozen(a)'
<1> SUFFICES ASSUME SafeInv, Frozen(a), [Next]_vars PROVE Frozen(a)'
  OBVIOUS
<1>0. Shape /\ hasError[a] /\ gs.statusMap[<<a, FALSE>>] = "ALIVE"
      /\ \A v \in poll.ballots : v.target # <<a, FALSE>>
  BY DEF SafeInv, Frozen
<1>1. hasError'[a]
  <2>1. CASE UNCHANGED vars
    BY <1>0, <2>1 DEF vars
  <2>2. CASE Next
    BY <1>0, <2>2, FlagsRise
  <2> QED BY <2>1, <2>2
<1>2. poll'.ballots \subseteq poll.ballots \/ AskVoter
  BY DEF Next, Initialize, DailyInitialize, DailyFinish, SkipPhase, EnterPhase,
         LeavePhase, LeaveSection, DoTalk, DoWhisper, Communicate, UnknownAction,
         DoDivine, DoGuard, BeginExecution, BeginAttack, CloseVote, CloseAttackVote,
         AdvanceDay, Finish, EndAction, NoPoll, Round, vars
<1>3. ASSUME AskVoter PROVE \A v \in poll'.ballots : v.target # <<a, FALSE>>
  <2>1. PICK b \in Agents, t \in Agents : poll'.ballots \subseteq poll.ballots \union CastVote(b, t)
    BY <1>0, <1>3 DEF AskVoter, First, Shape
  <2>2. ASSUME NEW v \in CastVote(b, t) PROVE v.target # <<a, FALSE>>
    <3>1. v.target = Value(t) /\ IsAlive(Value(t))
      BY <2>2 DEF CastVote
    <3>2. v.target = <<t, FALSE>> /\ ~hasError[t]
      BY <1>0, <3>1, ValueHealthy
    <3> QED BY <1>0, <3>2
  <2> QED BY <1>0, <2>1, <2>2
<1>4. gs'.statusMap[<<a, FALSE>>] = "ALIVE"
  <2>1. ASSUME NEW k \in Targets(poll.ballots), gs'.statusMap = Put(gs.statusMap, k, "DEAD")
        PROVE  gs'.statusMap[<<a, FALSE>>] = "ALIVE"
    <3>1. k # <<a, FALSE>>
      BY <1>0, <2>1 DEF Targets
    <3>2. <<a, FALSE>> \in DOMAIN gs.statusMap
      BY <1>0 DEF Shape, Healthy
    <3> QED BY <1>0, <2>1, <3>1, <3>2 DEF Put
  <2>2. CASE CloseVote
    <3> DEFINE counted == [gs EXCEPT !.votes = poll.ballots]
    <3>1. counted.statusMap = gs.statusMap
      BY <1>0 DEF Shape
    <3>2. gs' = counted \/ \E k \in VotedCandidates(poll.ballots) : gs' = Executed(counted, k)
      BY <2>2 DEF CloseVote
    <3>3. ASSUME NEW k \in VotedCandidates(poll.ballots), gs' = Executed(counted, k)
          PROVE  k \in Targets(poll.ballots) /\ gs'.statusMap = Put(gs.statusMap, k, "DEAD")
      BY <1>0, <3>3 DEF VotedCandidates, MaxCountCandidates, Executed, Shape
    <3> QED BY <1>0, <2>1, <3>1, <3>2, <3>3
  <2>3. CASE CloseAttackVote
    <3> DEFINE counted == [gs EXCEPT !.attackVotes = poll.ballots]
    <3>1. counted.statusMap = gs.statusMap
      BY <1>0 DEF Shape
    <3>2. gs' = counted \/ \E k \in AttackVotedCandidates(poll.ballots) : gs' = Attacked(counted, k)
      BY <2>3 DEF CloseAttackVote
    <3>3. ASSUME NEW k \in AttackVotedCandidates(poll.ballots), gs' = Attacked(counted, k)
          PROVE  k \in Targets(poll.ballots)
                 /\ gs'.statusMap \in {gs.statusMap, Put(gs.statusMap, k, "DEAD")}
      BY <1>0, <3>3 DEF AttackVotedCandidates, MaxCountCandidates, Targets, Attacked, Shape
    <3> QED BY <1>0, <2>1, <3>1, <3>2, <3>3
  <2>4. CASE ~CloseVote /\ ~CloseAttackVote
    <3>1. gs'.statusMap = gs.statusMap
      <4>1. CASE AdvanceDay
        BY <4>1 DEF AdvanceDay, NextDay, NewGameStatus
      <4>2. CASE DoDivine
        BY <1>0, <4>2 DEF DoDivine, NoUsableAnswer, Shape
      <4>3. CASE DoGuard
        BY <1>0, <4>3 DEF DoGuard, NoUsableAnswer, Shape
      <4>4. CASE UNCHANGED gs
        BY <4>4
      <4> QED
        BY <2>4, <4>1, <4>2, <4>3, <4>4
        DEF Next, Initialize, DailyInitialize, DailyFinish, SkipPhase, EnterPhase,
            LeavePhase, LeaveSection, DoTalk, DoWhisper, Communicate, UnknownAction,
            BeginExecution, BeginAttack, AskVoter, Finish, vars
    <3> QED BY <1>0, <3>1
  <2> QED BY <2>2, <2>3, <2>4
<1> QED BY <1>0, <1>1, <1>2, <1>3, <1>4 DEF Frozen

\* An agent that is in error at the start of a phase can neither be executed nor be
\* attacked any more, in whatever phases follow: nobody can have a ballot for it.
THEOREM FrozenTheorem == Spec => FailedAgentFrozen
<1> SUFFICES ASSUME NEW a \in Agents
             PROVE  Spec => FrozenForGood(a)
  BY DEF FailedAgentFrozen
<1>1. SafeInv /\ pc = "phase" /\ hasError[a] /\ gs.statusMap[<<a, FALSE>>] = "ALIVE" => Frozen(a)
  <2> SUFFICES ASSUME SafeInv, pc = "phase", hasError[a], gs.statusMap[<<a, FALSE>>] = "ALIVE"
               PROVE  \A v \in poll.ballots : v.target # <<a, FALSE>>
    BY DEF Frozen
  <2>1. poll = NoPoll
    BY DEF SafeInv, Shape
  <2> QED BY <2>1 DEF NoPoll
<1>2. Frozen(a) => gs.statusMap[<<a, FALSE>>] = "ALIVE"
  BY DEF Frozen
<1>3. SafeInv /\ Frozen(a) /\ [Next]_vars => Frozen(a)'
  BY FrozenStep
<1> QED BY <1>1, <1>2, <1>3, SafeInvHolds, PTL DEF Spec, FrozenForGood

-----------------------------------------------------------------------------
(* The winner *)

\* Outside the actions of a phase the stored winner is the one of StatusMap.
WinInv ==
  (pc \notin {"action", "poll"} /\ ~TooManyErrors)
     => winSide = CalcWinSideTeam(gs.statusMap)

\* Flags only rise, so a game that was over the error limit stays over it.
LEMMA ErrorsGrow ==
  ASSUME Shape, Shape', \A a \in Agents : hasError[a] => hasError'[a]
  PROVE  TooManyErrors => TooManyErrors'
<1>1. ErrorAgents \subseteq ErrorAgents'
  BY DEF ErrorAgents
<1>2. IsFiniteSet(Agents) /\ ErrorAgents' \subseteq Agents
  BY FS_Interval, ConfigAssumption DEF Agents, ErrorAgents
<1>3. IsFiniteSet(ErrorAgents')
  BY <1>2, FS_Subset
<1>4. Cardinality(ErrorAgents) <= Cardinality(ErrorAgents')
  BY <1>1, <1>3, FS_Subset
<1>5. Cardinality(ErrorAgents) \in Nat /\ Cardinality(ErrorAgents') \in Nat
  BY <1>1, <1>3, FS_Subset, FS_CardinalityType
<1>6. QED
  BY <1>4, <1>5, ConfigAssumption DEF TooManyErrors

\* Every way to "finish" passes through shouldFinish after the last death, so the
\* winner Start returns is the one of the final StatusMap unless errors stopped
\* the game.  The role table must leave the game undecided at the start.
THEOREM WinTheorem ==
  ASSUME CalcWinSideTeam(NewInitializeGameStatus.statusMap) = "NONE"
  PROVE  Spec => []WinSideAccurate
<1>1. Init => WinInv
  BY DEF Init, WinInv
<1>2. SafeInv /\ SafeInv' /\ WinInv /\ [Next]_vars => WinInv'
  <2> SUFFICES ASSUME SafeInv, SafeInv', WinInv, [Next]_vars,
                      pc' \notin {"action", "poll"}, ~TooManyErrors'
               PROVE  winSide' = CalcWinSideTeam(gs'.statusMap)
    BY DEF WinInv
  <2>1. CASE UNCHANGED vars
    BY <2>1 DEF vars, WinInv, TooManyErrors, ErrorAgents
  <2>2. CASE Next
    <3>1. ~TooManyErrors
      BY <2>2, FlagsRise, ErrorsGrow DEF SafeInv
    <3>2. CASE Initialize \/ DailyInitialize \/ DailyFinish \/ SkipPhase
               \/ LeaveSection \/ Finish
      <4>1. UNCHANGED <<gs, winSide>> /\ pc \notin {"action", "poll"}
        BY <3>2 DEF Initialize, DailyInitialize, DailyFinish, SkipPhase,
                    LeaveSection, Finish, At
      <4>2. QED
        BY <3>1, <4>1 DEF WinInv
    <3>3. CASE LeavePhase
      BY <3>1, <3>3 DEF LeavePhase, RecordWinSide
    <3>4. CASE AdvanceDay
      <4>1. gs'.statusMap = gs.statusMap
        BY <3>4 DEF AdvanceDay, NextDay, NewGameStatus
      <4>2. winSide = CalcWinSideTeam(gs.statusMap)
        BY <3>1, <3>4 DEF AdvanceDay, At, WinInv
      <4>3. winSide' = winSide \/ winSide' = CalcWinSideTeam(gs.statusMap)
        BY <3>1, <3>4 DEF AdvanceDay, RecordWinSide
      <4>4. QED
        BY <4>1, <4>2, <4>3
    <3>5. CASE EnterPhase \/ DoTalk \/ DoWhisper \/ UnknownAction \/ DoDivine
               \/ DoGuard \/ BeginExecution \/ BeginAttack \/ AskVoter
               \/ CloseVote \/ CloseAttackVote
      BY <3>5 DEF EnterPhase, DoTalk, DoWhisper, Communicate, UnknownAction, DoDivine,
                  DoGuard, BeginExecution, BeginAttack, AskVoter, CloseVote,
                  CloseAttackVote, EndAction, At
    <3>6. QED
      BY <2>2, <3>2, <3>3, <3>4, <3>5 DEF Next
  <2>3. QED
    BY <2>1, <2>2
<1>3. WinInv => WinSideAccurate
  BY DEF WinInv, WinSideAccurate
<1>4. QED
  BY <1>1, <1>2, <1>3, SafeInvHolds, PTL DEF Spec

-----------------------------------------------------------------------------
(* Types *)

\* What SafeInv says nothing of: results of the day, control and the winner.
Results ==
  /\ gs.votes \subseteq Vote /\ gs.attackVotes \subseteq Vote
  /\ gs.guard \in Judge \union {Nil}
  /\ gs.divined \in Judge \union {Nil} /\ gs.medium \in Judge \union {Nil}

Control ==
  /\ day \in Nat /\ section \in {"day", "night"}
  /\ phase \in Nat \ {0} /\ action \in Nat \ {0}
  /\ poll.request = "NONE" <=> pc # "poll"
  /\ winSide \in {"WEREWOLF", "VILLAGER", "NONE"}

LEMMA TypeParts == SafeInv /\ Results /\ Control => TypeOK
<1> SUFFICES ASSUME SafeInv, Results, Control PROVE TypeOK
  OBVIOUS
<1>1. Healthy \subseteq Key
  <2>1. \A a \in Agents : <<a, FALSE>> \in Agents \X BOOLEAN
    OBVIOUS
  <2>2. QED
    BY <2>1 DEF Healthy, Key
<1>2. gs.executed \in Key \union {Nil} /\ gs.attacked \in Key \union {Nil}
  BY <1>1 DEF SafeInv, KeptValuesHealthy
<1>3. DOMAIN gs.statusMap = Healthy
  BY DEF SafeInv, Shape
<1>4. QED
  BY <1>1, <1>2, <1>3 DEF SafeInv, Shape, Results, Control, TypeOK

\* A judgement about two agents as they are.
LEMMA ValuesJudge ==
  ASSUME Shape, NEW a \in Agents, NEW t \in Agents
  PROVE  [agent |-> Value(a), target |-> Value(t)] \in Judge
BY DEF Shape, Value, Judge, Key

LEMMA WinnerType ==
  ASSUME NEW m, RecordWinSide(m), winSide \in {"WEREWOLF", "VILLAGER", "NONE"}
  PROVE  winSide' \in {"WEREWOLF", "VILLAGER", "NONE"}
BY DEF RecordWinSide, CalcWinSideTeam

LEMMA NextResults == SafeInv /\ Results /\ [Next]_vars => Results'
<1> SUFFICES ASSUME SafeInv, Results, [Next]_vars PROVE Results'
  OBVIOUS
<1>1. CASE UNCHANGED gs
  BY <1>1 DEF Results
<1>2. CASE DoDivine \/ DoGuard
  <2>1. CASE UNCHANGED gs
    BY <2>1 DEF Results
  <2>2. CASE \E a, t \in Agents :
               \/ gs' = [gs EXCEPT !.divined = [agent |-> Value(a), target |-> Value(t)]]
               \/ gs' = [gs EXCEPT !.guard = [agent |-> Value(a), target |-> Value(t)]]
    BY <2>2, ValuesJudge DEF SafeInv, Shape, Results
  <2>3. QED
    BY <1>2, <2>1, <2>2 DEF DoDivine, DoGuard, NoUsableAnswer
<1>3. CASE CloseVote
  <2> DEFINE counted == [gs EXCEPT !.votes = poll.ballots]
  <2>1. CASE gs' = counted
    BY <2>1 DEF SafeInv, Shape, Results
  <2>2. ASSUME NEW k \in VotedCandidates(poll.ballots), gs' = Executed(counted, k)
        PROVE  Results'
    <3>1. PICK v \in poll.ballots : v.target = k
      BY CandidatesVoted DEF VotedCandidates
    <3>2. k \in Key
      BY <3>1 DEF SafeInv, Shape, Vote
    <3>3. QED
      BY <2>2, <3>2 DEF SafeInv, Shape, Results, Executed, Judge
  <2>3. QED
    BY <1>3, <2>1, <2>2 DEF CloseVote
<1>4. CASE CloseAttackVote
  <2> DEFINE counted == [gs EXCEPT !.attackVotes = poll.ballots]
  <2>1. CASE gs' = counted
    BY <2>1 DEF SafeInv, Shape, Results
  <2>2. ASSUME NEW k, gs' = Attacked(counted, k)
        PROVE  Results'
    BY <2>2 DEF SafeInv, Shape, Results, Attacked
  <2>3. QED
    BY <1>4, <2>1, <2>2 DEF CloseAttackVote
<1>5. CASE AdvanceDay
  BY <1>5 DEF AdvanceDay, NextDay, NewGameStatus, Results
<1>6. QED
  BY <1>1, <1>2, <1>3, <1>4, <1>5
     DEF Next, vars, Initialize, DailyInitialize, DailyFinish, SkipPhase, EnterPhase,
         LeavePhase, LeaveSection, DoTalk, DoWhisper, Communicate, UnknownAction,
         BeginExecution, BeginAttack, AskVoter, Finish

LEMMA NextControl == SafeInv /\ Control /\ [Next]_vars => Control'
<1> SUFFICES ASSUME SafeInv, Control, [Next]_vars PROVE Control'
  OBVIOUS
<1> USE DEF Control, At, ActionIs
<1>1. CASE UNCHANGED vars
  BY <1>1 DEF vars
<1>2. CASE Initialize \/ DailyInitialize \/ DailyFinish \/ SkipPhase \/ EnterPhase \/ Finish
  BY <1>2 DEF Initialize, DailyInitialize, DailyFinish, SkipPhase, EnterPhase, Finish
<1>3. CASE LeaveSection
  BY <1>3 DEF LeaveSection, EndSection
<1>4. CASE LeavePhase
  <2>1. winSide' \in {"WEREWOLF", "VILLAGER", "NONE"}
    BY <1>4, WinnerType DEF LeavePhase
  <2>2. QED
    BY <1>4, <2>1 DEF LeavePhase, EndSection
<1>5. CASE DoTalk \/ DoWhisper \/ UnknownAction \/ DoDivine \/ DoGuard
  BY <1>5 DEF DoTalk, DoWhisper, Communicate, UnknownAction, DoDivine, DoGuard,
              EndAction, NoPoll
<1>6. CASE BeginExecution \/ BeginAttack
  BY <1>6 DEF BeginExecution, BeginAttack, EndAction, NoPoll, Round
<1>7. CASE AskVoter
  BY <1>7 DEF AskVoter, SafeInv, Shape
<1>8. CASE CloseVote \/ CloseAttackVote
  BY <1>8 DEF CloseVote, CloseAttackVote, EndAction, NoPoll, Round
<1>9. CASE AdvanceDay
  <2>1. winSide' \in {"WEREWOLF", "VILLAGER", "NONE"}
    BY <1>9, WinnerType DEF AdvanceDay
  <2>2. QED
    BY <1>9, <2>1 DEF AdvanceDay
<1>10. QED
  BY <1>1, <1>2, <1>3, <1>4, <1>5, <1>6, <1>7, <1>8, <1>9 DEF Next

\* Type correctness of the engine: whoever fails and whatever is voted, the maps
\* are keyed by agents, and the locals of a vote exist while votes are collected.
THEOREM TypeTheorem == Spec => []TypeOK
<1>1. Init => Results /\ Control
  BY DEF Init, Results, Control, NewInitializeGameStatus, NewGameStatus, NoPoll
<1>2. QED
  BY <1>1, TypeParts, NextResults, NextControl, SafeInvHolds, PTL DEF Spec

=============================================================================
