-------------------------- MODULE GameManagerProofs --------------------------
(***************************************************************************)
(* However many connections enter and however their handlers interleave,   *)
(* the waiting room loses nobody and deals nobody twice, a team's          *)
(* connections play in the order they came, the groups are proper games    *)
(* and the registry holds exactly the games that run.                      *)
(***************************************************************************)
EXTENDS GameManager, SequenceTheorems, FiniteSetTheorems, TLAPS

\* A game is running or over only after its handler has returned.
RegistryInv ==
  /\ RegistryExact
  /\ \A c \in Connections : at[c] # "returned" => game[c] = "none"

InRoom(c)   == \E n \in 1..Len(room[TeamOf[c]]) : room[TeamOf[c]][n] = c
InGame(c)   == \E g \in Connections : c \in roster[g]

\* Queues hold connections of their team that have entered, each once.
Queued ==
  \A t \in Teams : \A n \in 1..Len(room[t]) :
    /\ TeamOf[room[t][n]] = t /\ at[room[t][n]] \notin Outside
    /\ ~InGame(room[t][n])
    /\ \A m \in 1..Len(room[t]) : room[t][m] = room[t][n] => m = n

\* Those who play have entered and play one game, which its handler has made.
DealtOnce ==
  /\ \A g \in Connections : \A c \in roster[g] : at[c] \notin Outside
  /\ \A g, h \in Connections : roster[g] \cap roster[h] # {} => g = h
  /\ \A g \in Connections : at[g] \in Outside \union {"matching"} => roster[g] = {}

Nowhere == \A c \in Connections : at[c] \notin Outside => InRoom(c) \/ InGame(c)

PlaceInv == TypeOK /\ Queued /\ DealtOnce /\ Nowhere /\ RostersProper

-----------------------------------------------------------------------------
(* Types *)

LEMMA TakesFit ==
  ASSUME TypeOK, NEW take \in Takes(room, selfMatch)
  PROVE  take \in [Teams -> Nat] /\ \A t \in Teams : take[t] <= Len(room[t])
<1>1. CASE selfMatch
  <2>1. PICK team \in Teams : Len(room[team]) >= AgentCount
                              /\ take = [t \in Teams |-> IF t = team THEN AgentCount ELSE 0]
    BY <1>1 DEF Takes, OfOneTeam
  <2>2. QED
    BY <2>1, RoomAssumption DEF TypeOK, Room
<1>2. CASE ~selfMatch
  <2>1. PICK some \in SUBSET {t \in Teams : room[t] # <<>>} :
               take = [t \in Teams |-> IF t \in some THEN 1 ELSE 0]
    BY <1>2 DEF Takes, OfTeams, kSubset
  <2>2. \A t \in some : Len(room[t]) \in Nat /\ Len(room[t]) # 0
    BY <2>1, EmptySeq DEF TypeOK, Room
  <2>3. QED
    BY <2>1, <2>2 DEF TypeOK, Room
<1>3. QED
  BY <1>1, <1>2

\* What is left of a queue begins behind what was taken.
LEMMA LeftQueue ==
  ASSUME TypeOK, NEW take \in Takes(room, selfMatch), NEW t \in Teams
  PROVE  /\ Left(room, take)[t] \in Seq(Connections)
         /\ Len(Left(room, take)[t]) = Len(room[t]) - take[t]
         /\ \A n \in 1..Len(room[t]) - take[t] : Left(room, take)[t][n] = room[t][take[t] + n]
<1>1. /\ room[t] \in Seq(Connections) /\ Len(room[t]) \in Nat
      /\ take[t] \in Nat /\ take[t] <= Len(room[t])
  BY TakesFit DEF TypeOK, Room
<1>2. Left(room, take)[t] = SubSeq(room[t], take[t] + 1, Len(room[t]))
  BY DEF Left
<1>3. \A i \in take[t] + 1..Len(room[t]) : room[t][i] \in Connections
  BY <1>1
<1>4. take[t] + 1 \in Int /\ Len(room[t]) \in Int
  BY <1>1
<1>5. /\ SubSeq(room[t], take[t] + 1, Len(room[t])) \in Seq(Connections)
      /\ Len(SubSeq(room[t], take[t] + 1, Len(room[t]))) =
           IF take[t] + 1 <= Len(room[t]) THEN Len(room[t]) - (take[t] + 1) + 1 ELSE 0
      /\ \A i \in 1..Len(room[t]) - (take[t] + 1) + 1 :
           SubSeq(room[t], take[t] + 1, Len(room[t]))[i] = room[t][take[t] + 1 + i - 1]
  BY <1>3, <1>4, SubSeqProperties
<1>6. Len(Left(room, take)[t]) = Len(room[t]) - take[t]
  <2>1. Len(Left(room, take)[t]) =
          IF take[t] + 1 <= Len(room[t]) THEN Len(room[t]) - (take[t] + 1) + 1 ELSE 0
    BY <1>2, <1>5, Zenon
  <2>2. QED
    BY <1>1, <2>1
<1>7. ASSUME NEW n \in 1..Len(room[t]) - take[t]
      PROVE  Left(room, take)[t][n] = room[t][take[t] + n]
  <2>1. /\ n \in 1..Len(room[t]) - (take[t] + 1) + 1
        /\ take[t] + 1 + n - 1 = take[t] + n
    BY <1>1
  <2>2. Left(room, take)[t][n] = room[t][take[t] + 1 + n - 1]
    BY <1>2, <1>5, <2>1, Zenon
  <2>3. QED
    BY <2>1, <2>2, Zenon
<1>8. QED
  BY <1>2, <1>5, <1>6, <1>7, Zenon

LEMMA InitType == Init => TypeOK
<1> SUFFICES ASSUME Init PROVE TypeOK
  OBVIOUS
<1>1. room \in Room
  BY DEF Init, Room, EmptyRoom
<1>2. shuttingDown = (trap # "armed") /\ trap \in {"armed", "waiting", "exiting", "exited"}
  BY DEF Init
<1>3. roster \in [Connections -> SUBSET Connections]
  BY DEF Init
<1>4. QED
  BY <1>1, <1>2, <1>3 DEF Init, TypeOK

LEMMA TakenType ==
  ASSUME TypeOK, NEW take \in Takes(room, selfMatch)
  PROVE  Taken(room, take) \in SUBSET Connections
<1>1. ASSUME NEW t \in Teams, NEW n \in 1..take[t]
      PROVE  room[t][n] \in Connections
  <2>1. /\ room[t] \in Seq(Connections) /\ Len(room[t]) \in Nat
        /\ take[t] \in Nat /\ take[t] <= Len(room[t])
    BY TakesFit DEF TypeOK, Room
  <2>2. n \in 1..Len(room[t])
    BY <2>1
  <2>3. QED
    BY <2>1, <2>2
<1>2. QED
  BY <1>1 DEF Taken

LEMMA NextType == TypeOK /\ [Next]_vars => TypeOK'
<1> SUFFICES ASSUME TypeOK, [Next]_vars PROVE TypeOK'
  OBVIOUS
<1> USE DEF TypeOK
<1>1. CASE UNCHANGED vars
  BY <1>1 DEF vars
<1>2. CASE Signal \/ Trap
  BY <1>2 DEF Signal, Trap, AllFinished, Exit
<1>3. ASSUME NEW c \in Connections, Accept(c) \/ Named(c) PROVE TypeOK'
  BY <1>3 DEF Accept, Named, Handler
<1>4. ASSUME NEW c \in Connections, Enter(c) PROVE TypeOK'
  <2>1. TeamOf[c] \in Teams
    BY RoomAssumption
  <2>2. room' \in Room
    BY <1>4, <2>1 DEF Enter, AddConnection, Room
  <2>3. QED
    BY <1>4, <2>2 DEF Enter, Handler
<1>5. ASSUME NEW c \in Connections, Match(c) PROVE TypeOK'
  <2>1. CASE UNCHANGED room
    BY <1>5, <2>1, TakenType DEF Match, Handler
  <2>2. CASE \E take \in Takes(room, selfMatch) :
               roster' = [roster EXCEPT ![c] = Taken(room, take)] /\ room' = Left(room, take)
    <3>1. PICK take \in Takes(room, selfMatch) :
            roster' = [roster EXCEPT ![c] = Taken(room, take)] /\ room' = Left(room, take)
      BY <2>2
    <3>2. room' \in Room
      BY <3>1, LeftQueue DEF Room, Left
    <3>3. roster' \in [Connections -> SUBSET Connections]
      BY <3>1, TakenType
    <3>4. QED
      BY <1>5, <3>2, <3>3 DEF Match, Handler
  <2>3. QED
    BY <1>5, <2>1, <2>2 DEF Match
<1>6. ASSUME NEW c \in Connections, Creates(c) \/ Asks(c) \/ Register(c) \/ StartGame(c) PROVE TypeOK'
  BY <1>6 DEF Creates, Asks, Register, StartGame, Handler
<1>7. ASSUME NEW c \in Connections, Play(c) PROVE TypeOK'
  BY <1>7 DEF Play, GameEnds, DeleteGame
<1>8. QED
  BY <1>1, <1>2, <1>3, <1>4, <1>5, <1>6, <1>7 DEF Next, Serve

LEMMA TypeHolds == Spec => []TypeOK
BY InitType, NextType, PTL DEF Spec

-----------------------------------------------------------------------------
(* The registry *)

LEMMA InitRegistry == Init => RegistryInv
BY DEF Init, RegistryInv, RegistryExact

\* A handler moves on without a game being started or ended.
LEMMA HandlerMoves ==
  ASSUME TypeOK, RegistryInv, NEW c \in Connections, NEW from, NEW to, Handler(c, from, to),
         UNCHANGED <<games, game>>, from \notin {"starting", "returned"}, to # "starting"
  PROVE  RegistryInv'
BY DEF TypeOK, RegistryInv, RegistryExact, Handler

LEMMA NextRegistry == TypeOK /\ RegistryInv /\ [Next]_vars => RegistryInv'
<1> SUFFICES ASSUME TypeOK, RegistryInv, [Next]_vars PROVE RegistryInv'
  OBVIOUS
<1>1. CASE UNCHANGED vars \/ Signal \/ Trap
  BY <1>1 DEF vars, Signal, Trap, AllFinished, Exit, RegistryInv, RegistryExact
<1>2. ASSUME NEW c \in Connections, Accept(c) \/ Named(c) PROVE RegistryInv'
  BY <1>2, HandlerMoves DEF Accept, Named
<1>3. ASSUME NEW c \in Connections, Enter(c) \/ Match(c) PROVE RegistryInv'
  BY <1>3, HandlerMoves DEF Enter, Match
<1>4. ASSUME NEW c \in Connections, Creates(c) \/ Asks(c) PROVE RegistryInv'
  BY <1>4, HandlerMoves DEF Creates, Asks
<1>5. ASSUME NEW c \in Connections, Register(c) PROVE RegistryInv'
  BY <1>5 DEF Register, Handler, TypeOK, RegistryInv, RegistryExact
<1>6. ASSUME NEW c \in Connections, StartGame(c) PROVE RegistryInv'
  BY <1>6 DEF StartGame, Handler, TypeOK, RegistryInv, RegistryExact
<1>7. ASSUME NEW c \in Connections, Play(c) PROVE RegistryInv'
  BY <1>7 DEF Play, GameEnds, DeleteGame, TypeOK, RegistryInv, RegistryExact
<1>8. QED
  BY <1>1, <1>2, <1>3, <1>4, <1>5, <1>6, <1>7 DEF Next, Serve

\* The registry of GameManager holds exactly the games about to start, running
\* or just over, whatever the handlers and the goroutines of the games do.
THEOREM RegistryTheorem == Spec => []RegistryExact
<1>1. RegistryInv => RegistryExact
  BY DEF RegistryInv
<1>2. QED
  BY <1>1, TypeHolds, InitRegistry, NextRegistry, PTL DEF Spec

-----------------------------------------------------------------------------
(* Nobody is lost, dealt twice or overtaken *)

LEMMA InitPlace == Init => PlaceInv
<1> SUFFICES ASSUME Init PROVE PlaceInv
  OBVIOUS
<1>1. \A t \in Teams : room[t] = <<>>
  BY DEF Init, EmptyRoom
<1>2. Queued
  BY <1>1 DEF Queued
<1>3. DealtOnce /\ Nowhere /\ RostersProper
  BY DEF Init, DealtOnce, Nowhere, RostersProper, Outside
<1>4. QED
  BY <1>2, <1>3, InitType DEF PlaceInv

\* A handler moves on without touching the room.
LEMMA PlaceKept ==
  ASSUME PlaceInv, TypeOK', room' = room, roster' = roster, selfMatch' = selfMatch,
         \A c \in Connections :
           /\ at'[c] \in Outside <=> at[c] \in Outside
           /\ at'[c] \in Outside \union {"matching"} => at[c] \in Outside \union {"matching"}
  PROVE  PlaceInv'
<1>1. \A t \in Teams : \A n \in 1..Len(room[t]) : room[t][n] \in Connections
  BY DEF PlaceInv, TypeOK, Room
<1>2. \A g \in Connections : roster[g] \subseteq Connections
  BY DEF PlaceInv, TypeOK
<1>3. Queued'
  BY <1>1 DEF PlaceInv, Queued, InGame
<1>4. DealtOnce'
  BY <1>2 DEF PlaceInv, DealtOnce
<1>5. Nowhere' /\ RostersProper'
  BY DEF PlaceInv, Nowhere, RostersProper, InRoom, InGame
<1>6. QED
  BY <1>3, <1>4, <1>5 DEF PlaceInv

LEMMA EnterPlace ==
  ASSUME PlaceInv, TypeOK', NEW c \in Connections, Enter(c)
  PROVE  PlaceInv'
<1> DEFINE u == TeamOf[c]
<1>1. /\ at[c] = "entering" /\ at' = [at EXCEPT ![c] = "matching"]
      /\ roster' = roster /\ selfMatch' = selfMatch
      /\ room' = [room EXCEPT ![u] = Append(@, c)] /\ u \in Teams
  BY RoomAssumption DEF Enter, Handler, AddConnection
<1>2. /\ room \in [Teams -> Seq(Connections)]
      /\ \A g \in Connections : roster[g] \subseteq Connections
      /\ \A d \in Connections : at'[d] = IF d = c THEN "matching" ELSE at[d]
  BY <1>1 DEF PlaceInv, TypeOK, Room
<1>3. \A t \in Teams : t # u => room'[t] = room[t]
  BY <1>1, <1>2
<1>4. /\ Len(room[u]) \in Nat /\ Len(room'[u]) = Len(room[u]) + 1
      /\ room'[u][Len(room[u]) + 1] = c
      /\ \A n \in 1..Len(room[u]) : room'[u][n] = room[u][n]
  BY <1>1, <1>2
<1>5. /\ \A g \in Connections : c \notin roster[g]
      /\ \A t \in Teams : \A n \in 1..Len(room[t]) : room[t][n] # c
  BY <1>1 DEF PlaceInv, Queued, DealtOnce, Outside
<1>6. \A t \in Teams : \A n \in 1..Len(room[t]) : room[t][n] \in Connections
  BY <1>2
<1>7. Queued'
  <2> SUFFICES ASSUME NEW t \in Teams, NEW n \in 1..Len(room'[t])
               PROVE  /\ TeamOf[room'[t][n]] = t /\ at'[room'[t][n]] \notin Outside
                      /\ \A g \in Connections : room'[t][n] \notin roster[g]
                      /\ \A m \in 1..Len(room'[t]) : room'[t][m] = room'[t][n] => m = n
    BY <1>1 DEF Queued, InGame
  <2>1. CASE t # u
    BY <1>2, <1>3, <1>6, <2>1 DEF PlaceInv, Queued, InGame, Outside
  <2>2. CASE t = u /\ n = Len(room[u]) + 1
    BY <1>2, <1>4, <1>5, <2>2 DEF Outside
  <2>3. CASE t = u /\ n \in 1..Len(room[u])
    <3>1. room'[t][n] = room[t][n] /\ room[t][n] # c /\ room[t][n] \in Connections
      BY <1>4, <1>5, <1>6, <2>3
    <3>2. \A m \in 1..Len(room'[t]) : room'[t][m] = room'[t][n] => m = n
      BY <1>4, <2>3, <3>1 DEF PlaceInv, Queued
    <3>3. QED
      BY <1>2, <2>3, <3>1, <3>2 DEF PlaceInv, Queued, InGame
  <2>4. QED
    BY <1>4, <2>1, <2>2, <2>3
<1>8. DealtOnce'
  BY <1>1, <1>2, <1>5 DEF PlaceInv, DealtOnce, Outside
<1>9. Nowhere'
  <2> SUFFICES ASSUME NEW d \in Connections, at'[d] \notin Outside
               PROVE  InRoom(d)' \/ InGame(d)
    BY <1>1 DEF Nowhere, InGame
  <2>1. CASE d = c
    BY <1>1, <1>4, <2>1 DEF InRoom
  <2>2. CASE d # c /\ InGame(d)
    BY <2>2
  <2>3. CASE d # c /\ InRoom(d)
    <3>1. PICK n \in 1..Len(room[TeamOf[d]]) : room[TeamOf[d]][n] = d
      BY <2>3 DEF InRoom
    <3>2. TeamOf[d] \in Teams
      BY RoomAssumption
    <3>3. n \in 1..Len(room'[TeamOf[d]]) /\ room'[TeamOf[d]][n] = d
      BY <1>3, <1>4, <3>1, <3>2
    <3>4. QED
      BY <3>3 DEF InRoom
  <2>4. QED
    BY <1>2, <2>1, <2>2, <2>3 DEF PlaceInv, Nowhere
<1>10. RostersProper'
  BY <1>1 DEF PlaceInv, RostersProper
<1>11. QED
  BY <1>7, <1>8, <1>9, <1>10 DEF PlaceInv

\* What a step takes from the room, by its place there.
LEMMA TakenAre ==
  ASSUME TypeOK, NEW take \in Takes(room, selfMatch)
  PROVE  /\ \A x : x \in Taken(room, take) <=> \E t \in Teams : \E n \in 1..take[t] : x = room[t][n]
         /\ \A t \in Teams : \A n \in 1..take[t] : n \in 1..Len(room[t]) /\ room[t][n] \in Connections
<1>1. ASSUME NEW t \in Teams, NEW n \in 1..take[t]
      PROVE  n \in 1..Len(room[t]) /\ room[t][n] \in Connections
  <2>1. /\ room[t] \in Seq(Connections) /\ Len(room[t]) \in Nat
        /\ take[t] \in Nat /\ take[t] <= Len(room[t])
    BY TakesFit DEF TypeOK, Room
  <2>2. n \in 1..Len(room[t])
    BY <2>1
  <2>3. QED
    BY <2>1, <2>2
<1>2. QED
  BY <1>1 DEF Taken

LEMMA FromOneTeam ==
  ASSUME PlaceInv, selfMatch, NEW take \in Takes(room, selfMatch)
  PROVE  /\ Cardinality(Taken(room, take)) = AgentCount
         /\ Cardinality({TeamOf[x] : x \in Taken(room, take)}) = 1
<1>1. PICK team \in Teams : take = [t \in Teams |-> IF t = team THEN AgentCount ELSE 0]
  BY DEF Takes, OfOneTeam
<1>2. AgentCount \in Nat /\ AgentCount >= 1
  BY RoomAssumption
<1>3. TypeOK
  BY DEF PlaceInv
<1>4. Taken(room, take) = {room[team][n] : n \in 1..AgentCount}
  <2>1. \A t \in Teams : 1..take[t] = IF t = team THEN 1..AgentCount ELSE {}
    BY <1>1, <1>2
  <2>2. \A x : x \in Taken(room, take) <=> \E t \in Teams : \E n \in 1..take[t] : x = room[t][n]
    BY <1>3, TakenAre
  <2>3. \A x : x \in Taken(room, take) <=> \E n \in 1..AgentCount : x = room[team][n]
    <3> SUFFICES ASSUME NEW x
                 PROVE  (\E t \in Teams : \E n \in 1..take[t] : x = room[t][n])
                          <=> \E n \in 1..AgentCount : x = room[team][n]
      BY <2>2
    <3>1. ASSUME NEW t \in Teams, NEW n \in 1..take[t], x = room[t][n]
          PROVE  \E k \in 1..AgentCount : x = room[team][k]
      <4>1. t = team /\ n \in 1..AgentCount
        BY <2>1
      <4>2. QED
        BY <3>1, <4>1
    <3>2. ASSUME NEW n \in 1..AgentCount, x = room[team][n]
          PROVE  \E t \in Teams : \E k \in 1..take[t] : x = room[t][k]
      BY <2>1, <3>2
    <3>3. QED
      BY <3>1, <3>2
  <2>4. QED
    BY <2>3
<1>5. \A n \in 1..AgentCount : n \in 1..Len(room[team])
  BY <1>1, <1>3, TakenAre
<1> DEFINE f == [n \in 1..AgentCount |-> room[team][n]]
           dealt == Taken(room, take)
<1>6. f \in Bijection(1..AgentCount, dealt)
  <2>1. f \in [1..AgentCount -> dealt] /\ \A x \in dealt : \E n \in 1..AgentCount : f[n] = x
    BY <1>4
  <2>2. \A m, n \in 1..AgentCount : f[m] = f[n] => m = n
    BY <1>5 DEF PlaceInv, Queued
  <2>3. QED
    BY <2>1, <2>2 DEF Bijection, Injection, Surjection, IsInjective
<1>7. IsFiniteSet(1..AgentCount) /\ Cardinality(1..AgentCount) = AgentCount
  BY <1>2, FS_Interval
<1>8. {TeamOf[x] : x \in dealt} = {team}
  BY <1>2, <1>4, <1>5 DEF PlaceInv, Queued
<1>9. Cardinality(dealt) = AgentCount
  <2> HIDE DEF f, dealt
  <2> QED
    BY <1>6, <1>7, FS_Bijection DEF ExistsBijection
<1>10. QED
  BY <1>8, <1>9, FS_Singleton

LEMMA FromManyTeams ==
  ASSUME PlaceInv, ~selfMatch, NEW take \in Takes(room, selfMatch)
  PROVE  /\ Cardinality(Taken(room, take)) = AgentCount
         /\ Cardinality({TeamOf[x] : x \in Taken(room, take)}) = AgentCount
<1>1. PICK some \in SUBSET Teams :
        take = [t \in Teams |-> IF t \in some THEN 1 ELSE 0] /\ Cardinality(some) = AgentCount
  BY DEF Takes, OfTeams, kSubset
<1>2. TypeOK /\ IsFiniteSet(some)
  BY RoomAssumption, FS_Subset DEF PlaceInv
<1>3. Taken(room, take) = {room[t][1] : t \in some}
  BY <1>1, <1>2, TakenAre
<1>4. \A t \in some : 1 \in 1..Len(room[t]) /\ TeamOf[room[t][1]] = t
  <2> SUFFICES ASSUME NEW t \in some PROVE 1 \in 1..Len(room[t]) /\ TeamOf[room[t][1]] = t
    OBVIOUS
  <2>1. 1 \in 1..take[t]
    BY <1>1
  <2>2. 1 \in 1..Len(room[t])
    BY <1>2, <2>1, TakenAre
  <2>3. QED
    BY <2>2 DEF PlaceInv, Queued
<1> DEFINE f == [t \in some |-> room[t][1]]
           dealt == Taken(room, take)
<1>5. f \in Bijection(some, dealt)
  <2>1. f \in [some -> dealt] /\ \A x \in dealt : \E t \in some : f[t] = x
    BY <1>3
  <2>2. \A s, t \in some : f[s] = f[t] => s = t
    BY <1>4
  <2>3. QED
    BY <2>1, <2>2 DEF Bijection, Injection, Surjection, IsInjective
<1>6. {TeamOf[x] : x \in dealt} = some
  BY <1>3, <1>4
<1>7. Cardinality(dealt) = AgentCount
  <2> HIDE DEF f, dealt
  <2> QED
    BY <1>1, <1>2, <1>5, FS_Bijection DEF ExistsBijection
<1>8. QED
  BY <1>1, <1>6, <1>7

LEMMA TakePlace ==
  ASSUME PlaceInv, TypeOK', NEW c \in Connections, Handler(c, "matching", "creating"),
         NEW take \in Takes(room, selfMatch), selfMatch' = selfMatch,
         roster' = [roster EXCEPT ![c] = Taken(room, take)], room' = Left(room, take)
  PROVE  PlaceInv'
<1> DEFINE dealt == Taken(room, take)
<1>1. /\ at[c] = "matching" /\ roster[c] = {} /\ TypeOK
      /\ \A d \in Connections : at'[d] = IF d = c THEN "creating" ELSE at[d]
      /\ \A g \in Connections : roster'[g] = IF g = c THEN dealt ELSE roster[g]
      /\ \A g \in Connections : roster[g] \subseteq Connections
  BY DEF PlaceInv, DealtOnce, Handler, TypeOK
<1>2. \A t \in Teams :
        /\ Len(room[t]) \in Nat /\ take[t] \in Nat /\ take[t] <= Len(room[t])
        /\ Len(room'[t]) = Len(room[t]) - take[t]
        /\ \A n \in 1..Len(room[t]) - take[t] : room'[t][n] = room[t][take[t] + n]
        /\ \A n \in 1..Len(room[t]) : room[t][n] \in Connections
  BY <1>1, TakesFit, LeftQueue DEF TypeOK, Room
<1>3. \A x : x \in dealt <=> \E t \in Teams : \E n \in 1..take[t] : x = room[t][n]
  BY <1>1, TakenAre
<1>4. \A t \in Teams : \A n \in 1..take[t] : n \in 1..Len(room[t])
  BY <1>2
<1> HIDE DEF dealt
<1>5. Queued'
  <2> SUFFICES ASSUME NEW t \in Teams, NEW n \in 1..Len(room'[t])
               PROVE  /\ TeamOf[room'[t][n]] = t /\ at'[room'[t][n]] \notin Outside
                      /\ \A g \in Connections : room'[t][n] \notin roster'[g]
                      /\ \A m \in 1..Len(room'[t]) : room'[t][m] = room'[t][n] => m = n
    BY DEF Queued, InGame
  <2> DEFINE k == take[t] + n
  <2>1. k \in 1..Len(room[t]) /\ k \notin 1..take[t] /\ room'[t][n] = room[t][k]
    BY <1>2
  <2> HIDE DEF k
  <2>2. TeamOf[room[t][k]] = t /\ at'[room[t][k]] \notin Outside
    <3>1. room[t][k] \in Connections /\ TeamOf[room[t][k]] = t /\ at[room[t][k]] \notin Outside
      BY <1>2, <2>1 DEF PlaceInv, Queued
    <3>2. QED
      BY <1>1, <3>1 DEF Outside
  <2>3. room[t][k] \notin dealt
    BY <1>3, <1>4, <2>1, <2>2 DEF PlaceInv, Queued
  <2>4. \A g \in Connections : room[t][k] \notin roster[g]
    BY <2>1 DEF PlaceInv, Queued, InGame
  <2>5. ASSUME NEW m \in 1..Len(room'[t]), room'[t][m] = room'[t][n]
        PROVE  m = n
    <3>1. take[t] + m \in 1..Len(room[t]) /\ room[t][take[t] + m] = room[t][k]
      BY <1>2, <2>1, <2>5
    <3>2. take[t] + m = k
      BY <2>1, <3>1 DEF PlaceInv, Queued
    <3>3. QED
      BY <1>2, <3>2 DEF k
  <2>6. QED
    BY <1>1, <2>1, <2>2, <2>3, <2>4, <2>5
<1>6. \A x \in dealt : x \in Connections /\ at[x] \notin Outside /\ \A g \in Connections : x \notin roster[g]
  BY <1>2, <1>3, <1>4 DEF PlaceInv, Queued, InGame
<1>7. DealtOnce'
  BY <1>1, <1>6 DEF PlaceInv, DealtOnce, Outside
<1>8. Nowhere'
  <2> SUFFICES ASSUME NEW d \in Connections, at'[d] \notin Outside
               PROVE  InRoom(d)' \/ InGame(d)'
    BY DEF Nowhere
  <2>1. at[d] \notin Outside
    BY <1>1 DEF Outside
  <2>2. CASE InGame(d)
    BY <1>1, <2>2 DEF InGame
  <2>3. CASE InRoom(d)
    <3> DEFINE t == TeamOf[d]
    <3>1. PICK n \in 1..Len(room[t]) : room[t][n] = d
      BY <2>3 DEF InRoom
    <3>2. t \in Teams
      BY RoomAssumption
    <3>3. CASE n <= take[t]
      <4>1. d \in dealt
        BY <1>2, <1>3, <3>1, <3>2, <3>3
      <4>2. QED
        BY <1>1, <4>1 DEF InGame
    <3>4. CASE ~(n <= take[t])
      <4>1. PICK j \in 1..Len(room[t]) - take[t] : take[t] + j = n
        <5>1. n - take[t] \in 1..Len(room[t]) - take[t] /\ take[t] + (n - take[t]) = n
          BY <1>2, <3>1, <3>2, <3>4
        <5>2. QED
          BY <5>1
      <4>2. j \in 1..Len(room'[t]) /\ room'[t][j] = d
        BY <1>2, <3>1, <3>2, <4>1
      <4>3. QED
        BY <4>2 DEF InRoom
    <3>5. QED
      BY <3>3, <3>4
  <2>4. QED
    BY <2>1, <2>2, <2>3 DEF PlaceInv, Nowhere
<1>9. RostersProper'
  <2>1. /\ Cardinality(dealt) = AgentCount
        /\ Cardinality({TeamOf[x] : x \in dealt}) = IF selfMatch THEN 1 ELSE AgentCount
    BY FromOneTeam, FromManyTeams DEF dealt
  <2>2. QED
    BY <1>1, <2>1 DEF PlaceInv, RostersProper
<1>10. QED
  BY <1>5, <1>7, <1>8, <1>9 DEF PlaceInv

LEMMA NextPlace == PlaceInv /\ [Next]_vars => PlaceInv'
<1> SUFFICES ASSUME PlaceInv, [Next]_vars PROVE PlaceInv'
  OBVIOUS
<1>1. TypeOK /\ TypeOK'
  BY NextType DEF PlaceInv
<1>2. CASE UNCHANGED vars \/ Signal \/ Trap
  BY <1>1, <1>2, PlaceKept DEF vars, Signal, Trap, AllFinished, Exit
<1>3. ASSUME NEW c \in Connections, NEW from, NEW to, Handler(c, from, to),
             room' = room, roster' = roster, selfMatch' = selfMatch,
             \/ from \in {"new", "naming"} /\ to \in Outside
             \/ from \in {"matching", "creating", "starting"} /\ to \in {"creating", "starting", "returned"}
      PROVE  PlaceInv'
  <2>1. at[c] = from /\ \A d \in Connections : at'[d] = IF d = c THEN to ELSE at[d]
    BY <1>1, <1>3 DEF Handler, TypeOK
  <2>2. \A d \in Connections :
          /\ at'[d] \in Outside <=> at[d] \in Outside
          /\ at'[d] \in Outside \union {"matching"} => at[d] \in Outside \union {"matching"}
    BY <1>3, <2>1 DEF Outside
  <2>3. QED
    BY <1>1, <1>3, <2>2, PlaceKept
<1>4. ASSUME NEW c \in Connections, Accept(c) \/ Named(c) PROVE PlaceInv'
  <2>1. /\ room' = room /\ roster' = roster /\ selfMatch' = selfMatch
        /\ \/ Handler(c, "new", "refused") \/ Handler(c, "new", "naming")
           \/ Handler(c, "naming", "entering") \/ Handler(c, "naming", "refused")
    BY <1>4 DEF Accept, Named
  <2>2. {"refused", "naming", "entering"} \subseteq Outside
    BY DEF Outside
  <2>3. QED
    BY <1>3, <2>1, <2>2
<1>5. ASSUME NEW c \in Connections, Enter(c) PROVE PlaceInv'
  BY <1>1, <1>5, EnterPlace
<1>6. ASSUME NEW c \in Connections, Match(c) PROVE PlaceInv'
  <2>1. CASE Handler(c, "matching", "returned") /\ UNCHANGED <<selfMatch, room, roster>>
    BY <1>3, <2>1
  <2>2. CASE /\ Handler(c, "matching", "creating") /\ selfMatch' = selfMatch
             /\ \E take \in Takes(room, selfMatch) :
                  roster' = [roster EXCEPT ![c] = Taken(room, take)] /\ room' = Left(room, take)
    BY <1>1, <2>2, TakePlace
  <2>3. QED
    BY <1>6, <2>1, <2>2 DEF Match
<1>7. ASSUME NEW c \in Connections, Creates(c) \/ Asks(c) \/ Register(c) \/ StartGame(c) PROVE PlaceInv'
  <2>1. /\ room' = room /\ roster' = roster /\ selfMatch' = selfMatch
        /\ \/ Handler(c, "creating", "creating") \/ Handler(c, "creating", "starting")
           \/ Handler(c, "starting", "returned")
    BY <1>7 DEF Creates, Asks, Register, StartGame
  <2>2. QED
    BY <1>3, <2>1
<1>8. ASSUME NEW c \in Connections, Play(c) PROVE PlaceInv'
  BY <1>1, <1>8, PlaceKept DEF Play, GameEnds, DeleteGame
<1>9. QED
  BY <1>2, <1>4, <1>5, <1>6, <1>7, <1>8 DEF Next, Serve

\* Every connection that has entered has one place, in its team's queue or in
\* the roster of a game that its handler's lock took whole from the room.
THEOREM PlaceHolds == Spec => []PlaceInv
BY InitPlace, NextPlace, PTL DEF Spec

\* Positions in the queue of a connection's team, counted.
LEMMA PlacesCount == PlaceInv => InOnePlace
<1> SUFFICES ASSUME PlaceInv, NEW c \in Connections
             PROVE  Cardinality(Waits(c)) + Cardinality(Plays(c)) = IF at[c] \in Outside THEN 0 ELSE 1
  BY DEF InOnePlace
<1>1. TeamOf[c] \in Teams
  BY RoomAssumption
<1>2. \A n \in Waits(c) : /\ at[c] \notin Outside /\ ~InGame(c)
                           /\ \A m \in Waits(c) : m = n
  BY <1>1 DEF Waits, PlaceInv, Queued
<1>3. \A g \in Plays(c) : at[c] \notin Outside /\ \A h \in Plays(c) : h = g
  BY DEF Plays, PlaceInv, DealtOnce
<1>4. InGame(c) <=> Plays(c) # {}
  BY DEF InGame, Plays
<1>5. InRoom(c) <=> Waits(c) # {}
  BY DEF InRoom, Waits
<1>6. CASE Waits(c) # {}
  <2>1. PICK n : Waits(c) = {n}
    BY <1>2, <1>6
  <2>2. Plays(c) = {} /\ at[c] \notin Outside
    BY <1>2, <1>4, <1>6
  <2>3. Cardinality(Waits(c)) = 1 /\ Cardinality(Plays(c)) = 0
    BY <2>1, <2>2, FS_Singleton, FS_EmptySet, Zenon
  <2>4. QED
    BY <2>2, <2>3
<1>7. CASE Waits(c) = {} /\ Plays(c) # {}
  <2>1. PICK g : Plays(c) = {g}
    BY <1>3, <1>7
  <2>2. at[c] \notin Outside
    BY <1>3, <1>7
  <2>3. Cardinality(Waits(c)) = 0 /\ Cardinality(Plays(c)) = 1
    BY <1>7, <2>1, FS_Singleton, FS_EmptySet, Zenon
  <2>4. QED
    BY <2>2, <2>3
<1>8. CASE Waits(c) = {} /\ Plays(c) = {}
  <2>1. at[c] \in Outside
    BY <1>4, <1>5, <1>8 DEF PlaceInv, Nowhere
  <2>2. Cardinality(Waits(c)) = 0 /\ Cardinality(Plays(c)) = 0
    BY <1>8, FS_EmptySet, Zenon
  <2>3. QED
    BY <2>1, <2>2
<1>9. QED
  BY <1>6, <1>7, <1>8

\* The room of GameManager is sound for any number of clients, teams and games:
\* everybody is in one place and every group taken is a game's.
THEOREM RoomTheorem == Spec => []RoomSound
<1>1. PlaceInv => RoomSound
  BY PlacesCount DEF RoomSound, PlaceInv
<1>2. QED
  BY <1>1, PlaceHolds, PTL

\* A step of GameManager that takes a connection from a queue takes all that
\* entered the team's queue before it.
THEOREM InOrderTheorem == Spec => InOrder
<1> DEFINE Ordered ==
      \A t \in Teams, n \in 1..Cardinality(Connections) :
        (n <= Len(room[t]) /\ \E g \in Connections : room[t][n] \in roster'[g]) =>
          \A m \in 1..n : \E g \in Connections : room[t][m] \in roster'[g]
<1>1. PlaceInv /\ [Next]_vars => [Ordered]_vars
  <2> SUFFICES ASSUME PlaceInv, Next,
                      NEW t \in Teams, NEW n \in 1..Cardinality(Connections), n <= Len(room[t]),
                      NEW g \in Connections, room[t][n] \in roster'[g],
                      NEW m \in 1..n
               PROVE  \E h \in Connections : room[t][m] \in roster'[h]
    OBVIOUS
  <2>1. Len(room[t]) \in Nat /\ n \in 1..Len(room[t]) /\ m \in 1..Len(room[t])
    <3>1. Len(room[t]) \in Nat
      BY DEF PlaceInv, TypeOK, Room
    <3>2. n \in Nat /\ n >= 1 /\ m \in Nat /\ m >= 1 /\ m <= n
      BY FS_CardinalityType, RoomAssumption
    <3>3. QED
      BY <3>1, <3>2
  <2>2. \A h \in Connections : room[t][n] \notin roster[h]
    BY <2>1 DEF PlaceInv, Queued, InGame
  <2>3. roster' # roster
    BY <2>2
  <2>4. PICK c \in Connections : \E take \in Takes(room, selfMatch) : roster' = [roster EXCEPT ![c] = Taken(room, take)]
    BY <2>3 DEF Next, Signal, Trap, AllFinished, Exit, Accept, Named, Serve, Enter, Match, Creates, Asks,
                Register, StartGame, Play, GameEnds, DeleteGame
  <2>5. PICK take \in Takes(room, selfMatch) : roster' = [roster EXCEPT ![c] = Taken(room, take)]
    BY <2>4
  <2>6. TypeOK /\ \A h \in Connections : roster'[h] = IF h = c THEN Taken(room, take) ELSE roster[h]
    BY <2>5 DEF PlaceInv, TypeOK
  <2>7. room[t][n] \in Taken(room, take)
    BY <2>2, <2>6
  <2>8. PICK u \in Teams : \E k \in 1..take[u] : room[t][n] = room[u][k] /\ k \in 1..Len(room[u])
    BY <2>6, <2>7, TakenAre
  <2>9. u = t /\ n \in 1..take[t]
    BY <2>1, <2>8 DEF PlaceInv, Queued
  <2>10. m \in 1..take[t]
    BY <2>6, <2>9, TakesFit
  <2>11. room[t][m] \in Taken(room, take)
    BY <2>6, <2>10, TakenAre
  <2>12. QED
    BY <2>6, <2>11
<1>2. QED
  BY <1>1, PlaceHolds, PTL DEF Spec, InOrder

-----------------------------------------------------------------------------
(* No name is dealt twice *)

Draft == [names : Seq(Names), attempts : Nat, roles : [Roles -> Nat], profiles : Seq(Names)]
Cast  == Seq([role : Roles, name : Names \union Nat])

\* The agents made so far have their numbers or the first of the names dealt.
NamesFrom(g) ==
  /\ IsInjective(profiles) => IsInjective(draft[g].profiles)
  /\ \A i \in DOMAIN agents[g] : agents[g][i].name = IF custom = "off" THEN i ELSE draft[g].profiles[i]
  /\ custom # "off" => Len(agents[g]) <= Len(draft[g].profiles)

NamesInv ==
  /\ profiles \in Seq(Names) /\ draft \in [Connections -> Draft] /\ agents \in [Connections -> Cast]
  /\ making \in [Connections -> {"not", "generating", "dealing", "made", "panicked"}]
  /\ \A g \in Connections :
       /\ making[g] \in {"not", "generating"} => agents[g] = <<>>
       /\ IsInjective(draft[g].names)
       /\ making[g] = "dealing" => NamesFrom(g)
  /\ NamesProper

LEMMA ShuffledNames ==
  ASSUME NEW list \in Seq(Names), NEW shuffled \in Shuffles(list)
  PROVE  shuffled \in Seq(Names) /\ (IsInjective(list) => IsInjective(shuffled))
<1>1. PICK p \in Bijection(DOMAIN list, DOMAIN list) : shuffled = [i \in DOMAIN list |-> list[p[i]]]
  BY DEF Shuffles
<1>2. /\ p \in [DOMAIN list -> DOMAIN list] /\ \A i, j \in DOMAIN list : p[i] = p[j] => i = j
  BY <1>1 DEF Bijection, Injection, IsInjective
<1>3. DOMAIN list = 1..Len(list) /\ Len(list) \in Nat
  OBVIOUS
<1>4. shuffled \in [1..Len(list) -> Names]
  BY <1>1, <1>2, <1>3
<1>5. shuffled \in Seq(Names)
  BY <1>3, <1>4, SeqDef
<1>6. QED
  BY <1>1, <1>2, <1>5 DEF IsInjective

\* The creation of one game moves, the others stay.
Step(g, to) ==
  /\ making' = [making EXCEPT ![g] = to] /\ UNCHANGED <<custom, profiles>>
  /\ \E d \in Draft, a \in Cast : draft' = [draft EXCEPT ![g] = d] /\ agents' = [agents EXCEPT ![g] = a]

LEMMA StepNames ==
  ASSUME NamesInv, NEW g \in Connections, NEW to \in {"not", "generating", "dealing", "made", "panicked"},
         Step(g, to),
         to \in {"not", "generating"} => agents'[g] = <<>>,
         IsInjective(draft'[g].names),
         to = "dealing" => NamesFrom(g)',
         (to = "made" /\ IsInjective(profiles)) =>
            IsInjective([i \in DOMAIN agents'[g] |-> agents'[g][i].name])
  PROVE  NamesInv'
<1>1. /\ draft' \in [Connections -> Draft] /\ agents' \in [Connections -> Cast]
      /\ making' \in [Connections -> {"not", "generating", "dealing", "made", "panicked"}]
      /\ custom' = custom /\ profiles' = profiles /\ profiles' \in Seq(Names)
      /\ making'[g] = to
      /\ \A h \in Connections : h # g => making'[h] = making[h] /\ draft'[h] = draft[h] /\ agents'[h] = agents[h]
  BY DEF NamesInv, Step
<1>2. ASSUME NEW h \in Connections
      PROVE  /\ making'[h] \in {"not", "generating"} => agents'[h] = <<>>
             /\ IsInjective(draft'[h].names)
             /\ making'[h] = "dealing" => NamesFrom(h)'
             /\ (making'[h] = "made" /\ IsInjective(profiles')) =>
                   IsInjective([i \in DOMAIN agents'[h] |-> agents'[h][i].name])
  <2>1. CASE h = g
    BY <1>1, <2>1
  <2>2. CASE h # g
    BY <1>1, <2>2 DEF NamesInv, NamesProper, NamesFrom
  <2>3. QED
    BY <2>1, <2>2
<1>3. NamesProper'
  BY <1>2 DEF NamesProper
<1>4. QED
  BY <1>1, <1>2, <1>3 DEF NamesInv

LEMMA DealsNames ==
  ASSUME NamesInv, NEW g \in Connections, NEW list \in Seq(Names), agents[g] = <<>>,
         IsInjective(profiles) => IsInjective(list),
         making' = [making EXCEPT ![g] = "dealing"], Deals(g, list), UNCHANGED <<custom, profiles, agents>>
  PROVE  NamesInv'
<1>1. PICK shuffled \in Shuffles(list) : draft' = [draft EXCEPT ![g] = [NoDraft EXCEPT !.profiles = shuffled]]
  BY DEF Deals
<1>2. shuffled \in Seq(Names) /\ (IsInjective(profiles) => IsInjective(shuffled))
  BY ShuffledNames
<1> DEFINE d == [names |-> <<>>, attempts |-> 0, roles |-> RoleNum, profiles |-> shuffled]
<1>3. draft' = [draft EXCEPT ![g] = d] /\ d \in Draft
  <2>1. [NoDraft EXCEPT !.profiles = shuffled] = d
    BY DEF NoDraft
  <2>2. d \in Draft
    <3>1. <<>> \in Seq(Names) /\ RoleNum \in [Roles -> Nat]
      BY CreationAssumption
    <3>2. QED
      BY <1>2, <3>1 DEF Draft
  <2>3. QED
    BY <1>1, <2>1, <2>2
<1>4. agents' = [agents EXCEPT ![g] = agents[g]] /\ agents[g] \in Cast
  BY DEF NamesInv
<1>5. draft'[g] = d
  BY <1>3 DEF NamesInv
<1>6. Step(g, "dealing")
  BY <1>3, <1>4 DEF Step
<1>7. IsInjective(draft'[g].names)
  BY <1>5 DEF IsInjective
<1>8. NamesFrom(g)'
  <2>1. agents'[g] = <<>> /\ draft'[g].profiles = shuffled /\ profiles' = profiles
    BY <1>5
  <2>2. Len(shuffled) \in Nat
    BY <1>2
  <2>3. QED
    BY <1>2, <2>1, <2>2 DEF NamesFrom
<1>9. QED
  BY <1>6, <1>7, <1>8, StepNames

\* A step that leaves the draft of g as it is.
LEMMA SameDraft ==
  ASSUME NamesInv, NEW g \in Connections, NEW to \in {"not", "generating", "dealing", "made", "panicked"},
         UNCHANGED <<custom, profiles, draft>>, making' = [making EXCEPT ![g] = to]
  PROVE  /\ agents' = agents => Step(g, to) /\ agents'[g] = agents[g]
         /\ agents' = [agents EXCEPT ![g] = <<>>] => Step(g, to) /\ agents'[g] = <<>>
         /\ IsInjective(draft'[g].names)
<1>1. draft' = [draft EXCEPT ![g] = draft[g]] /\ draft[g] \in Draft /\ IsInjective(draft'[g].names)
  BY DEF NamesInv
<1>2. ASSUME agents' = agents PROVE Step(g, to) /\ agents'[g] = agents[g]
  <2>1. agents' = [agents EXCEPT ![g] = agents[g]] /\ agents[g] \in Cast
    BY <1>2 DEF NamesInv
  <2>2. QED
    BY <1>1, <1>2, <2>1 DEF Step
<1>3. ASSUME agents' = [agents EXCEPT ![g] = <<>>] PROVE Step(g, to) /\ agents'[g] = <<>>
  <2>1. <<>> \in Cast
    BY DEF Cast
  <2>2. QED
    BY <1>1, <1>3, <2>1 DEF Step, NamesInv
<1>4. QED
  BY <1>1, <1>2, <1>3

LEMMA NewGameNames ==
  ASSUME NamesInv, NEW g \in Connections, NewGame(g)
  PROVE  NamesInv'
<1>1. agents[g] = <<>> /\ profiles \in Seq(Names) /\ making[g] = "not"
  BY DEF NamesInv, NewGame, Makes
<1>2. CASE making' = [making EXCEPT ![g] = "dealing"] /\ Deals(g, profiles)
  BY <1>1, <1>2, DealsNames DEF NewGame
<1>3. CASE making' = [making EXCEPT ![g] = "generating"] /\ UNCHANGED draft
  BY <1>1, <1>3, SameDraft, StepNames DEF NewGame
<1>4. QED
  BY <1>2, <1>3 DEF NewGame, Makes

LEMMA AppendNew ==
  ASSUME NEW s \in Seq(Names), IsInjective(s), NEW n \in Names, n \notin Range(s)
  PROVE  Append(s, n) \in Seq(Names) /\ IsInjective(Append(s, n))
<1>1. /\ Len(s) \in Nat /\ DOMAIN s = 1..Len(s) /\ DOMAIN Append(s, n) = 1..Len(s) + 1
      /\ Append(s, n)[Len(s) + 1] = n /\ \A i \in 1..Len(s) : Append(s, n)[i] = s[i] /\ s[i] # n
  BY DEF Range
<1>2. ASSUME NEW i \in 1..Len(s) + 1, NEW j \in 1..Len(s) + 1, Append(s, n)[i] = Append(s, n)[j]
      PROVE  i = j
  BY <1>1, <1>2 DEF IsInjective
<1>3. QED
  BY <1>1, <1>2 DEF IsInjective

LEMMA GenerateNames ==
  ASSUME NamesInv, NEW g \in Connections, GenerateProfile(g)
  PROVE  NamesInv'
<1> DEFINE names == draft[g].names
<1>1. /\ making[g] = "generating" /\ agents[g] = <<>> /\ profiles \in Seq(Names)
      /\ draft[g] \in Draft /\ names \in Seq(Names) /\ IsInjective(names)
      /\ agents' = [agents EXCEPT ![g] = agents[g]] /\ agents[g] \in Cast
      /\ UNCHANGED <<custom, profiles, agents>>
  BY DEF NamesInv, GenerateProfile, Makes, Draft
<1>2. CASE making' = [making EXCEPT ![g] = "dealing"] /\ (Deals(g, profiles) \/ Deals(g, names))
  BY <1>1, <1>2, DealsNames
<1>3. ASSUME NEW d \in Draft, making' = [making EXCEPT ![g] = "generating"],
             draft' = [draft EXCEPT ![g] = d], IsInjective(d.names)
      PROVE  NamesInv'
  <2>1. Step(g, "generating")
    BY <1>1, <1>3 DEF Step
  <2>2. draft'[g] = d /\ agents'[g] = <<>>
    BY <1>1, <1>3 DEF NamesInv
  <2>3. QED
    BY <1>3, <2>1, <2>2, StepNames
<1>4. ASSUME NEW n \in Names, n \notin Range(names), making' = [making EXCEPT ![g] = "generating"],
             draft' = [draft EXCEPT ![g].names = Append(@, n), ![g].attempts = 0]
      PROVE  NamesInv'
  <2> DEFINE new == Append(names, n)
             d == [draft[g] EXCEPT !.names = new, !.attempts = 0]
  <2>1. new \in Seq(Names) /\ IsInjective(new)
    BY <1>1, <1>4, AppendNew
  <2>2. draft' = [draft EXCEPT ![g] = d]
    BY <1>4 DEF NamesInv
  <2> HIDE DEF new
  <2>3. d \in Draft /\ d.names = new
    BY <1>1, <2>1 DEF Draft
  <2> HIDE DEF d
  <2>4. QED
    BY <1>3, <1>4, <2>1, <2>2, <2>3
<1>5. ASSUME making' = [making EXCEPT ![g] = "generating"],
             draft' = [draft EXCEPT ![g].attempts = @ + 1]
      PROVE  NamesInv'
  <2> DEFINE d == [draft[g] EXCEPT !.attempts = @ + 1]
  <2>1. draft' = [draft EXCEPT ![g] = d]
    BY <1>5 DEF NamesInv
  <2> DEFINE n == draft[g].attempts + 1
  <2>2. n \in Nat /\ d = [draft[g] EXCEPT !.attempts = n]
    BY <1>1 DEF Draft
  <2> HIDE DEF n, d
  <2>3. d \in Draft /\ d.names = names
    BY <1>1, <2>2 DEF Draft
  <2>4. QED
    BY <1>1, <1>3, <1>5, <2>1, <2>3
<1>6. QED
  BY <1>2, <1>4, <1>5 DEF GenerateProfile, Makes

LEMMA MakeAgentNames ==
  ASSUME NamesInv, NEW g \in Connections, MakeAgent(g)
  PROVE  NamesInv'
<1> DEFINE i == Len(agents[g]) + 1
           dealt == draft[g].profiles
           to == IF i = AgentCount THEN "made" ELSE "dealing"
<1>1. PICK role \in AssignRole(draft[g].roles) :
        /\ agents' = [agents EXCEPT ![g] =
                        Append(@, [role |-> role, name |-> IF custom = "off" THEN i ELSE dealt[i]])]
        /\ draft' = [draft EXCEPT ![g] =
                       IF i = AgentCount THEN NoDraft
                       ELSE [draft[g] EXCEPT !.roles = Dealt(draft[g].roles, role)]]
  BY DEF MakeAgent
<1>2. /\ making[g] = "dealing" /\ making' = [making EXCEPT ![g] = to] /\ UNCHANGED <<custom, profiles>>
      /\ custom # "off" => i <= Len(dealt)
      /\ draft[g] \in Draft /\ agents[g] \in Cast /\ NamesFrom(g) /\ dealt \in Seq(Names)
      /\ IsInjective(draft[g].names)
  BY DEF MakeAgent, Makes, NamesInv, Draft
<1>3. role \in Roles /\ Dealt(draft[g].roles, role) \in [Roles -> Nat]
  BY <1>2, CreationAssumption DEF AssignRole, Dealt, Draft
<1> DEFINE agent == [role |-> role, name |-> IF custom = "off" THEN i ELSE dealt[i]]
           all == Append(agents[g], agent)
           d == IF i = AgentCount THEN NoDraft ELSE [draft[g] EXCEPT !.roles = Dealt(@, role)]
<1>4. i \in Nat \ {0} /\ Len(agents[g]) \in Nat
  BY <1>2 DEF Cast
<1>5. agent \in [role : Roles, name : Names \union Nat]
  BY <1>2, <1>3, <1>4
<1>6. agent.name = IF custom = "off" THEN i ELSE dealt[i]
  OBVIOUS
<1> HIDE DEF agent
<1>7. /\ all \in Cast /\ Len(all) = i /\ DOMAIN all = 1..i /\ all[i] = agent
      /\ \A j \in 1..Len(agents[g]) : all[j] = agents[g][j]
  BY <1>2, <1>5 DEF Cast
<1> HIDE DEF all
<1>8. \A j \in 1..i : all[j].name = IF custom = "off" THEN j ELSE dealt[j]
  <2>1. \A j \in 1..Len(agents[g]) : all[j].name = IF custom = "off" THEN j ELSE dealt[j]
    <3>1. DOMAIN agents[g] = 1..Len(agents[g])
      BY <1>2 DEF Cast
    <3>2. QED
      BY <1>2, <1>7, <3>1 DEF NamesFrom
  <2>2. all[i].name = IF custom = "off" THEN i ELSE dealt[i]
    BY <1>6, <1>7
  <2>3. \A j \in 1..i : j \in 1..Len(agents[g]) \/ j = i
    BY <1>4
  <2>4. QED
    BY <2>1, <2>2, <2>3
<1>9. d \in Draft /\ IsInjective(d.names) /\ (i # AgentCount => d.profiles = dealt)
  <2>1. NoDraft \in Draft /\ IsInjective(NoDraft.names)
    BY CreationAssumption DEF NoDraft, Draft, IsInjective
  <2>2. CASE i # AgentCount
    BY <1>2, <1>3, <2>2 DEF Draft
  <2>3. QED
    BY <2>1, <2>2
<1> HIDE DEF d
<1>10. /\ agents' = [agents EXCEPT ![g] = all] /\ draft' = [draft EXCEPT ![g] = d]
       /\ agents'[g] = all /\ draft'[g] = d
  <2>1. agents' = [agents EXCEPT ![g] = all]
    BY <1>1 DEF all, agent
  <2>2. draft' = [draft EXCEPT ![g] = d]
    BY <1>1 DEF d
  <2>3. QED
    BY <2>1, <2>2 DEF NamesInv
<1>11. Step(g, to)
  BY <1>2, <1>7, <1>9, <1>10 DEF Step
<1>12. to = "dealing" => NamesFrom(g)'
  BY <1>2, <1>4, <1>7, <1>8, <1>9, <1>10 DEF NamesFrom
<1>13. IsInjective(profiles) => IsInjective([j \in DOMAIN all |-> all[j].name])
  <2> SUFFICES ASSUME IsInjective(profiles), NEW j \in 1..i, NEW k \in 1..i, all[j].name = all[k].name
               PROVE  j = k
    BY <1>7 DEF IsInjective
  <2>1. CASE custom = "off"
    BY <1>8, <2>1
  <2>2. CASE custom # "off"
    <3>1. j \in DOMAIN dealt /\ k \in DOMAIN dealt /\ dealt[j] = dealt[k]
      BY <1>2, <1>4, <1>8, <2>2
    <3>2. QED
      BY <1>2, <3>1 DEF NamesFrom, IsInjective
  <2>3. QED
    BY <2>1, <2>2
<1>14. to \in {"made", "dealing"}
  OBVIOUS
<1> HIDE DEF to
<1>15. QED
  BY <1>9, <1>10, <1>11, <1>12, <1>13, <1>14, StepNames

LEMMA OtherNames ==
  ASSUME NamesInv, NEW g \in Connections, OutOfProfiles(g) \/ HandsOver(g)
  PROVE  NamesInv'
<1>1. CASE OutOfProfiles(g)
  <2>1. Step(g, "panicked") /\ IsInjective(draft'[g].names)
    BY <1>1, SameDraft DEF OutOfProfiles, Makes
  <2>2. QED
    BY <2>1, StepNames
<1>2. CASE HandsOver(g)
  <2>1. Step(g, "not") /\ agents'[g] = <<>> /\ IsInjective(draft'[g].names)
    BY <1>2, SameDraft DEF HandsOver
  <2>2. QED
    BY <2>1, StepNames
<1>3. QED
  BY <1>1, <1>2

LEMMA InitNames == Init => NamesInv
<1> SUFFICES ASSUME Init PROVE NamesInv
  OBVIOUS
<1>1. <<>> \in Seq(Names) /\ <<>> \in Cast /\ RoleNum \in [Roles -> Nat] /\ IsInjective(<<>>)
  BY CreationAssumption DEF Cast, IsInjective
<1>2. NoDraft \in Draft /\ NoDraft.names = <<>>
  BY <1>1 DEF NoDraft, Draft
<1>3. QED
  BY <1>1, <1>2, CreationAssumption DEF Init, CreationInit, NamesInv, NamesProper

LEMMA NextNames == NamesInv /\ [Next]_vars => NamesInv'
<1> SUFFICES ASSUME NamesInv, [Next]_vars PROVE NamesInv'
  OBVIOUS
<1>1. CASE UNCHANGED creation
  BY <1>1 DEF creation, NamesInv, NamesFrom, NamesProper
<1>2. ASSUME NEW c \in Connections, Creates(c) \/ Asks(c) \/ StartGame(c) PROVE NamesInv'
  BY <1>2, NewGameNames, GenerateNames, MakeAgentNames, OtherNames DEF Creates, Asks, StartGame
<1>3. QED
  BY <1>1, <1>2 DEF Next, Signal, Trap, AllFinished, Exit, Accept, Named, Serve, Enter, Match,
                    Register, Play, GameEnds, DeleteGame, vars

\* However many games GameCreation makes at once from one list of profiles, each
\* has every name once.
THEOREM NamesTheorem == Spec => []NamesProper
<1>1. NamesInv => NamesProper
  BY DEF NamesInv
<1>2. QED
  BY <1>1, InitNames, NextNames, PTL DEF Spec

-----------------------------------------------------------------------------
(* Every role is dealt as often as it is set.  What is left to deal is     *)
(* counted by its seats, so that dealing one is taking one element away.   *)

Times(list, r) == Cardinality({i \in DOMAIN list : list[i].role = r})

LEMMA SeatsFinite ==
  ASSUME NEW roles \in [Roles -> Nat]
  PROVE  IsFiniteSet(Seats(roles))
<1> DEFINE f == [r \in Roles |-> {r} \X (1..roles[r])]
           T == {{r} \X (1..roles[r]) : r \in Roles}
<1>1. f \in Surjection(Roles, T)
  BY DEF Surjection
<1>2. IsFiniteSet(T)
  BY <1>1, CreationAssumption, FS_Surjection
<1>3. ASSUME NEW r \in Roles PROVE IsFiniteSet({r} \X (1..roles[r]))
  <2>0. roles[r] \in Int /\ 1 \in Int
    OBVIOUS
  <2>1. IsFiniteSet({r}) /\ IsFiniteSet(1..roles[r])
    BY <2>0, FS_Singleton, FS_Interval
  <2> QED BY <2>1, FS_Product
<1>4. \A S \in T : IsFiniteSet(S)
  BY <1>3
<1>5. IsFiniteSet(UNION T)
  BY <1>2, <1>4, FS_UNION
<1> QED BY <1>5 DEF Seats

LEMMA SeatsAre ==
  ASSUME NEW roles, NEW p
  PROVE  p \in Seats(roles) <=> \E r \in Roles : \E n \in 1..roles[r] : p = <<r, n>>
BY DEF Seats

\* One seat of the role is gone.
LEMMA SeatTaken ==
  ASSUME NEW roles \in [Roles -> Nat], NEW role \in Roles, roles[role] > 0
  PROVE  Cardinality(Seats(Dealt(roles, role))) = Cardinality(Seats(roles)) - 1
<1>1. \A r \in Roles : Dealt(roles, role)[r] = IF r = role THEN roles[r] - 1 ELSE roles[r]
  BY DEF Dealt
<1>2. Seats(Dealt(roles, role)) = Seats(roles) \ {<<role, roles[role]>>}
  <2>1. ASSUME NEW p, p \in Seats(Dealt(roles, role))
        PROVE  p \in Seats(roles) /\ p # <<role, roles[role]>>
    <3>0. PICK r \in Roles : \E n \in 1..Dealt(roles, role)[r] : p = <<r, n>>
      BY <2>1, SeatsAre
    <3>1. PICK n \in 1..Dealt(roles, role)[r] : p = <<r, n>>
      BY <3>0
    <3>2. n \in 1..roles[r] /\ (r = role => n # roles[role])
      BY <1>1, <3>1
    <3>3. p \in Seats(roles)
      BY <3>1, <3>2, SeatsAre
    <3> QED BY <3>1, <3>2, <3>3
  <2>2. ASSUME NEW p, p \in Seats(roles), p # <<role, roles[role]>>
        PROVE  p \in Seats(Dealt(roles, role))
    <3>0. PICK r \in Roles : \E n \in 1..roles[r] : p = <<r, n>>
      BY <2>2, SeatsAre
    <3>1. PICK n \in 1..roles[r] : p = <<r, n>>
      BY <3>0
    <3>2. n \in 1..Dealt(roles, role)[r]
      BY <1>1, <2>2, <3>1
    <3> QED BY <3>1, <3>2, SeatsAre
  <2> QED BY <2>1, <2>2
<1>3. <<role, roles[role]>> \in Seats(roles)
  <2>1. roles[role] \in 1..roles[role]
    OBVIOUS
  <2> QED BY <2>1, SeatsAre
<1>4. IsFiniteSet(Seats(roles))
  BY SeatsFinite
<1> QED BY <1>2, <1>3, <1>4, FS_RemoveElement

LEMMA SeatsLeft ==
  ASSUME NEW roles \in [Roles -> Nat]
  PROVE  /\ Cardinality(Seats(roles)) \in Nat
         /\ Cardinality(Seats(roles)) = 0 <=> \A r \in Roles : roles[r] = 0
<1>1. IsFiniteSet(Seats(roles))
  BY SeatsFinite
<1>2. Seats(roles) = {} => \A r \in Roles : roles[r] = 0
  <2>1. ASSUME NEW r \in Roles, roles[r] # 0 PROVE <<r, 1>> \in Seats(roles)
    BY <2>1, SeatsAre
  <2> QED BY <2>1
<1>3. (\A r \in Roles : roles[r] = 0) => Seats(roles) = {}
  <2>1. ASSUME \A r \in Roles : roles[r] = 0, NEW p \in Seats(roles) PROVE FALSE
    BY <2>1, SeatsAre
  <2> QED BY <2>1
<1> QED BY <1>1, <1>2, <1>3, FS_EmptySet, FS_CardinalityType

LEMMA TimesAppend ==
  ASSUME NEW list \in Cast, NEW agent \in [role : Roles, name : Names \union Nat], NEW r
  PROVE  /\ Times(list, r) \in Nat
         /\ Times(Append(list, agent), r) = Times(list, r) + (IF agent.role = r THEN 1 ELSE 0)
<1> DEFINE all == Append(list, agent)
           now == {i \in DOMAIN list : list[i].role = r}
           then == {i \in DOMAIN all : all[i].role = r}
<1>1. /\ Len(list) \in Nat /\ DOMAIN list = 1..Len(list) /\ DOMAIN all = 1..Len(list) + 1
      /\ all[Len(list) + 1] = agent /\ \A i \in 1..Len(list) : all[i] = list[i]
  BY DEF Cast
<1>2. IsFiniteSet(now)
  <2>1. IsFiniteSet(1..Len(list))
    BY <1>1, FS_Interval
  <2> QED BY <1>1, <2>1, FS_Subset
<1> HIDE DEF all
<1>3. then = IF agent.role = r THEN now \union {Len(list) + 1} ELSE now
  <2>1. \A i \in 1..Len(list) + 1 : i \in 1..Len(list) \/ i = Len(list) + 1
    BY <1>1
  <2>2. \A i \in 1..Len(list) : i \in 1..Len(list) + 1
    BY <1>1
  <2>3. Len(list) + 1 \in 1..Len(list) + 1
    BY <1>1
  <2> QED BY <1>1, <2>1, <2>2, <2>3
<1>4. Len(list) + 1 \notin now
  BY <1>1
<1>5. Cardinality(now) \in Nat
        /\ Cardinality(now \union {Len(list) + 1}) = Cardinality(now) + 1
  BY <1>2, <1>4, FS_AddElement, FS_CardinalityType
<1>6. Times(list, r) = Cardinality(now) /\ Times(all, r) = Cardinality(then)
  BY DEF Times
<1> HIDE DEF now, then
<1>7. Times(all, r) = Times(list, r) + (IF agent.role = r THEN 1 ELSE 0)
  BY <1>3, <1>5, <1>6
<1> QED BY <1>5, <1>6, <1>7 DEF all

\* What a game has of its roles is in its agents or still to be dealt.
RolesFrom(g) ==
  /\ Len(agents[g]) < AgentCount
  /\ Cardinality(Seats(RoleNum)) = AgentCount =>
       /\ Cardinality(Seats(draft[g].roles)) + Len(agents[g]) = AgentCount
       /\ \A r \in Roles : Times(agents[g], r) + draft[g].roles[r] = RoleNum[r]

RolesInv ==
  /\ NamesInv
  /\ \A g \in Connections : making[g] = "dealing" => RolesFrom(g)
  /\ RolesProper

LEMMA InitRoles == Init => RolesInv
BY InitNames DEF Init, CreationInit, RolesInv, RolesProper

\* Nobody has a role yet, and all of them are to be dealt.
LEMMA FreshRoles ==
  ASSUME NEW g \in Connections, agents'[g] = <<>>, draft'[g].roles = RoleNum
  PROVE  RolesFrom(g)'
<1>1. Len(agents'[g]) = 0 /\ AgentCount \in Nat \ {0} /\ RoleNum \in [Roles -> Nat]
  BY RoomAssumption, CreationAssumption
<1>2. ASSUME NEW r \in Roles PROVE Times(agents'[g], r) = 0
  <2>1. {n \in DOMAIN agents'[g] : agents'[g][n].role = r} = {}
    OBVIOUS
  <2> QED BY <2>1, FS_EmptySet DEF Times
<1>3. \A r \in Roles : Times(agents'[g], r) + draft'[g].roles[r] = RoleNum[r]
  BY <1>1, <1>2
<1>4. Cardinality(Seats(RoleNum)) \in Nat
  BY <1>1, SeatsLeft
<1> QED BY <1>1, <1>3, <1>4 DEF RolesFrom

\* The creation of g goes on, and leaves the other games' agents alone.
LEMMA OneDeals ==
  ASSUME RolesInv, NamesInv', NEW g \in Connections,
         \A h \in Connections \ {g} :
           making'[h] = making[h] /\ draft'[h] = draft[h] /\ agents'[h] = agents[h],
         making'[g] = "dealing" => RolesFrom(g)',
         (making'[g] = "made" /\ Cardinality(Seats(RoleNum)) = AgentCount) =>
            \A r \in Roles : Times(agents'[g], r) = RoleNum[r]
  PROVE  RolesInv'
<1>1. ASSUME NEW h \in Connections, making'[h] = "dealing" PROVE RolesFrom(h)'
  <2>1. CASE h # g
    BY <1>1, <2>1 DEF RolesInv, RolesFrom
  <2> QED BY <1>1, <2>1
<1>2. ASSUME NEW h \in Connections, NEW r \in Roles, making'[h] = "made",
             Cardinality(Seats(RoleNum)) = AgentCount
      PROVE  Times(agents'[h], r) = RoleNum[r]
  <2>1. CASE h # g
    BY <1>2, <2>1 DEF RolesInv, RolesProper, Times
  <2> QED BY <1>2, <2>1
<1> QED BY <1>1, <1>2 DEF RolesInv, RolesProper, Times

LEMMA DealsRoles ==
  ASSUME RolesInv, NamesInv', NEW g \in Connections, NEW list, Deals(g, list),
         making' = [making EXCEPT ![g] = "dealing"], agents[g] = <<>>, UNCHANGED agents
  PROVE  RolesInv'
<1>1. making'[g] = "dealing" /\ agents'[g] = <<>> /\ draft'[g].roles = RoleNum
  BY DEF Deals, NoDraft, RolesInv, NamesInv
<1>2. \A h \in Connections \ {g} :
        making'[h] = making[h] /\ draft'[h] = draft[h] /\ agents'[h] = agents[h]
  BY DEF Deals, RolesInv, NamesInv
<1>3. RolesFrom(g)'
  BY <1>1, FreshRoles
<1> QED BY <1>1, <1>2, <1>3, OneDeals

LEMMA NewGameRoles ==
  ASSUME RolesInv, NamesInv', NEW g \in Connections, NewGame(g) \/ GenerateProfile(g)
  PROVE  RolesInv'
<1>1. agents[g] = <<>> /\ UNCHANGED agents
  BY DEF RolesInv, NamesInv, NewGame, GenerateProfile, Makes
<1>2. CASE making' = [making EXCEPT ![g] = "dealing"]
           /\ (Deals(g, profiles) \/ Deals(g, draft[g].names))
  BY <1>1, <1>2, DealsRoles
<1>3. CASE making' = [making EXCEPT ![g] = "generating"]
           /\ \A h \in Connections \ {g} : draft'[h] = draft[h]
  <2>1. making'[g] = "generating" /\ \A h \in Connections \ {g} : making'[h] = making[h]
    BY <1>3 DEF RolesInv, NamesInv
  <2> QED BY <1>1, <1>3, <2>1, OneDeals
<1>4. \/ /\ making' = [making EXCEPT ![g] = "dealing"]
         /\ Deals(g, profiles) \/ Deals(g, draft[g].names)
      \/ /\ making' = [making EXCEPT ![g] = "generating"]
         /\ \A h \in Connections \ {g} : draft'[h] = draft[h]
  BY DEF NewGame, GenerateProfile, Makes, RolesInv, NamesInv
<1> QED BY <1>2, <1>3, <1>4

\* While there are seats left, AssignRole deals one of them, and no villager is
\* made up.
LEMMA DealsASeat ==
  ASSUME NEW roles \in [Roles -> Nat], Cardinality(Seats(roles)) # 0,
         NEW role \in AssignRole(roles)
  PROVE  role \in Roles /\ roles[role] > 0
<1>1. \E r \in Roles : roles[r] > 0
  BY SeatsLeft
<1> QED BY <1>1 DEF AssignRole

LEMMA MakeAgentRoles ==
  ASSUME RolesInv, NamesInv', NEW g \in Connections, MakeAgent(g)
  PROVE  RolesInv'
<1> DEFINE i == Len(agents[g]) + 1
           name == IF custom = "off" THEN i ELSE draft[g].profiles[i]
           roles == draft[g].roles
<1>1. PICK role \in AssignRole(draft[g].roles) :
        /\ agents' = [agents EXCEPT ![g] = Append(@, [role |-> role, name |-> name])]
        /\ draft' = [draft EXCEPT ![g] =
                       IF i = AgentCount THEN NoDraft
                       ELSE [draft[g] EXCEPT !.roles = Dealt(draft[g].roles, role)]]
  BY DEF MakeAgent
<1>2. /\ making[g] = "dealing"
      /\ making' = [making EXCEPT ![g] = IF i = AgentCount THEN "made" ELSE "dealing"]
      /\ custom # "off" => i <= Len(draft[g].profiles)
  BY DEF MakeAgent, Makes
<1>3. /\ draft[g] \in Draft /\ roles \in [Roles -> Nat] /\ agents[g] \in Cast
      /\ Len(agents[g]) \in Nat /\ AgentCount \in Nat /\ RolesFrom(g)
  <2>1. draft[g] \in Draft /\ agents[g] \in Cast /\ RolesFrom(g)
    BY <1>2 DEF RolesInv, NamesInv
  <2>2. roles \in [Roles -> Nat]
    BY <2>1 DEF Draft
  <2>3. Len(agents[g]) \in Nat
    BY <2>1 DEF Cast
  <2> QED BY <2>1, <2>2, <2>3, RoomAssumption
<1>4. role \in Roles /\ Dealt(roles, role) \in [Roles -> Nat]
  BY <1>3, CreationAssumption DEF AssignRole, Dealt
<1>5. name \in Names \union Nat
  BY <1>2, <1>3 DEF Draft
<1> DEFINE agent == [role |-> role, name |-> name]
<1>6. agent \in [role : Roles, name : Names \union Nat] /\ agent.role = role
  BY <1>4, <1>5
<1> HIDE DEF name
<1>7. agents'[g] = Append(agents[g], agent)
  BY <1>1 DEF RolesInv, NamesInv
<1> HIDE DEF agent
<1>8. ASSUME NEW r
      PROVE  /\ Times(agents[g], r) \in Nat
             /\ Times(agents'[g], r) = Times(agents[g], r) + (IF role = r THEN 1 ELSE 0)
  BY <1>3, <1>6, <1>7, TimesAppend
<1>9. ASSUME Cardinality(Seats(RoleNum)) = AgentCount
      PROVE  /\ Cardinality(Seats(Dealt(roles, role))) + i = AgentCount
             /\ \A r \in Roles : Times(agents'[g], r) + Dealt(roles, role)[r] = RoleNum[r]
  <2>1. /\ Cardinality(Seats(roles)) + Len(agents[g]) = AgentCount
        /\ \A r \in Roles : Times(agents[g], r) + roles[r] = RoleNum[r]
        /\ Len(agents[g]) < AgentCount
    BY <1>3, <1>9 DEF RolesFrom
  <2>2. Cardinality(Seats(roles)) \in Nat \ {0}
    BY <1>3, <2>1, SeatsLeft
  <2>3. roles[role] > 0
    BY <1>3, <2>2, DealsASeat
  <2>4. Cardinality(Seats(Dealt(roles, role))) = Cardinality(Seats(roles)) - 1
    BY <1>3, <1>4, <2>3, SeatTaken
  <2>5. \A r \in Roles : Dealt(roles, role)[r] = IF r = role THEN roles[r] - 1 ELSE roles[r]
    BY <1>3, <1>4, <2>3 DEF Dealt
  <2>6. ASSUME NEW r \in Roles
        PROVE  Times(agents'[g], r) + Dealt(roles, role)[r] = RoleNum[r]
    <3>1. roles[r] \in Nat /\ Times(agents[g], r) + roles[r] = RoleNum[r]
      BY <1>3, <2>1
    <3> QED BY <1>8, <2>5, <3>1
  <2>7. Cardinality(Seats(Dealt(roles, role))) + i = AgentCount
    BY <1>3, <2>1, <2>2, <2>4
  <2> QED BY <2>6, <2>7
<1>10. \A h \in Connections \ {g} :
         making'[h] = making[h] /\ draft'[h] = draft[h] /\ agents'[h] = agents[h]
  BY <1>1, <1>2 DEF RolesInv, NamesInv
<1>11. CASE i = AgentCount
  <2>1. making'[g] = "made"
    BY <1>2, <1>11 DEF RolesInv, NamesInv
  <2>2. ASSUME Cardinality(Seats(RoleNum)) = AgentCount, NEW r \in Roles
        PROVE  Times(agents'[g], r) = RoleNum[r]
    <3>1. Cardinality(Seats(Dealt(roles, role))) \in Nat
      BY <1>4, SeatsLeft
    <3>2. Cardinality(Seats(Dealt(roles, role))) = 0
      BY <1>3, <1>9, <1>11, <2>2, <3>1
    <3>3. Dealt(roles, role)[r] = 0
      BY <1>4, <3>2, SeatsLeft
    <3> QED BY <1>8, <1>9, <2>2, <3>3
  <2> QED BY <1>10, <2>1, <2>2, OneDeals
<1>12. CASE i # AgentCount
  <2>1. /\ making'[g] = "dealing"
        /\ draft'[g] = [draft[g] EXCEPT !.roles = Dealt(roles, role)]
    BY <1>1, <1>2, <1>12 DEF RolesInv, NamesInv
  <2>2. draft'[g].roles = Dealt(roles, role)
    BY <1>3, <2>1 DEF Draft
  <2>3. Len(agents'[g]) = i /\ i < AgentCount
    <3>1. Len(agents[g]) < AgentCount
      BY <1>3 DEF RolesFrom
    <3>2. Len(Append(agents[g], agent)) = Len(agents[g]) + 1
      BY <1>3, <1>6 DEF Cast
    <3> QED BY <1>3, <1>7, <1>12, <3>1, <3>2
  <2>4. RolesFrom(g)'
    BY <1>9, <2>2, <2>3 DEF RolesFrom
  <2> QED BY <1>10, <2>1, <2>4, OneDeals
<1> QED BY <1>11, <1>12

LEMMA NextRoles == RolesInv /\ [Next]_vars => RolesInv'
<1> SUFFICES ASSUME RolesInv, [Next]_vars PROVE RolesInv'
  OBVIOUS
<1>0. NamesInv'
  BY NextNames DEF RolesInv
<1>1. CASE UNCHANGED creation
  BY <1>0, <1>1 DEF creation, RolesInv, RolesFrom, RolesProper
<1>2. ASSUME NEW c \in Connections, OutOfProfiles(c) \/ HandsOver(c) PROVE RolesInv'
  <2>1. /\ making'[c] \in {"panicked", "not"}
        /\ \A h \in Connections \ {c} :
             making'[h] = making[h] /\ draft'[h] = draft[h] /\ agents'[h] = agents[h]
    BY <1>2 DEF OutOfProfiles, HandsOver, Makes, RolesInv, NamesInv
  <2> QED BY <1>0, <2>1, OneDeals
<1>3. ASSUME NEW c \in Connections, Creates(c) \/ Asks(c) \/ StartGame(c) PROVE RolesInv'
  BY <1>0, <1>2, <1>3, NewGameRoles, MakeAgentRoles DEF Creates, Asks, StartGame
<1> QED
  BY <1>1, <1>3 DEF Next, Signal, Trap, AllFinished, Exit, Accept, Named, Serve, Enter, Match,
                    Register, Play, GameEnds, DeleteGame, vars

\* The cast of every game has each name once and each role as often as it is
\* set, for any numbers of both and however many games are made at once.
THEOREM CastTheorem == Spec => []CastProper
<1>1. RolesInv => CastProper
  BY DEF RolesInv, NamesInv, CastProper
<1> QED BY <1>1, InitRoles, NextRoles, PTL DEF Spec

-----------------------------------------------------------------------------
(* No full group is stranded.  The counts of NoGroupStranded depend on the *)
(* lengths of the queues alone; q stands for them.                         *)

Lens == [t \in Teams |-> Len(room[t])]

GroupsOf(q)   == {p \in Teams \X (1..Cardinality(Connections)) : p[2] * AgentCount <= q[p[1]]}
FrontOf(q, k) == {p \in Teams \X (1..k) : p[2] <= q[p[1]]}

LEMMA Multiples ==
  ASSUME NEW n \in Nat, NEW m \in Nat, NEW a \in Nat
  PROVE  /\ n * a \in Nat
         /\ (n + 1) * a = n * a + a
         /\ n <= m => n * a <= m * a
         /\ n < m => n * a + a <= m * a
         /\ a # 0 => n <= n * a
         /\ a # 0 /\ n * a = m * a => n = m
<1>1. n * a \in Nat /\ m * a \in Nat
  OBVIOUS
<1>2. (n + 1) * a = n * a + a
  OBVIOUS
<1>3. ASSUME NEW d \in Nat, m = n + d PROVE m * a = n * a + d * a /\ d * a \in Nat
  BY <1>3
<1>4. n <= m => n * a <= m * a
  <2> SUFFICES ASSUME n <= m PROVE n * a <= m * a
    OBVIOUS
  <2> DEFINE d == m - n
  <2>1. d \in Nat /\ m = n + d
    OBVIOUS
  <2> HIDE DEF d
  <2> QED BY <1>1, <1>3, <2>1
<1>5. ASSUME NEW k \in Nat, NEW l \in Nat, k < l PROVE k * a + a <= l * a
  <2> DEFINE d == l - k - 1
  <2>1. d \in Nat /\ l = k + 1 + d
    BY <1>5
  <2> HIDE DEF d
  <2>2. l * a = k * a + a + d * a /\ d * a \in Nat /\ k * a \in Nat
    BY <2>1
  <2> QED BY <2>2
<1>6. a # 0 => n <= n * a
  OBVIOUS
<1>7. a # 0 /\ n * a = m * a => n = m
  <2>1. CASE n < m
    BY <1>1, <1>5, <2>1
  <2>2. CASE m < n
    BY <1>1, <1>5, <2>2
  <2> QED BY <2>1, <2>2
<1> QED BY <1>1, <1>2, <1>4, <1>5, <1>6, <1>7

LEMMA OneMore ==
  ASSUME NEW S, IsFiniteSet(S), NEW o, NEW T, T \subseteq S \union {o}
  PROVE  IsFiniteSet(T) /\ Cardinality(T) <= Cardinality(S) + 1
<1>1. Cardinality(S) \in Nat
  BY FS_CardinalityType
<1>2. IsFiniteSet(S \union {o})
  BY FS_AddElement
<1>3. Cardinality(S \union {o}) \in {Cardinality(S), Cardinality(S) + 1}
  BY FS_AddElement
<1>4. IsFiniteSet(T) /\ Cardinality(T) <= Cardinality(S \union {o})
  BY <1>2, FS_Subset
<1>5. Cardinality(T) \in Nat
  BY <1>4, FS_CardinalityType
<1> QED BY <1>1, <1>3, <1>4, <1>5

LEMMA CountsFinite ==
  ASSUME NEW q, NEW k \in Nat
  PROVE  /\ IsFiniteSet(GroupsOf(q)) /\ Cardinality(GroupsOf(q)) \in Nat
         /\ IsFiniteSet(FrontOf(q, k)) /\ Cardinality(FrontOf(q, k)) \in Nat
<1>1. Cardinality(Connections) \in Nat /\ IsFiniteSet(Teams)
  BY RoomAssumption, FS_CardinalityType
<1>2. IsFiniteSet(1..Cardinality(Connections)) /\ IsFiniteSet(1..k)
  BY <1>1, FS_Interval
<1>3. IsFiniteSet(Teams \X (1..Cardinality(Connections))) /\ IsFiniteSet(Teams \X (1..k))
  BY <1>1, <1>2, FS_Product
<1>4. /\ GroupsOf(q) \in SUBSET (Teams \X (1..Cardinality(Connections)))
      /\ FrontOf(q, k) \in SUBSET (Teams \X (1..k))
  BY DEF GroupsOf, FrontOf
<1>5. IsFiniteSet(GroupsOf(q)) /\ IsFiniteSet(FrontOf(q, k))
  BY <1>3, <1>4, FS_Subset
<1> QED BY <1>5, FS_CardinalityType

\* An arrival completes one group of its team at most.
LEMMA GroupsGrow ==
  ASSUME NEW q \in [Teams -> Nat], NEW r \in [Teams -> Nat], NEW team \in Teams,
         \A t \in Teams : r[t] = IF t = team THEN q[t] + 1 ELSE q[t]
  PROVE  Cardinality(GroupsOf(r)) <= Cardinality(GroupsOf(q)) + 1
<1>1. AgentCount \in Nat \ {0}
  BY RoomAssumption
<1>2. \A p \in GroupsOf(r) \ GroupsOf(q) :
        /\ p \in Teams \X Nat /\ p[1] = team /\ p[2] * AgentCount = q[team] + 1
  <2> TAKE p \in GroupsOf(r) \ GroupsOf(q)
  <2>1. /\ p \in Teams \X (1..Cardinality(Connections))
        /\ p[2] * AgentCount <= r[p[1]] /\ ~(p[2] * AgentCount <= q[p[1]])
    BY DEF GroupsOf
  <2>2. p[1] \in Teams /\ p[2] \in Nat /\ p \in Teams \X Nat
    BY <2>1
  <2>3. p[2] * AgentCount \in Nat
    BY <1>1, <2>2, Multiples
  <2>4. p[1] = team
    BY <2>1, <2>2
  <2> QED BY <2>1, <2>2, <2>3, <2>4
<1>3. ASSUME NEW p \in GroupsOf(r) \ GroupsOf(q), NEW o \in GroupsOf(r) \ GroupsOf(q)
      PROVE  p = o
  <2>1. /\ p \in Teams \X Nat /\ o \in Teams \X Nat /\ p[1] = o[1]
        /\ p[2] \in Nat /\ o[2] \in Nat /\ p[2] * AgentCount = o[2] * AgentCount
    BY <1>2
  <2>2. p[2] = o[2]
    BY <1>1, <2>1, Multiples
  <2> QED BY <2>1, <2>2
<1>4. PICK o : GroupsOf(r) \subseteq GroupsOf(q) \union {o}
  <2>1. CASE GroupsOf(r) \ GroupsOf(q) = {}
    BY <2>1
  <2>2. CASE GroupsOf(r) \ GroupsOf(q) # {}
    <3>1. PICK o : o \in GroupsOf(r) \ GroupsOf(q)
      BY <2>2
    <3>2. \A p \in GroupsOf(r) : p \in GroupsOf(q) \union {o}
      BY <1>3, <3>1
    <3> QED BY <3>2
  <2> QED BY <2>1, <2>2
<1>5. IsFiniteSet(GroupsOf(q))
  BY CountsFinite
<1> QED BY <1>4, <1>5, OneMore

\* A game of one team takes one of its groups.
LEMMA GroupsTaken ==
  ASSUME NEW q \in [Teams -> Nat], NEW r \in [Teams -> Nat], NEW team \in Teams,
         AgentCount <= q[team], q[team] <= Cardinality(Connections),
         \A t \in Teams : r[t] = IF t = team THEN q[t] - AgentCount ELSE q[t]
  PROVE  Cardinality(GroupsOf(r)) + 1 <= Cardinality(GroupsOf(q))
<1> DEFINE N == Cardinality(Connections)
           rest == GroupsOf(q) \ {<<team, 1>>}
           f == [p \in GroupsOf(r) |-> <<p[1], IF p[1] = team THEN p[2] + 1 ELSE p[2]>>]
<1>1. AgentCount \in Nat \ {0} /\ N \in Nat
  BY RoomAssumption, FS_CardinalityType
<1>2. ASSUME NEW p \in GroupsOf(r) PROVE f[p] \in rest
  <2>1. /\ p[1] \in Teams /\ p[2] \in 1..N /\ p[2] * AgentCount <= r[p[1]]
    BY DEF GroupsOf
  <2>2. CASE p[1] = team
    <3>1. /\ (p[2] + 1) * AgentCount = p[2] * AgentCount + AgentCount
          /\ p[2] * AgentCount \in Nat
      BY <1>1, <2>1, Multiples
    <3>2. (p[2] + 1) * AgentCount <= q[team]
      BY <1>1, <2>1, <2>2, <3>1
    <3>3. p[2] + 1 \in Nat /\ p[2] + 1 <= (p[2] + 1) * AgentCount
      BY <1>1, <2>1, Multiples
    <3>4. p[2] + 1 \in 1..N /\ p[2] + 1 # 1
      BY <1>1, <2>1, <3>1, <3>2, <3>3
    <3>5. f[p] = <<team, p[2] + 1>>
      BY <2>2
    <3> HIDE DEF f
    <3> QED BY <3>2, <3>4, <3>5 DEF GroupsOf
  <2>3. CASE p[1] # team
    <3>1. f[p] = <<p[1], p[2]>> /\ p = <<p[1], p[2]>>
      BY <2>3 DEF GroupsOf
    <3> HIDE DEF f
    <3>2. r[p[1]] = q[p[1]]
      BY <2>1, <2>3
    <3> QED BY <2>1, <2>3, <3>1, <3>2 DEF GroupsOf
  <2> QED BY <2>2, <2>3
<1>3. ASSUME NEW p \in GroupsOf(r), NEW o \in GroupsOf(r), f[p] = f[o] PROVE p = o
  <2>1. /\ p = <<p[1], p[2]>> /\ p[2] \in Nat /\ o = <<o[1], o[2]>> /\ o[2] \in Nat
    BY DEF GroupsOf
  <2>2. /\ p[1] = o[1]
        /\ (IF p[1] = team THEN p[2] + 1 ELSE p[2]) = (IF o[1] = team THEN o[2] + 1 ELSE o[2])
    BY <1>3
  <2>3. p[2] = o[2]
    BY <2>1, <2>2
  <2> QED BY <2>1, <2>2, <2>3
<1>4. f \in Injection(GroupsOf(r), rest)
  <2>1. f \in [GroupsOf(r) -> rest]
    BY <1>2
  <2> HIDE DEF f
  <2> QED BY <1>3, <2>1 DEF Injection, IsInjective
<1>5. <<team, 1>> \in GroupsOf(q)
  <2>1. 1 * AgentCount = AgentCount /\ 1 \in 1..N
    BY <1>1
  <2> QED BY <2>1 DEF GroupsOf
<1>6. /\ IsFiniteSet(GroupsOf(q)) /\ Cardinality(GroupsOf(q)) \in Nat
      /\ Cardinality(GroupsOf(r)) \in Nat
  BY CountsFinite
<1>7. IsFiniteSet(rest) /\ Cardinality(rest) = Cardinality(GroupsOf(q)) - 1
  BY <1>5, <1>6, FS_RemoveElement
<1>8. Cardinality(GroupsOf(r)) <= Cardinality(rest)
  BY <1>4, <1>7, FS_Injection
<1> QED BY <1>6, <1>7, <1>8

LEMMA NoGroups ==
  ASSUME NEW q \in [Teams -> Nat], \A t \in Teams : q[t] < AgentCount
  PROVE  Cardinality(GroupsOf(q)) = 0
<1>1. AgentCount \in Nat \ {0}
  BY RoomAssumption
<1>2. ASSUME NEW p \in GroupsOf(q) PROVE FALSE
  <2>1. p[1] \in Teams /\ p[2] \in Nat \ {0} /\ p[2] * AgentCount <= q[p[1]]
    BY DEF GroupsOf
  <2>2. p[2] * AgentCount \in Nat /\ 1 * AgentCount = AgentCount
        /\ 1 * AgentCount <= p[2] * AgentCount
    BY <1>1, <2>1, Multiples
  <2> QED BY <1>1, <2>1, <2>2
<1>3. GroupsOf(q) = {}
  BY <1>2
<1> QED BY <1>3, FS_EmptySet

\* The teams with so many, taken that often, are among the first of every team.
LEMMA FrontHolds ==
  ASSUME NEW q \in [Teams -> Nat], NEW k \in Nat \ {0}, NEW some \in SUBSET Teams,
         \A t \in some : q[t] >= k,
         Cardinality(FrontOf(q, k)) < k * AgentCount
  PROVE  Cardinality(some) < AgentCount
<1>1. AgentCount \in Nat \ {0} /\ IsFiniteSet(some) /\ Cardinality(some) \in Nat
  BY RoomAssumption, FS_Subset, FS_CardinalityType
<1>2. IsFiniteSet(1..k) /\ Cardinality(1..k) = k
  BY FS_Interval
<1>3. IsFiniteSet(some \X (1..k)) /\ Cardinality(some \X (1..k)) = Cardinality(some) * k
  BY <1>1, <1>2, FS_Product
<1>4. some \X (1..k) \in SUBSET FrontOf(q, k)
  BY DEF FrontOf
<1>5. Cardinality(some) * k <= Cardinality(FrontOf(q, k)) /\ Cardinality(FrontOf(q, k)) \in Nat
  <2>1. IsFiniteSet(FrontOf(q, k)) /\ Cardinality(FrontOf(q, k)) \in Nat
    BY CountsFinite
  <2> QED BY <1>3, <1>4, <2>1, FS_Subset
<1>6. CASE AgentCount <= Cardinality(some)
  <2>1. AgentCount * k <= Cardinality(some) * k /\ AgentCount * k = k * AgentCount
        /\ AgentCount * k \in Nat /\ Cardinality(some) * k \in Nat
    BY <1>1, <1>6, Multiples
  <2> QED BY <1>5, <2>1
<1> QED BY <1>1, <1>6

\* An arrival, and one more handler that is going to look.
LEMMA FrontGrows ==
  ASSUME NEW q \in [Teams -> Nat], NEW r \in [Teams -> Nat], NEW team \in Teams,
         \A t \in Teams : r[t] = IF t = team THEN q[t] + 1 ELSE q[t],
         NEW k \in Nat \ {0}, Cardinality(FrontOf(q, k)) < k * AgentCount
  PROVE  Cardinality(FrontOf(r, k + 1)) < (k + 1) * AgentCount
<1> DEFINE some == {t \in Teams : q[t] >= k}
           old == FrontOf(q, k) \union (some \X {k + 1})
<1>1. AgentCount \in Nat \ {0} /\ k * AgentCount \in Nat
      /\ (k + 1) * AgentCount = k * AgentCount + AgentCount
  BY RoomAssumption, Multiples
<1>2. IsFiniteSet(some) /\ Cardinality(some) \in Nat /\ Cardinality(some) < AgentCount
  <2>1. \A t \in some : q[t] >= k
    OBVIOUS
  <2>2. some \in SUBSET Teams
    OBVIOUS
  <2> HIDE DEF some
  <2> QED BY <2>1, <2>2, FrontHolds, RoomAssumption, FS_Subset, FS_CardinalityType
<1>3. FrontOf(r, k + 1) \subseteq old \union {<<team, q[team] + 1>>}
  <2>1. ASSUME NEW p \in FrontOf(r, k + 1)
        PROVE  p \in FrontOf(q, k) \/ p \in some \X {k + 1} \/ p = <<team, q[team] + 1>>
    <3>1. p[1] \in Teams /\ p[2] \in 1..k + 1 /\ p = <<p[1], p[2]>> /\ p[2] <= r[p[1]]
      BY DEF FrontOf
    <3>2. CASE p[2] <= q[p[1]] /\ p[2] <= k
      BY <3>1, <3>2 DEF FrontOf
    <3>3. CASE p[2] <= q[p[1]] /\ p[2] = k + 1
      <4>1. p[1] \in some
        BY <3>1, <3>3
      <4> QED BY <3>1, <3>3, <4>1
    <3>4. CASE ~(p[2] <= q[p[1]])
      <4>1. p[1] = team /\ p[2] = q[team] + 1
        BY <3>1, <3>4
      <4> QED BY <3>1, <4>1
    <3> QED BY <3>1, <3>2, <3>3, <3>4
  <2> QED BY <2>1
<1> HIDE DEF some
<1>4. IsFiniteSet(some \X {k + 1}) /\ Cardinality(some \X {k + 1}) = Cardinality(some)
  <2>1. IsFiniteSet({k + 1}) /\ Cardinality({k + 1}) = 1
    BY FS_Singleton
  <2>2. IsFiniteSet(some \X {k + 1}) /\ Cardinality(some \X {k + 1}) = Cardinality(some) * 1
    BY <1>2, <2>1, FS_Product
  <2> QED BY <1>2, <2>2
<1>5. IsFiniteSet(FrontOf(q, k)) /\ Cardinality(FrontOf(q, k)) \in Nat
  BY CountsFinite
<1>6. /\ IsFiniteSet(old) /\ Cardinality(old) \in Nat
      /\ Cardinality(old) <= Cardinality(FrontOf(q, k)) + Cardinality(some)
  <2>1. /\ IsFiniteSet(old)
        /\ Cardinality(old) = Cardinality(FrontOf(q, k)) + Cardinality(some \X {k + 1})
             - Cardinality(FrontOf(q, k) \cap (some \X {k + 1}))
    BY <1>4, <1>5, FS_Union
  <2>2. Cardinality(FrontOf(q, k) \cap (some \X {k + 1})) \in Nat
    BY <1>5, FS_Intersection, FS_CardinalityType
  <2>3. Cardinality(old) \in Nat
    BY <2>1, FS_CardinalityType
  <2> HIDE DEF old
  <2> QED BY <1>2, <1>4, <1>5, <2>1, <2>2, <2>3
<1> HIDE DEF old
<1>7. /\ Cardinality(FrontOf(r, k + 1)) <= Cardinality(old) + 1
      /\ Cardinality(FrontOf(r, k + 1)) \in Nat
  BY <1>3, <1>6, OneMore, FS_CardinalityType
<1> QED BY <1>1, <1>2, <1>5, <1>6, <1>7

\* Without so many teams that have somebody, no number of games can be made.
LEMMA FrontEmpty ==
  ASSUME NEW q \in [Teams -> Nat], NEW k \in Nat \ {0},
         Cardinality({t \in Teams : q[t] # 0}) < AgentCount
  PROVE  Cardinality(FrontOf(q, k)) < k * AgentCount
<1> DEFINE some == {t \in Teams : q[t] # 0}
<1>1. AgentCount \in Nat \ {0} /\ IsFiniteSet(some) /\ Cardinality(some) \in Nat
  BY RoomAssumption, FS_Subset, FS_CardinalityType
<1>2. FrontOf(q, k) \in SUBSET (some \X (1..k))
  <2>1. ASSUME NEW p \in FrontOf(q, k) PROVE p \in some \X (1..k)
    <3>1. p[1] \in Teams /\ p[2] \in 1..k /\ p = <<p[1], p[2]>> /\ p[2] <= q[p[1]]
      BY DEF FrontOf
    <3>2. p[1] \in some
      BY <3>1
    <3> HIDE DEF some
    <3> QED BY <3>1, <3>2
  <2> QED BY <2>1
<1>3. Cardinality(some) < AgentCount
  OBVIOUS
<1> HIDE DEF some
<1>4. IsFiniteSet(1..k) /\ Cardinality(1..k) = k
  BY FS_Interval
<1>5. IsFiniteSet(some \X (1..k)) /\ Cardinality(some \X (1..k)) = Cardinality(some) * k
  BY <1>1, <1>4, FS_Product
<1>6. Cardinality(FrontOf(q, k)) <= Cardinality(some) * k /\ Cardinality(FrontOf(q, k)) \in Nat
  BY <1>2, <1>5, FS_Subset, CountsFinite
<1>7. /\ Cardinality(some) * k + k <= AgentCount * k /\ AgentCount * k = k * AgentCount
      /\ Cardinality(some) * k \in Nat /\ AgentCount * k \in Nat
  BY <1>1, <1>3, Multiples
<1> QED BY <1>6, <1>7

\* A game of different teams takes the first of AgentCount of them.
LEMMA FrontTaken ==
  ASSUME NEW q \in [Teams -> Nat], NEW r \in [Teams -> Nat], NEW some \in SUBSET Teams,
         Cardinality(some) = AgentCount, \A t \in some : q[t] # 0,
         \A t \in Teams : r[t] = IF t \in some THEN q[t] - 1 ELSE q[t],
         NEW k \in Nat
  PROVE  Cardinality(FrontOf(r, k)) + AgentCount <= Cardinality(FrontOf(q, k + 1))
<1> DEFINE rest == FrontOf(q, k + 1) \ (some \X {1})
           f == [p \in FrontOf(r, k) |-> <<p[1], IF p[1] \in some THEN p[2] + 1 ELSE p[2]>>]
<1>1. AgentCount \in Nat \ {0} /\ IsFiniteSet(some)
  BY RoomAssumption, FS_Subset
<1>2. ASSUME NEW p \in FrontOf(r, k) PROVE f[p] \in rest
  <2>1. p[1] \in Teams /\ p[2] \in 1..k /\ p[2] <= r[p[1]]
    BY DEF FrontOf
  <2>2. CASE p[1] \in some
    <3>1. p[2] + 1 \in 1..k + 1 /\ p[2] + 1 # 1 /\ p[2] + 1 <= q[p[1]]
      BY <2>1, <2>2
    <3>2. f[p] = <<p[1], p[2] + 1>>
      BY <2>2
    <3> HIDE DEF f
    <3> QED BY <2>1, <3>1, <3>2 DEF FrontOf
  <2>3. CASE p[1] \notin some
    <3>1. p[2] \in 1..k + 1 /\ p[2] <= q[p[1]]
      BY <2>1, <2>3
    <3>2. f[p] = <<p[1], p[2]>>
      BY <2>3
    <3> HIDE DEF f
    <3> QED BY <2>1, <2>3, <3>1, <3>2 DEF FrontOf
  <2> QED BY <2>2, <2>3
<1>3. ASSUME NEW p \in FrontOf(r, k), NEW o \in FrontOf(r, k), f[p] = f[o] PROVE p = o
  <2>1. /\ p = <<p[1], p[2]>> /\ p[2] \in Nat /\ o = <<o[1], o[2]>> /\ o[2] \in Nat
    BY DEF FrontOf
  <2>2. /\ p[1] = o[1]
        /\ (IF p[1] \in some THEN p[2] + 1 ELSE p[2]) = (IF o[1] \in some THEN o[2] + 1 ELSE o[2])
    BY <1>3
  <2>3. p[2] = o[2]
    BY <2>1, <2>2
  <2> QED BY <2>1, <2>2, <2>3
<1>4. f \in Injection(FrontOf(r, k), rest)
  <2>1. f \in [FrontOf(r, k) -> rest]
    BY <1>2
  <2> HIDE DEF f
  <2> QED BY <1>3, <2>1 DEF Injection, IsInjective
<1>5. some \X {1} \subseteq FrontOf(q, k + 1)
  BY DEF FrontOf
<1>6. IsFiniteSet(some \X {1}) /\ Cardinality(some \X {1}) = AgentCount
  <2>1. IsFiniteSet({1}) /\ Cardinality({1}) = 1
    BY FS_Singleton
  <2>2. IsFiniteSet(some \X {1}) /\ Cardinality(some \X {1}) = Cardinality(some) * 1
    BY <1>1, <2>1, FS_Product
  <2> QED BY <1>1, <2>2
<1>7. /\ IsFiniteSet(FrontOf(q, k + 1)) /\ Cardinality(FrontOf(q, k + 1)) \in Nat
      /\ Cardinality(FrontOf(r, k)) \in Nat
  BY CountsFinite
<1>8. IsFiniteSet(rest) /\ Cardinality(rest) = Cardinality(FrontOf(q, k + 1)) - AgentCount
  <2>1. FrontOf(q, k + 1) \cap (some \X {1}) = some \X {1}
    BY <1>5
  <2>2. /\ IsFiniteSet(rest)
        /\ Cardinality(rest) = Cardinality(FrontOf(q, k + 1))
                                  - Cardinality(FrontOf(q, k + 1) \cap (some \X {1}))
    BY <1>7, FS_Difference
  <2> HIDE DEF rest
  <2> QED BY <1>6, <2>1, <2>2
<1>9. Cardinality(FrontOf(r, k)) <= Cardinality(rest)
  BY <1>4, <1>8, FS_Injection
<1> QED BY <1>1, <1>7, <1>8, <1>9

\* A set with enough elements has a subset with as many as are asked for.
LEMMA SubsetsExist ==
  ASSUME NEW S, IsFiniteSet(S), NEW k \in Nat, k <= Cardinality(S)
  PROVE  kSubset(k, S) # {}
<1>1. PICK f : f \in Bijection(1..Cardinality(S), S)
  BY FS_CardinalityType DEF ExistsBijection
<1> DEFINE T == {f[n] : n \in 1..k}
           g == [n \in 1..k |-> f[n]]
<1>2. Cardinality(S) \in Nat /\ \A n \in 1..k : n \in 1..Cardinality(S)
  BY FS_CardinalityType
<1>3. T \subseteq S /\ g \in Bijection(1..k, T)
  BY <1>1, <1>2 DEF Bijection, Injection, Surjection, IsInjective
<1>4. Cardinality(T) = k
  BY <1>3, FS_CountingElements DEF ExistsBijection
<1> QED BY <1>3, <1>4 DEF kSubset

Looking == {c \in Connections : at[c] = "matching"}

\* What NoGroupStranded says of the lengths of the queues and of those looking.
Served(q, many) ==
  IF selfMatch THEN Cardinality(GroupsOf(q)) <= many
  ELSE Cardinality(FrontOf(q, many + 1)) < (many + 1) * AgentCount

LEMMA LookingFinite == IsFiniteSet(Looking) /\ Cardinality(Looking) \in Nat
BY RoomAssumption, FS_Subset, FS_CardinalityType DEF Looking

ServedNow == Served(Lens, Cardinality(Looking))

LEMMA ServedIs == TypeOK => (NoGroupStranded <=> ServedNow)
<1> SUFFICES ASSUME TypeOK PROVE NoGroupStranded <=> ServedNow
  OBVIOUS
<1>1. Cardinality(Looking) \in Nat /\ AgentCount \in Nat
  BY LookingFinite, RoomAssumption
<1>2. Groups = GroupsOf(Lens) /\ \A k : Front(k) = FrontOf(Lens, k)
  BY DEF Groups, Front, GroupsOf, FrontOf, Lens
<1>3. /\ Cardinality(GroupsOf(Lens)) \in Nat
      /\ Cardinality(FrontOf(Lens, Cardinality(Looking) + 1)) \in Nat
      /\ (Cardinality(Looking) + 1) * AgentCount \in Nat
  BY <1>1, CountsFinite, Multiples
<1> QED BY <1>1, <1>2, <1>3 DEF NoGroupStranded, Enough, ServedNow, Served, Looking

LEMMA LensType == TypeOK => Lens \in [Teams -> Nat]
BY DEF TypeOK, Room, Lens

\* A queue has each of its connections once, so it is no longer than there are.
LEMMA QueuesBounded ==
  ASSUME PlaceInv, NEW t \in Teams
  PROVE  Lens[t] <= Cardinality(Connections)
<1> DEFINE f == room[t]
<1>1. f \in Seq(Connections) /\ Len(f) \in Nat /\ Lens[t] = Len(f)
  BY DEF PlaceInv, TypeOK, Room, Lens
<1>2. \A m, n \in 1..Len(f) : f[m] = f[n] => m = n
  BY DEF PlaceInv, Queued
<1>3. f \in Injection(1..Len(f), Connections)
  <2>1. f \in [1..Len(f) -> Connections]
    BY <1>1
  <2> QED BY <1>2, <2>1 DEF Injection, IsInjective
<1>4. Cardinality(1..Len(f)) <= Cardinality(Connections)
  BY <1>3, RoomAssumption, FS_Injection
<1>5. Cardinality(1..Len(f)) = Len(f)
  <2>1. 1 \in Int /\ Len(f) \in Int
    BY <1>1
  <2>2. Cardinality(1..Len(f)) = IF 1 > Len(f) THEN 0 ELSE Len(f) - 1 + 1
    BY <2>1, FS_Interval
  <2> QED BY <1>1, <2>2
<1> QED BY <1>1, <1>4, <1>5

LEMMA ServedNext ==
  ASSUME TypeOK', NEW r, r = Lens', NEW many, many = Cardinality(Looking'), selfMatch' = selfMatch,
         Served(r, many)
  PROVE  NoGroupStranded'
<1>1. TypeOK' => (NoGroupStranded' <=> ServedNow')
  BY ServedIs, PTL
<1>2. ServedNow'
  BY DEF ServedNow, Served, GroupsOf, FrontOf
<1> QED BY <1>1, <1>2

\* Nothing about the room changes, nor who is looking.
LEMMA SameRoom ==
  ASSUME TypeOK, TypeOK', NoGroupStranded, UNCHANGED <<selfMatch, room>>, Looking' = Looking
  PROVE  NoGroupStranded'
<1>1. Lens' = Lens
  BY DEF Lens
<1>2. Served(Lens, Cardinality(Looking))
  BY ServedIs DEF ServedNow
<1> QED BY <1>1, <1>2, ServedNext

LEMMA EnterServed ==
  ASSUME PlaceInv, TypeOK', NoGroupStranded, NEW c \in Connections, Enter(c)
  PROVE  NoGroupStranded'
<1> DEFINE q == Lens
           r == Lens'
           k == Cardinality(Looking) + 1
<1>1. q \in [Teams -> Nat] /\ r \in [Teams -> Nat] /\ TeamOf[c] \in Teams
  BY RoomAssumption DEF PlaceInv, TypeOK, Room, Lens
<1>2. \A t \in Teams : r[t] = IF t = TeamOf[c] THEN q[t] + 1 ELSE q[t]
  BY <1>1 DEF Enter, AddConnection, Lens, PlaceInv, TypeOK, Room
<1>3. Looking' = Looking \union {c} /\ c \notin Looking
  BY DEF Looking, Enter, Handler, PlaceInv, TypeOK
<1>4. Cardinality(Looking') = k /\ k \in Nat \ {0}
  BY <1>3, LookingFinite, FS_AddElement
<1>5. selfMatch' = selfMatch
  BY DEF Enter
<1>6. Served(q, Cardinality(Looking))
  BY ServedIs DEF PlaceInv, ServedNow
<1> HIDE DEF q, r
<1>7. CASE selfMatch
  <2>1. Cardinality(GroupsOf(r)) <= Cardinality(GroupsOf(q)) + 1
    BY <1>1, <1>2, GroupsGrow
  <2>2. Cardinality(GroupsOf(q)) <= Cardinality(Looking)
    BY <1>6, <1>7 DEF Served
  <2>3. Cardinality(GroupsOf(r)) <= k
    BY <2>1, <2>2, CountsFinite, LookingFinite
  <2>4. Served(r, k)
    BY <1>7, <2>3 DEF Served
  <2> QED BY <1>4, <1>5, <2>4, ServedNext DEF r
<1>8. CASE ~selfMatch
  <2>1. Cardinality(FrontOf(q, k)) < k * AgentCount
    BY <1>6, <1>8 DEF Served
  <2>2. Cardinality(FrontOf(r, k + 1)) < (k + 1) * AgentCount
    BY <1>1, <1>2, <1>4, <2>1, FrontGrows
  <2>3. Served(r, k)
    BY <1>8, <2>2 DEF Served
  <2> QED BY <1>4, <1>5, <2>3, ServedNext DEF r
<1> QED
  BY <1>7, <1>8

\* Whoever looks and finds nothing leaves nothing for the others either.
LEMMA NothingTaken ==
  ASSUME PlaceInv, Takes(room, selfMatch) = {}, NEW many \in Nat
  PROVE  Served(Lens, many)
<1>1. Lens \in [Teams -> Nat] /\ AgentCount \in Nat \ {0}
  BY LensType, RoomAssumption DEF PlaceInv
<1>2. CASE selfMatch
  <2>1. ASSUME NEW t \in Teams, ~(Lens[t] < AgentCount) PROVE FALSE
    <3>1. Len(room[t]) >= AgentCount
      BY <1>1, <2>1 DEF Lens
    <3> QED BY <1>2, <3>1 DEF Takes, OfOneTeam
  <2>2. Cardinality(GroupsOf(Lens)) = 0
    BY <1>1, <2>1, NoGroups
  <2> QED BY <1>2, <2>2 DEF Served
<1>3. CASE ~selfMatch
  <2> DEFINE some == {t \in Teams : Lens[t] # 0}
  <2>1. some = {t \in Teams : room[t] # <<>>}
    <3>1. ASSUME NEW t \in Teams PROVE Lens[t] = 0 <=> room[t] = <<>>
      <4>1. room[t] \in Seq(Connections) /\ Lens[t] = Len(room[t])
        BY DEF PlaceInv, TypeOK, Room, Lens
      <4> QED BY <4>1, EmptySeq
    <3> QED BY <3>1
  <2>2. kSubset(AgentCount, some) = {}
    <3> HIDE DEF some
    <3>1. OfTeams(room, AgentCount) = {}
      BY <1>3 DEF Takes
    <3>2. ASSUME NEW k \in kSubset(AgentCount, {t \in Teams : room[t] # <<>>}) PROVE FALSE
      <4>1. [t \in Teams |-> IF t \in k THEN 1 ELSE 0] \in OfTeams(room, AgentCount)
        BY DEF OfTeams
      <4> QED BY <3>1, <4>1
    <3>3. kSubset(AgentCount, {t \in Teams : room[t] # <<>>}) = {}
      BY <3>2
    <3> QED BY <2>1, <3>3
  <2>3. IsFiniteSet(some) /\ Cardinality(some) \in Nat
    BY RoomAssumption, FS_Subset, FS_CardinalityType
  <2>4. Cardinality(some) < AgentCount
    <3> HIDE DEF some
    <3> QED BY <1>1, <2>2, <2>3, SubsetsExist
  <2>5. Cardinality(FrontOf(Lens, many + 1)) < (many + 1) * AgentCount
    BY <1>1, <2>4, FrontEmpty
  <2> QED BY <1>3, <2>5 DEF Served
<1> QED BY <1>2, <1>3

\* Whoever makes a game takes as much as one handler less can find.
LEMMA GameTaken ==
  ASSUME PlaceInv, NEW take \in Takes(room, selfMatch), NEW many \in Nat \ {0},
         Served(Lens, many)
  PROVE  Served([t \in Teams |-> Len(Left(room, take)[t])], many - 1)
<1> DEFINE q == Lens
           r == [t \in Teams |-> Len(Left(room, take)[t])]
<1>1. q \in [Teams -> Nat] /\ AgentCount \in Nat \ {0} /\ TypeOK
  BY LensType, RoomAssumption DEF PlaceInv
<1>2. take \in [Teams -> Nat] /\ \A t \in Teams : take[t] <= q[t] /\ r[t] = q[t] - take[t]
  BY <1>1, TakesFit, LeftQueue DEF Lens
<1>3. r \in [Teams -> Nat]
  BY <1>1, <1>2
<1>4. \A t \in Teams : q[t] = Len(room[t])
  BY DEF Lens
<1>5. \A t \in Teams : q[t] <= Cardinality(Connections)
  BY QueuesBounded
<1> HIDE DEF q, r
<1>6. CASE selfMatch
  <2>1. PICK team \in Teams : Len(room[team]) >= AgentCount
                              /\ take = [t \in Teams |-> IF t = team THEN AgentCount ELSE 0]
    BY <1>6 DEF Takes, OfOneTeam
  <2>2. \A t \in Teams : r[t] = IF t = team THEN q[t] - AgentCount ELSE q[t]
    BY <1>1, <1>2, <2>1
  <2>3. AgentCount <= q[team]
    BY <1>1, <1>4, <2>1
  <2>4. Cardinality(GroupsOf(r)) + 1 <= Cardinality(GroupsOf(q))
    BY <1>1, <1>3, <1>5, <2>1, <2>2, <2>3, GroupsTaken
  <2>5. Cardinality(GroupsOf(q)) <= many
    BY <1>6 DEF Served, q
  <2>6. Cardinality(GroupsOf(r)) <= many - 1
    <3>1. Cardinality(GroupsOf(r)) \in Nat
      BY CountsFinite
    <3>2. Cardinality(GroupsOf(q)) \in Nat
      BY CountsFinite
    <3> QED BY <2>4, <2>5, <3>1, <3>2
  <2> QED BY <1>6, <2>6 DEF Served, r
<1>7. CASE ~selfMatch
  <2>1. PICK some \in kSubset(AgentCount, {t \in Teams : room[t] # <<>>}) :
               take = [t \in Teams |-> IF t \in some THEN 1 ELSE 0]
    BY <1>7 DEF Takes, OfTeams
  <2>2. /\ some \in SUBSET Teams /\ Cardinality(some) = AgentCount
        /\ \A t \in some : room[t] # <<>>
    BY <2>1 DEF kSubset
  <2>3. \A t \in some : q[t] # 0
    <3> TAKE t \in some
    <3>1. t \in Teams /\ room[t] \in Seq(Connections) /\ room[t] # <<>>
      BY <1>1, <2>2 DEF TypeOK, Room
    <3> QED BY <1>4, <3>1, EmptySeq
  <2>4. \A t \in Teams : r[t] = IF t \in some THEN q[t] - 1 ELSE q[t]
    BY <1>1, <1>2, <2>1
  <2>5. Cardinality(FrontOf(r, many)) + AgentCount <= Cardinality(FrontOf(q, many + 1))
    BY <1>1, <1>3, <2>2, <2>3, <2>4, FrontTaken
  <2>6. Cardinality(FrontOf(q, many + 1)) < (many + 1) * AgentCount
    BY <1>7 DEF Served, q
  <2>7. (many + 1) * AgentCount = many * AgentCount + AgentCount /\ many * AgentCount \in Nat
    BY <1>1, Multiples
  <2>8. /\ Cardinality(FrontOf(r, many)) \in Nat
        /\ Cardinality(FrontOf(q, many + 1)) \in Nat
    BY CountsFinite
  <2>9. Cardinality(FrontOf(r, many)) < many * AgentCount
    BY <1>1, <2>5, <2>6, <2>7, <2>8
  <2>10. many - 1 + 1 = many
    OBVIOUS
  <2> QED BY <1>7, <2>9, <2>10 DEF Served, r
<1> QED BY <1>6, <1>7

LEMMA MatchServed ==
  ASSUME PlaceInv, TypeOK', NoGroupStranded, NEW c \in Connections, Match(c)
  PROVE  NoGroupStranded'
<1> DEFINE many == Cardinality(Looking)
<1>1. Looking' = Looking \ {c} /\ c \in Looking
  BY DEF Looking, Match, Handler, PlaceInv, TypeOK
<1>2. Cardinality(Looking') = many - 1 /\ many \in Nat \ {0}
  <2>1. Cardinality(Looking \ {c}) = many - 1 /\ many \in Nat
    BY <1>1, LookingFinite, FS_RemoveElement
  <2>2. many # 0
    BY <1>1, LookingFinite, FS_EmptySet
  <2> QED BY <1>1, <2>1, <2>2
<1>3. selfMatch' = selfMatch /\ Served(Lens, many)
  BY ServedIs DEF Match, PlaceInv, ServedNow
<1> HIDE DEF many
<1>4. CASE Takes(room, selfMatch) = {} /\ UNCHANGED room
  <2>1. Lens' = Lens
    BY <1>4 DEF Lens
  <2>2. many - 1 \in Nat /\ Served(Lens, many - 1)
    BY <1>2, <1>4, NothingTaken
  <2> QED BY <1>2, <1>3, <2>1, <2>2, ServedNext
<1>5. ASSUME NEW take \in Takes(room, selfMatch), room' = Left(room, take)
      PROVE  NoGroupStranded'
  <2>1. Lens' = [t \in Teams |-> Len(Left(room, take)[t])]
    BY <1>5 DEF Lens
  <2>2. Served([t \in Teams |-> Len(Left(room, take)[t])], many - 1)
    BY <1>2, <1>3, GameTaken
  <2> QED BY <1>2, <1>3, <2>1, <2>2, ServedNext
<1> QED BY <1>4, <1>5 DEF Match

LEMMA InitServed == Init => NoGroupStranded
<1> SUFFICES ASSUME Init PROVE NoGroupStranded
  OBVIOUS
<1>1. TypeOK /\ Looking = {} /\ AgentCount \in Nat \ {0}
  BY InitType, RoomAssumption DEF Init, Looking
<1>2. Lens = [t \in Teams |-> 0]
  <2>1. \A t \in Teams : room[t] = <<>>
    BY DEF Init, EmptyRoom
  <2> QED BY <2>1 DEF Lens
<1>3. Cardinality(Looking) = 0
  BY <1>1, FS_EmptySet
<1>4. Served(Lens, 0)
  <2>1. Lens \in [Teams -> Nat] /\ \A t \in Teams : Lens[t] < AgentCount
    BY <1>1, <1>2
  <2>2. {t \in Teams : Lens[t] # 0} = {}
    BY <1>2
  <2>3. Cardinality({t \in Teams : Lens[t] # 0}) < AgentCount
    BY <1>1, <2>2, FS_EmptySet
  <2>4. Cardinality(FrontOf(Lens, 0 + 1)) < (0 + 1) * AgentCount
    BY <2>1, <2>3, FrontEmpty
  <2>5. Cardinality(GroupsOf(Lens)) = 0
    BY <2>1, NoGroups
  <2> QED BY <2>4, <2>5 DEF Served
<1> QED BY <1>1, <1>3, <1>4, ServedIs DEF ServedNow

LEMMA NextServed == PlaceInv /\ TypeOK' /\ NoGroupStranded /\ [Next]_vars => NoGroupStranded'
<1> SUFFICES ASSUME PlaceInv, TypeOK', NoGroupStranded, [Next]_vars PROVE NoGroupStranded'
  OBVIOUS
<1>1. CASE UNCHANGED vars \/ Signal \/ Trap
  <2>1. UNCHANGED <<selfMatch, room, at>>
    BY <1>1 DEF vars, Signal, Trap, AllFinished, Exit
  <2>2. Looking' = Looking
    BY <2>1 DEF Looking
  <2> QED BY <2>1, <2>2, SameRoom DEF PlaceInv
<1>2. ASSUME NEW c \in Connections,
             Accept(c) \/ Named(c) \/ Creates(c) \/ Asks(c) \/ Register(c) \/ StartGame(c)
               \/ Play(c)
      PROVE  NoGroupStranded'
  <2>1. UNCHANGED <<selfMatch, room>>
    BY <1>2 DEF Accept, Named, Creates, Asks, Register, StartGame, Play, GameEnds, DeleteGame
  <2>2. \A d \in Connections : at'[d] = "matching" <=> at[d] = "matching"
    BY <1>2 DEF Accept, Named, Creates, Asks, Register, StartGame, Play, GameEnds, DeleteGame,
                Handler, PlaceInv, TypeOK
  <2>3. Looking' = Looking
    BY <2>2 DEF Looking
  <2> QED BY <2>1, <2>3, SameRoom DEF PlaceInv
<1> QED
  BY <1>1, <1>2, EnterServed, MatchServed DEF Next, Serve

\* Whoever enters, and however the handlers interleave, no group that could
\* play waits without a handler that is still going to look: for any teams,
\* any connections and any number of players.
THEOREM StrandedTheorem == Spec => []NoGroupStranded
<1>1. PlaceInv => TypeOK
  BY DEF PlaceInv
<1> QED BY <1>1, InitServed, NextServed, PlaceHolds, PTL DEF Spec
=============================================================================
