---------------------------- MODULE GameManager -----------------------------
(***************************************************************************)
(* From a connection to a game and to the end of the process: the handler  *)
(* goroutine of every connection (handleConnections, TryStartGame), the    *)
(* goroutine of every game and the one that waits for a signal.  They      *)
(* share the waiting room, the registry of games and the flag              *)
(* shuttingDown.  Matches are made by the waiting room, not by a schedule; *)
(* GameCreation says how the agents of a game are made.                    *)
(* A game is named by the connection whose handler made it.                *)
(***************************************************************************)
EXTENDS GameCreation

VARIABLES
  selfMatch,     \* matching.self_match, as the process was configured
  at,            \* where every connection's handler is
  room,          \* the waiting room
  roster,        \* the connections the handler took for its game
  games,         \* GameManager.games
  game,          \* the game's goroutine: "none", "running", "over", "gone"
  shuttingDown,  \* GameManager.shuttingDown
  trap           \* the signal's goroutine: "armed", "waiting", "exiting", "exited"

vars == <<selfMatch, at, room, roster, games, game, shuttingDown, trap, creation>>

Running == trap # "exited"     \* os.Exit stops everything

-----------------------------------------------------------------------------

Init ==
  /\ selfMatch \in BOOLEAN
  /\ at = [c \in Connections |-> "new"]
  /\ room = EmptyRoom
  /\ roster = [c \in Connections |-> {}]
  /\ games = {} /\ game = [c \in Connections |-> "none"]
  /\ shuttingDown = FALSE /\ trap = "armed"
  /\ CreationInit

Handler(c, from, to) == Running /\ at[c] = from /\ at' = [at EXCEPT ![c] = to]

\* handleConnections looks at the flag once, here.
Accept(c) ==
  /\ Handler(c, "new", IF shuttingDown THEN "refused" ELSE "naming")
  /\ UNCHANGED <<selfMatch, room, roster, games, game, shuttingDown, trap, creation>>

\* NewConnection waits for the client's name, however long it takes; the
\* upgrade, the request or the token check may fail instead.
Named(c) ==
  /\ \/ Handler(c, "naming", "entering")
     \/ Handler(c, "naming", "refused")
  /\ UNCHANGED <<selfMatch, room, roster, games, game, shuttingDown, trap, creation>>

Enter(c) ==
  /\ Handler(c, "entering", "matching")
  /\ room' = AddConnection(room, c)
  /\ UNCHANGED <<selfMatch, roster, games, game, shuttingDown, trap, creation>>

\* One call of GetConnections for every connection that entered.
Match(c) ==
  \/ /\ Handler(c, "matching", "returned")
     /\ Takes(room, selfMatch) = {}
     /\ UNCHANGED <<selfMatch, room, roster, games, game, shuttingDown, trap, creation>>
  \/ /\ Handler(c, "matching", "creating")
     /\ \E take \in Takes(room, selfMatch) :
          /\ roster' = [roster EXCEPT ![c] = Taken(room, take)]
          /\ room' = Left(room, take)
     /\ UNCHANGED <<selfMatch, games, game, shuttingDown, trap, creation>>

\* The service that generates profiles may take its time: the client that asks
\* it has no timeout.
Asks(c) ==
  /\ Handler(c, "creating", "creating") /\ GenerateProfile(c)
  /\ UNCHANGED <<selfMatch, room, roster, games, game, shuttingDown, trap>>

Creates(c) ==
  /\ Handler(c, "creating", "creating")
  /\ NewGame(c) \/ MakeAgent(c) \/ OutOfProfiles(c)
  /\ UNCHANGED <<selfMatch, room, roster, games, game, shuttingDown, trap>>

\* variant: the game's goroutine is started before the game is registered
Register_afterStart(c) ==
  /\ Handler(c, "creating", "starting") /\ making[c] = "made"
  /\ game' = [game EXCEPT ![c] = "running"]
  /\ UNCHANGED <<selfMatch, room, roster, games, shuttingDown, trap, creation>>

Register(c) ==
  /\ Handler(c, "creating", "starting") /\ making[c] = "made"
  /\ games' = games \union {c}
  /\ UNCHANGED <<selfMatch, room, roster, game, shuttingDown, trap, creation>>

StartGame(c) ==
  /\ Handler(c, "starting", "returned") /\ HandsOver(c)
  /\ game' = [game EXCEPT ![c] = "running"]
  /\ UNCHANGED <<selfMatch, room, roster, games, shuttingDown, trap>>

-----------------------------------------------------------------------------
(* The game's goroutine: Start returns (Game!GameEnds), the entry goes *)

GameEnds(c) ==
  /\ Running /\ game[c] = "running"
  /\ game' = [game EXCEPT ![c] = "over"]
  /\ UNCHANGED <<selfMatch, at, room, roster, games, shuttingDown, trap, creation>>

\* variant: a finished game stays in the registry, marked as finished
DeleteGame_kept(c) ==
  /\ Running /\ game[c] = "over"
  /\ game' = [game EXCEPT ![c] = "gone"]
  /\ UNCHANGED <<selfMatch, at, room, roster, games, shuttingDown, trap, creation>>

DeleteGame(c) ==
  /\ Running /\ game[c] = "over"
  /\ game' = [game EXCEPT ![c] = "gone"] /\ games' = games \ {c}
  /\ UNCHANGED <<selfMatch, at, room, roster, shuttingDown, trap, creation>>

-----------------------------------------------------------------------------
(* The signal's goroutine *)

Signal ==
  /\ trap = "armed"
  /\ shuttingDown' = TRUE /\ trap' = "waiting"
  /\ UNCHANGED <<selfMatch, at, room, roster, games, game, creation>>

\* WaitAllFinished returns; as long as there are games it sleeps and looks again.
AllFinished ==
  /\ trap = "waiting" /\ games = {}
  /\ trap' = "exiting"
  /\ UNCHANGED <<selfMatch, at, room, roster, games, game, shuttingDown, creation>>

Exit ==
  /\ trap = "exiting" /\ trap' = "exited"
  /\ UNCHANGED <<selfMatch, at, room, roster, games, game, shuttingDown, creation>>

-----------------------------------------------------------------------------

\* What the server does of itself, and what it waits for clients to do.
Serve(c) == Enter(c) \/ Match(c) \/ Creates(c) \/ Register(c) \/ StartGame(c)
Play(c)  == GameEnds(c) \/ DeleteGame(c)
Trap     == AllFinished \/ Exit

Next ==
  \/ Signal \/ Trap
  \/ \E c \in Connections : Accept(c) \/ Named(c) \/ Serve(c) \/ Asks(c) \/ Play(c)

Spec == Init /\ [][Next]_vars

\* The goroutines run and games end; clients need not come, nor answer, nor
\* the service that generates profiles, nor need the signal come.
FairSpec ==
  /\ Spec /\ WF_vars(Trap)
  /\ \A c \in Connections : WF_vars(Serve(c)) /\ WF_vars(Play(c))

-----------------------------------------------------------------------------
(* Properties *)

TypeOK ==
  /\ at \in [Connections -> {"new", "naming", "refused", "entering", "matching",
                             "creating", "starting", "returned"}]
  /\ room \in Room /\ selfMatch \in BOOLEAN
  /\ roster \in [Connections -> SUBSET Connections]
  /\ games \in SUBSET Connections
  /\ game \in [Connections -> {"none", "running", "over", "gone"}]
  /\ trap \in {"armed", "waiting", "exiting", "exited"}
  /\ shuttingDown = (trap # "armed")

\* A connection that has entered the room is waiting once or plays in one
\* game; however the handlers interleave it is not lost and not dealt twice.
Waits(c)  == {n \in 1..Len(room[TeamOf[c]]) : room[TeamOf[c]][n] = c}
Plays(c)  == {g \in Connections : c \in roster[g]}
Outside   == {"new", "naming", "refused", "entering"}

InOnePlace ==
  \A c \in Connections :
    Cardinality(Waits(c)) + Cardinality(Plays(c)) = IF at[c] \in Outside THEN 0 ELSE 1

\* Games that the waiting connections are enough for: numbered within a team,
\* or k at once, to each of which a team gives one of its first k.
Groups == {p \in Teams \X (1..Cardinality(Connections)) :
             p[2] * AgentCount <= Len(room[p[1]])}
Front(k) == {p \in Teams \X (1..k) : p[2] <= Len(room[p[1]])}

Enough(k) ==
  IF selfMatch THEN k <= Cardinality(Groups) ELSE k * AgentCount <= Cardinality(Front(k))

\* Whenever the waiting connections are enough for some games, at least as
\* many handlers are still going to look: every arrival tries once and makes
\* one game at most, and no full group is stranded when they have returned.
NoGroupStranded ==
  ~Enough(Cardinality({c \in Connections : at[c] = "matching"}) + 1)

\* A game's players are as many as its roles, of one team in self-match and
\* of different teams otherwise.
RostersProper ==
  \A g \in Connections :
    roster[g] # {} =>
      /\ Cardinality(roster[g]) = AgentCount
      /\ Cardinality({TeamOf[c] : c \in roster[g]}) = IF selfMatch THEN 1 ELSE AgentCount

\* The handlers deal connections from the room to games as one actor would.
RoomSound == TypeOK /\ InOnePlace /\ RostersProper

\* A team's connections play in the order they entered: a step that takes one
\* from the room leaves none before it.
InOrder ==
  [][\A t \in Teams, n \in 1..Cardinality(Connections) :
       (n <= Len(room[t]) /\ \E g \in Connections : room[t][n] \in roster'[g]) =>
         \A m \in 1..n : \E g \in Connections : room[t][m] \in roster'[g]]_vars

\* The registry stands for the games that run, those about to start included:
\* the API finds them, a shutdown waits for them, and a finished game is not
\* kept until the process ends.
RegistryExact ==
  games = {g \in Connections : at[g] = "starting" \/ game[g] \in {"running", "over"}}

\* Once the signal is there the process ends, whoever is still connecting.
Exits == shuttingDown ~> trap = "exited"

\* "exits after all games in progress have finished": no game is cut off.
DrainsFirst == trap = "exited" => \A g \in Connections : game[g] \notin {"running", "over"}
=============================================================================
