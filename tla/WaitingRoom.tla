---------------------------- MODULE WaitingRoom -----------------------------
(***************************************************************************)
(* The waiting room, matchmaking.WaitingRoom: a queue of connections for   *)
(* every team, and the groups of connections that can make a game.  All of *)
(* it happens under the room's lock, so the room is a value here and its   *)
(* methods are operators.                                                  *)
(***************************************************************************)
EXTENDS Naturals, Sequences, FiniteSets, FiniteSetsExt

CONSTANTS
  Connections,     \* every connection a client may open
  Teams,           \* team names
  TeamOf,          \* the team a connection answers to the NAME request
  AgentCount       \* game.agent_count

ASSUME RoomAssumption ==
  /\ IsFiniteSet(Connections) /\ IsFiniteSet(Teams)
  /\ TeamOf \in [Connections -> Teams]
  /\ AgentCount \in Nat \ {0}

Room      == [Teams -> Seq(Connections)]     \* a missing key is an empty queue
EmptyRoom == [t \in Teams |-> <<>>]

AddConnection(room, c) == [room EXCEPT ![TeamOf[c]] = Append(@, c)]

(* GetConnections.  What it takes is how many of every team: a whole game  *)
(* of any one team that has one, or the first of each of any AgentCount    *)
(* teams (the map's order and the shuffle are not determined).             *)

OfOneTeam(room, need) ==
  {[t \in Teams |-> IF t = team THEN AgentCount ELSE 0] :
     team \in {t \in Teams : Len(room[t]) >= need}}

OfTeams(room, many) ==
  {[t \in Teams |-> IF t \in some THEN 1 ELSE 0] :
     some \in kSubset(many, {t \in Teams : room[t] # <<>>})}

\* variant: one more is waited for
Takes_late(room, selfMatch) ==
  IF selfMatch THEN OfOneTeam(room, AgentCount + 1) ELSE OfTeams(room, AgentCount + 1)

Takes(room, selfMatch) ==
  IF selfMatch THEN OfOneTeam(room, AgentCount) ELSE OfTeams(room, AgentCount)

\* variant: the newest connections first
Taken_newest(room, take) ==
  UNION {{room[t][n] : n \in Len(room[t]) - take[t] + 1..Len(room[t])} : t \in Teams}

Taken(room, take) == UNION {{room[t][n] : n \in 1..take[t]} : t \in Teams}

\* variant: a queue that is longer than what is taken is not cut
Left_longKept(room, take) ==
  [t \in Teams |-> IF take[t] = Len(room[t]) THEN <<>> ELSE room[t]]

Left(room, take) == [t \in Teams |-> SubSeq(room[t], take[t] + 1, Len(room[t]))]
=============================================================================
