--------------------------- MODULE MatchOptimizer ---------------------------
(***************************************************************************)
(* The match schedule, matchmaking.MatchOptimizer, as a value: the teams   *)
(* that have a number, the matches still to be played with their weights,  *)
(* and the matches that are over.  Its methods work under its lock and are *)
(* operators here; the lock, the file and their order are in               *)
(* ScheduledGames.  A match gives every role a set of numbers, since       *)
(* MatchWeight.Equal compares the lists of a role as bags and no number is *)
(* drawn twice for a match.                                                *)
(***************************************************************************)
EXTENDS Naturals, Sequences, FiniteSets, Functions

CONSTANTS
  Roles,           \* the roles that occur
  RoleNum,         \* role_num_map
  TeamCount,       \* matching.team_count
  GameCount,       \* matching.game_count
  NoTeam           \* the name of a number nobody has yet

ASSUME ScheduleAssumption ==
  /\ IsFiniteSet(Roles) /\ Roles # {} /\ RoleNum \in [Roles -> Nat \ {0}]
  /\ TeamCount \in Nat /\ GameCount \in Nat \ {0}

Idxs == 1..TeamCount

Matches ==
  {m \in [Roles -> SUBSET Idxs] :
     /\ \A r \in Roles : Cardinality(m[r]) = RoleNum[r]
     /\ \A r, s \in Roles : r # s => m[r] \cap m[s] = {}}

\* append: the best of several random draws, whichever that is; with too few
\* teams GenerateMatches fails at its first match and the schedule stays empty.
Drawn == IF Matches = {} THEN {<<>>} ELSE [1..GameCount -> Matches]

NewMatchOptimizer(drawn) ==
  [names     |-> <<>>,
   scheduled |-> [i \in DOMAIN drawn |-> [roles |-> drawn[i], weight |-> 1]],
   ended     |-> <<>>]

\* Teams get their numbers in the order they are seen, as long as there are any.
Registers(mo, team) ==
  Len(mo.names) < TeamCount /\ \A i \in DOMAIN mo.names : mo.names[i] # team

UpdateTeam(mo, team) == [mo EXCEPT !.names = Append(@, team)]

TeamNameMatch(mo, m) ==
  [r \in Roles |-> {IF i \in DOMAIN mo.names THEN mo.names[i] ELSE NoTeam : i \in m[r]}]

IdxMatch(mo, named) ==
  [r \in Roles |-> {i \in DOMAIN mo.names : mo.names[i] \in named[r]}]

(* GetMatches returns the list as the call before it had sorted it, and    *)
(* sorts it for the call after it.                                         *)

Exhausted(mo) == \A i \in DOMAIN mo.scheduled : mo.scheduled[i].weight = 0

GetMatches(mo) ==
  [i \in DOMAIN mo.scheduled |-> TeamNameMatch(mo, mo.scheduled[i].roles)]

\* The order sort.Slice leaves equal weights in is not determined.
Sorts(mo) ==
  LET D == DOMAIN mo.scheduled
      Descending(p) == \A i, j \in D : i < j =>
                         mo.scheduled[p[i]].weight >= mo.scheduled[p[j]].weight
  IN {[mo EXCEPT !.scheduled = [i \in D |-> @[p[i]]]] : p \in {q \in Bijection(D, D) : Descending(q)}}

\* The first scheduled match that equals the one that was played, if any is left.
Found(mo, m) ==
  {i \in DOMAIN mo.scheduled :
     /\ mo.scheduled[i].roles = m
     /\ \A j \in 1..i - 1 : mo.scheduled[j].roles # m}

Without(s, i) == SubSeq(s, 1, i - 1) \o SubSeq(s, i + 1, Len(s))

\* variant: recorded although it was not scheduled any more
SetMatchEnd_always(mo, m) ==
  [mo EXCEPT !.scheduled = IF Found(mo, m) = {} THEN @ ELSE Without(@, CHOOSE i \in Found(mo, m) : TRUE),
             !.ended = Append(@, m)]

SetMatchEnd(mo, m) ==
  IF Found(mo, m) = {} THEN mo
  ELSE LET i == CHOOSE i \in Found(mo, m) : TRUE
       IN [mo EXCEPT !.scheduled = Without(@, i), !.ended = Append(@, m)]

SetMatchWeight(mo, m, w) ==
  [mo EXCEPT !.scheduled = [i \in DOMAIN @ |-> IF i \in Found(mo, m) THEN [@[i] EXCEPT !.weight = w]
                                                                    ELSE @[i]]]
=============================================================================
