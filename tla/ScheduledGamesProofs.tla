------------------------ MODULE ScheduledGamesProofs ------------------------
(***************************************************************************)
(* For any number of clients, teams, matches and stops of the process:     *)
(* numbers and results are not lost, but by a stop in the middle of a      *)
(* save; every match that was drawn is scheduled or over, and as often as  *)
(* it was drawn; and between the handlers no team that waits is forgotten. *)
(* The invariants, in order:                                               *)
(*  - FileInv: the file of a process that runs is whole unless a save is   *)
(*    under way, and says what the schedule in memory does, its order and  *)
(*    weights apart; a process that does not run remembers nothing;        *)
(*  - SoundInv: the draw explains the schedule in memory and in the file,  *)
(*    occurrence by occurrence, and the results and the winners whose      *)
(*    results are not recorded yet are no more than the games played;      *)
(*  - WaitInv: who waits came through a handler, which stays until its     *)
(*    team has a number or there is none left;                             *)
(*  - LookInv: every scheduled match lacks a team, but for connections     *)
(*    that as many handlers on their way can be counted on for.            *)
(***************************************************************************)
EXTENDS ScheduledGames, SequenceTheorems, FiniteSetTheorems, TLAPS

\* A schedule, as far as numbers and results go.
Kept(s) ==
  /\ s = [names |-> s.names, scheduled |-> s.scheduled, ended |-> s.ended]
  /\ s.names \in Seq(Teams) /\ s.ended \in Seq([Roles -> SUBSET Nat])

SaysSame(s, t) == s.names = t.names /\ s.ended = t.ended

\* Where the handlers are; a game is played and recorded when its handler is done.
PlaceInv ==
  /\ todo \in [Connections -> SUBSET Teams]
  /\ at \in [Connections -> {"new", "entered", "updating", "appending", "choosing", "returned"}]
  /\ game \in [Connections -> {"none", "running", "won", "failed"}]
  /\ \A c \in Connections : game[c] # "none" => at[c] = "returned" /\ proc = "up"

FileInv ==
  /\ PlaceInv /\ Kept(mo)
  /\ disk = [is |-> disk.is, says |-> disk.says]
  /\ disk.is \in {"none", "cut", "whole"}
  /\ disk.is = "whole" => Kept(disk.says) /\ (Running => SaysSame(disk.says, mo))
  /\ disk.is # "whole" => disk.says = Nothing
  /\ disk.is = "none" => ~Running
  /\ Running /\ disk.is = "cut" => SaveUnderWay
  /\ ~Running => mo = Nothing

-----------------------------------------------------------------------------
(* What the methods of the schedule keep *)

LEMMA NewKept ==
  ASSUME NEW drawn_
  PROVE  Kept(NewMatchOptimizer(drawn_)) /\ SaysSame(NewMatchOptimizer(drawn_), NewMatchOptimizer(<<>>))
BY DEF Kept, NewMatchOptimizer, SaysSame

LEMMA UpdateKeeps ==
  ASSUME NEW s, Kept(s), NEW t \in Teams
  PROVE  /\ Kept(UpdateTeam(s, t)) /\ UpdateTeam(s, t).ended = s.ended
         /\ \A i \in DOMAIN s.names : i \in DOMAIN UpdateTeam(s, t).names /\ UpdateTeam(s, t).names[i] = s.names[i]
<1> DEFINE new == Append(s.names, t)
<1>1. UpdateTeam(s, t) = [s EXCEPT !.names = new]
  BY DEF UpdateTeam
<1>2. s.names \in Seq(Teams) /\ s.ended \in Seq([Roles -> SUBSET Nat])
  BY DEF Kept
<1>3. new \in Seq(Teams) /\ \A i \in DOMAIN s.names : i \in DOMAIN new /\ new[i] = s.names[i]
  BY <1>2
<1> HIDE DEF new
<1>4. UpdateTeam(s, t) = [names |-> new, scheduled |-> s.scheduled, ended |-> s.ended]
  BY <1>1 DEF Kept
<1>5. QED
  BY <1>2, <1>3, <1>4 DEF Kept

LEMMA SortsKeep ==
  ASSUME NEW s, Kept(s), NEW sorted \in Sorts(s)
  PROVE  Kept(sorted) /\ SaysSame(sorted, s)
<1>1. PICK list : sorted = [s EXCEPT !.scheduled = list]
  BY DEF Sorts
<1>2. QED
  BY <1>1 DEF Kept, SaysSame

LEMMA WeightKeeps ==
  ASSUME NEW s, Kept(s), NEW m, NEW w
  PROVE  Kept(SetMatchWeight(s, m, w)) /\ SaysSame(SetMatchWeight(s, m, w), s)
<1>1. PICK list : SetMatchWeight(s, m, w) = [s EXCEPT !.scheduled = list]
  BY DEF SetMatchWeight
<1>2. QED
  BY <1>1 DEF Kept, SaysSame

LEMMA EndKeeps ==
  ASSUME NEW s, Kept(s), NEW m \in [Roles -> SUBSET Nat]
  PROVE  /\ Kept(SetMatchEnd(s, m)) /\ SetMatchEnd(s, m).names = s.names
         /\ \A i \in DOMAIN s.ended : i \in DOMAIN SetMatchEnd(s, m).ended /\ SetMatchEnd(s, m).ended[i] = s.ended[i]
<1>1. CASE Found(s, m) = {}
  BY <1>1 DEF SetMatchEnd
<1>2. CASE Found(s, m) # {}
  <2> DEFINE new == Append(s.ended, m)
  <2>1. PICK list : SetMatchEnd(s, m) = [s EXCEPT !.scheduled = list, !.ended = Append(@, m)]
    BY <1>2 DEF SetMatchEnd
  <2>2. /\ SetMatchEnd(s, m) = [names |-> s.names, scheduled |-> list, ended |-> new]
        /\ s.names \in Seq(Teams) /\ s.ended \in Seq([Roles -> SUBSET Nat])
    BY <2>1 DEF Kept
  <2>3. new \in Seq([Roles -> SUBSET Nat]) /\ \A i \in DOMAIN s.ended : i \in DOMAIN new /\ new[i] = s.ended[i]
    BY <2>2
  <2> HIDE DEF new
  <2>4. QED
    BY <2>2, <2>3 DEF Kept
<1>3. QED
  BY <1>1, <1>2

LEMMA IdxMatchType ==
  ASSUME NEW s, Kept(s), NEW named
  PROVE  IdxMatch(s, named) \in [Roles -> SUBSET Nat]
<1>1. DOMAIN s.names \subseteq Nat
  BY DEF Kept
<1>2. QED
  BY <1>1 DEF IdxMatch

-----------------------------------------------------------------------------
(* Every step keeps FileInv, numbers and results *)

Keeps == NumbersStable /\ ProgressKept

LEMMA InitFile == Init => FileInv
BY NewKept DEF Init, FileInv, PlaceInv, NoFile, Nothing, Running

LEMMA NextPlace == PlaceInv /\ [Next]_vars => PlaceInv'
<1> SUFFICES ASSUME PlaceInv, [Next]_vars PROVE PlaceInv'
  OBVIOUS
<1> USE DEF PlaceInv
<1>1. CASE UNCHANGED vars
  BY <1>1 DEF vars, handlers, matches
<1>2. CASE Runs
  BY <1>2 DEF Runs, Create, Load, ParseFails, Serves, handlers, matches
<1>3. CASE Stop
  BY <1>3 DEF Stop, Idle
<1>4. ASSUME NEW c \in Connections, Enter(c) PROVE PlaceInv'
  BY <1>4 DEF Enter, Handler, matches
<1>5. ASSUME NEW c \in Connections, ListTeams(c) PROVE PlaceInv'
  BY <1>5 DEF ListTeams, Handler, matches
<1>6. ASSUME NEW c \in Connections, Update(c) PROVE PlaceInv'
  <2>1. PICK t \in todo[c] : todo' = [todo EXCEPT ![c] = @ \ {t}]
    BY <1>6 DEF Update
  <2> QED BY <1>6, <2>1 DEF Update, Handler, matches
<1>7. ASSUME NEW c \in Connections, Schedule(c) PROVE PlaceInv'
  BY <1>7 DEF Schedule, Handler, matches
<1>8. ASSUME NEW c \in Connections, Choose(c) PROVE PlaceInv'
  <2>1. game' = game \/ game' = [game EXCEPT ![c] = "running"]
    BY <1>8 DEF Choose, matches
  <2>2. todo' = todo /\ at[c] = "choosing" /\ at' = [at EXCEPT ![c] = "returned"] /\ proc = "up" /\ proc' = proc
    BY <1>8 DEF Choose, Handler
  <2> QED BY <2>1, <2>2
<1>9. ASSUME NEW c \in Connections, Saved(c) \/ Play(c) PROVE PlaceInv'
  BY <1>9 DEF Saved, Play, GameEnds, Record, handlers, matches
<1>10. QED
  BY <1>1, <1>2, <1>3, <1>4, <1>5, <1>6, <1>7, <1>8, <1>9 DEF Next, Serve, Play

LEMMA SameKeeps ==
  ASSUME SaysSame(Known', Known)
  PROVE  Keeps
BY DEF SaysSame, Keeps, NumbersStable, ProgressKept

\* A save empties the file first, and fills it with what memory says.
LEMMA CutFile ==
  ASSUME Kept(mo'), disk' = Cut, Running', SaveUnderWay', PlaceInv'
  PROVE  FileInv'
BY DEF FileInv, Cut

LEMMA FilledFile ==
  ASSUME FileInv, mo' = mo, disk' = Whole(mo), PlaceInv', Running, Running'
  PROVE  FileInv' /\ Keeps
<1>1. FileInv'
  BY DEF FileInv, Whole, SaysSame
<1>2. SaysSame(Known', Known)
  BY DEF SaysSame, Known
<1>3. QED
  BY <1>1, <1>2, SameKeeps

\* A step of a running process that leaves the file alone and the schedule as it
\* is, but for its order and weights, and does not interfere with a save.
LEMMA SameFile ==
  ASSUME FileInv, disk' = disk, Kept(mo'), SaysSame(mo', mo), Running, Running',
         SaveUnderWay => SaveUnderWay', PlaceInv'
  PROVE  FileInv' /\ Keeps
<1>1. FileInv'
  BY DEF FileInv, SaysSame
<1>2. SaysSame(Known', Known)
  BY DEF Known, SaysSame
<1>3. QED
  BY <1>1, <1>2, SameKeeps

LEMMA SameSchedule ==
  ASSUME FileInv, mo' = mo
  PROVE  Kept(mo') /\ SaysSame(mo', mo)
BY DEF FileInv, SaysSame

LEMMA RunsKeep == FileInv /\ PlaceInv' /\ Runs => FileInv' /\ Keeps
<1> SUFFICES ASSUME FileInv, PlaceInv', Runs PROVE FileInv' /\ Keeps
  OBVIOUS
<1>1. CASE Create
  <2>1. Kept(mo')
    BY <1>1, NewKept DEF Create
  <2>2. Known = Nothing
    BY <1>1 DEF Create, FileInv, Known, Running
  <2>3. Keeps
    BY <2>2 DEF Keeps, NumbersStable, ProgressKept, Nothing, NewMatchOptimizer
  <2>4. Running' /\ SaveUnderWay'
    BY <1>1 DEF Create, Running, SaveUnderWay
  <2>5. QED
    BY <1>1, <2>1, <2>3, <2>4, CutFile DEF Create
<1>2. CASE Load
  <2>1. Kept(mo') /\ Running' /\ SaveUnderWay'
    BY <1>2 DEF Load, FileInv, Running, SaveUnderWay
  <2>2. Known' = Known
    BY <1>2 DEF Load, Known, Running
  <2>3. SaysSame(Known', Known)
    BY <2>2 DEF SaysSame
  <2>4. QED
    BY <1>2, <2>1, <2>3, CutFile, SameKeeps DEF Load
<1>3. CASE ParseFails
  <2>1. ~Running /\ ~Running' /\ disk' = disk /\ mo' = mo
    BY <1>3 DEF ParseFails, Running
  <2>2. SaysSame(Known', Known)
    BY <2>1 DEF SaysSame, Known
  <2>3. FileInv'
    BY <2>1 DEF FileInv
  <2>4. QED
    BY <2>2, <2>3, SameKeeps
<1>4. CASE Serves
  BY <1>4, FilledFile DEF Serves, handlers, Running
<1>5. QED
  BY <1>1, <1>2, <1>3, <1>4 DEF Runs

\* What memory knew is in the file, unless it was being saved.
LEMMA StopKeeps == FileInv /\ PlaceInv' /\ Stop => FileInv' /\ (Keeps \/ SaveUnderWay)
<1> SUFFICES ASSUME FileInv, PlaceInv', Stop PROVE FileInv' /\ (Keeps \/ SaveUnderWay)
  OBVIOUS
<1>1. disk' = disk /\ mo' = Nothing /\ Running /\ ~Running'
  BY DEF Stop, Running
<1>2. FileInv'
  <2>1. Kept(Nothing)
    BY NewKept DEF Nothing
  <2>2. QED
    BY <1>1, <2>1 DEF FileInv
<1>3. CASE disk.is = "whole"
  <2>1. SaysSame(Known', Known)
    BY <1>1, <1>3 DEF FileInv, Known, SaysSame
  <2>2. QED
    BY <1>2, <2>1, SameKeeps
<1>4. CASE disk.is # "whole"
  BY <1>1, <1>2, <1>4 DEF FileInv
<1>5. QED
  BY <1>3, <1>4

\* Whoever holds the lock goes on to save, as long as its handler stays put.
LEMMA SaveStays ==
  ASSUME mu' = mu, proc' = proc, \A c \in Connections : mu = c => at'[c] = at[c]
  PROVE  SaveUnderWay => SaveUnderWay'
BY DEF SaveUnderWay

LEMMA UpdateStep ==
  ASSUME FileInv, PlaceInv', NEW c \in Connections, Update(c)
  PROVE  FileInv' /\ Keeps
<1>1. PICK t \in todo[c] :
        IF Registers(mo, t) THEN Saving(c, UpdateTeam(mo, t)) ELSE UNCHANGED <<disk, mu, mo>>
  BY DEF Update
<1>2. t \in Teams /\ Kept(mo) /\ Running /\ Running' /\ at'[c] = "updating" /\ at' = at
  BY <1>1 DEF FileInv, PlaceInv, Update, Handler, Running
<1>3. CASE Registers(mo, t)
  <2>1. mo' = UpdateTeam(mo, t) /\ disk' = Cut /\ mu' = c
    BY <1>1, <1>3 DEF Saving
  <2>2. /\ Kept(mo') /\ mo'.ended = mo.ended
        /\ \A i \in DOMAIN mo.names : i \in DOMAIN mo'.names /\ mo'.names[i] = mo.names[i]
    BY <1>2, <2>1, UpdateKeeps
  <2>3. Keeps
    BY <1>2, <2>2 DEF Keeps, NumbersStable, ProgressKept, Known
  <2>4. SaveUnderWay'
    BY <1>2, <2>1 DEF SaveUnderWay
  <2>5. QED
    BY <1>2, <2>1, <2>2, <2>3, <2>4, CutFile
<1>4. CASE ~Registers(mo, t)
  <2>1. UNCHANGED <<disk, mu, mo>> /\ proc' = proc
    BY <1>1, <1>4 DEF Update
  <2>2. QED
    BY <1>2, <2>1, SaveStays, SameSchedule, SameFile
<1>5. QED
  BY <1>3, <1>4

LEMMA RecordStep ==
  ASSUME FileInv, PlaceInv', NEW c \in Connections, Record(c)
  PROVE  FileInv' /\ Keeps
<1>1. Kept(mo) /\ Running /\ Running' /\ at' = at /\ at[c] = "returned" /\ proc' = proc
  BY DEF FileInv, PlaceInv, Record, handlers, Running
<1>2. CASE Found(mo, IdxMatch(mo, playing[c])) # {}
  <2> DEFINE m == IdxMatch(mo, playing[c])
  <2>1. mo' = Outcome(c) /\ disk' = Cut /\ SaveUnderWay'
    BY <1>1, <1>2 DEF Record, Saving, SaveUnderWay
  <2>2. m \in [Roles -> SUBSET Nat]
    BY <1>1, IdxMatchType
  <2> HIDE DEF m
  <2>3. mo' = SetMatchEnd(mo, m) \/ mo' = SetMatchWeight(mo, m, 0)
    BY <2>1 DEF Outcome, m
  <2>4. CASE mo' = SetMatchEnd(mo, m)
    <3>1. /\ Kept(mo') /\ mo'.names = mo.names
          /\ \A i \in DOMAIN mo.ended : i \in DOMAIN mo'.ended /\ mo'.ended[i] = mo.ended[i]
      BY <1>1, <2>2, <2>4, EndKeeps
    <3>2. Keeps
      BY <1>1, <3>1 DEF Keeps, NumbersStable, ProgressKept, Known
    <3>3. QED
      BY <1>1, <2>1, <3>1, <3>2, CutFile
  <2>5. CASE mo' = SetMatchWeight(mo, m, 0)
    <3>1. Kept(mo') /\ SaysSame(mo', mo)
      BY <1>1, <2>5, WeightKeeps
    <3>2. SaysSame(Known', Known)
      BY <1>1, <3>1 DEF Known, SaysSame
    <3>3. QED
      BY <1>1, <2>1, <3>1, <3>2, CutFile, SameKeeps
  <2>6. QED
    BY <2>3, <2>4, <2>5
<1>3. CASE Found(mo, IdxMatch(mo, playing[c])) = {}
  <2>1. UNCHANGED <<disk, mu, mo>>
    BY <1>3 DEF Record
  <2>2. QED
    BY <1>1, <2>1, SaveStays, SameSchedule, SameFile
<1>4. QED
  BY <1>2, <1>3

LEMMA ScheduleStep ==
  ASSUME FileInv, PlaceInv', NEW c \in Connections, Schedule(c)
  PROVE  FileInv' /\ Keeps
<1>1. disk' = disk /\ Running /\ Running'
  BY DEF Schedule, Handler, Running
<1>2. Kept(mo') /\ SaysSame(mo', mo)
  <2>1. CASE mo' \in Sorts(mo)
    BY <2>1, SortsKeep DEF FileInv
  <2>2. CASE mo' = mo
    BY <2>2, SameSchedule
  <2>3. QED
    BY <2>1, <2>2 DEF Schedule
<1>3. ~SaveUnderWay
  BY GamesAssumption DEF Schedule, Handler, SaveUnderWay
<1>4. QED
  BY <1>1, <1>2, <1>3, SameFile

LEMMA NextKeeps == FileInv /\ [Next]_vars => FileInv' /\ (Keeps \/ (Stop /\ SaveUnderWay))
<1> SUFFICES ASSUME FileInv, [Next]_vars PROVE FileInv' /\ (Keeps \/ (Stop /\ SaveUnderWay))
  OBVIOUS
<1>1. PlaceInv'
  BY NextPlace DEF FileInv
<1>2. CASE UNCHANGED vars
  <2>1. FileInv'
    BY <1>1, <1>2 DEF vars, handlers, FileInv, SaysSame, Running, SaveUnderWay
  <2>2. SaysSame(Known', Known)
    BY <1>2 DEF vars, Known, Running, SaysSame
  <2>3. QED
    BY <2>1, <2>2, SameKeeps
<1>3. ASSUME NEW c \in Connections, Enter(c) \/ ListTeams(c) \/ Choose(c) \/ GameEnds(c)
      PROVE  FileInv' /\ Keeps
  <2>1. disk' = disk /\ mo' = mo /\ proc' = proc /\ mu' = mu /\ Running /\ Running'
    BY <1>3 DEF Enter, ListTeams, Choose, GameEnds, Handler, Running
  <2>2. \A d \in Connections : mu = d => at'[d] = at[d]
    BY <1>3 DEF Enter, ListTeams, Choose, GameEnds, Handler, handlers, FileInv, PlaceInv
  <2>3. QED
    BY <1>1, <2>1, <2>2, SaveStays, SameSchedule, SameFile
<1>4. ASSUME NEW c \in Connections, Saved(c)
      PROVE  FileInv' /\ Keeps
  BY <1>1, <1>4, FilledFile DEF Saved, Running
<1>5. QED
  BY <1>1, <1>2, <1>3, <1>4, RunsKeep, StopKeeps, UpdateStep, RecordStep, ScheduleStep DEF Next, Serve, Play

\* What the process knows of numbers and results, memory and file agree on.
THEOREM FileInvHolds == Spec => []FileInv
<1>1. FileInv /\ [Next]_vars => FileInv'
  BY NextKeeps
<1>2. QED
  BY <1>1, InitFile, PTL DEF Spec

\* No step of ScheduledGames loses a team's number or a result, neither the games
\* that end, in any order, nor the stop of the process and the start of the next,
\* unless the stop comes in the middle of a save.
THEOREM RestartsTheorem == Spec => RestartsKeep
<1>1. FileInv /\ [Next]_vars => [(NumbersStable /\ ProgressKept) \/ (Stop /\ SaveUnderWay)]_vars
  BY NextKeeps DEF Keeps
<1>2. QED
  BY <1>1, FileInvHolds, PTL DEF Spec, RestartsKeep

-----------------------------------------------------------------------------
(* How often a match occurs in a list *)

RolesIn(s) == [i \in DOMAIN s |-> s[i].roles]

At(s, m) == {i \in DOMAIN s : s[i] = m}

LEMMA TimesFinite ==
  ASSUME NEW S, NEW s \in Seq(S), NEW m
  PROVE  IsFiniteSet(At(s, m)) /\ Times(s, m) = Cardinality(At(s, m)) /\ Times(s, m) \in Nat
<1>1. DOMAIN s = 1..Len(s) /\ 1 \in Int /\ Len(s) \in Int
  OBVIOUS
<1>2. IsFiniteSet(DOMAIN s)
  BY <1>1, FS_Interval
<1>3. IsFiniteSet(At(s, m))
  BY <1>2, FS_Subset DEF At
<1>4. QED
  BY <1>3, FS_CardinalityType DEF Times, At

LEMMA TimesAppend ==
  ASSUME NEW S, NEW s \in Seq(S), NEW x \in S, NEW m
  PROVE  Times(Append(s, x), m) = Times(s, m) + (IF x = m THEN 1 ELSE 0)
<1> DEFINE more == Append(s, x)
<1>1. /\ more \in Seq(S) /\ DOMAIN s = 1..Len(s) /\ DOMAIN more = 1..Len(s) + 1 /\ Len(s) \in Nat
      /\ more[Len(s) + 1] = x /\ \A i \in 1..Len(s) : more[i] = s[i]
  OBVIOUS
<1> HIDE DEF more
<1>2. At(more, m) = IF x = m THEN At(s, m) \union {Len(s) + 1} ELSE At(s, m)
  <2>1. 1..Len(s) + 1 = (1..Len(s)) \union {Len(s) + 1}
    BY <1>1
  <2> QED BY <1>1, <2>1 DEF At
<1>3. Len(s) + 1 \notin At(s, m)
  BY <1>1 DEF At
<1>4. IsFiniteSet(At(s, m)) /\ Cardinality(At(s, m)) \in Nat /\ Times(s, m) = Cardinality(At(s, m))
  BY TimesFinite
<1>5. Times(more, m) = Cardinality(At(more, m))
  BY <1>1, TimesFinite
<1>6. Cardinality(At(s, m) \union {Len(s) + 1}) = Cardinality(At(s, m)) + 1
  BY <1>3, <1>4, FS_AddElement
<1>7. Times(more, m) = Times(s, m) + (IF x = m THEN 1 ELSE 0)
  <2>1. CASE x = m
    BY <1>2, <1>4, <1>5, <1>6, <2>1
  <2>2. CASE x # m
    BY <1>2, <1>4, <1>5, <2>2
  <2> QED BY <2>1, <2>2
<1>8. QED
  BY <1>7 DEF more

\* What is sorted occurs as often as before.
LEMMA TimesPermuted ==
  ASSUME NEW S, NEW s \in Seq(S), NEW p \in Bijection(DOMAIN s, DOMAIN s), NEW m
  PROVE  Times([i \in DOMAIN s |-> s[p[i]]], m) = Times(s, m)
<1> DEFINE q == [i \in DOMAIN s |-> s[p[i]]]
           f == [i \in At(q, m) |-> p[i]]
<1>1. /\ p \in [DOMAIN s -> DOMAIN s]
      /\ \A i, j \in DOMAIN s : p[i] = p[j] => i = j
      /\ \A j \in DOMAIN s : \E i \in DOMAIN s : p[i] = j
  BY DEF Bijection, Injection, Surjection, IsInjective
<1>2. f \in Surjection(At(q, m), At(s, m))
  <2>1. \A i \in At(q, m) : i \in DOMAIN s /\ p[i] \in At(s, m)
    BY <1>1 DEF At
  <2>2. \A j \in At(s, m) : \E i \in At(q, m) : f[i] = j
    <3> TAKE j \in At(s, m)
    <3>1. PICK i \in DOMAIN s : p[i] = j
      BY <1>1 DEF At
    <3>2. i \in At(q, m)
      BY <3>1 DEF At
    <3> QED BY <3>1, <3>2
  <2> HIDE DEF q
  <2> QED BY <2>1, <2>2 DEF Surjection
<1>3. f \in Injection(At(q, m), At(s, m))
  <2>1. \A i \in At(q, m) : i \in DOMAIN s
    BY DEF At
  <2>2. f \in [At(q, m) -> At(s, m)]
    BY <1>2 DEF Surjection
  <2> HIDE DEF q
  <2> QED BY <1>1, <2>1, <2>2 DEF Injection, IsInjective
<1>4. IsFiniteSet(At(s, m)) /\ Times(s, m) = Cardinality(At(s, m)) /\ Times(q, m) = Cardinality(At(q, m))
  <2>1. Times(q, m) = Cardinality(At(q, m))
    BY DEF Times, At
  <2> QED BY <2>1, TimesFinite
<1> HIDE DEF f, q
<1>5. Cardinality(At(q, m)) = Cardinality(At(s, m))
  BY <1>2, <1>3, <1>4, FS_Injection
<1>6. QED
  BY <1>4, <1>5 DEF q

LEMMA WithoutIs ==
  ASSUME NEW S, NEW s \in Seq(S), NEW i \in 1..Len(s)
  PROVE  /\ Without(s, i) \in Seq(S) /\ Len(Without(s, i)) = Len(s) - 1
         /\ \A j \in 1..Len(s) - 1 : Without(s, i)[j] = IF j < i THEN s[j] ELSE s[j + 1]
<1> DEFINE front == SubSeq(s, 1, i - 1)
           back == SubSeq(s, i + 1, Len(s))
<1>1. Len(s) \in Nat /\ i \in Nat /\ 1 <= i /\ i <= Len(s) /\ \A k \in 1..Len(s) : s[k] \in S
  OBVIOUS
<1>2. front \in Seq(S) /\ Len(front) = i - 1 /\ \A j \in 1..i - 1 : front[j] = s[j]
  <2>1. \A k \in 1..i - 1 : s[k] \in S
    BY <1>1
  <2> QED BY <1>1, <2>1, SubSeqProperties
<1>3. back \in Seq(S) /\ Len(back) = Len(s) - i /\ \A j \in 1..Len(s) - i : back[j] = s[i + j]
  <2>1. \A k \in i + 1..Len(s) : s[k] \in S
    BY <1>1
  <2> QED BY <1>1, <2>1, SubSeqProperties
<1> HIDE DEF front, back
<1>4. /\ front \o back \in Seq(S) /\ Len(front \o back) = Len(s) - 1
      /\ \A j \in 1..Len(s) - 1 : (front \o back)[j] = IF j <= i - 1 THEN front[j] ELSE back[j - (i - 1)]
  <2>1. /\ front \o back \in Seq(S) /\ Len(front \o back) = Len(front) + Len(back)
        /\ \A j \in 1..Len(front) + Len(back) :
             (front \o back)[j] = IF j <= Len(front) THEN front[j] ELSE back[j - Len(front)]
    BY <1>2, <1>3, ConcatProperties
  <2>2. Len(front) + Len(back) = Len(s) - 1
    BY <1>1, <1>2, <1>3
  <2> QED BY <1>2, <2>1, <2>2
<1>5. \A j \in 1..Len(s) - 1 : (front \o back)[j] = IF j < i THEN s[j] ELSE s[j + 1]
  <2> TAKE j \in 1..Len(s) - 1
  <2>1. CASE j < i
    <3>1. j \in 1..i - 1 /\ j <= i - 1
      BY <1>1, <2>1
    <3>2. (front \o back)[j] = front[j]
      BY <1>4, <3>1
    <3> QED BY <1>2, <2>1, <3>1, <3>2
  <2>2. CASE ~(j < i)
    <3>1. j - (i - 1) \in 1..Len(s) - i /\ ~(j <= i - 1) /\ i + (j - (i - 1)) = j + 1
      BY <1>1, <2>2
    <3>2. (front \o back)[j] = back[j - (i - 1)]
      BY <1>4, <3>1
    <3>3. back[j - (i - 1)] = s[i + (j - (i - 1))]
      BY <1>3, <3>1
    <3> QED BY <2>2, <3>1, <3>2, <3>3
  <2> QED BY <2>1, <2>2
<1>6. QED
  BY <1>4, <1>5 DEF Without, front, back

\* Of what is taken out there is one less.
LEMMA TimesWithout ==
  ASSUME NEW S, NEW s \in Seq(S), NEW i \in 1..Len(s), NEW m
  PROVE  Times(Without(s, i), m) + (IF s[i] = m THEN 1 ELSE 0) = Times(s, m)
<1> DEFINE w == Without(s, i)
           f == [j \in At(w, m) |-> IF j < i THEN j ELSE j + 1]
           T == At(s, m) \ {i}
<1>1. /\ w \in Seq(S) /\ DOMAIN w = 1..Len(s) - 1 /\ DOMAIN s = 1..Len(s) /\ Len(s) \in Nat
      /\ i \in Nat /\ 1 <= i /\ i <= Len(s)
      /\ \A j \in 1..Len(s) - 1 : w[j] = IF j < i THEN s[j] ELSE s[j + 1]
  <2>1. /\ w \in Seq(S) /\ Len(w) = Len(s) - 1
        /\ \A j \in 1..Len(s) - 1 : w[j] = IF j < i THEN s[j] ELSE s[j + 1]
    BY WithoutIs
  <2> HIDE DEF w
  <2> QED BY <2>1
<1> HIDE DEF w
<1>2. \A j \in At(w, m) : j \in 1..Len(s) - 1 /\ (IF j < i THEN j ELSE j + 1) \in T
  BY <1>1 DEF At
<1>3. f \in [At(w, m) -> T]
  BY <1>2
<1>4. f \in Surjection(At(w, m), T)
  <2>1. \A k \in T : \E j \in At(w, m) : f[j] = k
    <3> TAKE k \in T
    <3>1. k \in 1..Len(s) /\ k # i /\ s[k] = m
      BY <1>1 DEF At
    <3>2. CASE k < i
      <4>1. k \in 1..Len(s) - 1 /\ w[k] = s[k]
        BY <1>1, <3>1, <3>2
      <4>2. k \in At(w, m) /\ f[k] = k
        BY <1>1, <3>1, <3>2, <4>1 DEF At
      <4> QED BY <4>2
    <3>3. CASE ~(k < i)
      <4>1. k - 1 \in 1..Len(s) - 1 /\ ~(k - 1 < i) /\ k - 1 + 1 = k /\ w[k - 1] = s[k - 1 + 1]
        BY <1>1, <3>1, <3>3
      <4>2. k - 1 \in At(w, m)
        BY <1>1, <3>1, <4>1 DEF At
      <4>3. f[k - 1] = k
        BY <4>1, <4>2
      <4> QED BY <4>2, <4>3
    <3> QED BY <3>2, <3>3
  <2> HIDE DEF f, T
  <2> QED BY <1>3, <2>1 DEF Surjection
<1>5. f \in Injection(At(w, m), T)
  <2>1. \A j, k \in At(w, m) : f[j] = f[k] => j = k
    BY <1>1, <1>2
  <2> HIDE DEF f, T
  <2> QED BY <1>3, <2>1 DEF Injection, IsInjective
<1>6. IsFiniteSet(At(s, m)) /\ Cardinality(At(s, m)) \in Nat /\ Times(s, m) = Cardinality(At(s, m))
  BY TimesFinite
<1>7. Times(w, m) = Cardinality(At(w, m))
  BY <1>1, TimesFinite
<1>8. IsFiniteSet(T) /\ Cardinality(T) = IF i \in At(s, m) THEN Cardinality(At(s, m)) - 1 ELSE Cardinality(At(s, m))
  BY <1>6, FS_RemoveElement
<1>9. i \in At(s, m) <=> s[i] = m
  BY <1>1 DEF At
<1> HIDE DEF f, T
<1>10. Cardinality(At(w, m)) = Cardinality(T)
  BY <1>4, <1>5, <1>8, FS_Injection
<1>11. QED
  <2>1. CASE s[i] = m
    BY <1>6, <1>7, <1>8, <1>9, <1>10, <2>1 DEF w
  <2>2. CASE s[i] # m
    BY <1>6, <1>7, <1>8, <1>9, <1>10, <2>2 DEF w
  <2> QED BY <2>1, <2>2

-----------------------------------------------------------------------------
(* A schedule that the draw d and the games played explain *)

Entries == [roles : Matches, weight : {0, 1}]

\* How many matches are still scheduled, and how many are over.
Open(s) == Len(s.scheduled)
Over(s) == Len(s.ended)

Grounded(s, d) ==
  /\ s = [names |-> s.names, scheduled |-> s.scheduled, ended |-> s.ended]
  /\ s.names \in Seq(Teams) /\ Len(s.names) <= TeamCount
  /\ s.scheduled \in Seq(Entries)
  /\ s.ended \in Seq(Matches)
  /\ Open(s) + Over(s) = Len(d)
  /\ \A m \in Matches : Times(RolesIn(s.scheduled), m) + Times(s.ended, m) = Times(d, m)

LEMMA Grounds ==
  ASSUME NEW d, NEW names \in Seq(Teams), Len(names) <= TeamCount,
         NEW list \in Seq(Entries), NEW over \in Seq(Matches), Len(list) + Len(over) = Len(d),
         \A m \in Matches : Times(RolesIn(list), m) + Times(over, m) = Times(d, m)
  PROVE  Grounded([names |-> names, scheduled |-> list, ended |-> over], d)
<1> DEFINE s == [names |-> names, scheduled |-> list, ended |-> over]
<1>1. s.names = names /\ s.scheduled = list /\ s.ended = over
  OBVIOUS
<1>2. s = [names |-> s.names, scheduled |-> s.scheduled, ended |-> s.ended]
  OBVIOUS
<1> HIDE DEF s
<1>3. Open(s) + Over(s) = Len(d)
  <2>1. Open(s) = Len(list) /\ Over(s) = Len(over)
    BY <1>1 DEF Open, Over
  <2> QED BY <2>1
<1>4. Grounded(s, d)
  BY <1>1, <1>2, <1>3 DEF Grounded
<1>5. QED
  BY <1>4 DEF s

LEMMA SeqBounded ==
  ASSUME NEW S, NEW s \in Seq(S), NEW n \in Nat, Len(s) <= n
  PROVE  s \in UNION {[1..k -> S] : k \in 0..n}
<1>1. Len(s) \in 0..n /\ s \in [1..Len(s) -> S]
  OBVIOUS
<1>2. QED
  BY <1>1

LEMMA EntryIs ==
  ASSUME NEW e \in Entries
  PROVE  /\ e.roles \in Matches
         /\ [e EXCEPT !.weight = 0] \in Entries /\ [e EXCEPT !.weight = 0].roles = e.roles
BY DEF Entries

LEMMA RolesInType ==
  ASSUME NEW s \in Seq(Entries)
  PROVE  /\ RolesIn(s) \in Seq(Matches) /\ Len(RolesIn(s)) = Len(s)
         /\ DOMAIN s = 1..Len(s) /\ \A i \in 1..Len(s) : RolesIn(s)[i] = s[i].roles
<1>1. /\ DOMAIN s = 1..Len(s) /\ Len(s) \in Nat
      /\ \A i \in 1..Len(s) : s[i].roles \in Matches
  <2>1. DOMAIN s = 1..Len(s) /\ Len(s) \in Nat /\ \A i \in 1..Len(s) : s[i] \in Entries
    OBVIOUS
  <2> QED BY <2>1, EntryIs
<1>2. RolesIn(s) = [i \in 1..Len(s) |-> s[i].roles]
  BY <1>1 DEF RolesIn
<1>3. QED
  BY <1>1, <1>2

LEMMA DrawnType ==
  ASSUME NEW d \in Drawn \union {<<>>}
  PROVE  d \in Seq(Matches) /\ Len(d) <= GameCount
<1>1. GameCount \in Nat
  BY ScheduleAssumption
<1>2. CASE d = <<>>
  BY <1>1, <1>2
<1>3. CASE d \in [1..GameCount -> Matches]
  BY <1>1, <1>3
<1>4. QED
  BY <1>2, <1>3 DEF Drawn

LEMMA GroundedType ==
  ASSUME NEW d \in Drawn \union {<<>>}, NEW s, Grounded(s, d)
  PROVE  s \in Schedules
<1>1. Len(d) \in Nat /\ Len(d) <= GameCount /\ GameCount \in Nat /\ TeamCount \in Nat
  BY DrawnType, ScheduleAssumption
<1>2. /\ s.names \in Seq(Teams) /\ s.scheduled \in Seq(Entries)
      /\ s.ended \in Seq(Matches) /\ Len(s.names) <= TeamCount
  BY DEF Grounded
<1>3. Open(s) <= GameCount /\ Over(s) <= GameCount
  <2>1. Open(s) \in Nat /\ Over(s) \in Nat
    BY <1>2, LenProperties DEF Open, Over
  <2>2. Open(s) + Over(s) = Len(d)
    BY DEF Grounded
  <2> QED BY <1>1, <2>1, <2>2
<1>4. s.names \in UNION {[1..n -> Teams] : n \in 0..TeamCount}
  BY <1>1, <1>2, SeqBounded
<1>5. s.scheduled \in UNION {[1..n -> Entries] : n \in 0..GameCount}
  BY <1>1, <1>2, <1>3, SeqBounded DEF Open, Over
<1>6. s.ended \in UNION {[1..n -> Matches] : n \in 0..GameCount}
  BY <1>1, <1>2, <1>3, SeqBounded DEF Open, Over
<1>7. QED
  BY <1>4, <1>5, <1>6 DEF Schedules, Grounded, Entries

LEMMA EmptyTimes == \A m : Times(<<>>, m) = 0
<1> TAKE m
<1>1. {i \in DOMAIN <<>> : <<>>[i] = m} = {}
  OBVIOUS
<1>2. QED
  BY <1>1, FS_EmptySet DEF Times

LEMMA NewGrounded ==
  ASSUME NEW d \in Drawn \union {<<>>}
  PROVE  Grounded(NewMatchOptimizer(d), d)
<1> DEFINE list == [i \in DOMAIN d |-> [roles |-> d[i], weight |-> 1]]
<1>1. d \in Seq(Matches) /\ DOMAIN d = 1..Len(d) /\ Len(d) \in Nat /\ \A i \in 1..Len(d) : d[i] \in Matches
  BY DrawnType
<1>2. list \in Seq(Entries) /\ Len(list) = Len(d) /\ DOMAIN list = DOMAIN d
  <2>1. \A i \in DOMAIN d : list[i] \in Entries
    BY <1>1 DEF Entries
  <2>2. list = [i \in 1..Len(d) |-> list[i]] /\ DOMAIN list = DOMAIN d
    BY <1>1
  <2> HIDE DEF list
  <2> QED BY <1>1, <2>1, <2>2
<1>3. RolesIn(list) = d
  <2>1. \A i \in DOMAIN d : list[i].roles = d[i]
    OBVIOUS
  <2>2. RolesIn(list) = [i \in 1..Len(d) |-> d[i]]
    BY <1>1, <1>2, <2>1 DEF RolesIn
  <2> QED BY <1>1, <2>2
<1> HIDE DEF list
<1>4. NewMatchOptimizer(d) = [names |-> <<>>, scheduled |-> list, ended |-> <<>>]
  BY DEF NewMatchOptimizer, list
<1>5. \A m \in Matches : Times(RolesIn(list), m) + Times(<<>>, m) = Times(d, m)
  BY <1>1, <1>3, EmptyTimes, TimesFinite
<1>6. <<>> \in Seq(Teams) /\ Len(<<>>) = 0 /\ <<>> \in Seq(Matches) /\ TeamCount \in Nat
  BY ScheduleAssumption
<1>7. QED
  <2>1. Len(list) + Len(<<>>) = Len(d)
    BY <1>1, <1>2
  <2>2. Len(<<>>) <= TeamCount
    BY <1>6
  <2>3. Grounded([names |-> <<>>, scheduled |-> list, ended |-> <<>>], d)
    BY <1>2, <1>5, <1>6, <2>1, <2>2, Grounds
  <2> QED BY <1>4, <2>3

LEMMA UpdateGrounded ==
  ASSUME NEW d, NEW s, Grounded(s, d), NEW t \in Teams, Registers(s, t)
  PROVE  Grounded(UpdateTeam(s, t), d)
<1> DEFINE new == Append(s.names, t)
<1>1. UpdateTeam(s, t) = [names |-> new, scheduled |-> s.scheduled, ended |-> s.ended]
  <2>1. UpdateTeam(s, t) = [s EXCEPT !.names = new]
    BY DEF UpdateTeam
  <2> HIDE DEF new
  <2> QED BY <2>1 DEF Grounded
<1>2. new \in Seq(Teams) /\ Len(new) <= TeamCount
  BY ScheduleAssumption DEF Grounded, Registers
<1> HIDE DEF new
<1>3. QED
  BY <1>1, <1>2, Grounds DEF Grounded, Open, Over

LEMMA SortsGrounded ==
  ASSUME NEW d, NEW s, Grounded(s, d), NEW sorted \in Sorts(s)
  PROVE  Grounded(sorted, d)
<1> DEFINE D == DOMAIN s.scheduled
<1>1. PICK p \in Bijection(D, D) : sorted = [s EXCEPT !.scheduled = [i \in D |-> @[p[i]]]]
  BY DEF Sorts
<1> DEFINE list == [i \in D |-> s.scheduled[p[i]]]
<1>2. /\ s.scheduled \in Seq(Entries) /\ D = 1..Len(s.scheduled)
      /\ Len(s.scheduled) \in Nat
  BY DEF Grounded
<1>3. p \in [D -> D]
  BY DEF Bijection, Injection
<1>4. list \in Seq(Entries) /\ Len(list) = Len(s.scheduled) /\ DOMAIN list = D
  BY <1>2, <1>3
<1>5. sorted = [names |-> s.names, scheduled |-> list, ended |-> s.ended]
  BY <1>1 DEF Grounded
<1>6. RolesIn(list) = [i \in DOMAIN RolesIn(s.scheduled) |-> RolesIn(s.scheduled)[p[i]]]
  BY <1>2, <1>3, <1>4 DEF RolesIn
<1>7. RolesIn(s.scheduled) \in Seq(Matches) /\ DOMAIN RolesIn(s.scheduled) = D
  BY <1>2, RolesInType
<1> HIDE DEF list
<1>8. \A m : Times(RolesIn(list), m) = Times(RolesIn(s.scheduled), m)
  BY <1>6, <1>7, TimesPermuted
<1>9. QED
  BY <1>4, <1>5, <1>8, Grounds DEF Grounded, Open, Over

LEMMA WeightGrounded ==
  ASSUME NEW d, NEW s, Grounded(s, d), NEW m
  PROVE  Grounded(SetMatchWeight(s, m, 0), d)
<1> DEFINE D == DOMAIN s.scheduled
           list == [i \in D |-> IF i \in Found(s, m) THEN [s.scheduled[i] EXCEPT !.weight = 0] ELSE s.scheduled[i]]
<1>1. SetMatchWeight(s, m, 0) = [names |-> s.names, scheduled |-> list, ended |-> s.ended]
  <2>1. SetMatchWeight(s, m, 0) = [s EXCEPT !.scheduled = list]
    BY DEF SetMatchWeight
  <2> HIDE DEF list
  <2> QED BY <2>1 DEF Grounded
<1>2. /\ s.scheduled \in Seq(Entries) /\ D = 1..Len(s.scheduled)
      /\ Len(s.scheduled) \in Nat
  BY DEF Grounded
<1>3. \A i \in D : list[i] \in Entries /\ list[i].roles = s.scheduled[i].roles
  <2>1. \A i \in D : s.scheduled[i] \in Entries
    BY <1>2
  <2> QED BY <2>1, EntryIs
<1>4. list \in Seq(Entries) /\ Len(list) = Len(s.scheduled) /\ DOMAIN list = D
  <2> DEFINE n == Len(s.scheduled)
  <2>1. n \in Nat /\ D = 1..n
    BY <1>2
  <2>2. list = [i \in 1..n |-> list[i]] /\ DOMAIN list = 1..n /\ \A i \in 1..n : list[i] \in Entries
    BY <1>3, <2>1
  <2> HIDE DEF list, n
  <2>3. list \in Seq(Entries) /\ Len(list) = n
    BY <2>1, <2>2
  <2> QED BY <2>1, <2>2, <2>3 DEF n
<1>5. RolesIn(list) = RolesIn(s.scheduled)
  BY <1>3, <1>4 DEF RolesIn
<1> HIDE DEF list
<1>6. QED
  <2>1. /\ s.names \in Seq(Teams) /\ Len(s.names) <= TeamCount /\ s.ended \in Seq(Matches)
        /\ \A x \in Matches : Times(RolesIn(list), x) + Times(s.ended, x) = Times(d, x)
    BY <1>5 DEF Grounded
  <2>2. Len(list) + Len(s.ended) = Len(d)
    BY <1>4 DEF Grounded, Open, Over
  <2>3. Grounded([names |-> s.names, scheduled |-> list, ended |-> s.ended], d)
    BY <1>4, <2>1, <2>2, Grounds
  <2> QED BY <1>1, <2>3

\* A match that is over leaves the list and joins the ones that are over.
LEMMA EndGrounded ==
  ASSUME NEW d, NEW s, Grounded(s, d), NEW m
  PROVE  /\ Grounded(SetMatchEnd(s, m), d)
         /\ Len(SetMatchEnd(s, m).ended) = IF Found(s, m) = {} THEN Len(s.ended) ELSE Len(s.ended) + 1
<1>1. CASE Found(s, m) = {}
  BY <1>1 DEF SetMatchEnd
<1>2. CASE Found(s, m) # {}
  <2> DEFINE i == CHOOSE i \in Found(s, m) : TRUE
             list == Without(s.scheduled, i)
             over == Append(s.ended, m)
             roles == RolesIn(s.scheduled)
  <2>1. SetMatchEnd(s, m) = [names |-> s.names, scheduled |-> list, ended |-> over]
    BY <1>2 DEF SetMatchEnd, Grounded
  <2>2. i \in DOMAIN s.scheduled /\ s.scheduled[i].roles = m
    BY <1>2 DEF Found
  <2> HIDE DEF i
  <2>3. /\ s.scheduled \in Seq(Entries) /\ Len(s.scheduled) \in Nat
        /\ s.ended \in Seq(Matches) /\ Len(s.ended) \in Nat
    BY DEF Grounded
  <2>4. /\ roles \in Seq(Matches) /\ Len(roles) = Len(s.scheduled) /\ DOMAIN s.scheduled = 1..Len(s.scheduled)
        /\ \A j \in 1..Len(s.scheduled) : roles[j] = s.scheduled[j].roles
    BY <2>3, RolesInType
  <2> HIDE DEF roles
  <2>5. i \in 1..Len(s.scheduled) /\ roles[i] = m /\ m \in Matches
    BY <2>2, <2>3, <2>4
  <2>6. /\ list \in Seq(Entries) /\ Len(list) = Len(s.scheduled) - 1
        /\ \A j \in 1..Len(s.scheduled) - 1 :
             list[j] = IF j < i THEN s.scheduled[j] ELSE s.scheduled[j + 1]
    BY <2>3, <2>5, WithoutIs
  <2>7. /\ Without(roles, i) \in Seq(Matches) /\ Len(Without(roles, i)) = Len(s.scheduled) - 1
        /\ \A j \in 1..Len(s.scheduled) - 1 :
             Without(roles, i)[j] = IF j < i THEN roles[j] ELSE roles[j + 1]
    <3>1. i \in 1..Len(roles)
      BY <2>4, <2>5
    <3> QED BY <2>4, <3>1, WithoutIs
  <2> HIDE DEF list
  <2>8. RolesIn(list) = Without(roles, i)
    <3>1. /\ RolesIn(list) \in Seq(Matches) /\ Len(RolesIn(list)) = Len(s.scheduled) - 1
          /\ \A j \in 1..Len(s.scheduled) - 1 : RolesIn(list)[j] = list[j].roles
      BY <2>6, RolesInType
    <3>2. ASSUME NEW j \in 1..Len(s.scheduled) - 1 PROVE RolesIn(list)[j] = Without(roles, i)[j]
      <4>1. j \in 1..Len(s.scheduled) /\ j + 1 \in 1..Len(s.scheduled)
        BY <2>3
      <4>2. CASE j < i
        BY <2>4, <2>6, <2>7, <3>1, <4>1, <4>2
      <4>3. CASE ~(j < i)
        BY <2>4, <2>6, <2>7, <3>1, <4>1, <4>3
      <4> QED BY <4>2, <4>3
    <3> QED BY <2>7, <3>1, <3>2, SeqEqual
  <2>9. \A x \in Matches : Times(RolesIn(list), x) + Times(over, x) = Times(d, x)
    <3> TAKE x \in Matches
    <3>1. i \in 1..Len(roles)
      BY <2>4, <2>5
    <3>2. Times(Without(roles, i), x) + (IF m = x THEN 1 ELSE 0) = Times(roles, x)
      BY <2>4, <2>5, <3>1, TimesWithout
    <3>3. Times(over, x) = Times(s.ended, x) + (IF m = x THEN 1 ELSE 0)
      BY <2>3, <2>5, TimesAppend
    <3>4. Times(roles, x) + Times(s.ended, x) = Times(d, x)
      BY DEF Grounded, roles
    <3>5. Times(Without(roles, i), x) \in Nat /\ Times(roles, x) \in Nat /\ Times(s.ended, x) \in Nat
      BY <2>3, <2>4, <2>7, TimesFinite
    <3> HIDE DEF over
    <3>6. CASE m = x
      BY <2>8, <3>2, <3>3, <3>4, <3>5, <3>6
    <3>7. CASE m # x
      BY <2>8, <3>2, <3>3, <3>4, <3>5, <3>7
    <3> QED BY <3>6, <3>7
  <2>10. over \in Seq(Matches) /\ Len(over) = Len(s.ended) + 1
    BY <2>3, <2>5
  <2> HIDE DEF over
  <2>11. Len(list) = Open(s) - 1 /\ Len(over) = Over(s) + 1
    BY <2>6, <2>10 DEF Open, Over
  <2>12. s.names \in Seq(Teams) /\ Len(s.names) <= TeamCount
    BY DEF Grounded
  <2>13. Len(list) + Len(over) = Len(d)
    <3>1. Open(s) \in Nat /\ Over(s) \in Nat
      BY <2>3 DEF Open, Over
    <3>2. Open(s) + Over(s) = Len(d)
      BY DEF Grounded
    <3> QED BY <2>11, <3>1, <3>2
  <2>14. Grounded(SetMatchEnd(s, m), d)
    BY <2>1, <2>6, <2>9, <2>10, <2>12, <2>13, Grounds
  <2>15. SetMatchEnd(s, m).ended = over
    BY <2>1
  <2> QED BY <1>2, <2>10, <2>14, <2>15
<1> QED BY <1>1, <1>2

-----------------------------------------------------------------------------
(* What every variable holds *)

Lists == Seq([Roles -> SUBSET (Teams \union {NoTeam})])

ShapeInv ==
  /\ proc \in {"down", "saving", "up", "panicked"} /\ stops \in 0..MaxStops
  /\ coming \subseteq Connections /\ mu \in Connections \union {Free}
  /\ room \in Room
  /\ at \in [Connections -> {"new", "entered", "updating", "appending", "choosing", "returned"}]
  /\ todo \in [Connections -> SUBSET Teams]
  /\ seen \in [Connections -> Lists]
  /\ game \in [Connections -> {"none", "running", "won", "failed"}]
  /\ playing \in [Connections -> [Roles -> SUBSET Teams]]
  /\ outdated \in BOOLEAN

LEMMA MatchesListed ==
  ASSUME NEW s, NEW d, Grounded(s, d)
  PROVE  GetMatches(s) \in Lists
<1> DEFINE n == Len(s.scheduled)
           list == GetMatches(s)
<1>1. s.scheduled \in Seq(Entries) /\ s.names \in Seq(Teams)
  BY DEF Grounded
<1>2. n \in Nat /\ DOMAIN s.scheduled = 1..n /\ \A i \in 1..n : s.scheduled[i].roles \in Matches
  <2>1. n \in Nat /\ DOMAIN s.scheduled = 1..n /\ \A i \in 1..n : s.scheduled[i] \in Entries
    BY <1>1
  <2> QED BY <2>1, EntryIs
<1>3. \A i \in DOMAIN s.names : s.names[i] \in Teams
  BY <1>1
<1>4. ASSUME NEW m \in Matches PROVE TeamNameMatch(s, m) \in [Roles -> SUBSET (Teams \union {NoTeam})]
  BY <1>3 DEF TeamNameMatch
<1>5. list = [i \in 1..n |-> list[i]] /\ \A i \in 1..n : list[i] \in [Roles -> SUBSET (Teams \union {NoTeam})]
  BY <1>2, <1>4 DEF GetMatches
<1> HIDE DEF n, list
<1>6. list \in Lists
  BY <1>2, <1>5 DEF Lists
<1>7. QED
  BY <1>6 DEF list

\* What a match leaves of the queues: the first of each of its teams is gone.
OneOfEach(m) == [t \in Teams |-> IF \E r \in Roles : t \in m[r] THEN 1 ELSE 0]

LEMMA OneLeft ==
  ASSUME room \in Room, NEW m, Ready(m)
  PROVE  /\ Left(room, OneOfEach(m)) \in Room
         /\ \A t \in Teams :
              LET one == IF \E r \in Roles : t \in m[r] THEN 1 ELSE 0
              IN  /\ one <= Len(room[t]) /\ Len(Left(room, OneOfEach(m))[t]) = Len(room[t]) - one
                  /\ \A n \in 1..Len(room[t]) - one : Left(room, OneOfEach(m))[t][n] = room[t][n + one]
<1> DEFINE take == OneOfEach(m)
           left == Left(room, take)
<1>1. ASSUME NEW t \in Teams
      PROVE  /\ take[t] = (IF \E r \in Roles : t \in m[r] THEN 1 ELSE 0) /\ take[t] <= Len(room[t])
             /\ left[t] \in Seq(Connections) /\ Len(left[t]) = Len(room[t]) - take[t]
             /\ \A n \in 1..Len(room[t]) - take[t] : left[t][n] = room[t][n + take[t]]
  <2> DEFINE q == room[t]
             k == take[t]
  <2>1. q \in Seq(Connections) /\ Len(q) \in Nat /\ \A n \in 1..Len(q) : q[n] \in Connections
    BY DEF Room
  <2>2. k = IF \E r \in Roles : t \in m[r] THEN 1 ELSE 0
    BY DEF OneOfEach
  <2>3. k <= Len(q)
    <3>1. CASE \E r \in Roles : t \in m[r]
      <4>1. q # <<>>
        BY <3>1 DEF Ready
      <4>2. Len(q) \in Nat \ {0}
        BY <2>1, <4>1, EmptySeq
      <4> QED BY <2>2, <3>1, <4>2
    <3>2. CASE ~\E r \in Roles : t \in m[r]
      BY <2>1, <2>2, <3>2
    <3> QED BY <3>1, <3>2
  <2>4. left[t] = SubSeq(q, k + 1, Len(q))
    BY DEF Left
  <2> HIDE DEF q, k, left
  <2>5. k \in Nat /\ k + 1 \in Int /\ Len(q) \in Int /\ \A n \in k + 1..Len(q) : q[n] \in Connections
    BY <2>1, <2>2
  <2>6. /\ SubSeq(q, k + 1, Len(q)) \in Seq(Connections)
        /\ Len(SubSeq(q, k + 1, Len(q))) = IF k + 1 <= Len(q) THEN Len(q) - (k + 1) + 1 ELSE 0
        /\ \A n \in 1..Len(q) - (k + 1) + 1 : SubSeq(q, k + 1, Len(q))[n] = q[k + 1 + n - 1]
    BY <2>5, SubSeqProperties
  <2>7. Len(left[t]) = Len(q) - k
    BY <2>1, <2>3, <2>4, <2>5, <2>6
  <2>8. \A n \in 1..Len(q) - k : left[t][n] = q[n + k]
    <3> TAKE n \in 1..Len(q) - k
    <3>1. n \in 1..Len(q) - (k + 1) + 1 /\ k + 1 + n - 1 = n + k
      BY <2>1, <2>5
    <3> QED BY <2>4, <2>6, <3>1
  <2> QED BY <2>2, <2>3, <2>4, <2>6, <2>7, <2>8 DEF q, k
<1>2. left = [t \in Teams |-> left[t]]
  BY DEF Left
<1> HIDE DEF take, left
<1>3. left \in Room
  BY <1>1, <1>2 DEF Room
<1>4. QED
  BY <1>1, <1>3 DEF left, take

LEMMA InitShape == Init => ShapeInv
<1> SUFFICES ASSUME Init PROVE ShapeInv
  OBVIOUS
<1>1. EmptyRoom \in Room /\ Nobody \in [Roles -> SUBSET Teams] /\ <<>> \in Lists
  BY DEF EmptyRoom, Room, Nobody, Lists
<1>2. QED
  <2>1. /\ at \in [Connections -> {"new", "entered", "updating", "appending", "choosing", "returned"}]
        /\ todo \in [Connections -> SUBSET Teams] /\ seen \in [Connections -> Lists]
        /\ game \in [Connections -> {"none", "running", "won", "failed"}]
        /\ playing \in [Connections -> [Roles -> SUBSET Teams]]
    BY <1>1 DEF Init
  <2>2. stops \in 0..MaxStops
    BY GamesAssumption DEF Init
  <2> QED BY <1>1, <2>1, <2>2 DEF Init, ShapeInv

\* What the schedule in memory was drawn as: a process that does not run has none.
Base == IF Running THEN drawn ELSE <<>>

LEMMA NextShape ==
  ASSUME ShapeInv, Grounded(mo, Base), [Next]_vars
  PROVE  ShapeInv'
<1> USE DEF ShapeInv
<1>1. CASE UNCHANGED vars
  BY <1>1 DEF vars, handlers, matches, history
<1>2. CASE Runs
  BY <1>2 DEF Runs, Create, Load, ParseFails, Serves, handlers, matches, history
<1>3. CASE Stop
  <2>1. EmptyRoom \in Room /\ Nobody \in [Roles -> SUBSET Teams] /\ <<>> \in Lists
    BY DEF EmptyRoom, Room, Nobody, Lists
  <2>2. stops' \in 0..MaxStops
    BY <1>3, GamesAssumption DEF Stop
  <2> QED BY <1>3, <2>1, <2>2 DEF Stop, Idle
<1>4. ASSUME NEW c \in Connections, Enter(c) PROVE ShapeInv'
  <2>1. room' \in Room
    BY <1>4, RoomAssumption DEF Enter, AddConnection, Room
  <2>2. UNCHANGED <<proc, coming, stops, mu, todo, seen, game, playing, outdated>>
    BY <1>4 DEF Enter, matches, history
  <2>3. at' \in [Connections -> {"new", "entered", "updating", "appending", "choosing", "returned"}]
    BY <1>4 DEF Enter, Handler
  <2> QED BY <2>1, <2>2, <2>3
<1>5. ASSUME NEW c \in Connections, ListTeams(c) PROVE ShapeInv'
  BY <1>5 DEF ListTeams, Handler, matches, history
<1>6. ASSUME NEW c \in Connections, Update(c) PROVE ShapeInv'
  <2>1. PICK t \in todo[c] :
          /\ todo' = [todo EXCEPT ![c] = @ \ {t}]
          /\ IF Registers(mo, t)
             THEN Saving(c, UpdateTeam(mo, t)) /\ outdated' = (outdated \/ \E d \in Connections : at[d] = "choosing")
             ELSE UNCHANGED <<disk, mu, mo, outdated>>
    BY <1>6 DEF Update
  <2>2. mu' \in Connections \union {Free} /\ outdated' \in BOOLEAN
    BY <2>1 DEF Saving
  <2>3. todo' \in [Connections -> SUBSET Teams]
    BY <2>1
  <2>4. at' = at
    BY <1>6 DEF Update, Handler
  <2> QED BY <1>6, <2>2, <2>3, <2>4 DEF Update, matches
<1>7. ASSUME NEW c \in Connections, Schedule(c) PROVE ShapeInv'
  <2>1. GetMatches(mo) \in Lists
    BY MatchesListed
  <2>2. seen' \in [Connections -> Lists] /\ mu' \in Connections \union {Free}
    BY <1>7, <2>1 DEF Schedule
  <2>3. at' \in [Connections -> {"new", "entered", "updating", "appending", "choosing", "returned"}]
    BY <1>7 DEF Schedule, Handler
  <2> QED BY <1>7, <2>2, <2>3 DEF Schedule, matches, history
<1>8. ASSUME NEW c \in Connections, Choose(c) PROVE ShapeInv'
  <2>1. <<>> \in Lists
    BY DEF Lists
  <2>2. seen' \in [Connections -> Lists]
    BY <1>8, <2>1 DEF Choose
  <2>3. at' \in [Connections -> {"new", "entered", "updating", "appending", "choosing", "returned"}]
    BY <1>8 DEF Choose, Handler
  <2>4. /\ room' \in Room /\ game' \in [Connections -> {"none", "running", "won", "failed"}]
        /\ playing' \in [Connections -> [Roles -> SUBSET Teams]]
    <3>1. CASE UNCHANGED <<room, matches>>
      BY <3>1 DEF matches
    <3>2. ASSUME NEW i \in Chosen(c), LET m == seen[c][i] IN
                   /\ room' = Left(room, OneOfEach(m))
                   /\ playing' = [playing EXCEPT ![c] = m]
                   /\ game' = [game EXCEPT ![c] = "running"]
          PROVE  /\ room' \in Room /\ game' \in [Connections -> {"none", "running", "won", "failed"}]
                 /\ playing' \in [Connections -> [Roles -> SUBSET Teams]]
      <4> DEFINE m == seen[c][i]
      <4>1. Ready(m) /\ i \in DOMAIN seen[c]
        BY DEF Chosen
      <4>2. m \in [Roles -> SUBSET (Teams \union {NoTeam})]
        BY <4>1 DEF Lists
      <4> HIDE DEF m
      <4>3. m \in [Roles -> SUBSET Teams]
        BY <4>1, <4>2 DEF Ready
      <4>4. Left(room, OneOfEach(m)) \in Room
        BY <4>1, OneLeft
      <4> QED BY <3>2, <4>3, <4>4 DEF m
    <3> QED BY <1>8, <3>1, <3>2 DEF Choose, OneOfEach
  <2> QED BY <1>8, <2>2, <2>3, <2>4 DEF Choose, history
<1>9. ASSUME NEW c \in Connections, Saved(c) PROVE ShapeInv'
  BY <1>9 DEF Saved, handlers, matches, history
<1>10. ASSUME NEW c \in Connections, GameEnds(c) PROVE ShapeInv'
  BY <1>10 DEF GameEnds, handlers
<1>11. ASSUME NEW c \in Connections, Record(c) PROVE ShapeInv'
  <2>1. Nobody \in [Roles -> SUBSET Teams]
    BY DEF Nobody
  <2>2. mu' \in Connections \union {Free}
    BY <1>11 DEF Record, Saving
  <2> QED BY <1>11, <2>1, <2>2 DEF Record, handlers, history
<1>12. QED
  BY <1>1, <1>2, <1>3, <1>4, <1>5, <1>6, <1>7, <1>8, <1>9, <1>10, <1>11 DEF Next, Serve, Play

-----------------------------------------------------------------------------
(* The schedule and what was played *)

Won == {c \in Connections : game[c] = "won"}

SoundInv ==
  /\ FileInv /\ ShapeInv
  /\ drawn \in Drawn \union {<<>>} /\ played \in Nat
  /\ Grounded(mo, Base)
  /\ disk.says \in Schedules /\ Over(disk.says) <= played
  /\ disk.is = "whole" => Grounded(disk.says, drawn)
  /\ Over(mo) + Cardinality(Won) <= played

LEMMA WonFinite == IsFiniteSet(Won) /\ Cardinality(Won) \in Nat
<1>1. IsFiniteSet(Won)
  BY RoomAssumption, FS_Subset DEF Won
<1>2. QED
  BY <1>1, FS_CardinalityType

LEMMA OverIs ==
  ASSUME NEW s, NEW d, Grounded(s, d)
  PROVE  Over(s) \in Nat
<1>1. s.ended \in Seq(Matches)
  BY DEF Grounded
<1>2. QED
  BY <1>1, LenProperties DEF Over

LEMMA BaseIs ==
  ASSUME drawn \in Drawn \union {<<>>}
  PROVE  Base \in Drawn \union {<<>>} /\ (Running => Base = drawn)
BY DEF Base

LEMMA OverNothing == Over(Nothing) = 0 /\ Grounded(Nothing, <<>>)
<1>1. <<>> \in Drawn \union {<<>>} /\ Over(Nothing) = 0
  BY DEF Over, Nothing, NewMatchOptimizer
<1>2. QED
  BY <1>1, NewGrounded DEF Nothing

LEMMA OverNat ==
  ASSUME SoundInv
  PROVE  /\ Over(mo) \in Nat /\ Cardinality(Won) \in Nat /\ played \in Nat /\ Over(disk.says) \in Nat
         /\ Over(mo) + Cardinality(Won) <= played /\ Over(disk.says) <= played /\ Over(mo) <= played
<1>1. Over(mo) \in Nat /\ Cardinality(Won) \in Nat /\ played \in Nat
  BY OverIs, WonFinite DEF SoundInv
<1>2. Over(disk.says) \in Nat
  <2>1. CASE disk.is = "whole"
    BY <2>1, OverIs DEF SoundInv
  <2>2. CASE disk.is # "whole"
    BY <2>2, OverNothing DEF SoundInv, FileInv
  <2> QED BY <2>1, <2>2
<1>3. Over(mo) + Cardinality(Won) <= played /\ Over(disk.says) <= played
  BY DEF SoundInv
<1>4. QED
  BY <1>1, <1>2, <1>3

LEMMA SoundSchedule == SoundInv => ScheduleSound
<1> SUFFICES ASSUME SoundInv PROVE ScheduleSound
  OBVIOUS
<1>1. mo \in Schedules
  BY BaseIs, GroundedType DEF SoundInv
<1>2. \A c \in Connections : \A i \in DOMAIN seen[c] : seen[c][i] \in [Roles -> SUBSET (Teams \union {NoTeam})]
  BY DEF SoundInv, ShapeInv, Lists
<1>3. TypeOK
  BY <1>1, <1>2 DEF SoundInv, ShapeInv, FileInv, TypeOK
<1>4. ASSUME NEW s, Grounded(s, drawn) PROVE Conserves(s)
  BY <1>4 DEF Grounded, Conserves, RolesIn
<1>5. MatchesConserved
  BY <1>4, BaseIs DEF SoundInv, MatchesConserved
<1>6. EndedWerePlayed
  BY OverNat DEF EndedWerePlayed, Over
<1>7. QED
  BY <1>3, <1>5, <1>6 DEF ScheduleSound

LEMMA CutSays == Cut.says \in Schedules /\ NoFile.says \in Schedules /\ Cut.is = "cut" /\ NoFile.is = "none"
<1>1. <<>> \in Drawn \union {<<>>}
  OBVIOUS
<1>2. NewMatchOptimizer(<<>>) \in Schedules
  BY <1>1, NewGrounded, GroundedType
<1>3. QED
  BY <1>2 DEF Cut, NoFile, Nothing

LEMMA InitSound == Init => SoundInv
<1> SUFFICES ASSUME Init PROVE SoundInv
  OBVIOUS
<1>1. FileInv /\ ShapeInv
  BY InitFile, InitShape
<1>2. mo = Nothing /\ Base = <<>> /\ drawn = <<>> /\ played = 0 /\ disk = NoFile
  BY DEF Init, Base
<1>3. disk.says \in Schedules /\ disk.is = "none" /\ disk.says = Nothing
  BY <1>2, CutSays DEF NoFile
<1>4. Grounded(mo, Base) /\ Over(mo) = 0 /\ Over(disk.says) = 0
  BY <1>2, <1>3, OverNothing
<1>5. Won = {}
  BY DEF Init, Won
<1>6. Over(mo) + Cardinality(Won) <= played /\ Over(disk.says) <= played
  BY <1>2, <1>4, <1>5, FS_EmptySet
<1>7. QED
  BY <1>1, <1>2, <1>3, <1>4, <1>6 DEF SoundInv

\* The schedule is left as it is or saved as it is, and as many games are won.
LEMMA SameSound ==
  ASSUME SoundInv, FileInv', ShapeInv', drawn' = drawn, played' = played, mo' = mo, Running' = Running,
         disk' = disk \/ (Running /\ disk' = Whole(mo)), Won' \subseteq Won
  PROVE  SoundInv'
<1>1. Base' = Base
  BY DEF Base
<1>2. disk'.says \in Schedules /\ Over(disk'.says) <= played /\ (disk'.is = "whole" => Grounded(disk'.says, drawn))
  <2>1. mo \in Schedules
    BY BaseIs, GroundedType DEF SoundInv
  <2>2. CASE disk' = disk
    BY <2>2 DEF SoundInv
  <2>3. CASE Running /\ disk' = Whole(mo)
    <3>1. disk'.says = mo
      BY <2>3 DEF Whole
    <3>2. Grounded(mo, drawn)
      BY <2>3, BaseIs DEF SoundInv
    <3> QED BY <2>1, <3>1, <3>2, OverNat
  <2> QED BY <2>2, <2>3
<1>3. Over(mo) + Cardinality(Won') <= played
  <2>1. Cardinality(Won') <= Cardinality(Won) /\ Cardinality(Won') \in Nat
    BY WonFinite, FS_Subset, FS_CardinalityType
  <2> QED BY <2>1, OverNat
<1>4. Over(disk.says)' = Over(disk'.says) /\ Over(mo)' = Over(mo)
  BY DEF Over
<1>5. QED
  BY <1>1, <1>2, <1>3, <1>4 DEF SoundInv

\* The schedule changes and, unless it only changes its order, its file is emptied.
LEMMA ChangedSound ==
  ASSUME SoundInv, FileInv', ShapeInv', drawn' = drawn, played' = played, Running',
         Grounded(mo', drawn), disk' = disk \/ disk' = Cut,
         Over(mo') + Cardinality(Won') <= played
  PROVE  SoundInv'
<1>1. disk'.says \in Schedules /\ (disk'.is = "whole" => Grounded(disk'.says, drawn))
  BY CutSays DEF SoundInv
<1>2. Over(disk'.says) <= played
  <2>1. CASE disk' = disk
    BY <2>1, OverNat
  <2>2. CASE disk' = Cut
    <3>1. Over(disk'.says) = 0
      BY <2>2, OverNothing DEF Cut
    <3> QED BY <3>1, OverNat
  <2> QED BY <2>1, <2>2
<1>3. Base' = drawn
  BY DEF Base
<1>4. Over(disk.says)' = Over(disk'.says) /\ Over(mo)' = Over(mo')
  BY DEF Over
<1>5. QED
  BY <1>1, <1>2, <1>3, <1>4 DEF SoundInv

LEMMA UpdateSound ==
  ASSUME SoundInv, FileInv', ShapeInv', NEW c \in Connections, Update(c)
  PROVE  SoundInv'
<1>1. PICK t \in todo[c] :
        IF Registers(mo, t)
        THEN Saving(c, UpdateTeam(mo, t)) /\ outdated' = (outdated \/ \E d \in Connections : at[d] = "choosing")
        ELSE UNCHANGED <<disk, mu, mo, outdated>>
  BY DEF Update
<1>2. t \in Teams
  BY <1>1 DEF SoundInv, ShapeInv
<1>3. drawn' = drawn /\ played' = played /\ Won' = Won /\ Running /\ Running' /\ Running' = Running
  BY DEF Update, Handler, matches, Won, Running
<1>4. CASE Registers(mo, t)
  <2>1. mo' = UpdateTeam(mo, t) /\ disk' = Cut
    BY <1>1, <1>4 DEF Saving
  <2>2. Grounded(mo', drawn)
    BY <1>2, <1>3, <1>4, <2>1, BaseIs, UpdateGrounded DEF SoundInv
  <2>3. mo'.ended = mo.ended
    BY <1>2, <2>1, UpdateKeeps DEF SoundInv, FileInv
  <2>4. Over(mo') + Cardinality(Won') <= played
    BY <1>3, <2>3 DEF SoundInv, Over
  <2> QED BY <1>3, <2>1, <2>2, <2>4, ChangedSound
<1>5. CASE ~Registers(mo, t)
  BY <1>1, <1>3, <1>5, SameSound
<1>6. QED
  BY <1>4, <1>5

LEMMA ScheduleSounds ==
  ASSUME SoundInv, FileInv', ShapeInv', NEW c \in Connections, Schedule(c)
  PROVE  SoundInv'
<1>1. /\ drawn' = drawn /\ played' = played /\ Won' = Won /\ disk' = disk
      /\ Running /\ Running' /\ Running' = Running
  BY DEF Schedule, Handler, matches, history, Won, Running
<1>2. CASE mo' \in Sorts(mo)
  <2>1. Grounded(mo', drawn)
    BY <1>1, <1>2, BaseIs, SortsGrounded DEF SoundInv
  <2>2. mo'.ended = mo.ended
    BY <1>2, SortsKeep DEF SoundInv, FileInv, SaysSame
  <2>3. Over(mo') + Cardinality(Won') <= played
    BY <1>1, <2>2 DEF SoundInv, Over
  <2> QED BY <1>1, <2>1, <2>3, ChangedSound
<1>3. CASE mo' = mo
  BY <1>1, <1>3, SameSound
<1>4. QED
  BY <1>2, <1>3 DEF Schedule

\* Who won once more is one of the games that were played.
LEMMA EndsSound ==
  ASSUME SoundInv, FileInv', ShapeInv', NEW c \in Connections, GameEnds(c)
  PROVE  SoundInv'
<1>1. drawn' = drawn /\ mo' = mo /\ disk' = disk /\ game[c] = "running" /\ Running' = Running /\ Base' = Base
  BY DEF GameEnds, Running, Base
<1>2. CASE game' = [game EXCEPT ![c] = "won"] /\ played' = played + 1
  <2>1. Won' = Won \union {c} /\ c \notin Won
    BY <1>1, <1>2 DEF Won, SoundInv, ShapeInv
  <2>2. Cardinality(Won') = Cardinality(Won) + 1
    BY <2>1, WonFinite, FS_AddElement
  <2>3. Over(mo) + Cardinality(Won') <= played' /\ Over(disk.says) <= played' /\ played' \in Nat
    BY <1>2, <2>2, OverNat
  <2>4. Over(mo)' = Over(mo) /\ Over(disk.says)' = Over(disk.says)
    BY <1>1 DEF Over
  <2> QED BY <1>1, <2>3, <2>4 DEF SoundInv
<1>3. CASE game' = [game EXCEPT ![c] = "failed"] /\ UNCHANGED played
  <2>1. Won' \subseteq Won
    BY <1>3 DEF Won, SoundInv, ShapeInv
  <2> QED BY <1>1, <1>3, <2>1, SameSound
<1>4. QED
  BY <1>2, <1>3 DEF GameEnds

LEMMA RecordSound ==
  ASSUME SoundInv, FileInv', ShapeInv', NEW c \in Connections, Record(c)
  PROVE  SoundInv'
<1> DEFINE m == IdxMatch(mo, playing[c])
<1>1. /\ drawn' = drawn /\ played' = played /\ game' = [game EXCEPT ![c] = "none"] /\ game[c] \in {"won", "failed"}
      /\ Running /\ Running' /\ Running' = Running
  BY DEF Record, history, Running
<1>2. Won' = Won \ {c}
  BY <1>1 DEF Won, SoundInv, ShapeInv
<1>3. CASE Found(mo, m) = {}
  <2>1. UNCHANGED <<disk, mu, mo>>
    BY <1>3 DEF Record
  <2>2. Won' \subseteq Won
    BY <1>2
  <2> QED BY <1>1, <2>1, <2>2, SameSound
<1>4. CASE Found(mo, m) # {}
  <2>1. mo' = Outcome(c) /\ disk' = Cut
    BY <1>4 DEF Record, Saving
  <2>2. Grounded(mo, drawn) /\ Over(mo) \in Nat /\ Over(mo) + Cardinality(Won) <= played /\ played \in Nat
    BY <1>1, BaseIs, OverIs DEF SoundInv
  <2>3. Cardinality(Won) \in Nat /\ Cardinality(Won') = IF c \in Won THEN Cardinality(Won) - 1 ELSE Cardinality(Won)
    BY <1>2, WonFinite, FS_RemoveElement
  <2>4. CASE game[c] = "won"
    <3>1. mo' = SetMatchEnd(mo, m)
      BY <2>1, <2>4 DEF Outcome
    <3> HIDE DEF m
    <3>2. Grounded(mo', drawn) /\ Over(mo') = Over(mo) + 1
      BY <1>4, <2>2, <3>1, EndGrounded DEF Over
    <3>3. c \in Won
      BY <2>4 DEF Won
    <3>4. Over(mo') + Cardinality(Won') <= played
      BY <2>2, <2>3, <3>2, <3>3
    <3> QED BY <1>1, <2>1, <3>2, <3>4, ChangedSound
  <2>5. CASE game[c] # "won"
    <3>1. mo' = SetMatchWeight(mo, m, 0)
      BY <2>1, <2>5 DEF Outcome
    <3> HIDE DEF m
    <3>2. Grounded(mo', drawn)
      BY <2>2, <3>1, WeightGrounded
    <3>3. Over(mo') = Over(mo)
      BY <3>1, WeightKeeps DEF SoundInv, FileInv, SaysSame, Over
    <3>4. c \notin Won
      BY <2>5 DEF Won
    <3>5. Over(mo') + Cardinality(Won') <= played
      BY <2>2, <2>3, <3>3, <3>4
    <3> QED BY <1>1, <2>1, <3>2, <3>5, ChangedSound
  <2> QED BY <2>4, <2>5
<1>5. QED
  BY <1>3, <1>4

LEMMA RunsSound ==
  ASSUME SoundInv, FileInv', ShapeInv', Runs
  PROVE  SoundInv'
<1> USE FS_EmptySet
<1>0. Won = {} /\ Won' = {}
  BY DEF SoundInv, FileInv, PlaceInv, Won, Runs, Create, Load, ParseFails, Serves, matches
<1>1. CASE Create
  <2>1. drawn' \in Drawn \union {<<>>} /\ mo' = NewMatchOptimizer(drawn') /\ disk' = Cut /\ Base' = drawn'
    BY <1>1 DEF Create, Base, Running
  <2>2. Grounded(mo', drawn')
    BY <2>1, NewGrounded
  <2>3. Over(mo)' = 0 /\ Over(disk.says)' = 0
    BY <2>1, OverNothing DEF Over, NewMatchOptimizer, Cut
  <2>4. played' = played
    BY <1>1 DEF Create
  <2>5. Over(mo)' + Cardinality(Won') <= played' /\ Over(disk.says)' <= played' /\ played' \in Nat
    BY <1>0, <2>3, <2>4, OverNat
  <2>6. disk'.says \in Schedules /\ disk'.is # "whole"
    BY <2>1, CutSays
  <2> QED BY <2>1, <2>2, <2>5, <2>6 DEF SoundInv
<1>2. CASE Load
  <2>1. mo' = disk.says /\ disk' = Cut /\ disk.is = "whole" /\ drawn' = drawn /\ played' = played /\ Running'
    BY <1>2 DEF Load, history, Running
  <2>2. Grounded(mo', drawn)
    BY <2>1 DEF SoundInv
  <2>3. Over(mo') + Cardinality(Won') <= played
    BY <1>0, <2>1, OverNat
  <2> QED BY <2>1, <2>2, <2>3, ChangedSound
<1>3. CASE ParseFails
  <2>1. drawn' = drawn /\ played' = played /\ mo' = mo /\ disk' = disk /\ Running' = Running
    BY <1>3 DEF ParseFails, history, Running
  <2> QED BY <1>0, <2>1, SameSound
<1>4. CASE Serves
  <2>1. drawn' = drawn /\ played' = played /\ mo' = mo /\ disk' = Whole(mo) /\ Running /\ Running' = Running
    BY <1>4 DEF Serves, history, Running
  <2> QED BY <1>0, <2>1, SameSound
<1>5. QED
  BY <1>1, <1>2, <1>3, <1>4 DEF Runs

\* A process that stops takes its schedule with it.
LEMMA StopSound ==
  ASSUME SoundInv, FileInv', ShapeInv', Stop
  PROVE  SoundInv'
<1>1. drawn' = drawn /\ played' = played /\ mo' = Nothing /\ disk' = disk /\ Base' = <<>>
  BY DEF Stop, Base, Running
<1>2. Won' = {}
  BY DEF Stop, Idle, Won
<1>3. Over(mo)' = 0 /\ Over(disk.says)' = Over(disk.says) /\ Grounded(mo', Base')
  BY <1>1, OverNothing DEF Over
<1>4. Over(mo)' + Cardinality(Won') <= played' /\ Over(disk.says)' <= played'
  BY <1>1, <1>2, <1>3, FS_EmptySet, OverNat
<1>5. QED
  BY <1>1, <1>3, <1>4 DEF SoundInv

LEMMA NextSound == SoundInv /\ [Next]_vars => SoundInv'
<1> SUFFICES ASSUME SoundInv, [Next]_vars PROVE SoundInv'
  OBVIOUS
<1>1. FileInv'
  BY NextKeeps DEF SoundInv
<1>2. ShapeInv'
  BY NextShape DEF SoundInv
<1>3. CASE UNCHANGED vars
  <2>1. drawn' = drawn /\ played' = played /\ mo' = mo /\ disk' = disk /\ Won' = Won /\ Running' = Running
    BY <1>3 DEF vars, matches, history, Won, Running
  <2> QED BY <1>1, <1>2, <2>1, SameSound
<1>4. CASE Runs
  BY <1>1, <1>2, <1>4, RunsSound
<1>5. ASSUME NEW c \in Connections, Enter(c) \/ ListTeams(c) \/ Saved(c)
      PROVE  SoundInv'
  <2>1. drawn' = drawn /\ played' = played /\ mo' = mo /\ (disk' = disk \/ (Running /\ disk' = Whole(mo))) /\ Won' = Won
        /\ Running' = Running
    BY <1>5 DEF Enter, ListTeams, Saved, matches, history, Won, Running
  <2> QED BY <1>1, <1>2, <2>1, SameSound
<1>6. ASSUME NEW c \in Connections, Choose(c)
      PROVE  SoundInv'
  <2>1. drawn' = drawn /\ played' = played /\ mo' = mo /\ disk' = disk /\ Running' = Running
    BY <1>6 DEF Choose, history, Running
  <2>2. game' = game \/ game' = [game EXCEPT ![c] = "running"]
    BY <1>6 DEF Choose, matches
  <2>3. Won' \subseteq Won
    BY <2>2 DEF Won, SoundInv, ShapeInv
  <2> QED BY <1>1, <1>2, <2>1, <2>3, SameSound
<1>7. QED
  BY <1>1, <1>2, <1>3, <1>4, <1>5, <1>6, UpdateSound, ScheduleSounds, EndsSound, RecordSound, StopSound
     DEF Next, Serve, Play

\* The draw and the games played explain every schedule there is.
THEOREM SoundInvHolds == Spec => []SoundInv
<1>1. QED
  BY InitSound, NextSound, PTL DEF Spec

\* Whatever stops, fails or is played twice: every match that was drawn is
\* scheduled or over as often as it was drawn, in memory and in the file, and
\* only games with a winner are over.
THEOREM ScheduleTheorem == Spec => []ScheduleSound
<1>1. QED
  BY SoundInvHolds, SoundSchedule, PTL

-----------------------------------------------------------------------------
(* Nobody is forgotten *)

\* Who waits came through a handler, and while its team could still get a
\* number the handler is going to see to that.
Attended(t, c) ==
  /\ TeamOf[c] = t /\ at[c] # "new"
  /\ Registers(mo, t) => at[c] = "entered" \/ (at[c] = "updating" /\ t \in todo[c])

Waiting(t) == {room[t][n] : n \in DOMAIN room[t]}

WaitInv ==
  /\ \A t \in Teams : \A c \in Waiting(t) : Attended(t, c)
  /\ \A t \in Teams : \A n, k \in DOMAIN room[t] : k # n => room[t][k] # room[t][n]
  /\ proc # "up" => room = EmptyRoom /\ \A c \in Connections : at[c] = "new"

\* The matches that are scheduled, and those in the list of a handler.
ListOf(s)  == {GetMatches(s)[i] : i \in DOMAIN s.scheduled}
Listed    == ListOf(mo)
InList(c) == {seen[c][i] : i \in DOMAIN seen[c]}

Looking == {c \in Connections : at[c] \in {"entered", "updating", "choosing", "appending"}}

\* The connections of a team that the handlers in sight will account for: a
\* match is blocked when one of its teams has no more than those.
SlotsOf(S, t) == {x \in S : x[2] = t}
Short(S, t)   == Len(room[t]) <= Cardinality(SlotsOf(S, t))
Blocked(S, m) == \E r \in Roles : \E t \in m[r] : t \in Teams => Short(S, t)

Covers(New, S) ==
  /\ Cardinality(S) <= Cardinality(New)
  /\ \A x \in S : at[x[1]] # "new"
  /\ \A m \in Listed : Blocked(S, m)
  /\ \A c \in New : at[c] = "choosing" => \A m \in InList(c) : Blocked(S, m)
  /\ \A t \in Teams : Registers(mo, t) => Short(S, t)

Slots == Connections \X Teams

Fresh   == \A c \in Connections : at[c] = "choosing" => Listed \subseteq InList(c)
Covered == \E New \in SUBSET Looking : \E S \in SUBSET Slots : Covers(New, S)
LookInv == ~outdated /\ proc = "up" => Fresh /\ Covered

\* What the schedule is needed for.
NeedInv == SoundInv /\ WaitInv /\ LookInv

LEMMA SetsFinite ==
  /\ \A New \in SUBSET Connections : IsFiniteSet(New) /\ Cardinality(New) \in Nat
  /\ \A S \in SUBSET Slots : IsFiniteSet(S) /\ Cardinality(S) \in Nat
       /\ \A t : IsFiniteSet(SlotsOf(S, t)) /\ Cardinality(SlotsOf(S, t)) \in Nat
<1>1. IsFiniteSet(Slots)
  BY RoomAssumption, FS_Product DEF Slots
<1>2. ASSUME NEW New \in SUBSET Connections PROVE IsFiniteSet(New) /\ Cardinality(New) \in Nat
  BY RoomAssumption, FS_Subset, FS_CardinalityType
<1>3. ASSUME NEW S \in SUBSET Slots PROVE IsFiniteSet(S) /\ Cardinality(S) \in Nat
  BY <1>1, FS_Subset, FS_CardinalityType
<1>4. ASSUME NEW S \in SUBSET Slots, NEW t
      PROVE  IsFiniteSet(SlotsOf(S, t)) /\ Cardinality(SlotsOf(S, t)) \in Nat
  <2>1. SlotsOf(S, t) \in SUBSET S
    BY DEF SlotsOf
  <2> QED BY <1>3, <2>1, FS_Subset, FS_CardinalityType
<1>5. QED
  BY <1>2, <1>3, <1>4

LEMMA QueueLen ==
  ASSUME ShapeInv, NEW t \in Teams
  PROVE  /\ room[t] \in Seq(Connections) /\ Len(room[t]) \in Nat /\ DOMAIN room[t] = 1..Len(room[t])
         /\ \A n \in 1..Len(room[t]) : room[t][n] \in Connections
         /\ Len(room[t]) = 0 <=> room[t] = <<>>
<1>1. room[t] \in Seq(Connections)
  BY DEF ShapeInv, Room
<1>2. Len(room[t]) = 0 <=> room[t] = <<>>
  BY <1>1, EmptySeq
<1>3. QED
  BY <1>1, <1>2

LEMMA WaitersAre == SoundInv /\ WaitInv => WaitersNumbered
<1> SUFFICES ASSUME SoundInv, WaitInv,
                    \A c \in Connections : at[c] \notin {"entered", "updating"},
                    NEW t \in Teams, room[t] # <<>>
             PROVE  Len(mo.names) = TeamCount \/ \E i \in DOMAIN mo.names : mo.names[i] = t
  BY DEF WaitersNumbered
<1>1. 1 \in DOMAIN room[t] /\ room[t][1] \in Connections
  BY QueueLen DEF SoundInv
<1>2. ~Registers(mo, t)
  <2>1. Attended(t, room[t][1])
    BY <1>1 DEF WaitInv, Waiting
  <2> QED BY <1>1, <2>1 DEF Attended
<1>3. mo.names \in Seq(Teams) /\ Len(mo.names) <= TeamCount
  BY DEF SoundInv, Grounded
<1>4. Len(mo.names) \in Nat /\ TeamCount \in Nat
  BY <1>3, ScheduleAssumption, LenProperties
<1>5. CASE Len(mo.names) < TeamCount
  BY <1>2, <1>5 DEF Registers
<1>6. CASE ~(Len(mo.names) < TeamCount)
  BY <1>3, <1>4, <1>6
<1>7. QED
  BY <1>5, <1>6

LEMMA MatchesAre ==
  ASSUME NEW s, NEW d, Grounded(s, d)
  PROVE  /\ DOMAIN GetMatches(s) = DOMAIN s.scheduled
         /\ \A i \in DOMAIN s.scheduled :
              s.scheduled[i].roles \in Matches /\ GetMatches(s)[i] = TeamNameMatch(s, s.scheduled[i].roles)
<1>1. s.scheduled \in Seq(Entries)
  BY DEF Grounded
<1>2. \A i \in DOMAIN s.scheduled : s.scheduled[i].roles \in Matches
  <2>1. \A i \in DOMAIN s.scheduled : s.scheduled[i] \in Entries
    BY <1>1
  <2> QED BY <2>1, EntryIs
<1>3. QED
  BY <1>2 DEF GetMatches

LEMMA ReadyLooked == SoundInv /\ LookInv => ReadyIsSeen
<1> SUFFICES ASSUME SoundInv, LookInv, ~outdated, proc = "up", NEW i \in DOMAIN mo.scheduled,
                    Ready(GetMatches(mo)[i]), Looking = {}
             PROVE  FALSE
  BY DEF ReadyIsSeen, StartsWhenReady, Looking
<1>1. PICK New \in SUBSET Looking : \E S \in SUBSET Slots : Covers(New, S)
  BY DEF LookInv, Covered
<1>2. PICK S \in SUBSET Slots : Covers(New, S)
  BY <1>1
<1>3. S = {}
  <2>1. New = {} /\ Cardinality(New) = 0
    BY FS_EmptySet
  <2>2. IsFiniteSet(S) /\ Cardinality(S) \in Nat /\ Cardinality(S) <= Cardinality(New)
    BY <1>2, SetsFinite DEF Covers
  <2>3. Cardinality(S) = 0
    BY <2>1, <2>2
  <2> QED BY <2>2, <2>3, FS_EmptySet
<1> DEFINE m == GetMatches(mo)[i]
<1>4. Blocked(S, m)
  BY <1>2 DEF Covers, Listed, ListOf
<1> HIDE DEF m
<1>5. PICK r \in Roles : \E t \in m[r] : t \in Teams => Short(S, t)
  BY <1>4 DEF Blocked
<1>6. PICK t \in m[r] : t \in Teams => Short(S, t)
  BY <1>5
<1>7. t \in Teams /\ room[t] # <<>>
  BY DEF Ready, m
<1>8. SlotsOf(S, t) = {}
  BY <1>3 DEF SlotsOf
<1>9. Len(room[t]) <= 0
  BY <1>6, <1>7, <1>8, FS_EmptySet DEF Short
<1>10. QED
  BY <1>7, <1>9, QueueLen DEF SoundInv

LEMMA LeastIs ==
  ASSUME NEW T \in SUBSET Nat, T # {}
  PROVE  \E x \in T : \A y \in T : x <= y
<1> DEFINE R == OpToRel(<, Nat)
<1>1. \A x, y \in Nat : y < x => <<y, x>> \in R
  BY DEF OpToRel
<1>2. IsWellFoundedOn(R, Nat)
  BY NatLessThanWellFounded
<1> HIDE DEF R
<1>3. PICK x \in T : \A y \in T : ~ (<<y, x>> \in R)
  BY <1>2, WFMin
<1>4. ASSUME NEW y \in T PROVE x <= y
  <2>1. x \in Nat /\ y \in Nat /\ ~(y < x)
    BY <1>1, <1>3
  <2> QED BY <2>1
<1>5. QED
  BY <1>4

-----------------------------------------------------------------------------
(* How the list of matches changes *)

KindsOf(s) == {s.scheduled[i].roles : i \in DOMAIN s.scheduled}

LEMMA ListOfIs ==
  ASSUME NEW s, NEW d, Grounded(s, d)
  PROVE  /\ KindsOf(s) \subseteq Matches
         /\ ListOf(s) = {TeamNameMatch(s, k) : k \in KindsOf(s)}
BY MatchesAre DEF ListOf, KindsOf

LEMMA ListShrinks ==
  ASSUME NEW s, NEW d, Grounded(s, d), NEW new, NEW e, Grounded(new, e),
         new.names = s.names, KindsOf(new) \subseteq KindsOf(s)
  PROVE  ListOf(new) \subseteq ListOf(s)
<1>1. \A k : TeamNameMatch(new, k) = TeamNameMatch(s, k)
  BY DEF TeamNameMatch
<1>2. QED
  BY <1>1, ListOfIs

LEMMA SortsList ==
  ASSUME NEW s, NEW d, Grounded(s, d), NEW sorted \in Sorts(s)
  PROVE  KindsOf(sorted) = KindsOf(s)
<1> DEFINE D == DOMAIN s.scheduled
<1>1. PICK p \in Bijection(D, D) : sorted = [s EXCEPT !.scheduled = [i \in D |-> @[p[i]]]]
  BY DEF Sorts
<1>2. sorted.scheduled = [i \in D |-> s.scheduled[p[i]]]
  BY <1>1 DEF Grounded
<1>3. p \in [D -> D] /\ \A j \in D : \E i \in D : p[i] = j
  BY DEF Bijection, Surjection
<1>4. QED
  BY <1>2, <1>3 DEF KindsOf

LEMMA WeightList ==
  ASSUME NEW s, NEW d, Grounded(s, d), NEW m
  PROVE  KindsOf(SetMatchWeight(s, m, 0)) = KindsOf(s)
<1> DEFINE D == DOMAIN s.scheduled
           list == [i \in D |-> IF i \in Found(s, m) THEN [s.scheduled[i] EXCEPT !.weight = 0] ELSE s.scheduled[i]]
           new == SetMatchWeight(s, m, 0)
<1>1. new.scheduled = list
  BY DEF SetMatchWeight, Grounded
<1>2. \A i \in D : s.scheduled[i] \in Entries
  BY DEF Grounded
<1>3. \A i \in D : list[i].roles = s.scheduled[i].roles
  BY <1>2, EntryIs
<1>4. DOMAIN list = D
  OBVIOUS
<1> HIDE DEF list, new
<1>5. KindsOf(new) = KindsOf(s)
  BY <1>1, <1>3, <1>4 DEF KindsOf
<1>6. QED
  BY <1>5 DEF new

LEMMA EndList ==
  ASSUME NEW s, NEW d, Grounded(s, d), NEW m
  PROVE  KindsOf(SetMatchEnd(s, m)) \subseteq KindsOf(s)
<1>1. CASE Found(s, m) = {}
  BY <1>1 DEF SetMatchEnd
<1>2. CASE Found(s, m) # {}
  <2> DEFINE i == CHOOSE i \in Found(s, m) : TRUE
             new == SetMatchEnd(s, m)
             n == Len(s.scheduled)
  <2>1. new.scheduled = Without(s.scheduled, i)
    BY <1>2 DEF SetMatchEnd, Grounded
  <2>2. s.scheduled \in Seq(Entries) /\ n \in Nat /\ DOMAIN s.scheduled = 1..n
    BY DEF Grounded
  <2>3. i \in 1..n
    BY <1>2, <2>2 DEF Found
  <2> HIDE DEF i, new, n
  <2>4. /\ Without(s.scheduled, i) \in Seq(Entries) /\ Len(Without(s.scheduled, i)) = n - 1
        /\ \A j \in 1..n - 1 : Without(s.scheduled, i)[j] = IF j < i THEN s.scheduled[j] ELSE s.scheduled[j + 1]
    BY <2>2, <2>3, WithoutIs DEF n
  <2>5. DOMAIN new.scheduled = 1..n - 1
    BY <2>1, <2>4
  <2>6. ASSUME NEW j \in 1..n - 1 PROVE \E k \in 1..n : new.scheduled[j] = s.scheduled[k]
    <3>1. j \in 1..n /\ j + 1 \in 1..n
      BY <2>2
    <3>2. new.scheduled[j] = s.scheduled[j] \/ new.scheduled[j] = s.scheduled[j + 1]
      BY <2>1, <2>4
    <3> QED BY <3>1, <3>2
  <2>7. KindsOf(new) \subseteq KindsOf(s)
    BY <2>2, <2>5, <2>6 DEF KindsOf
  <2> QED BY <2>7 DEF new
<1>3. QED
  BY <1>1, <1>2

\* A match has a team, whatever its name.
LEMMA HasTeam ==
  ASSUME NEW s, NEW d, Grounded(s, d), NEW m \in ListOf(s)
  PROVE  \E r \in Roles : \E t \in m[r] : TRUE
<1>1. PICK k \in KindsOf(s) : m = TeamNameMatch(s, k)
  BY ListOfIs
<1>2. k \in Matches
  BY ListOfIs
<1>3. PICK r \in Roles : TRUE
  BY ScheduleAssumption
<1>4. Cardinality(k[r]) = RoleNum[r] /\ RoleNum[r] \in Nat \ {0}
  BY <1>2, ScheduleAssumption DEF Matches
<1>5. PICK i \in k[r] : TRUE
  <2>1. CASE k[r] = {}
    BY <1>4, <2>1, FS_EmptySet
  <2>2. CASE k[r] # {}
    BY <2>2
  <2> QED BY <2>1, <2>2
<1>6. (IF i \in DOMAIN s.names THEN s.names[i] ELSE NoTeam) \in m[r]
  BY <1>1, <1>5 DEF TeamNameMatch
<1>7. QED
  BY <1>6

\* A team that gets its number is in every match whose name changes.
LEMMA UpdateList ==
  ASSUME NEW s, NEW d, Grounded(s, d), NEW t \in Teams, Registers(s, t),
         NEW m \in ListOf(UpdateTeam(s, t)), m \notin ListOf(s)
  PROVE  \E r \in Roles : t \in m[r]
<1> DEFINE new == UpdateTeam(s, t)
           n == Len(s.names)
<1>1. Grounded(new, d) /\ KindsOf(new) = KindsOf(s) /\ new.names = Append(s.names, t)
  <2>1. Grounded(new, d)
    BY UpdateGrounded
  <2>2. new.names = Append(s.names, t) /\ new.scheduled = s.scheduled
    BY DEF UpdateTeam, Grounded
  <2> HIDE DEF new
  <2> QED BY <2>1, <2>2 DEF KindsOf
<1>2. s.names \in Seq(Teams) /\ n \in Nat /\ DOMAIN s.names = 1..n
  BY DEF Grounded
<1>3. DOMAIN new.names = 1..n + 1 /\ new.names[n + 1] = t /\ \A i \in 1..n : new.names[i] = s.names[i]
  BY <1>1, <1>2
<1> HIDE DEF new, n
<1>4. PICK k \in KindsOf(s) : m = TeamNameMatch(new, k)
  <2>1. m \in ListOf(new)
    BY DEF new
  <2> QED BY <1>1, <2>1, ListOfIs
<1>5. CASE \E r \in Roles : n + 1 \in k[r]
  <2>1. PICK r \in Roles : n + 1 \in k[r]
    BY <1>5
  <2>2. n + 1 \in DOMAIN new.names
    BY <1>2, <1>3
  <2>3. t \in m[r]
    BY <1>3, <1>4, <2>1, <2>2 DEF TeamNameMatch
  <2> QED BY <2>3
<1>6. CASE ~\E r \in Roles : n + 1 \in k[r]
  <2>1. ASSUME NEW r \in Roles, NEW i \in k[r]
        PROVE  (IF i \in DOMAIN new.names THEN new.names[i] ELSE NoTeam) = (IF i \in DOMAIN s.names THEN s.names[i] ELSE NoTeam)
    <3>1. i # n + 1
      BY <1>6
    <3>2. CASE i \in 1..n
      <4>1. i \in 1..n + 1
        BY <1>2, <3>2
      <4> QED BY <1>2, <1>3, <3>2, <4>1
    <3>3. CASE i \notin 1..n
      <4>1. i \notin 1..n + 1
        BY <1>2, <3>1, <3>3
      <4> QED BY <1>2, <1>3, <3>3, <4>1
    <3> QED BY <3>2, <3>3
  <2>2. \A r \in Roles : {IF i \in DOMAIN new.names THEN new.names[i] ELSE NoTeam : i \in k[r]}
                         = {IF i \in DOMAIN s.names THEN s.names[i] ELSE NoTeam : i \in k[r]}
    <3> DEFINE f(i) == IF i \in DOMAIN new.names THEN new.names[i] ELSE NoTeam
               g(i) == IF i \in DOMAIN s.names THEN s.names[i] ELSE NoTeam
    <3>1. \A r \in Roles : \A i \in k[r] : f(i) = g(i)
      BY <2>1
    <3> HIDE DEF f, g
    <3>2. \A r \in Roles : {f(i) : i \in k[r]} = {g(i) : i \in k[r]}
      BY <3>1
    <3> QED BY <3>2 DEF f, g
  <2>3. TeamNameMatch(new, k) = TeamNameMatch(s, k)
    BY <2>2 DEF TeamNameMatch
  <2>4. m \in ListOf(s)
    BY <1>4, <2>3, ListOfIs
  <2> QED BY <2>4
<1>7. QED
  BY <1>5, <1>6

-----------------------------------------------------------------------------
(* Who waits is attended to *)

Quiet == room = EmptyRoom /\ \A c \in Connections : at[c] = "new"

LEMMA QuietWaits == Quiet => WaitInv
<1> SUFFICES ASSUME Quiet PROVE WaitInv
  OBVIOUS
<1>1. \A t \in Teams : DOMAIN room[t] = {}
  BY DEF Quiet, EmptyRoom
<1>2. QED
  BY <1>1 DEF WaitInv, Quiet, Waiting

LEMMA RunsQuiet == WaitInv /\ Runs => Quiet'
BY DEF WaitInv, Runs, Create, Load, ParseFails, Serves, Quiet, handlers

LEMMA StopQuiet == Stop => Quiet'
BY DEF Stop, Idle, Quiet

LEMMA WaitingIs ==
  ASSUME ShapeInv, NEW t \in Teams
  PROVE  Waiting(t) \subseteq Connections /\ (Waiting(t) = {} <=> room[t] = <<>>)
<1>1. DOMAIN room[t] = 1..Len(room[t]) /\ \A n \in 1..Len(room[t]) : room[t][n] \in Connections
  BY QueueLen
<1>2. room[t] = <<>> => Waiting(t) = {}
  BY DEF Waiting
<1>3. room[t] # <<>> => 1 \in DOMAIN room[t]
  BY QueueLen
<1>4. QED
  BY <1>1, <1>2, <1>3 DEF Waiting

LEMMA RegistersNames ==
  ASSUME mo'.names = mo.names, NEW t
  PROVE  Registers(mo, t)' <=> Registers(mo, t)
BY DEF Registers

\* Who attends to a connection goes on to: its handler does not return, and no
\* team that has a number loses it.
LEMMA StaysAttended ==
  ASSUME NEW t, NEW x, Attended(t, x), at'[x] # "new",
         Registers(mo, t)' => Registers(mo, t) /\ (at'[x] = "entered" \/ (at'[x] = "updating" /\ t \in todo'[x]))
  PROVE  Attended(t, x)'
BY DEF Attended

\* Nobody comes or goes, and everybody is attended to as before.
LEMMA SameWaits ==
  ASSUME WaitInv, room' = room, proc' = "up",
         ASSUME NEW t \in Teams, NEW x \in Waiting(t), Attended(t, x)
         PROVE  Attended(t, x)'
  PROVE  WaitInv'
<1>1. \A t \in Teams : Waiting(t)' = Waiting(t)
  BY DEF Waiting
<1>2. QED
  BY <1>1 DEF WaitInv

LEMMA EnterWaits ==
  ASSUME ShapeInv, WaitInv, NEW c \in Connections, Enter(c)
  PROVE  WaitInv'
<1>1. /\ room' = AddConnection(room, c) /\ mo' = mo /\ todo' = todo /\ proc' = "up"
      /\ at[c] = "new" /\ at' = [at EXCEPT ![c] = "entered"] /\ TeamOf[c] \in Teams
  BY RoomAssumption DEF Enter, Handler
<1>2. ASSUME NEW t \in Teams, NEW x \in Waiting(t)
      PROVE  x \in Connections /\ x # c /\ Attended(t, x)'
  <2>1. x \in Connections /\ Attended(t, x)
    BY WaitingIs DEF WaitInv
  <2>2. x # c
    BY <1>1, <2>1 DEF Attended
  <2>3. at'[x] = at[x] /\ todo'[x] = todo[x]
    BY <1>1, <2>1, <2>2 DEF ShapeInv
  <2>4. Registers(mo, t)' <=> Registers(mo, t)
    BY <1>1, RegistersNames
  <2>5. Attended(t, x)'
    BY <2>1, <2>3, <2>4 DEF Attended
  <2> QED BY <2>1, <2>2, <2>5
<1>3. Attended(TeamOf[c], c)'
  <2>1. at'[c] = "entered"
    BY <1>1 DEF ShapeInv
  <2> QED BY <2>1, RoomAssumption DEF Attended
<1>4. ASSUME NEW t \in Teams, t # TeamOf[c] PROVE room'[t] = room[t]
  BY <1>1, <1>4 DEF AddConnection, ShapeInv, Room
<1>5. room'[TeamOf[c]] = Append(room[TeamOf[c]], c)
  BY <1>1 DEF AddConnection, ShapeInv, Room
<1>6. ASSUME NEW t \in Teams
      PROVE  /\ \A x \in Waiting(t)' : Attended(t, x)'
             /\ \A n, k \in DOMAIN room'[t] : k # n => room'[t][k] # room'[t][n]
  <2>1. CASE t # TeamOf[c]
    <3>1. Waiting(t)' = Waiting(t) /\ room'[t] = room[t]
      BY <1>4, <2>1 DEF Waiting
    <3>2. \A x \in Waiting(t)' : Attended(t, x)'
      BY <1>2, <3>1
    <3> QED BY <3>1, <3>2 DEF WaitInv
  <2>2. CASE t = TeamOf[c]
    <3> DEFINE q == room[t]
               p == room'[t]
               n == Len(q)
    <3>1. n \in Nat /\ DOMAIN q = 1..n /\ q \in Seq(Connections)
      BY QueueLen
    <3>2. DOMAIN p = 1..n + 1 /\ p[n + 1] = c /\ \A k \in 1..n : p[k] = q[k]
      BY <1>5, <2>2, <3>1
    <3>3. \A k, j \in 1..n : j # k => q[j] # q[k]
      BY <3>1 DEF WaitInv
    <3>4. Waiting(t) = {q[k] : k \in 1..n}
      BY <3>1 DEF Waiting
    <3>5. Waiting(t)' = {p[k] : k \in 1..n + 1}
      BY <3>2 DEF Waiting
    <3> HIDE DEF p, q, n
    <3>6. 1..n + 1 = (1..n) \union {n + 1} /\ n + 1 \notin 1..n
      BY <3>1
    <3>7. Waiting(t)' = Waiting(t) \union {c}
      BY <3>2, <3>4, <3>5, <3>6
    <3>8. \A x \in Waiting(t)' : Attended(t, x)'
      BY <1>2, <1>3, <2>2, <3>7
    <3>9. \A k \in 1..n : q[k] # c
      BY <1>2, <3>4
    <3>10. \A k, j \in 1..n + 1 : j # k => p[j] # p[k]
      BY <3>2, <3>3, <3>6, <3>9
    <3> QED BY <3>2, <3>8, <3>10 DEF p
  <2> QED BY <2>1, <2>2
<1>7. QED
  BY <1>1, <1>6 DEF WaitInv

LEMMA ListTeamsWaits ==
  ASSUME ShapeInv, WaitInv, NEW c \in Connections, ListTeams(c)
  PROVE  WaitInv'
<1>1. /\ room' = room /\ mo' = mo /\ proc' = "up" /\ at[c] = "entered"
      /\ at' = [at EXCEPT ![c] = "updating"] /\ todo' = [todo EXCEPT ![c] = {t \in Teams : room[t] # <<>>}]
  BY DEF ListTeams, Handler
<1>2. ASSUME NEW t \in Teams, NEW x \in Waiting(t), Attended(t, x)
      PROVE  Attended(t, x)'
  <2>1. x \in Connections /\ room[t] # <<>>
    BY WaitingIs
  <2>2. Registers(mo, t)' <=> Registers(mo, t)
    BY <1>1, RegistersNames
  <2>3. CASE x = c
    <3>1. at'[x] = "updating" /\ t \in todo'[x]
      BY <1>1, <2>1, <2>3 DEF ShapeInv
    <3> QED BY <1>2, <2>2, <3>1 DEF Attended
  <2>4. CASE x # c
    <3>1. at'[x] = at[x] /\ todo'[x] = todo[x]
      BY <1>1, <2>1, <2>4 DEF ShapeInv
    <3> QED BY <1>2, <2>2, <3>1 DEF Attended
  <2> QED BY <2>3, <2>4
<1>3. QED
  BY <1>1, <1>2, SameWaits

\* After a team has got its number others may get theirs as before, and it may not.
LEMMA RegistersLeft ==
  ASSUME NEW s, s.names \in Seq(Teams), NEW u, NEW t \in Teams, Registers(UpdateTeam(s, u), t),
         UpdateTeam(s, u).names = Append(s.names, u)
  PROVE  Registers(s, t) /\ t # u
<1> DEFINE n == Len(s.names)
           new == UpdateTeam(s, u)
<1>1. n \in Nat /\ DOMAIN s.names = 1..n
  OBVIOUS
<1>2. Len(new.names) = n + 1 /\ DOMAIN new.names = 1..n + 1 /\ new.names[n + 1] = u
      /\ \A i \in 1..n : new.names[i] = s.names[i]
  BY <1>1
<1>3. Len(new.names) < TeamCount /\ \A i \in DOMAIN new.names : new.names[i] # t
  BY DEF Registers
<1> HIDE DEF n, new
<1>4. n + 1 \in 1..n + 1 /\ \A i \in 1..n : i \in 1..n + 1
  BY <1>1
<1>5. t # u /\ \A i \in 1..n : s.names[i] # t
  BY <1>2, <1>3, <1>4
<1>6. n < TeamCount
  BY <1>1, <1>2, <1>3, ScheduleAssumption
<1>7. QED
  BY <1>1, <1>5, <1>6 DEF Registers, n

LEMMA UpdateWaits ==
  ASSUME SoundInv, WaitInv, NEW c \in Connections, Update(c)
  PROVE  WaitInv'
<1>1. PICK u \in todo[c] :
        /\ todo' = [todo EXCEPT ![c] = @ \ {u}]
        /\ IF Registers(mo, u)
           THEN Saving(c, UpdateTeam(mo, u)) /\ outdated' = (outdated \/ \E d \in Connections : at[d] = "choosing")
           ELSE UNCHANGED <<disk, mu, mo, outdated>>
  BY DEF Update
<1>2. room' = room /\ proc' = "up" /\ at' = at /\ u \in Teams
  BY <1>1 DEF Update, Handler, SoundInv, ShapeInv
<1>3. ASSUME NEW t \in Teams, Registers(mo, t)' PROVE Registers(mo, t) /\ t # u
  <2>1. CASE Registers(mo, u)
    <3>1. mo' = UpdateTeam(mo, u) /\ mo.names \in Seq(Teams)
      BY <1>1, <2>1 DEF Saving, SoundInv, Grounded
    <3>2. UpdateTeam(mo, u).names = Append(mo.names, u)
      BY DEF UpdateTeam, SoundInv, Grounded
    <3>3. Registers(UpdateTeam(mo, u), t)
      BY <1>3, <3>1 DEF Registers
    <3> QED BY <3>1, <3>2, <3>3, RegistersLeft
  <2>2. CASE ~Registers(mo, u)
    <3>1. Registers(mo, t)
      BY <1>1, <1>3, <2>2 DEF Registers
    <3> QED BY <2>2, <3>1
  <2> QED BY <2>1, <2>2
<1>4. ASSUME NEW t \in Teams, NEW x \in Waiting(t), Attended(t, x)
      PROVE  Attended(t, x)'
  <2>1. x \in Connections
    BY WaitingIs DEF SoundInv
  <2>2. ASSUME t # u, t \in todo[x] PROVE t \in todo'[x]
    BY <1>1, <2>1, <2>2 DEF SoundInv, ShapeInv
  <2> QED BY <1>2, <1>3, <1>4, <2>2 DEF Attended
<1>5. QED
  BY <1>2, <1>4, SameWaits

LEMMA ScheduleWaits ==
  ASSUME SoundInv, WaitInv, NEW c \in Connections, Schedule(c)
  PROVE  WaitInv'
<1>1. /\ room' = room /\ proc' = "up" /\ at[c] = "updating" /\ todo[c] = {} /\ todo' = todo
      /\ \E a \in {"choosing", "appending"} : at' = [at EXCEPT ![c] = a]
  BY DEF Schedule, Handler
<1>2. mo'.names = mo.names
  BY SortsKeep DEF Schedule, SoundInv, FileInv, SaysSame
<1>3. ASSUME NEW t \in Teams, NEW x \in Waiting(t), Attended(t, x)
      PROVE  Attended(t, x)'
  <2>1. x \in Connections
    BY WaitingIs DEF SoundInv
  <2>2. Registers(mo, t)' <=> Registers(mo, t)
    BY <1>2, RegistersNames
  <2>3. CASE x = c
    <3>1. at'[x] # "new" /\ ~Registers(mo, t)
      BY <1>1, <1>3, <2>1, <2>3 DEF Attended, SoundInv, ShapeInv
    <3> QED BY <1>3, <2>2, <3>1 DEF Attended
  <2>4. CASE x # c
    <3>1. at'[x] = at[x] /\ todo'[x] = todo[x]
      BY <1>1, <2>1, <2>4 DEF SoundInv, ShapeInv
    <3> QED BY <1>3, <2>2, <3>1 DEF Attended
  <2> QED BY <2>3, <2>4
<1>4. QED
  BY <1>1, <1>3, SameWaits

\* What a game takes of a queue is its first.
LEMMA TakenQueue ==
  ASSUME ShapeInv, NEW m, Ready(m), room' = Left(room, OneOfEach(m)), NEW t \in Teams
  PROVE  LET one == IF \E r \in Roles : t \in m[r] THEN 1 ELSE 0
         IN  /\ one <= Len(room[t]) /\ Len(room'[t]) = Len(room[t]) - one
             /\ DOMAIN room'[t] = 1..Len(room[t]) - one
             /\ \A n \in 1..Len(room[t]) - one : room'[t][n] = room[t][n + one]
<1>1. room \in Room
  BY DEF ShapeInv
<1>2. room' \in Room
  BY <1>1, OneLeft
<1>3. DOMAIN room'[t] = 1..Len(room'[t])
  BY <1>2 DEF Room
<1> DEFINE one == IF \E r \in Roles : t \in m[r] THEN 1 ELSE 0
           left == Left(room, OneOfEach(m))
<1>4. /\ one <= Len(room[t]) /\ Len(left[t]) = Len(room[t]) - one
      /\ \A n \in 1..Len(room[t]) - one : left[t][n] = room[t][n + one]
  BY <1>1, OneLeft
<1> HIDE DEF one, left
<1>5. room' = left
  BY DEF left
<1>6. QED
  BY <1>3, <1>4, <1>5 DEF one

LEMMA ChooseWaits ==
  ASSUME SoundInv, WaitInv, NEW c \in Connections, Choose(c)
  PROVE  WaitInv'
<1>1. /\ proc' = "up" /\ mo' = mo /\ todo' = todo /\ at[c] = "choosing"
      /\ at' = [at EXCEPT ![c] = "returned"]
  BY DEF Choose, Handler
<1>2. ASSUME NEW t \in Teams, NEW x \in Waiting(t)
      PROVE  Attended(t, x)'
  <2>1. x \in Connections /\ Attended(t, x)
    BY WaitingIs DEF SoundInv, WaitInv
  <2>2. Registers(mo, t)' <=> Registers(mo, t)
    BY <1>1, RegistersNames
  <2>3. CASE x = c
    <3>1. at'[x] # "new" /\ ~Registers(mo, t)
      BY <1>1, <2>1, <2>3 DEF Attended, SoundInv, ShapeInv
    <3> QED BY <2>1, <2>2, <3>1 DEF Attended
  <2>4. CASE x # c
    <3>1. at'[x] = at[x] /\ todo'[x] = todo[x]
      BY <1>1, <2>1, <2>4 DEF SoundInv, ShapeInv
    <3> QED BY <2>1, <2>2, <3>1 DEF Attended
  <2> QED BY <2>3, <2>4
<1>3. CASE room' = room
  BY <1>1, <1>2, <1>3, SameWaits
<1>4. ASSUME NEW i \in Chosen(c), room' = Left(room, OneOfEach(seen[c][i]))
      PROVE  WaitInv'
  <2> DEFINE m == seen[c][i]
  <2>1. Ready(m)
    BY DEF Chosen
  <2> HIDE DEF m
  <2>2. ASSUME NEW t \in Teams
        PROVE  /\ \A x \in Waiting(t)' : Attended(t, x)'
               /\ \A n, k \in DOMAIN room'[t] : k # n => room'[t][k] # room'[t][n]
    <3> DEFINE q == room[t]
               p == room'[t]
               n == Len(q)
               one == IF \E r \in Roles : t \in m[r] THEN 1 ELSE 0
    <3>1. n \in Nat /\ DOMAIN q = 1..n /\ one \in {0, 1}
      BY QueueLen DEF SoundInv
    <3>2. DOMAIN p = 1..n - one /\ \A k \in 1..n - one : p[k] = q[k + one]
      BY <1>4, <2>1, TakenQueue DEF m, SoundInv
    <3>3. \A k, j \in 1..n : j # k => q[j] # q[k]
      BY <3>1 DEF WaitInv
    <3>4. Waiting(t) = {q[k] : k \in 1..n}
      BY <3>1 DEF Waiting
    <3>5. Waiting(t)' = {p[k] : k \in 1..n - one}
      BY <3>2 DEF Waiting
    <3> HIDE DEF one, p, q, n
    <3>6. \A k \in 1..n - one : k + one \in 1..n
      BY <3>1
    <3>7. Waiting(t)' \subseteq Waiting(t)
      BY <3>2, <3>4, <3>5, <3>6
    <3>8. \A x \in Waiting(t)' : Attended(t, x)'
      BY <1>2, <3>7
    <3>9. \A k, j \in 1..n - one : j # k => p[j] # p[k]
      <4> TAKE k, j \in 1..n - one
      <4>1. k + one \in 1..n /\ j + one \in 1..n /\ (j # k => j + one # k + one)
        BY <3>1, <3>6
      <4> QED BY <3>2, <3>3, <4>1
    <3> QED BY <3>2, <3>8, <3>9 DEF p
  <2> QED BY <1>1, <2>2 DEF WaitInv
<1>5. QED
  BY <1>3, <1>4 DEF Choose, OneOfEach

LEMMA RecordNames ==
  ASSUME SoundInv, NEW c \in Connections, Record(c)
  PROVE  mo'.names = mo.names
<1> DEFINE m == IdxMatch(mo, playing[c])
<1>1. Kept(mo) /\ m \in [Roles -> SUBSET Nat]
  BY IdxMatchType DEF SoundInv, FileInv
<1> HIDE DEF m
<1>2. mo' = mo \/ mo' = SetMatchEnd(mo, m) \/ mo' = SetMatchWeight(mo, m, 0)
  BY DEF Record, Saving, Outcome, m
<1>3. QED
  BY <1>1, <1>2, EndKeeps, WeightKeeps DEF SaysSame

LEMMA NextWaits == SoundInv /\ WaitInv /\ [Next]_vars => WaitInv'
<1> SUFFICES ASSUME SoundInv, WaitInv, [Next]_vars PROVE WaitInv'
  OBVIOUS
<1>1. CASE UNCHANGED vars
  BY <1>1 DEF vars, handlers, WaitInv, Waiting, Attended, Registers
<1>2. Quiet' => WaitInv'
  BY QuietWaits, PTL
<1>3. ASSUME NEW c \in Connections, Saved(c) \/ GameEnds(c) \/ Record(c)
      PROVE  WaitInv'
  <2>1. room' = room /\ at' = at /\ todo' = todo /\ proc' = "up"
    BY <1>3 DEF Saved, GameEnds, Record, handlers
  <2>2. mo'.names = mo.names
    BY <1>3, RecordNames DEF Saved, GameEnds
  <2>3. ASSUME NEW t \in Teams, NEW x \in Waiting(t), Attended(t, x) PROVE Attended(t, x)'
    <3>1. Registers(mo, t)' <=> Registers(mo, t)
      BY <2>2, RegistersNames
    <3> QED BY <2>1, <2>3, <3>1 DEF Attended
  <2> QED BY <2>1, <2>3, SameWaits
<1>4. QED
  BY <1>1, <1>2, <1>3, RunsQuiet, StopQuiet, EnterWaits, ListTeamsWaits, UpdateWaits, ScheduleWaits, ChooseWaits
     DEF Next, Serve, Play, SoundInv

-----------------------------------------------------------------------------
(* A match that could be played is looked for *)

LEMMA QuietLooks == SoundInv /\ Quiet => LookInv
<1> SUFFICES ASSUME SoundInv, Quiet PROVE Fresh /\ Covered
  BY DEF LookInv
<1>1. Fresh
  BY DEF Fresh, Quiet
<1>2. ASSUME NEW t \in Teams PROVE Short({}, t)
  <2>1. Len(room[t]) = 0
    BY DEF Quiet, EmptyRoom
  <2>2. SlotsOf({}, t) = {}
    BY DEF SlotsOf
  <2> QED BY <2>1, <2>2, FS_EmptySet DEF Short
<1>3. ASSUME NEW m \in Listed PROVE Blocked({}, m)
  <2>1. \E r \in Roles : \E t \in m[r] : TRUE
    BY HasTeam DEF Listed, SoundInv
  <2> QED BY <1>2, <2>1 DEF Blocked
<1>4. Cardinality({}) <= Cardinality({})
  BY FS_EmptySet
<1>5. Covers({}, {})
  BY <1>2, <1>3, <1>4 DEF Covers
<1>6. QED
  BY <1>1, <1>5 DEF Covered

\* What is accounted for stays accounted for, by other handlers or for others.
LEMMA Carries ==
  ASSUME NEW New, NEW S, Covers(New, S), NEW Next_, NEW S_, Cardinality(S_) <= Cardinality(Next_),
         \A x \in S_ : at'[x[1]] # "new",
         ASSUME NEW t \in Teams PROVE Short(S, t) => Short(S_, t)',
         ASSUME NEW t \in Teams PROVE Registers(mo, t)' => Registers(mo, t),
         ASSUME NEW m \in Listed' PROVE Blocked(S, m),
         ASSUME NEW d \in Next_, at'[d] = "choosing", NEW m \in InList(d)' PROVE Blocked(S, m)
  PROVE  Covers(Next_, S_)'
<1>1. ASSUME NEW m, Blocked(S, m) PROVE Blocked(S_, m)'
  BY <1>1 DEF Blocked
<1>2. \A m \in Listed' : Blocked(S_, m)'
  BY <1>1
<1>3. \A d \in Next_ : at'[d] = "choosing" => \A m \in InList(d)' : Blocked(S_, m)'
  BY <1>1
<1>4. \A t \in Teams : Registers(mo, t)' => Short(S_, t)'
  BY DEF Covers
<1>5. QED
  BY <1>2, <1>3, <1>4 DEF Covers

\* The queues and the numbers stay, and nothing new is scheduled.
LEMMA SameLooks ==
  ASSUME SoundInv, LookInv, room' = room, mo'.names = mo.names, Listed' \subseteq Listed, proc = "up",
         outdated' = outdated, Looking \subseteq Looking',
         \A c \in Connections : at[c] # "new" => at'[c] # "new",
         ASSUME NEW c \in Connections, at'[c] = "choosing"
         PROVE  (at[c] = "choosing" /\ InList(c)' = InList(c)) \/ InList(c)' = Listed
  PROVE  LookInv'
<1> SUFFICES ASSUME ~outdated PROVE Fresh' /\ Covered'
  BY DEF LookInv
<1>1. Fresh /\ Covered
  BY DEF LookInv
<1>2. Fresh'
  BY <1>1 DEF Fresh
<1>3. PICK New \in SUBSET Looking : \E S \in SUBSET Slots : Covers(New, S)
  BY <1>1 DEF Covered
<1>4. PICK S \in SUBSET Slots : Covers(New, S)
  BY <1>3
<1>5. \A x \in S : at'[x[1]] # "new"
  BY <1>4 DEF Covers, Slots
<1>6. ASSUME NEW t \in Teams
      PROVE  (Short(S, t) => Short(S, t)') /\ (Registers(mo, t)' => Registers(mo, t))
  BY RegistersNames DEF Short, SlotsOf
<1>7. ASSUME NEW m \in Listed' PROVE Blocked(S, m)
  BY <1>4 DEF Covers
<1>8. ASSUME NEW d \in New, at'[d] = "choosing", NEW m \in InList(d)' PROVE Blocked(S, m)
  <2>1. d \in Connections
    BY DEF Looking
  <2>2. CASE at[d] = "choosing" /\ InList(d)' = InList(d)
    BY <1>4, <1>8, <2>2 DEF Covers
  <2>3. CASE InList(d)' = Listed
    BY <1>4, <1>8, <2>3 DEF Covers
  <2> QED BY <1>8, <2>1, <2>2, <2>3
<1>9. Cardinality(S) <= Cardinality(New)
  BY <1>4 DEF Covers
<1>10. Covers(New, S)'
  BY <1>4, <1>5, <1>6, <1>7, <1>8, <1>9, Carries
<1>11. New \in SUBSET Looking' /\ Slots' = Slots
  BY DEF Slots
<1>12. QED
  BY <1>2, <1>10, <1>11 DEF Covered

LEMMA EnterLooks ==
  ASSUME SoundInv, LookInv, NEW c \in Connections, Enter(c)
  PROVE  LookInv'
<1> SUFFICES ASSUME ~outdated PROVE Fresh' /\ Covered'
  BY DEF LookInv, Enter, history
<1>1. /\ room' = AddConnection(room, c) /\ mo' = mo /\ seen' = seen /\ proc = "up"
      /\ at[c] = "new" /\ at' = [at EXCEPT ![c] = "entered"] /\ TeamOf[c] \in Teams
  BY RoomAssumption DEF Enter, Handler
<1>2. Fresh /\ Covered
  BY <1>1 DEF LookInv, Enter, history
<1>3. \A d \in Connections : d # c => at'[d] = at[d]
  BY <1>1 DEF SoundInv, ShapeInv
<1>4. at'[c] = "entered"
  BY <1>1 DEF SoundInv, ShapeInv
<1>5. Listed' = Listed /\ \A d : InList(d)' = InList(d)
  BY <1>1 DEF Listed, InList
<1>6. Fresh'
  BY <1>2, <1>3, <1>4, <1>5 DEF Fresh
<1>7. PICK New \in SUBSET Looking : \E S \in SUBSET Slots : Covers(New, S)
  BY <1>2 DEF Covered
<1>8. PICK S \in SUBSET Slots : Covers(New, S)
  BY <1>7
<1> DEFINE u == TeamOf[c]
           one == <<c, u>>
           More == New \union {c}
           T == S \union {one}
<1>9. c \notin New /\ one \notin S
  BY <1>1, <1>8 DEF Looking, Covers
<1>10. More \in SUBSET Looking' /\ T \in SUBSET Slots
  <2>1. c \in Looking' /\ New \subseteq Looking'
    BY <1>3, <1>4, <1>9 DEF Looking
  <2> QED BY <1>1, <2>1 DEF Slots
<1>11. Cardinality(T) <= Cardinality(More)
  <2>1. /\ IsFiniteSet(New) /\ Cardinality(New) \in Nat /\ IsFiniteSet(S) /\ Cardinality(S) \in Nat
        /\ Cardinality(S) <= Cardinality(New)
    BY <1>8, SetsFinite DEF Looking, Covers
  <2>2. Cardinality(T) = Cardinality(S) + 1 /\ Cardinality(More) = Cardinality(New) + 1
    BY <1>9, <2>1, FS_AddElement
  <2> HIDE DEF T, More
  <2> QED BY <2>1, <2>2
<1>12. \A x \in T : at'[x[1]] # "new"
  <2>1. \A x \in S : x[1] \in Connections /\ x[1] # c /\ at[x[1]] # "new"
    BY <1>1, <1>8 DEF Covers, Slots
  <2> QED BY <1>3, <1>4, <2>1
<1>13. ASSUME NEW t \in Teams PROVE Short(S, t) => Short(T, t)'
  <2>1. CASE t # u
    <3>1. room'[t] = room[t]
      BY <1>1, <2>1 DEF AddConnection, SoundInv, ShapeInv, Room
    <3>2. SlotsOf(T, t) = SlotsOf(S, t)
      BY <2>1 DEF SlotsOf
    <3> QED BY <3>1, <3>2 DEF Short
  <2>2. CASE t = u
    <3>1. room'[t] = Append(room[t], c)
      BY <1>1, <2>2 DEF AddConnection, SoundInv, ShapeInv, Room
    <3>2. Len(room[t]) \in Nat /\ Len(room'[t]) = Len(room[t]) + 1
      BY <3>1, QueueLen DEF SoundInv
    <3>3. SlotsOf(T, t) = SlotsOf(S, t) \union {one} /\ one \notin SlotsOf(S, t)
      BY <1>9, <2>2 DEF SlotsOf
    <3>4. IsFiniteSet(SlotsOf(S, t)) /\ Cardinality(SlotsOf(S, t)) \in Nat
      BY SetsFinite
    <3> HIDE DEF T, one
    <3>5. Cardinality(SlotsOf(T, t)) = Cardinality(SlotsOf(S, t)) + 1
      BY <3>3, <3>4, FS_AddElement
    <3>6. ASSUME Len(room[t]) <= Cardinality(SlotsOf(S, t)) PROVE Len(room'[t]) <= Cardinality(SlotsOf(T, t))
      BY <3>2, <3>4, <3>5, <3>6
    <3> QED BY <3>6 DEF Short, T, one
  <2> QED BY <2>1, <2>2
<1> HIDE DEF T, More
<1>14. ASSUME NEW t \in Teams PROVE Registers(mo, t)' => Registers(mo, t)
  BY <1>1, RegistersNames
<1>15. ASSUME NEW m \in Listed' PROVE Blocked(S, m)
  BY <1>5, <1>8 DEF Covers
<1>16. ASSUME NEW d \in More, at'[d] = "choosing", NEW m \in InList(d)' PROVE Blocked(S, m)
  <2>1. d # c /\ d \in New /\ d \in Connections
    BY <1>4, <1>16 DEF More, Looking
  <2>2. at[d] = "choosing" /\ m \in InList(d)
    BY <1>3, <1>5, <1>16, <2>1
  <2> QED BY <1>8, <2>1, <2>2 DEF Covers
<1>17. Covers(More, T)'
  BY <1>8, <1>11, <1>12, <1>13, <1>14, <1>15, <1>16, Carries
<1>18. QED
  <2>1. \E A \in SUBSET Looking' : \E B \in SUBSET Slots : Covers(A, B)'
    BY <1>10, <1>17
  <2> QED BY <1>6, <2>1 DEF Covered, Slots

LEMMA UpdateLooks ==
  ASSUME SoundInv, LookInv, NEW c \in Connections, Update(c)
  PROVE  LookInv'
<1>1. PICK u \in todo[c] :
        IF Registers(mo, u)
        THEN Saving(c, UpdateTeam(mo, u)) /\ outdated' = (outdated \/ \E d \in Connections : at[d] = "choosing")
        ELSE UNCHANGED <<disk, mu, mo, outdated>>
  BY DEF Update
<1>2. room' = room /\ seen' = seen /\ proc = "up" /\ at' = at /\ u \in Teams
  BY <1>1 DEF Update, Handler, SoundInv, ShapeInv
<1>3. Looking' = Looking /\ \A d : InList(d)' = InList(d)
  BY <1>2 DEF Looking, InList
<1>4. CASE ~Registers(mo, u)
  <2>1. mo' = mo /\ outdated' = outdated /\ Listed' = Listed
    BY <1>1, <1>4 DEF Listed
  <2> QED BY <1>2, <1>3, <2>1, SameLooks
<1>5. CASE Registers(mo, u)
  <2> SUFFICES ASSUME ~outdated' PROVE Fresh' /\ Covered'
    BY DEF LookInv
  <2>1. mo' = UpdateTeam(mo, u) /\ ~outdated /\ \A d \in Connections : at[d] # "choosing"
    BY <1>1, <1>5 DEF Saving
  <2>2. Fresh'
    BY <1>2, <2>1 DEF Fresh
  <2>3. PICK New \in SUBSET Looking : \E S \in SUBSET Slots : Covers(New, S)
    BY <1>2, <2>1 DEF LookInv, Covered
  <2>4. PICK S \in SUBSET Slots : Covers(New, S)
    BY <2>3
  <2>5. ASSUME NEW t \in Teams PROVE Registers(mo, t)' => Registers(mo, t)
    <3> SUFFICES ASSUME Registers(mo, t)' PROVE Registers(mo, t)
      OBVIOUS
    <3>1. Registers(UpdateTeam(mo, u), t)
      BY <2>1 DEF Registers
    <3>2. UpdateTeam(mo, u).names = Append(mo.names, u) /\ mo.names \in Seq(Teams)
      BY DEF UpdateTeam, SoundInv, Grounded
    <3> QED BY <3>1, <3>2, RegistersLeft
  <2>6. ASSUME NEW t \in Teams PROVE Short(S, t) => Short(S, t)'
    BY <1>2 DEF Short, SlotsOf
  <2>7. ASSUME NEW m \in Listed' PROVE Blocked(S, m)
    <3>1. m \in ListOf(UpdateTeam(mo, u))
      BY <2>1 DEF Listed, ListOf
    <3>2. CASE m \in ListOf(mo)
      BY <2>4, <3>2 DEF Covers, Listed
    <3>3. CASE m \notin ListOf(mo)
      <4>1. PICK r \in Roles : u \in m[r]
        BY <1>2, <1>5, <3>1, <3>3, UpdateList DEF SoundInv
      <4>2. Short(S, u)
        BY <1>2, <1>5, <2>4 DEF Covers
      <4> QED BY <4>1, <4>2 DEF Blocked
    <3> QED BY <3>2, <3>3
  <2>8. ASSUME NEW d \in New, at'[d] = "choosing", NEW m \in InList(d)' PROVE Blocked(S, m)
    BY <1>2, <2>1, <2>8 DEF Looking
  <2>9. Cardinality(S) <= Cardinality(New) /\ \A x \in S : at'[x[1]] # "new"
    BY <1>2, <2>4 DEF Covers
  <2>10. Covers(New, S)'
    BY <2>4, <2>5, <2>6, <2>7, <2>8, <2>9, Carries
  <2>11. New \in SUBSET Looking' /\ Slots' = Slots
    BY <1>3 DEF Slots
  <2> QED BY <2>2, <2>10, <2>11 DEF Covered
<1>6. QED
  BY <1>4, <1>5

LEMMA ScheduleLooks ==
  ASSUME SoundInv, SoundInv', LookInv, NEW c \in Connections, Schedule(c)
  PROVE  LookInv'
<1>1. room' = room /\ proc = "up" /\ outdated' = outdated /\ drawn' = drawn /\ at[c] = "updating"
  BY DEF Schedule, Handler, history
<1>2. Grounded(mo, drawn) /\ Grounded(mo', drawn)
  <2>1. Base = drawn /\ Base' = drawn
    BY <1>1 DEF Schedule, Base, Running
  <2> QED BY <2>1 DEF SoundInv
<1>3. KindsOf(mo') = KindsOf(mo) /\ mo'.names = mo.names
  <2>1. CASE mo' \in Sorts(mo)
    BY <1>2, <2>1, SortsList, SortsKeep DEF SoundInv, FileInv, SaysSame
  <2>2. CASE mo' = mo
    BY <2>2
  <2> QED BY <2>1, <2>2 DEF Schedule
<1>4. Listed' \subseteq Listed
  <2>1. ListOf(mo') \subseteq ListOf(mo)
    BY <1>2, <1>3, ListShrinks
  <2> QED BY <2>1 DEF Listed, ListOf
<1>5. \A d \in Connections : d # c => at'[d] = at[d]
  BY DEF Schedule, Handler, SoundInv, ShapeInv
<1>6. at'[c] \in {"choosing", "appending"}
  BY DEF Schedule, Handler, SoundInv, ShapeInv
<1>7. Looking \subseteq Looking' /\ \A d \in Connections : at[d] # "new" => at'[d] # "new"
  BY <1>1, <1>5, <1>6 DEF Looking
<1>8. ASSUME NEW d \in Connections, at'[d] = "choosing"
      PROVE  (at[d] = "choosing" /\ InList(d)' = InList(d)) \/ InList(d)' = Listed
  <2>1. CASE d = c
    <3>1. seen' = [seen EXCEPT ![c] = GetMatches(mo)]
      BY <1>8, <2>1 DEF Schedule, Handler, SoundInv, ShapeInv
    <3>2. seen'[d] = GetMatches(mo)
      BY <2>1, <3>1 DEF SoundInv, ShapeInv
    <3>3. DOMAIN GetMatches(mo) = DOMAIN mo.scheduled
      BY DEF GetMatches
    <3> QED BY <3>2, <3>3 DEF InList, Listed, ListOf
  <2>2. CASE d # c
    <3>1. seen'[d] = seen[d]
      BY <2>2 DEF Schedule, SoundInv, ShapeInv
    <3> QED BY <1>5, <1>8, <2>2, <3>1 DEF InList
  <2> QED BY <2>1, <2>2
<1>9. QED
  BY <1>1, <1>3, <1>4, <1>7, <1>8, SameLooks

\* A handler that finds a match it could play leaves a queue shorter for it, and
\* need not be counted on any more.
LEMMA TakesLooks ==
  ASSUME SoundInv, LookInv, NEW c \in Connections, Choose(c), NEW i \in Chosen(c),
         room' = Left(room, OneOfEach(seen[c][i]))
  PROVE  LookInv'
<1> SUFFICES ASSUME ~outdated PROVE Fresh' /\ Covered'
  BY DEF LookInv, Choose, history
<1>1. mo' = mo /\ proc = "up" /\ at[c] = "choosing" /\ at' = [at EXCEPT ![c] = "returned"]
      /\ seen' = [seen EXCEPT ![c] = <<>>]
  BY DEF Choose, Handler
<1>2. Fresh /\ Covered
  BY <1>1 DEF LookInv
<1>3. \A d \in Connections : d # c => at'[d] = at[d] /\ InList(d)' = InList(d)
  BY <1>1 DEF SoundInv, ShapeInv, InList
<1>4. at'[c] = "returned"
  BY <1>1 DEF SoundInv, ShapeInv
<1>5. Listed' = Listed
  BY <1>1 DEF Listed
<1>6. Fresh'
  <2>1. ASSUME NEW d \in Connections, at'[d] = "choosing" PROVE Listed' \subseteq InList(d)'
    <3>1. d # c
      BY <1>4, <2>1
    <3> QED BY <1>2, <1>3, <1>5, <2>1, <3>1 DEF Fresh
  <2> QED BY <2>1 DEF Fresh
<1>7. PICK New \in SUBSET Looking : \E S \in SUBSET Slots : Covers(New, S)
  BY <1>2 DEF Covered
<1>8. PICK S \in SUBSET Slots : Covers(New, S)
  BY <1>7
<1> DEFINE m == seen[c][i]
           Less == New \ {c}
<1>9. Ready(m) /\ m \in InList(c)
  BY DEF Chosen, InList
<1> HIDE DEF m
<1>10. ASSUME NEW t \in Teams
       PROVE  /\ Len(room[t]) \in Nat /\ Len(room'[t]) \in Nat /\ Len(room'[t]) <= Len(room[t])
              /\ (\E r \in Roles : t \in m[r]) => Len(room[t]) >= 1 /\ Len(room'[t]) = Len(room[t]) - 1
  <2> DEFINE one == IF \E r \in Roles : t \in m[r] THEN 1 ELSE 0
             n == Len(room[t])
             k == Len(room'[t])
  <2>1. n \in Nat /\ one \in {0, 1} /\ ((\E r \in Roles : t \in m[r]) => one = 1)
    BY QueueLen DEF SoundInv
  <2>2. one <= n /\ k = n - one
    BY <1>9, TakenQueue DEF m, SoundInv
  <2> HIDE DEF one, n, k
  <2>3. k \in Nat /\ k <= n /\ (one = 1 => n >= 1 /\ k = n - 1)
    BY <2>1, <2>2
  <2> QED BY <2>1, <2>3 DEF n, k
<1>11. Less \in SUBSET Looking' /\ Slots' = Slots
  BY <1>3 DEF Looking, Slots
<1>12. ASSUME NEW t \in Teams PROVE Registers(mo, t)' => Registers(mo, t)
  BY <1>1, RegistersNames
<1>13. ASSUME NEW n \in Listed' PROVE Blocked(S, n)
  BY <1>5, <1>8 DEF Covers
<1>14. ASSUME NEW d \in Less, at'[d] = "choosing", NEW n \in InList(d)' PROVE Blocked(S, n)
  <2>1. d \in New /\ at[d] = "choosing" /\ n \in InList(d)
    BY <1>3, <1>14 DEF Looking
  <2> QED BY <1>8, <2>1 DEF Covers
<1>15. \A x \in S : at'[x[1]] # "new"
  <2>1. \A x \in S : x[1] \in Connections /\ at[x[1]] # "new"
    BY <1>8 DEF Covers, Slots
  <2> QED BY <1>3, <1>4, <2>1
<1>16. /\ IsFiniteSet(New) /\ Cardinality(New) \in Nat /\ IsFiniteSet(S) /\ Cardinality(S) \in Nat
       /\ Cardinality(S) <= Cardinality(New)
  BY <1>8, SetsFinite DEF Looking, Covers
<1>17. CASE c \notin New
  <2>1. Less = New
    BY <1>17
  <2>2. ASSUME NEW t \in Teams PROVE Short(S, t) => Short(S, t)'
    <3>1. Cardinality(SlotsOf(S, t)) \in Nat /\ SlotsOf(S, t)' = SlotsOf(S, t)
      BY SetsFinite DEF SlotsOf
    <3>2. ASSUME Len(room[t]) <= Cardinality(SlotsOf(S, t)) PROVE Len(room'[t]) <= Cardinality(SlotsOf(S, t))
      BY <1>10, <3>1, <3>2
    <3> QED BY <3>1, <3>2 DEF Short
  <2>3. Covers(Less, S)'
    BY <1>8, <1>12, <1>13, <1>14, <1>15, <1>16, <2>1, <2>2, Carries
  <2> QED BY <1>6, <1>11, <2>3 DEF Covered
<1>18. CASE c \in New
  <2>1. Blocked(S, m)
    BY <1>1, <1>8, <1>9, <1>18 DEF Covers
  <2>2. PICK r \in Roles : \E t \in m[r] : t \in Teams => Short(S, t)
    BY <2>1 DEF Blocked
  <2>3. PICK u \in m[r] : u \in Teams => Short(S, u)
    BY <2>2
  <2>4. u \in Teams /\ Short(S, u) /\ Len(room[u]) >= 1 /\ Len(room'[u]) = Len(room[u]) - 1
    <3>1. u \in Teams
      BY <1>9, <2>3 DEF Ready
    <3> QED BY <1>10, <2>3, <3>1
  <2>5. SlotsOf(S, u) # {}
    <3>1. CASE SlotsOf(S, u) = {}
      <4>1. Cardinality(SlotsOf(S, u)) = 0
        BY <3>1, FS_EmptySet
      <4> QED BY <1>10, <2>4, <4>1 DEF Short
    <3> QED BY <3>1
  <2>6. PICK x \in SlotsOf(S, u) : TRUE
    BY <2>5
  <2> DEFINE T == S \ {x}
  <2>7. x \in S /\ x[2] = u /\ T \in SUBSET Slots
    BY <2>6 DEF SlotsOf
  <2>8. ASSUME NEW t \in Teams PROVE Short(S, t) => Short(T, t)'
    <3>1. Cardinality(SlotsOf(S, t)) \in Nat /\ IsFiniteSet(SlotsOf(S, t)) /\ SlotsOf(T, t)' = SlotsOf(T, t)
      BY SetsFinite DEF SlotsOf
    <3>2. CASE t # u
      <4>1. SlotsOf(T, t) = SlotsOf(S, t)
        BY <2>7, <3>2 DEF SlotsOf
      <4>2. ASSUME Len(room[t]) <= Cardinality(SlotsOf(S, t)) PROVE Len(room'[t]) <= Cardinality(SlotsOf(T, t))
        BY <1>10, <3>1, <4>1, <4>2
      <4> QED BY <3>1, <4>2 DEF Short
    <3>3. CASE t = u
      <4>1. SlotsOf(T, t) = SlotsOf(S, t) \ {x} /\ x \in SlotsOf(S, t)
        BY <2>7, <3>3 DEF SlotsOf
      <4> DEFINE P == SlotsOf(S, t)
      <4>2. IsFiniteSet(P) /\ x \in P
        BY <3>1, <4>1
      <4> HIDE DEF T, P
      <4>3. Cardinality(P \ {x}) = Cardinality(P) - 1
        BY <4>2, FS_RemoveElement
      <4>4. Cardinality(SlotsOf(T, t)) = Cardinality(SlotsOf(S, t)) - 1
        BY <4>1, <4>3 DEF P
      <4>5. ASSUME Len(room[t]) <= Cardinality(SlotsOf(S, t)) PROVE Len(room'[t]) <= Cardinality(SlotsOf(T, t))
        BY <1>10, <2>4, <3>1, <3>3, <4>4, <4>5
      <4> QED BY <3>1, <4>5 DEF Short
    <3> QED BY <3>2, <3>3
  <2>9. Cardinality(T) <= Cardinality(Less)
    <3>1. Cardinality(T) = Cardinality(S) - 1 /\ Cardinality(Less) = Cardinality(New) - 1
      BY <1>16, <1>18, <2>7, FS_RemoveElement
    <3> HIDE DEF T, Less
    <3> QED BY <1>16, <3>1
  <2>10. \A y \in T : at'[y[1]] # "new"
    BY <1>15
  <2> HIDE DEF T, Less
  <2>11. Covers(Less, T)'
    BY <1>8, <1>12, <1>13, <1>14, <2>8, <2>9, <2>10, Carries
  <2>12. \E A \in SUBSET Looking' : \E B \in SUBSET Slots : Covers(A, B)'
    BY <1>11, <2>7, <2>11
  <2> QED BY <1>6, <1>11, <2>12 DEF Covered
<1>19. QED
  BY <1>17, <1>18

\* No match of the list a handler looked through can be played, if it takes none.
LEMMA NoneReady ==
  ASSUME ShapeInv, NEW c \in Connections, Chosen(c) = {}, NEW m \in InList(c)
  PROVE  ~Ready(m)
<1> SUFFICES ASSUME Ready(m) PROVE FALSE
  OBVIOUS
<1> DEFINE s == seen[c]
           T == {i \in DOMAIN s : Ready(s[i])}
<1>1. s \in Lists /\ DOMAIN s = 1..Len(s) /\ Len(s) \in Nat
  BY DEF ShapeInv, Lists
<1>2. T \in SUBSET Nat /\ T # {}
  <2>1. PICK i \in DOMAIN s : m = s[i]
    BY DEF InList
  <2>2. i \in T
    BY <2>1
  <2>3. DOMAIN s \subseteq Nat
    BY <1>1
  <2> QED BY <2>2, <2>3
<1> HIDE DEF T
<1>3. PICK i \in T : \A j \in T : i <= j
  BY <1>2, LeastIs
<1>4. ASSUME NEW j \in 1..i - 1 PROVE ~Ready(s[j])
  <2> SUFFICES ASSUME Ready(s[j]) PROVE FALSE
    OBVIOUS
  <2>1. i \in 1..Len(s) /\ i \in Nat
    BY <1>1, <1>2 DEF T
  <2>2. j \in 1..Len(s) /\ j < i
    BY <1>1, <2>1
  <2>3. j \in T
    BY <1>1, <2>2 DEF T
  <2> QED BY <1>3, <2>1, <2>2, <2>3
<1>5. i \in Chosen(c)
  BY <1>4 DEF Chosen, T
<1>6. QED
  BY <1>5

\* A handler that finds none has seen all that are scheduled: what could still
\* be played needs a team without a number, and somebody is there to give it one.
LEMMA FindsNoneLooks ==
  ASSUME SoundInv, WaitInv, LookInv, NEW c \in Connections, Choose(c), Chosen(c) = {}, room' = room
  PROVE  LookInv'
<1> SUFFICES ASSUME ~outdated PROVE Fresh' /\ Covered'
  BY DEF LookInv, Choose, history
<1>1. mo' = mo /\ proc = "up" /\ at[c] = "choosing" /\ at' = [at EXCEPT ![c] = "returned"]
      /\ seen' = [seen EXCEPT ![c] = <<>>]
  BY DEF Choose, Handler
<1>2. Fresh
  BY <1>1 DEF LookInv
<1>3. \A d \in Connections : d # c => at'[d] = at[d] /\ InList(d)' = InList(d)
  BY <1>1 DEF SoundInv, ShapeInv, InList
<1>4. at'[c] = "returned" /\ Listed' = Listed
  BY <1>1 DEF SoundInv, ShapeInv, Listed
<1>5. Fresh'
  <2>1. ASSUME NEW d \in Connections, at'[d] = "choosing" PROVE Listed' \subseteq InList(d)'
    <3>1. d # c
      BY <1>4, <2>1
    <3> QED BY <1>2, <1>3, <1>4, <2>1, <3>1 DEF Fresh
  <2> QED BY <2>1 DEF Fresh
<1> PICK New : New = {d \in Connections : at[d] \in {"entered", "updating"}}
  OBVIOUS
<1> PICK S : S = {<<d, TeamOf[d]>> : d \in New}
  OBVIOUS
<1>6. S \in SUBSET Slots /\ New \in SUBSET Connections
  BY RoomAssumption DEF Slots
<1>7. New \in SUBSET Looking' /\ \A d \in New : d # c /\ at'[d] \in {"entered", "updating"}
  BY <1>1, <1>3 DEF Looking
<1>8. Cardinality(S) <= Cardinality(New)
  <2> DEFINE f == [d \in New |-> <<d, TeamOf[d]>>]
  <2>1. f \in Surjection(New, S)
    BY DEF Surjection
  <2>2. IsFiniteSet(New)
    BY <1>6, SetsFinite
  <2> HIDE DEF f
  <2> QED BY <2>1, <2>2, FS_Surjection
<1>9. ASSUME NEW t \in Teams, Registers(mo, t) PROVE Short(S, t)
  <2> DEFINE q == room[t]
             D == 1..Len(q)
             f == [n \in D |-> <<q[n], t>>]
             P == SlotsOf(S, t)
  <2>1. Len(q) \in Nat /\ DOMAIN q = D /\ \A n \in D : q[n] \in Connections
    BY QueueLen DEF SoundInv
  <2>2. ASSUME NEW n \in D PROVE <<q[n], t>> \in P
    <3>1. Attended(t, q[n])
      BY <2>1 DEF WaitInv, Waiting
    <3>2. q[n] \in New /\ TeamOf[q[n]] = t
      BY <1>9, <2>1, <3>1 DEF Attended
    <3> QED BY <3>2 DEF SlotsOf
  <2>3. \A n, k \in D : k # n => q[k] # q[n]
    BY <2>1 DEF WaitInv
  <2>4. IsFiniteSet(P)
    BY <1>6, SetsFinite
  <2> HIDE DEF q, P, D
  <2>5. f \in Injection(D, P)
    BY <2>2, <2>3 DEF Injection, IsInjective
  <2> HIDE DEF f
  <2>6. Cardinality(D) <= Cardinality(P)
    BY <2>4, <2>5, FS_Injection
  <2>7. Cardinality(D) = Len(q)
    <3> DEFINE n == Len(q)
    <3>1. n \in Nat /\ 1 \in Int /\ n \in Int
      BY <2>1
    <3> HIDE DEF n
    <3>2. Cardinality(1..n) = IF 1 > n THEN 0 ELSE n - 1 + 1
      BY <3>1, FS_Interval
    <3>3. Cardinality(1..n) = n
      BY <3>1, <3>2
    <3> QED BY <3>3 DEF n, D
  <2> QED BY <2>6, <2>7 DEF Short, q, P
<1>10. ASSUME NEW m \in Listed PROVE Blocked(S, m)
  <2>1. m \in InList(c)
    BY <1>1, <1>2 DEF Fresh
  <2>2. ~Ready(m)
    BY <2>1, NoneReady DEF SoundInv
  <2>3. PICK r \in Roles : \E t \in m[r] : t \in Teams => room[t] = <<>>
    BY <2>2 DEF Ready
  <2>4. PICK t \in m[r] : t \in Teams => room[t] = <<>>
    BY <2>3
  <2>5. ASSUME t \in Teams PROVE Short(S, t)
    <3>1. Len(room[t]) = 0
      BY <2>4, <2>5
    <3>2. Cardinality(SlotsOf(S, t)) \in Nat
      BY <1>6, SetsFinite
    <3> QED BY <3>1, <3>2 DEF Short
  <2> QED BY <2>4, <2>5 DEF Blocked
<1>11. \A t \in Teams : (Registers(mo, t)' <=> Registers(mo, t)) /\ (Short(S, t)' <=> Short(S, t))
  BY <1>1 DEF Registers, Short, SlotsOf
<1>12. \A m : Blocked(S, m)' <=> Blocked(S, m)
  BY <1>11 DEF Blocked
<1>13. \A x \in S : at'[x[1]] # "new"
  BY <1>7
<1>14. Covers(New, S)'
  BY <1>4, <1>7, <1>8, <1>9, <1>10, <1>11, <1>12, <1>13 DEF Covers
<1>15. \E A \in SUBSET Looking' : \E B \in SUBSET Slots : Covers(A, B)'
  BY <1>6, <1>7, <1>14
<1>16. QED
  BY <1>5, <1>15 DEF Covered, Slots

LEMMA RecordLists ==
  ASSUME SoundInv, SoundInv', NEW c \in Connections, Record(c)
  PROVE  Listed' \subseteq Listed
<1> DEFINE m == IdxMatch(mo, playing[c])
<1>1. Grounded(mo, drawn) /\ Grounded(mo', drawn)
  <2>1. Base = drawn /\ Base' = drawn
    BY DEF Record, history, Base, Running
  <2> QED BY <2>1 DEF SoundInv
<1>2. mo' = mo \/ mo' = SetMatchEnd(mo, m) \/ mo' = SetMatchWeight(mo, m, 0)
  BY DEF Record, Saving, Outcome
<1> HIDE DEF m
<1>3. KindsOf(mo') \subseteq KindsOf(mo)
  BY <1>1, <1>2, EndList, WeightList
<1>4. ListOf(mo') \subseteq ListOf(mo)
  BY <1>1, <1>3, RecordNames, ListShrinks
<1>5. QED
  BY <1>4 DEF Listed, ListOf

LEMMA NextLooks == SoundInv /\ SoundInv' /\ WaitInv /\ LookInv /\ [Next]_vars => LookInv'
<1> SUFFICES ASSUME SoundInv, SoundInv', WaitInv, LookInv, [Next]_vars PROVE LookInv'
  OBVIOUS
<1>1. CASE UNCHANGED vars
  <2>1. Listed' = Listed /\ Looking' = Looking /\ \A c \in Connections : InList(c)' = InList(c)
    BY <1>1 DEF vars, handlers, Listed, ListOf, InList, Looking
  <2>2. CASE proc = "up"
    BY <1>1, <2>1, <2>2, SameLooks DEF vars, handlers, history
  <2>3. CASE proc # "up"
    BY <1>1, <2>3 DEF vars, LookInv
  <2> QED BY <2>2, <2>3
<1>2. CASE Runs \/ Stop
  <2>1. SoundInv' /\ Quiet' => LookInv'
    BY QuietLooks, PTL
  <2> QED BY <1>2, <2>1, RunsQuiet, StopQuiet
<1>3. ASSUME NEW c \in Connections, ListTeams(c) \/ Saved(c) \/ GameEnds(c) \/ Record(c)
      PROVE  LookInv'
  <2>1. room' = room /\ seen' = seen /\ proc = "up" /\ outdated' = outdated
    BY <1>3 DEF ListTeams, Saved, GameEnds, Record, Handler, handlers, history
  <2>2. at' = at \/ (at[c] = "entered" /\ at' = [at EXCEPT ![c] = "updating"])
    BY <1>3 DEF ListTeams, Saved, GameEnds, Record, Handler, handlers
  <2>3. mo'.names = mo.names /\ Listed' \subseteq Listed
    <3>1. CASE Record(c)
      BY <3>1, RecordNames, RecordLists
    <3>2. CASE mo' = mo
      BY <3>2 DEF Listed
    <3> QED BY <1>3, <3>1, <3>2 DEF ListTeams, Saved, GameEnds
  <2>4. \A d \in Connections : at'[d] = at[d] \/ (at[d] = "entered" /\ at'[d] = "updating")
    BY <2>2 DEF SoundInv, ShapeInv
  <2>5. Looking \subseteq Looking' /\ \A d \in Connections : at[d] # "new" => at'[d] # "new"
    BY <2>4 DEF Looking
  <2>6. \A d \in Connections : at'[d] = "choosing" => at[d] = "choosing" /\ InList(d)' = InList(d)
    BY <2>1, <2>4 DEF InList
  <2> QED BY <2>1, <2>3, <2>5, <2>6, SameLooks
<1>4. ASSUME NEW c \in Connections, Choose(c)
      PROVE  LookInv'
  <2>1. CASE Chosen(c) = {} /\ UNCHANGED <<room, matches>>
    BY <1>4, <2>1, FindsNoneLooks
  <2>2. ASSUME NEW i \in Chosen(c), room' = Left(room, OneOfEach(seen[c][i])) PROVE LookInv'
    BY <1>4, <2>2, TakesLooks
  <2> QED BY <1>4, <2>1, <2>2 DEF Choose, OneOfEach
<1>5. QED
  BY <1>1, <1>2, <1>3, <1>4, EnterLooks, UpdateLooks, ScheduleLooks DEF Next, Serve, Play

\* And every match on it that is not looked for lacks a team.
THEOREM NeedInvHolds == Spec => []NeedInv
<1>1. Init => NeedInv
  <2>1. Init => Quiet
    BY DEF Init, Quiet
  <2> QED BY <2>1, InitSound, QuietWaits, QuietLooks DEF NeedInv
<1>2. NeedInv /\ [Next]_vars => NeedInv'
  BY NextSound, NextWaits, NextLooks DEF NeedInv
<1>3. QED
  BY <1>1, <1>2, PTL DEF Spec

\* Between the handlers of TryStartGame no team that waits is forgotten: it has a
\* number, if there was one left, and unless a team got its number while a
\* handler held an older list, no scheduled match has all its teams waiting.
THEOREM ForgottenTheorem == Spec => []NobodyForgotten
<1>1. NeedInv => NobodyForgotten
  BY ReadyLooked, WaitersAre DEF NeedInv, NobodyForgotten
<1>2. QED
  BY <1>1, NeedInvHolds, PTL
=============================================================================
