--------------------------- MODULE ScheduledGames ---------------------------
(***************************************************************************)
(* Optimized matching: the handlers of the connections, the waiting room,  *)
(* the match schedule, the goroutines of the games and the file the        *)
(* schedule is kept in, over a process that may stop at any moment and be  *)
(* started again.  A save holds the schedule's lock and takes two steps,   *)
(* because os.Create empties the file before the new text is written.      *)
(* A game is named by the connection whose handler made it.                *)
(***************************************************************************)
EXTENDS WaitingRoom, MatchOptimizer

CONSTANTS
  InfiniteLoop,    \* matching.infinite_loop
  Free,            \* the holder of an unlocked mu
  MaxStops         \* bound: how often the process stops

ASSUME GamesAssumption ==
  InfiniteLoop \in BOOLEAN /\ MaxStops \in Nat /\ Free \notin Connections /\ NoTeam \notin Teams

VARIABLES
  proc,      \* "down", "saving" (NewMatchOptimizer's save), "up", "panicked"
  stops,     \* how often it has stopped
  coming,    \* external: the clients that come, at most once per start of it
  disk,      \* the file: "none", "cut" or "whole", and what it says when whole
  mu,        \* who holds MatchOptimizer.mu
  mo,        \* the schedule in memory, gone when the process stops
  room,      \* the waiting room
  at,        \* where every connection's handler is
  todo,      \* the teams it still has to register
  seen,      \* the matches GetMatches gave it
  game,      \* the goroutine of its game: "none", "running", "won", "failed"
  playing,   \* the match of that game, in team names
  drawn,     \* history: the schedule as it was drawn
  played,    \* history: how many games had a winner
  outdated   \* history: a team got its number while a handler held an older list

handlers == <<room, at, todo, seen>>
matches  == <<game, playing>>
history  == <<drawn, played, outdated>>
vars == <<proc, stops, coming, disk, mu, mo, handlers, matches, history>>

Nobody   == [r \in Roles |-> {}]
Nothing  == NewMatchOptimizer(<<>>)
NoFile   == [is |-> "none", says |-> Nothing]
Cut      == [is |-> "cut", says |-> Nothing]
Whole(s) == [is |-> "whole", says |-> s]

Idle ==
  /\ room' = EmptyRoom
  /\ at' = [c \in Connections |-> "new"]
  /\ todo' = [c \in Connections |-> {}] /\ seen' = [c \in Connections |-> <<>>]
  /\ game' = [c \in Connections |-> "none"] /\ playing' = [c \in Connections |-> Nobody]

-----------------------------------------------------------------------------
(* The process and its file *)

Init ==
  /\ proc = "down" /\ stops = 0 /\ coming \in SUBSET Connections /\ disk = NoFile /\ mu = Free
  /\ mo = Nothing
  /\ room = EmptyRoom
  /\ at = [c \in Connections |-> "new"]
  /\ todo = [c \in Connections |-> {}] /\ seen = [c \in Connections |-> <<>>]
  /\ game = [c \in Connections |-> "none"] /\ playing = [c \in Connections |-> Nobody]
  /\ drawn = <<>> /\ played = 0 /\ outdated = FALSE

\* NewMatchOptimizer: no file makes a new schedule, a broken one makes
\* NewServer fail and main panic, and a good one is saved again at once.
Create ==
  /\ proc = "down" /\ disk.is = "none"
  /\ drawn' \in Drawn /\ mo' = NewMatchOptimizer(drawn')
  /\ proc' = "saving" /\ disk' = Cut
  /\ UNCHANGED <<coming, stops, mu, handlers, matches, played, outdated>>

Load ==
  /\ proc = "down" /\ disk.is = "whole"
  /\ mo' = disk.says
  /\ proc' = "saving" /\ disk' = Cut
  /\ UNCHANGED <<coming, stops, mu, handlers, matches, history>>

ParseFails ==
  /\ proc = "down" /\ disk.is = "cut"
  /\ proc' = "panicked"
  /\ UNCHANGED <<coming, stops, disk, mu, mo, handlers, matches, history>>

Serves ==
  /\ proc = "saving"
  /\ proc' = "up" /\ disk' = Whole(mo)
  /\ UNCHANGED <<coming, stops, mu, mo, handlers, matches, history>>

Running == proc \in {"saving", "up"}

\* os.Exit, a signal that is not handled, a panic, a power cut: what is left is
\* the file, and in the middle of a save that is empty.
Stop ==
  /\ Running /\ stops < MaxStops
  /\ proc' = "down" /\ stops' = stops + 1 /\ mu' = Free /\ mo' = Nothing /\ Idle
  /\ outdated' = FALSE
  /\ UNCHANGED <<coming, disk, drawn, played>>

\* c has changed the schedule and goes on to save it.
Saving(c, new) == mu' = c /\ mo' = new /\ disk' = Cut

\* variant: returns without unlocking
Saved_locked(c) ==
  /\ proc = "up" /\ mu = c /\ at[c] # "appending" /\ disk' = Whole(mo)
  /\ UNCHANGED <<proc, coming, stops, mu, mo, handlers, matches, history>>

Saved(c) ==
  /\ proc = "up" /\ mu = c /\ at[c] # "appending"
  /\ mu' = Free /\ disk' = Whole(mo)
  /\ UNCHANGED <<proc, coming, stops, mo, handlers, matches, history>>

-----------------------------------------------------------------------------
(* A connection's handler: TryStartGame *)

Handler(c, from, to) ==
  /\ proc = "up" /\ mu # c
  /\ at[c] = from /\ at' = [at EXCEPT ![c] = to]

Enter(c) ==
  /\ Handler(c, "new", "entered") /\ c \in coming
  /\ room' = AddConnection(room, c)
  /\ UNCHANGED <<proc, coming, stops, disk, mu, mo, todo, seen, matches, history>>

\* Teams ranges over the room's map without its lock.
ListTeams(c) ==
  /\ Handler(c, "entered", "updating")
  /\ todo' = [todo EXCEPT ![c] = {t \in Teams : room[t] # <<>>}]
  /\ UNCHANGED <<proc, coming, stops, disk, mu, mo, room, seen, matches, history>>

Update(c) ==
  /\ Handler(c, "updating", "updating") /\ mu = Free
  /\ \E t \in todo[c] :
       /\ todo' = [todo EXCEPT ![c] = @ \ {t}]
       /\ IF Registers(mo, t)
          THEN Saving(c, UpdateTeam(mo, t)) /\ outdated' = (outdated \/ \E d \in Connections : at[d] = "choosing")
          ELSE UNCHANGED <<disk, mu, mo, outdated>>
  /\ UNCHANGED <<proc, coming, stops, room, seen, matches, drawn, played>>

\* An exhausted schedule is to be drawn again: append locks mu, which its
\* caller GetMatches holds, and waits for itself.
Schedule(c) ==
  /\ todo[c] = {} /\ mu = Free
  /\ \/ /\ ~(Exhausted(mo) /\ InfiniteLoop)
        /\ Handler(c, "updating", "choosing")
        /\ seen' = [seen EXCEPT ![c] = GetMatches(mo)] /\ mo' \in Sorts(mo)
        /\ UNCHANGED mu
     \/ /\ Exhausted(mo) /\ InfiniteLoop
        /\ Handler(c, "updating", "appending")
        /\ mu' = c
        /\ UNCHANGED <<seen, mo>>
  /\ UNCHANGED <<proc, coming, stops, disk, room, todo, matches, history>>

Ready(m) == \A r \in Roles : \A t \in m[r] : t \in Teams /\ room[t] # <<>>

\* variant: the first match is not looked for, a ready one waits for it
Chosen_firstOnly(c) == {i \in {1} \cap DOMAIN seen[c] : Ready(seen[c][i])}

Chosen(c) ==
  {i \in DOMAIN seen[c] : Ready(seen[c][i]) /\ \A j \in 1..i - 1 : ~Ready(seen[c][j])}

\* GetConnectionsWithMatchOptimizer and, with a match, the start of the game.
Choose(c) ==
  /\ Handler(c, "choosing", "returned")
  /\ seen' = [seen EXCEPT ![c] = <<>>]
  /\ \/ /\ Chosen(c) = {}
        /\ UNCHANGED <<room, matches>>
     \/ \E i \in Chosen(c) :
          LET m == seen[c][i] IN
          /\ room' = Left(room, [t \in Teams |-> IF \E r \in Roles : t \in m[r] THEN 1 ELSE 0])
          /\ playing' = [playing EXCEPT ![c] = m]
          /\ game' = [game EXCEPT ![c] = "running"]
  /\ UNCHANGED <<proc, coming, stops, disk, mu, mo, todo, history>>

-----------------------------------------------------------------------------
(* A game's goroutine: Start returns a winner or none, which is recorded *)

GameEnds(c) ==
  /\ proc = "up" /\ game[c] = "running"
  /\ \/ game' = [game EXCEPT ![c] = "won"] /\ played' = played + 1
     \/ game' = [game EXCEPT ![c] = "failed"] /\ UNCHANGED played
  /\ UNCHANGED <<proc, coming, stops, disk, mu, mo, handlers, playing, drawn, outdated>>

Outcome(c) ==
  LET m == IdxMatch(mo, playing[c])
  IN IF game[c] = "won" THEN SetMatchEnd(mo, m) ELSE SetMatchWeight(mo, m, 0)

\* variant: a match that is over is not saved
Record_unsaved(c) ==
  /\ proc = "up" /\ mu = Free /\ game[c] \in {"won", "failed"}
  /\ game' = [game EXCEPT ![c] = "none"] /\ playing' = [playing EXCEPT ![c] = Nobody]
  /\ mo' = Outcome(c)
  /\ UNCHANGED <<proc, coming, stops, disk, mu, handlers, history>>

\* variant: does not mind whether the match is still scheduled
Record_again(c) ==
  /\ proc = "up" /\ mu = Free /\ game[c] \in {"won", "failed"}
  /\ game' = [game EXCEPT ![c] = "none"] /\ playing' = [playing EXCEPT ![c] = Nobody]
  /\ Saving(c, IF game[c] = "won" THEN SetMatchEnd_always(mo, IdxMatch(mo, playing[c]))
               ELSE Outcome(c))
  /\ UNCHANGED <<proc, coming, stops, handlers, history>>

Record(c) ==
  /\ proc = "up" /\ mu = Free /\ game[c] \in {"won", "failed"}
  /\ game' = [game EXCEPT ![c] = "none"] /\ playing' = [playing EXCEPT ![c] = Nobody]
  /\ IF Found(mo, IdxMatch(mo, playing[c])) # {} THEN Saving(c, Outcome(c))
     ELSE UNCHANGED <<disk, mu, mo>>
  /\ UNCHANGED <<proc, coming, stops, handlers, history>>

-----------------------------------------------------------------------------

Runs  == Create \/ Load \/ ParseFails \/ Serves
Serve(c) == ListTeams(c) \/ Update(c) \/ Schedule(c) \/ Choose(c) \/ Saved(c)
Play(c)  == GameEnds(c) \/ Record(c)

Next ==
  \/ Runs \/ Stop
  \/ \E c \in Connections : Enter(c) \/ Serve(c) \/ Play(c)

Spec == Init /\ [][Next]_vars

\* The process is started, its goroutines run and games end.
FairSpec ==
  /\ Spec /\ WF_vars(Runs)
  /\ \A c \in Connections : WF_vars(Serve(c)) /\ WF_vars(Play(c))

-----------------------------------------------------------------------------
(* Properties *)

Schedules ==
  [names : UNION {[1..n -> Teams] : n \in 0..TeamCount},
   scheduled : UNION {[1..n -> [roles : Matches, weight : {0, 1}]] : n \in 0..GameCount},
   ended : UNION {[1..n -> Matches] : n \in 0..GameCount}]

TypeOK ==
  /\ proc \in {"down", "saving", "up", "panicked"} /\ stops \in 0..MaxStops
  /\ coming \subseteq Connections
  /\ disk.is \in {"none", "cut", "whole"} /\ disk.says \in Schedules
  /\ mu \in Connections \union {Free} /\ mo \in Schedules
  /\ room \in Room
  /\ at \in [Connections -> {"new", "entered", "updating", "appending", "choosing", "returned"}]
  /\ todo \in [Connections -> SUBSET Teams]
  /\ \A c \in Connections : \A i \in DOMAIN seen[c] : seen[c][i] \in [Roles -> SUBSET (Teams \union {NoTeam})]
  /\ game \in [Connections -> {"none", "running", "won", "failed"}]
  /\ playing \in [Connections -> [Roles -> SUBSET Teams]]
  /\ drawn \in Drawn \union {<<>>} /\ played \in Nat /\ outdated \in BOOLEAN

\* Through duplicated games, failures, saves and restarts every match drawn is
\* either still scheduled or recorded as over, and as often as it was drawn.
Times(s, m) == Cardinality({i \in DOMAIN s : s[i] = m})
Conserves(s) ==
  \A m \in Matches :
    Times([i \in DOMAIN s.scheduled |-> s.scheduled[i].roles], m) + Times(s.ended, m) = Times(drawn, m)

MatchesConserved ==
  /\ Running => Conserves(mo)
  /\ disk.is = "whole" => Conserves(disk.says)

\* Only games with a winner are recorded as over.
EndedWerePlayed == Len(mo.ended) <= played /\ Len(disk.says.ended) <= played

\* The schedule, in memory and in its file, is one that the games played explain.
ScheduleSound == TypeOK /\ MatchesConserved /\ EndedWerePlayed

\* What there is to know of numbers and results: what the memory of a process
\* says, and when there is no process, what its file says, which may be nothing.
Known == IF Running THEN mo ELSE disk.says

\* A number never changes its team: results are kept by number, so they would
\* be credited wrongly.
NumbersStable ==
  \A i \in DOMAIN Known.names : i \in DOMAIN Known'.names /\ Known'.names[i] = Known.names[i]

\* Every match recorded stays recorded.
ProgressKept ==
  \A i \in DOMAIN Known.ended : i \in DOMAIN Known'.ended /\ Known'.ended[i] = Known.ended[i]

\* Somebody holds the schedule's lock to save it, or a start does so.
SaveUnderWay == proc = "saving" \/ \E c \in Connections : mu = c /\ at[c] # "appending"

\* No step loses a number or a result, whatever games end and whichever process
\* takes over from the file, but for one: a process that stops in the middle of
\* a save.  That one leaves an empty file (Resumes).
RestartsKeep == [][(NumbersStable /\ ProgressKept) \/ (Stop /\ SaveUnderWay)]_vars

\* "Adds the connection to the waiting room and, when a match comes about, makes
\* a game and starts it": while all the teams of a scheduled match are waiting,
\* some handler is still going to look, or hangs in append.
StartsWhenReady ==
  (proc = "up" /\ \E i \in DOMAIN mo.scheduled : Ready(GetMatches(mo)[i])) =>
     \E c \in Connections : at[c] \in {"entered", "updating", "choosing", "appending"}

\* So it is unless a team has got its number between a handler's GetMatches and
\* its look at the room: overlapping arrivals, games that end and lists that
\* still name their matches leave nobody waiting for a game that could be played.
ReadyIsSeen == outdated \/ StartsWhenReady

\* When the handlers have registered what they saw, every team that waits has a
\* number, unless the numbers are used up: else no match would name it.
WaitersNumbered ==
  (proc = "up" /\ \A c \in Connections : at[c] \notin {"entered", "updating"}) =>
     \A t \in Teams : room[t] # <<>> => Len(mo.names) = TeamCount \/ \E i \in DOMAIN mo.names : mo.names[i] = t

\* Between the handlers no team that waits is forgotten.
NobodyForgotten == ReadyIsSeen /\ WaitersNumbered

\* "the schedule resumes even after the process is restarted"
Resumes == proc # "panicked"

\* "The total number of games."
PlaysGameCount == played <= GameCount

\* Nobody waits for the schedule's lock for good: a handler returns unless the
\* process stops under it, or a handler hangs in append.
HandlersReturn ==
  \A c \in Connections :
    at[c] = "entered" ~>
      at[c] \in {"returned", "new"} \/ \E d \in Connections : at[d] = "appending"

\* "Whether to add more games after all combinations of matching have been
\* completed": the handler that finds the schedule empty gets a new one.
AddsMore ==
  \A c \in Connections : (at[c] = "appending" /\ mo.scheduled = <<>>) ~> at[c] # "appending"
=============================================================================
