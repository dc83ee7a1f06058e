-------------------------- MODULE MCScheduledGames --------------------------
(* Small schedules for TLC: two teams, some with two clients, and numbers  *)
(* for three teams, so that some matches can never be played.              *)
EXTENDS ScheduledGames

CONSTANTS a1, a2, b1, b2, a, b, W, V

Three == {a1, b1, b2}
Four  == {a1, a2, b1, b2}
Pair  == {a, b}
Of    == [x \in Connections |-> IF x \in {a1, a2} THEN a ELSE b]

\* a role for each of the two agents of a game, or one role for both
Both  == {W, V}
Sole  == {W}
Num   == [r \in Roles |-> IF Roles = Both THEN 1 ELSE 2]

\* Three clients come to a process that stops and is started again.
Restarts == Init /\ coming = Three

\* The process does not stop.  The first clients of both teams are playing a
\* match, which stays scheduled meanwhile, and the second ones come.
First == [r \in Roles |-> {1, 2}]

Rivals ==
  /\ proc = "up" /\ stops = MaxStops /\ coming = {a2, b2} /\ mu = Free
  /\ drawn \in Drawn /\ First \in Range(drawn)
  /\ mo = [NewMatchOptimizer(drawn) EXCEPT !.names = <<a, b>>] /\ disk = Whole(mo)
  /\ at = [c \in Connections |-> IF c \in coming THEN "new" ELSE "returned"]
  /\ room = EmptyRoom
  /\ todo = [c \in Connections |-> {}] /\ seen = [c \in Connections |-> <<>>]
  /\ game = [c \in Connections |-> IF c = a1 THEN "running" ELSE "none"]
  /\ playing = [c \in Connections |-> IF c = a1 THEN TeamNameMatch(mo, First) ELSE Nobody]
  /\ played = 0 /\ outdated = FALSE

\* Four teams of one client.  The file of an earlier start numbers three of
\* them, two clients wait already and the others come, one of a team without a
\* number, while the two matches need all four.
Own  == [x \in Connections |-> x]
Late == <<[r \in Roles |-> {1, 2}], [r \in Roles |-> {3, 4}]>>

Latecomer ==
  /\ proc = "up" /\ stops = MaxStops /\ coming = {a2, b2} /\ mu = Free
  /\ drawn = Late
  /\ mo = [NewMatchOptimizer(drawn) EXCEPT !.names = <<a1, a2, b1>>] /\ disk = Whole(mo)
  /\ at = [c \in Connections |-> IF c \in coming THEN "new" ELSE "returned"]
  /\ room = [t \in Teams |-> IF t \in coming THEN <<>> ELSE <<t>>]
  /\ todo = [c \in Connections |-> {}] /\ seen = [c \in Connections |-> <<>>]
  /\ game = [c \in Connections |-> "none"] /\ playing = [c \in Connections |-> Nobody]
  /\ played = 0 /\ outdated = FALSE

LateSpec == Latecomer /\ [][Next]_vars

MCSpec ==
  /\ (Restarts \/ Rivals) /\ [][Next]_vars
  /\ WF_vars(Runs) /\ \A c \in Connections : WF_vars(Serve(c)) /\ WF_vars(Play(c))
=============================================================================
