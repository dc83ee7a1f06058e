---------------------------- MODULE MCObservers -----------------------------
(* The observers a few at a time: those that write files by themselves,    *)
(* the list with two games, files of one name, and speech.                 *)
EXTENDS Observers

CONSTANTS g1, g2

Two   == {g1, g2}
Files == {"f1", "f2"}

Events(n1, n2) == [g \in Two |-> IF g = g1 THEN n1 ELSE n2]

With(enabled, events, asynchronous) ==
  [enabled |-> enabled, lasts |-> events, async |-> asynchronous,
   fileOf |-> [g \in Two |-> IF g = g1 THEN "f1" ELSE "f2"]]

Few ==
  {With({"json", "log", "realtime"}, Events(5, 0), FALSE),
   With({"realtime"}, Events(3, 2), FALSE),
   [With({"realtime"}, Events(2, 2), FALSE) EXCEPT !.fileOf = [g \in Two |-> "f1"]],
   With({"tts"}, Events(3, 0), TRUE),
   With({"log", "tts"}, Events(4, 0), FALSE)}
=============================================================================
