----------------------------- MODULE GameLogger -----------------------------
(***************************************************************************)
(* service/game_logger.go: the lines of every game in memory, and a file   *)
(* that is created anew with all of them after every line, and once more   *)
(* at the end.  A line is the number of its event; the statuses of a day,  *)
(* which are a line for each agent, count as one.                          *)
(***************************************************************************)
EXTENDS Composite

VARIABLES
  logData,     \* the lines of the games that are on
  logFile

log == <<logData, logFile>>

LogInit == logData = <<>> /\ logFile = [f \in FileNames |-> <<>>]

LogTrackStartGame(g) ==
  /\ At(g, "log", "called") /\ Event(g) = "start"
  /\ logData' = Stored(logData, g, <<>>)
  /\ Returns(g) /\ Well /\ UNCHANGED logFile

AppendLog(g) ==
  /\ At(g, "log", "called") /\ Event(g) \in {"status", "talk"}
  /\ g \in Known(logData)
  /\ logData' = [logData EXCEPT ![g] = Append(@, <<g, Number(g)>>)]
  /\ Goes(g, "save") /\ Well /\ UNCHANGED logFile

LogTrackEndGame(g) ==
  /\ At(g, "log", "called") /\ Event(g) = "end" /\ g \in Known(logData)
  /\ Goes(g, "save") /\ Well /\ UNCHANGED log

\* saveLog returns; the data of a game that has ended is deleted then.
LogSaved(g) ==
  /\ logData' = IF Event(g) = "end" THEN Deleted(logData, g) ELSE logData
  /\ Returns(g)

LogCreate(g) ==
  /\ At(g, "log", "save")
  /\ \/ logFile' = Emptied(logFile, g) /\ Goes(g, "write") /\ Well /\ UNCHANGED logData
     \/ Fails("log", g) /\ LogSaved(g) /\ UNCHANGED logFile

LogWrite(g) ==
  /\ At(g, "log", "write")
  /\ \/ logFile' \in Written(logFile, g, logData[g]) /\ Made("log", g)
     \/ logFile' \in Torn(logFile, g, logData[g]) /\ Fails("log", g)
  /\ LogSaved(g)

LogStep(g) ==
  LogTrackStartGame(g) \/ AppendLog(g) \/ LogTrackEndGame(g) \/ LogCreate(g) \/ LogWrite(g)
=============================================================================
