----------------------------- MODULE JSONLogger -----------------------------
(***************************************************************************)
(* service/json_logger.go: the entries of every game in memory, each       *)
(* request beside its response, and a file that is created anew with all   *)
(* of them after every entry.  An entry is the number of its event and     *)
(* that of the request; the winner is the entry of the end.                *)
(***************************************************************************)
EXTENDS Composite

VARIABLES
  jsonData,    \* the entries of the games that are on
  requestMap,  \* the request that waits for its response, 0 when none
  jsonFile

json == <<jsonData, requestMap, jsonFile>>

JSONInit ==
  /\ jsonData = <<>> /\ requestMap = [g \in Games |-> 0]
  /\ jsonFile = [f \in FileNames |-> <<>>]

JSONCalled(g, e) == At(g, "json", "called") /\ Event(g) = e

JSONTrackStartGame(g) ==
  /\ JSONCalled(g, "start")
  /\ jsonData' = Stored(jsonData, g, <<>>)
  /\ Returns(g) /\ Well /\ UNCHANGED <<requestMap, jsonFile>>

TrackStartRequest(g) ==
  /\ JSONCalled(g, "request") /\ g \in Known(jsonData)
  /\ requestMap' = [requestMap EXCEPT ![g] = Number(g)]
  /\ Returns(g) /\ Well /\ UNCHANGED <<jsonData, jsonFile>>

AddEntry(g, request) ==
  /\ g \in Known(jsonData)
  /\ jsonData' = [jsonData EXCEPT ![g] = Append(@, <<g, Number(g), request>>)]
  /\ Goes(g, "save") /\ Well /\ UNCHANGED jsonFile

TrackEndRequest(g) ==
  /\ JSONCalled(g, "response") /\ AddEntry(g, requestMap[g])
  /\ requestMap' = [requestMap EXCEPT ![g] = 0]

\* TrackTalk and TrackPhase: the entry is all there is.
TrackPhase(g) ==
  /\ JSONCalled(g, "phase") /\ AddEntry(g, Number(g)) /\ UNCHANGED requestMap

\* variant: the winner is noted after the save
JSONTrackEndGame_late(g) ==
  /\ JSONCalled(g, "end") /\ g \in Known(jsonData)
  /\ Goes(g, "save") /\ Well /\ UNCHANGED json

JSONTrackEndGame(g) ==
  /\ JSONCalled(g, "end") /\ AddEntry(g, 0) /\ UNCHANGED requestMap

\* saveGameData returns; the data of a game that has ended is deleted then.
JSONSaved(g) ==
  /\ jsonData' = IF Event(g) = "end" THEN Deleted(jsonData, g) ELSE jsonData
  /\ Returns(g)

JSONCreate(g) ==
  /\ At(g, "json", "save")
  /\ \/ jsonFile' = Emptied(jsonFile, g) /\ Goes(g, "write") /\ Well /\ UNCHANGED jsonData
     \/ Fails("json", g) /\ JSONSaved(g) /\ UNCHANGED jsonFile
  /\ UNCHANGED requestMap

JSONWrite(g) ==
  /\ At(g, "json", "write")
  /\ \/ jsonFile' \in Written(jsonFile, g, jsonData[g]) /\ Made("json", g)
     \/ jsonFile' \in Torn(jsonFile, g, jsonData[g]) /\ Fails("json", g)
  /\ JSONSaved(g) /\ UNCHANGED requestMap

JSONStep(g) ==
  \/ JSONTrackStartGame(g) \/ TrackStartRequest(g) \/ TrackEndRequest(g) \/ TrackPhase(g)
  \/ JSONTrackEndGame(g) \/ JSONCreate(g) \/ JSONWrite(g)
=============================================================================
