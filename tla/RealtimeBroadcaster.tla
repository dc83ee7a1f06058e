------------------------ MODULE RealtimeBroadcaster -------------------------
(***************************************************************************)
(* service/realtime_broadcaster.go: every packet of a game is appended to  *)
(* its file, the first one to an emptied file, and the file is written     *)
(* whole at the end.  After each of these games.json, one file for all     *)
(* games, is written from what was gathered of every game's entry before.  *)
(* A packet is the number of its event.                                    *)
(***************************************************************************)
EXTENDS Composite

VARIABLES
  rtData,      \* rb.data: the packets of the games that are on
  rtFile,
  closing,     \* the games in TrackEndGame
  items,       \* what each game has gathered for the list
  list,        \* games.json: the games in it, and whether it can be parsed
  alone        \* history: the last write of it met no other and did not fail

realtime == <<rtData, rtFile, closing, items, list, alone>>

RealtimeInit ==
  /\ rtData = <<>> /\ rtFile = [f \in FileNames |-> <<>>]
  /\ closing = {} /\ items = [g \in Games |-> {}]
  /\ list = [games |-> {}, whole |-> TRUE] /\ alone = TRUE

\* variant: the start is told before there is an entry
TrackStartGame_late(g) ==
  /\ At(g, "realtime", "called") /\ Event(g) = "start"
  /\ rtData' = Stored(rtData, g, <<>>)
  /\ Returns(g) /\ Well /\ UNCHANGED <<rtFile, closing, items, list, alone>>

TrackStartGame(g) ==
  /\ At(g, "realtime", "called") /\ Event(g) = "start"
  /\ rtData' = Stored(rtData, g, <<>>)
  /\ Goes(g, "emit") /\ Well /\ UNCHANGED <<rtFile, closing, items, list, alone>>

Emit(g) ==
  /\ \/ At(g, "realtime", "emit")
     \/ At(g, "realtime", "called") /\ Event(g) # "start"
  /\ g \in Known(rtData)
  /\ rtData' = [rtData EXCEPT ![g] = Append(@, <<g, Number(g)>>)]
  /\ Goes(g, "append") /\ Well /\ UNCHANGED <<rtFile, closing, items, list, alone>>

FirstLine(g) == Len(rtData[g]) = 1

\* A line break and the line, which leaves an empty line before it when there was none.
Added(g, line) == [rtFile EXCEPT ![fileOf[g]] = Append(IF @ = <<>> THEN <<Scrap>> ELSE @, line)]

\* appendGameFileLine: the first line empties the file and is then written to
\* its beginning, the others are added at whatever is its end, and when that
\* fails a part of the line, which the next one is added to.
AppendGameFileLine(g) ==
  /\ At(g, "realtime", "append")
  /\ \/ /\ ~FirstLine(g) /\ Well /\ Goes(g, "list")
        /\ rtFile' = Added(g, rtData[g][Len(rtData[g])])
     \/ FirstLine(g) /\ rtFile' = Emptied(rtFile, g) /\ Well /\ Goes(g, "write")
     \/ Fails("realtime", g) /\ UNCHANGED rtFile /\ Goes(g, "list")
     \/ ~FirstLine(g) /\ Fails("realtime", g) /\ rtFile' = Added(g, Scrap) /\ Goes(g, "list")
  /\ UNCHANGED <<rtData, closing, items, list, alone>>

\* TrackEndGame: writeGameFile, from the beginning
EndGameFile(g) ==
  /\ At(g, "realtime", "close")
  /\ closing' = closing \union {g}
  /\ \/ rtFile' = Emptied(rtFile, g) /\ Well /\ Goes(g, "write")
     \/ Fails("realtime", g) /\ UNCHANGED rtFile /\ Goes(g, "list")
  /\ UNCHANGED <<rtData, items, list, alone>>

WriteGameFile(g) ==
  /\ At(g, "realtime", "write")
  /\ \/ rtFile' \in Written(rtFile, g, rtData[g]) /\ Made("realtime", g)
     \/ rtFile' \in Torn(rtFile, g, rtData[g]) /\ Fails("realtime", g)
  /\ Goes(g, "list") /\ UNCHANGED <<rtData, closing, items, list, alone>>

-----------------------------------------------------------------------------
(* writeGamesListFile *)

Listing == {g \in Games : \E s \in {"listOpen", "listWrite"} : At(g, "realtime", s)}

GatherItems(g) ==
  /\ At(g, "realtime", "list")
  /\ items' = [items EXCEPT ![g] = Known(rtData)]
  /\ alone' = (Listing = {})
  /\ Goes(g, "listOpen") /\ Well /\ UNCHANGED <<rtData, rtFile, closing, list>>

\* Emit, or after it TrackEndGame, returns.
Listed(g) ==
  \/ /\ Event(g) # "end" /\ Returns(g) /\ UNCHANGED <<rtData, closing>>
  \/ /\ Event(g) = "end" /\ g \notin closing
     /\ Goes(g, "close") /\ UNCHANGED <<rtData, closing>>
  \/ /\ g \in closing /\ closing' = closing \ {g}
     /\ rtData' = Deleted(rtData, g) /\ Returns(g)

\* The list cannot be opened, or only a part of it written.
ListFails(g) ==
  /\ g \in Listing /\ faults < MaxFaults /\ faults' = faults + 1 /\ alone' = FALSE
  /\ \/ UNCHANGED list
     \/ At(g, "realtime", "listWrite") /\ list' = [games |-> items[g], whole |-> FALSE]
  /\ Listed(g) /\ UNCHANGED <<stale, rtFile, items>>

OpenList(g) ==
  /\ At(g, "realtime", "listOpen")
  /\ list' = [games |-> {}, whole |-> FALSE]
  /\ Goes(g, "listWrite") /\ Well /\ UNCHANGED <<rtData, rtFile, closing, items, alone>>

\* Over a list that is not empty any more the end of the longer one remains;
\* the times in it have no fixed length.
WriteList(g) ==
  /\ At(g, "realtime", "listWrite")
  /\ \E whole \in BOOLEAN :
       /\ list.games = {} => whole
       /\ list' = [games |-> items[g], whole |-> whole]
  /\ Listed(g) /\ Well /\ UNCHANGED <<rtFile, items, alone>>

RealtimeStep(g) ==
  \/ TrackStartGame(g) \/ Emit(g) \/ AppendGameFileLine(g) \/ EndGameFile(g) \/ WriteGameFile(g)
  \/ GatherItems(g) \/ OpenList(g) \/ WriteList(g) \/ ListFails(g)
=============================================================================
