----------------------------- MODULE Observers ------------------------------
(***************************************************************************)
(* The observers of transport/server.go's newObserver together, under the  *)
(* games of one process: composite.go calls those that are enabled, one    *)
(* after the other, in the goroutine of the game.  Games share the         *)
(* observers, so files of one name and games.json are written by several   *)
(* of them.  A process that stops leaves the files of that moment: what is *)
(* said of them in every state is said of a stop in it.  LiveState, the    *)
(* last observer, is a module of its own.                                  *)
(***************************************************************************)
EXTENDS JSONLogger, GameLogger, RealtimeBroadcaster, TTSBroadcaster

CONSTANT Configurations   \* bound: observers that are enabled, async, games and their file names

ASSUME ObserversAssumption ==
  \A c \in Configurations :
    /\ c.enabled \subseteq DOMAIN Heard /\ c.async \in BOOLEAN
    /\ c.lasts \in [Games -> 0..MaxEvents] /\ c.fileOf \in [Games -> FileNames]

vars == <<composite, json, log, realtime, tts>>

Kinds == UNION {Heard[o] : o \in DOMAIN Heard}

Init ==
  /\ \E c \in Configurations :
       /\ observers = c.enabled /\ async = c.async
       /\ lasts = c.lasts /\ fileOf = c.fileOf
  /\ told = [g \in Games |-> <<>>] /\ todo = [g \in Games |-> {}]
  /\ step = [g \in Games |-> "called"] /\ faults = 0 /\ stale = {}
  /\ JSONInit /\ LogInit /\ RealtimeInit /\ TTSInit

Call(g) ==
  \/ JSONStep(g) /\ UNCHANGED <<log, realtime, tts>>
  \/ LogStep(g) /\ UNCHANGED <<json, realtime, tts>>
  \/ RealtimeStep(g) /\ UNCHANGED <<json, log, tts>>
  \/ TTSStep(g) /\ UNCHANGED <<json, log, realtime>>

Spoke(g, n) == Speech(g, n) /\ UNCHANGED <<json, log, realtime>>

Next ==
  \/ \E g \in Games, e \in Kinds : Notify(g, e) /\ UNCHANGED <<json, log, realtime, tts>>
  \/ \E g \in Games : Call(g)
  \/ \E g \in Games, n \in 1..MaxEvents : Spoke(g, n)
  \/ "tts" \in observers /\ Start /\ UNCHANGED <<json, log, realtime>>

Spec == Init /\ [][Next]_vars

\* The goroutines run, requests for audio time out and ffmpeg ends.  Games need
\* not go on, and the clean-up may come at any time.
FairSpec ==
  /\ Spec
  /\ \A g \in Games : WF_vars(Call(g))
  /\ \A g \in Games, n \in 1..MaxEvents : WF_vars(Spoke(g, n))

-----------------------------------------------------------------------------
(* Properties *)

\* The events of these kinds that the game has told, by number.
Told(g, kinds) == {n \in 1..Number(g) : told[g][n] \in kinds}

\* What each record has to say of the game.  A response stands beside its request.
JSONLine(g, n) ==
  <<g, n, CASE told[g][n] = "response" -> n - 1 [] told[g][n] = "phase" -> n [] OTHER -> 0>>

JSONLines(g) == {JSONLine(g, n) : n \in Told(g, {"response", "phase", "end"})}
LogLines(g)  == {<<g, n>> : n \in Told(g, {"status", "talk"})}
Packets(g)   == {<<g, n>> : n \in Told(g, {"start", "talk", "end"})}

\* A file with these lines, each once and in the order of their events.
Ordered(ls) == \A i, j \in 1..Len(ls) : i < j => ls[i][2] < ls[j][2]
Holds(ls, lines) == Range(ls) = lines /\ Ordered(ls)

UpTo(lines, n) == {l \in lines : l[2] <= n}
CutFrom(ls, lines, g) == \E n \in 0..Number(g) : Holds(ls, UpTo(lines, n))

\* The same, with the beginning of one more line.
TornFrom(ls, lines, g) ==
  Len(ls) > 0 /\ ls[Len(ls)] = Scrap /\ CutFrom(SubSeq(ls, 1, Len(ls) - 1), lines, g)

\* Some of these lines in the order of their events, and scraps among them.
Scattered(ls, lines) ==
  /\ Range(ls) \subseteq lines \union {Scrap}
  /\ \A i, j \in 1..Len(ls) : i < j /\ ls[i] # Scrap /\ ls[j] # Scrap => ls[i][2] < ls[j][2]

Own(g) == \A h \in Games \ {g} : fileOf[h] # fileOf[g]

\* The observer has been told all there is.
Done(o, g) == o \in observers \ todo[g]

\* What a file of its own holds when its observer has returned is exactly what the
\* game has told it, unless the last write failed: a later one makes up for it.
FilesComplete ==
  \A g \in Games : Own(g) =>
    /\ Done("json", g) /\ <<"json", g>> \notin stale => Holds(jsonFile[fileOf[g]], JSONLines(g))
    /\ Done("log", g) /\ <<"log", g>> \notin stale => Holds(logFile[fileOf[g]], LogLines(g))
    /\ Done("realtime", g) /\ <<"realtime", g>> \notin stale => Holds(rtFile[fileOf[g]], Packets(g))

\* Wherever the process stops, such a file is cut at some line.  A write that
\* failed may have left the beginning of a line, at the end of a logger's file
\* and anywhere among the packets, which have gaps then; what is a line is true
\* and in order even so, and the next write of the whole file clears it up.
FilesTrue ==
  \A g \in Games : Own(g) =>
    LET Failed(o) == <<o, g>> \in stale
        json_ == jsonFile[fileOf[g]]
        log_  == logFile[fileOf[g]]
        rt_   == rtFile[fileOf[g]]
    IN
    /\ CutFrom(json_, JSONLines(g), g) \/ (Failed("json") /\ TornFrom(json_, JSONLines(g), g))
    /\ CutFrom(log_, LogLines(g), g) \/ (Failed("log") /\ TornFrom(log_, LogLines(g), g))
    /\ Scattered(rt_, Packets(g)) /\ (Failed("realtime") \/ CutFrom(rt_, Packets(g), g))

TypeOK ==
  /\ lasts \in [Games -> 0..MaxEvents] /\ fileOf \in [Games -> FileNames]
  /\ \A g \in Games : told[g] \in Seq(Kinds) /\ Number(g) <= lasts[g]
  /\ observers \subseteq DOMAIN Place /\ todo \in [Games -> SUBSET observers]
  /\ faults \in 0..MaxFaults
  /\ \A g \in Known(jsonData) \union Known(logData) \union Known(rtData) \union Known(playlists) :
       told[g] # <<>>
  /\ closing \subseteq Known(rtData) /\ list.games \subseteq Games /\ list.whole \in BOOLEAN
  /\ \A g \in Games : DOMAIN speeches[g] \subseteq 1..Number(g)

\* The three records are what the games told (TypeOK: in well-formed calls).
RecordsFaithful == TypeOK /\ FilesComplete /\ FilesTrue

\* "The same content is also recorded to a JSONL file by realtime_broadcaster"
RecordsApart ==
  \A g \in Games :
    Done("realtime", g) /\ <<"realtime", g>> \notin stale =>
      Packets(g) \subseteq Range(rtFile[fileOf[g]])

\* games.json, which every game writes from a snapshot, can be parsed and names all
\* games that are on, once a write has gone through without meeting another.
ListRecovers ==
  alone /\ Listing = {} =>
    /\ list.whole
    /\ \A g \in Known(rtData) : Event(g) # "start" \/ Done("realtime", g) => g \in list.games

\* No speech is played twice and without async they are played in order.  Every
\* segment of a playlist is the speech it was added for, but for those a late
\* clean-up has removed.  And whenever nobody holds the playlist's mutex its file
\* is the playlist, unless the last write of it failed or the clean-up removed it
\* and it was not written since.
PlaylistSound ==
  \A g \in Known(playlists) :
    /\ \A i, j \in 1..Len(playlists[g]) :
         i # j => /\ playlists[g][i][1] # playlists[g][j][1]
                  /\ playlists[g][i][2] # playlists[g][j][2]
    /\ ~async => \A i, j \in 1..Len(playlists[g]) : i < j => playlists[g][i][2] < playlists[g][j][2]
    /\ \A i \in 1..Len(playlists[g]) :
         playlists[g][i][1] \in taken[g] \/ segments[g][playlists[g][i][1]] = playlists[g][i][2]
    /\ playlistMu[g] = Unlocked /\ ~At(g, "tts", "create") =>
         g \in swept \/ <<"tts", g>> \in stale \/ m3u8[g] = playlists[g]

\* The game is not held up: whatever fails in an observer, the call returns, and a
\* speech that is on its way is added or given up.
ObserversReturn ==
  \A g \in Games :
    /\ todo[g] # {} ~> todo[g] = {}
    /\ \A n \in 1..MaxEvents : n \in DOMAIN speeches[g] ~> SpeechAt(g, n, "over")
=============================================================================
