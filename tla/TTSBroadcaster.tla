--------------------------- MODULE TTSBroadcaster ---------------------------
(***************************************************************************)
(* service/tts_broadcaster.go: the stream of every game, a playlist and    *)
(* the segments it names, and the speeches that are on their way into it:  *)
(* asynchronous ones in goroutines of their own, synchronous ones in the   *)
(* game's, which then waits for them.  A speech is the number of its event *)
(* and becomes one segment.  Start, which empties the directory of all     *)
(* streams, is a goroutine and may come after the first games.             *)
(* External: the synthesis server and ffmpeg, which may fail.              *)
(***************************************************************************)
EXTENDS Composite

VARIABLES
  async,       \* config.Async
  started,     \* whether Start has emptied the directory
  playlists,   \* stream.playlist of every stream: segments and their speeches
  counter,     \* stream.segmentCounter
  playlistMu,  \* the speech that holds stream.playlistMu, 0 when none
  speeches,    \* the speeches of each game: where they are, and their segments
  dirs,        \* the games whose directory exists
  segments,    \* the speech in each segment of a directory
  m3u8,        \* the playlist in it
  swept,       \* history: the games whose playlist was removed and not written again
  taken        \* history: the segments of each game that were removed

files == <<dirs, segments, m3u8>>
removed == <<swept, taken>>
tts == <<async, started, playlists, counter, playlistMu, speeches, files, removed>>

Unlocked == 0

\* The playlist's file is missing, emptied or torn.
NoPlaylist == <<Scrap>>

TTSInit ==
  /\ started = FALSE /\ playlists = <<>>
  /\ counter = [g \in Games |-> 0] /\ playlistMu = [g \in Games |-> Unlocked]
  /\ speeches = [g \in Games |-> <<>>]
  /\ dirs = {} /\ segments = [g \in Games |-> <<>>] /\ m3u8 = [g \in Games |-> NoPlaylist]
  /\ swept = {} /\ taken = [g \in Games |-> {}]

\* cleanupSegments
Start ==
  /\ ~started /\ started' = TRUE
  /\ dirs' = {} /\ segments' = [g \in Games |-> <<>>] /\ m3u8' = [g \in Games |-> NoPlaylist]
  /\ swept' = swept \union dirs /\ taken' = [g \in Games |-> taken[g] \union DOMAIN segments[g]]
  /\ UNCHANGED <<composite, async, playlists, counter, playlistMu, speeches>>

\* Without a directory there is no stream, and the game is silent.
CreateStream(g) ==
  /\ At(g, "tts", "called") /\ Event(g) = "start"
  /\ \/ dirs' = dirs \union {g} /\ playlists' = Stored(playlists, g, <<>>) /\ Well /\ Goes(g, "create")
     \/ Fails("tts", g) /\ Goes(g, "speak") /\ UNCHANGED <<dirs, playlists>>
  /\ UNCHANGED <<async, started, counter, playlistMu, speeches, segments, m3u8, removed>>

\* writePlaylist makes the directory again when it is gone, and when it fails
\* says so in the log and returns.
WriteEmptyPlaylist(g) ==
  /\ At(g, "tts", "create")
  /\ \/ dirs' = dirs \union {g} /\ m3u8' = [m3u8 EXCEPT ![g] = <<>>] /\ swept' = swept \ {g} /\ Made("tts", g)
     \/ dirs' \in {dirs, dirs \union {g}} /\ Fails("tts", g) /\ UNCHANGED <<m3u8, swept>>
  /\ Goes(g, "speak")
  /\ UNCHANGED <<async, started, playlists, counter, playlistMu, speeches, segments, taken>>

Speaks(g) ==
  /\ \/ At(g, "tts", "speak")
     \/ At(g, "tts", "called") /\ Event(g) # "start"
  /\ Well /\ UNCHANGED <<async, started, playlists, counter, playlistMu, files, removed>>

\* A talk may be a skip or have no voice, what is played may be no talk.
SaysNothing(g) ==
  /\ Speaks(g) /\ (Event(g) = "talk" \/ g \notin Known(playlists))
  /\ Returns(g) /\ UNCHANGED speeches

BroadcastText(g) ==
  /\ Speaks(g) /\ g \in Known(playlists)
  /\ speeches' = [speeches EXCEPT ![g] = Stored(@, Number(g), [at |-> "synthesis", segment |-> 0])]
  /\ IF async THEN Returns(g) ELSE Goes(g, "wait")

\* The length of the speech has passed, or it has failed.
Spoken(g) ==
  /\ At(g, "tts", "wait") /\ speeches[g][Number(g)].at = "over"
  /\ Returns(g) /\ Well /\ UNCHANGED tts

-----------------------------------------------------------------------------
(* The speech n of game g *)

SpeechAt(g, n, s) == n \in DOMAIN speeches[g] /\ speeches[g][n].at = s

Becomes(g, n, s) == speeches' = [speeches EXCEPT ![g][n].at = s]

\* variant: the number is that of the segments in the playlist
Synthesize_counts(g, n) ==
  /\ SpeechAt(g, n, "synthesis")
  /\ \/ speeches' = [speeches EXCEPT ![g][n] = [at |-> "convert", segment |-> Len(playlists[g])]]
     \/ Becomes(g, n, "over")
  /\ UNCHANGED <<composite, async, started, playlists, counter, playlistMu, files, removed>>

\* fetchAudioQuery and the synthesis, each within the timeout or not
Synthesize(g, n) ==
  /\ SpeechAt(g, n, "synthesis")
  /\ \/ /\ counter' = [counter EXCEPT ![g] = @ + 1]
        /\ speeches' = [speeches EXCEPT ![g][n] = [at |-> "convert", segment |-> counter[g]]]
     \/ Becomes(g, n, "over") /\ UNCHANGED counter
  /\ UNCHANGED <<composite, async, started, playlists, playlistMu, files, removed>>

\* ConvertWavToSegment: ffmpeg writes into the directory, if there is one.
Convert(g, n) ==
  /\ SpeechAt(g, n, "convert")
  /\ \/ /\ g \in dirs
        /\ segments' = [segments EXCEPT ![g] = Stored(@, speeches[g][n].segment, n)]
        /\ Becomes(g, n, "add")
     \/ Becomes(g, n, "over") /\ UNCHANGED segments
  /\ UNCHANGED <<composite, async, started, playlists, counter, playlistMu, dirs, m3u8, removed>>

\* The game's goroutine is elsewhere.
Beside == UNCHANGED <<config, told, todo, step>>

\* addSegmentsToPlaylist up to writePlaylist's opening, and emptying, of the file
AddSegments(g, n) ==
  /\ SpeechAt(g, n, "add") /\ playlistMu[g] = Unlocked
  /\ playlists' = [playlists EXCEPT ![g] = Append(@, <<speeches[g][n].segment, n>>)]
  /\ \/ /\ playlistMu' = [playlistMu EXCEPT ![g] = n]
        /\ dirs' = dirs \union {g} /\ m3u8' = [m3u8 EXCEPT ![g] = NoPlaylist]
        /\ Becomes(g, n, "write") /\ Well
     \/ /\ dirs' \in {dirs, dirs \union {g}}
        /\ Becomes(g, n, "over") /\ Fails("tts", g) /\ UNCHANGED <<playlistMu, m3u8>>
  /\ Beside /\ UNCHANGED <<async, started, counter, segments, removed>>

\* What is written is lost in a directory that has been removed meanwhile.
PlaylistWritten(g) ==
  \/ g \in dirs /\ m3u8' = [m3u8 EXCEPT ![g] = playlists[g]] /\ swept' = swept \ {g} /\ Made("tts", g)
  \/ g \notin dirs /\ Well /\ UNCHANGED <<m3u8, swept>>
  \/ Fails("tts", g) /\ UNCHANGED <<m3u8, swept>>

\* variant: the mutex is not released when the file cannot be written
WritePlaylist_keepsMu(g, n) ==
  /\ SpeechAt(g, n, "write")
  /\ PlaylistWritten(g)
  /\ playlistMu' = [playlistMu EXCEPT ![g] = IF faults' = faults THEN Unlocked ELSE @]
  /\ Becomes(g, n, "over")
  /\ Beside /\ UNCHANGED <<async, started, playlists, counter, dirs, segments, taken>>

WritePlaylist(g, n) ==
  /\ SpeechAt(g, n, "write")
  /\ PlaylistWritten(g)
  /\ playlistMu' = [playlistMu EXCEPT ![g] = Unlocked]
  /\ Becomes(g, n, "over")
  /\ Beside /\ UNCHANGED <<async, started, playlists, counter, dirs, segments, taken>>

Speech(g, n) ==
  Synthesize(g, n) \/ Convert(g, n) \/ AddSegments(g, n) \/ WritePlaylist(g, n)

TTSStep(g) ==
  \/ CreateStream(g) \/ WriteEmptyPlaylist(g) \/ SaysNothing(g) \/ BroadcastText(g) \/ Spoken(g)
=============================================================================
