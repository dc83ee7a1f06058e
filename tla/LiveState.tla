----------------------------- MODULE LiveState ------------------------------
(***************************************************************************)
(* The live state of one game, observer/livestate: the packets its events  *)
(* become, the bounded channel of every subscriber and the stream handlers *)
(* that read them (GET /games/:id/events).  LiveState.mu covers the packet *)
(* count, the set of subscribers and every send; receiving needs no lock,  *)
(* so readers act between the three selects of a send.  A packet is its    *)
(* number.  Each subscriber subscribes once.                               *)
(***************************************************************************)
EXTENDS Naturals, Sequences, FiniteSets

CONSTANTS
  Subscribers,        \* stream handlers
  SubscriberBuffer,   \* the capacity of a subscriber's channel
  MaxPackets,         \* bound: the packets of the game
  Nobody              \* no subscriber

ASSUME LiveAssumption ==
  /\ SubscriberBuffer \in Nat \ {0} /\ MaxPackets \in Nat \ {0, 1}
  /\ Nobody \notin Subscribers

VARIABLES
  game,        \* its entry in LiveState.games: "none", "live", "gone"
  packetIdx,   \* the number of the last packet
  ended,       \* whether that packet is the end of the game
  todo,        \* the subscribers the last packet is still to be sent to
  full,        \* the subscriber whose channel was full, Nobody when none
  dropped,     \* whether its oldest packet has been taken out
  subscribers, \* gameState.subscribers
  chan,        \* what is in every subscriber's channel
  closed,      \* whether the channel is closed
  panicked,    \* a closed channel was sent to or closed again
  reader,      \* "away", "reading", "closing", "leaving", "gone"
  got,         \* the last packet the reader took
  lagged       \* history: its channel has been full

emission == <<packetIdx, ended, todo, full, dropped>>
readers  == <<reader, got>>
vars == <<game, emission, subscribers, chan, closed, panicked, readers, lagged>>

Locked == todo # {}       \* emit holds LiveState.mu

Room(s) == Len(chan[s]) < SubscriberBuffer

Init ==
  /\ game = "none" /\ packetIdx = 0 /\ ended = FALSE
  /\ todo = {} /\ full = Nobody /\ dropped = FALSE
  /\ subscribers = {}
  /\ chan = [s \in Subscribers |-> <<>>]
  /\ closed = [s \in Subscribers |-> FALSE] /\ panicked = FALSE
  /\ reader = [s \in Subscribers |-> "away"] /\ got = [s \in Subscribers |-> 0]
  /\ lagged = [s \in Subscribers |-> FALSE]

-----------------------------------------------------------------------------
(* The game's goroutine *)

\* OnGameStart: from here on the game can be subscribed to.
OnGameStart ==
  /\ game = "none" /\ game' = "live"
  /\ UNCHANGED <<emission, subscribers, chan, closed, panicked, readers, lagged>>

\* The first packet tells of the start, the last one of the end.
Emit ==
  /\ game = "live" /\ ~Locked /\ ~ended /\ packetIdx < MaxPackets
  /\ packetIdx' = packetIdx + 1
  /\ ended' \in IF packetIdx = 0 THEN {FALSE} ELSE {TRUE, packetIdx' = MaxPackets}
  /\ todo' = subscribers
  /\ UNCHANGED <<game, full, dropped, subscribers, chan, closed, panicked, readers, lagged>>

Send(s) ==
  /\ chan' = [chan EXCEPT ![s] = Append(@, packetIdx)]
  /\ panicked' = (panicked \/ closed[s])
  /\ todo' = todo \ {s}

Offer(s) ==
  /\ s \in todo /\ full = Nobody
  /\ \/ Room(s) /\ Send(s) /\ UNCHANGED <<full, lagged>>
     \/ /\ ~Room(s) /\ full' = s /\ lagged' = [lagged EXCEPT ![s] = TRUE]
        /\ UNCHANGED <<chan, panicked, todo>>
  /\ UNCHANGED <<game, packetIdx, ended, dropped, subscribers, closed, readers>>

\* variant: the game waits for the slow subscriber
DropOldest_waits(s) ==
  /\ full = s /\ ~dropped /\ Room(s)
  /\ dropped' = TRUE
  /\ UNCHANGED <<game, packetIdx, ended, todo, full, subscribers, chan, closed, panicked, readers, lagged>>

\* The reader may have made room since: then a packet is dropped all the same,
\* unless there is none left.
DropOldest(s) ==
  /\ full = s /\ ~dropped
  /\ chan' = [chan EXCEPT ![s] = IF @ = <<>> THEN @ ELSE Tail(@)]
  /\ dropped' = TRUE
  /\ UNCHANGED <<game, packetIdx, ended, todo, full, subscribers, closed, panicked, readers, lagged>>

\* variant: the packet is not put in again
OfferAgain_forgets(s) ==
  /\ full = s /\ dropped
  /\ todo' = todo \ {s} /\ full' = Nobody /\ dropped' = FALSE
  /\ UNCHANGED <<game, packetIdx, ended, subscribers, chan, closed, panicked, readers, lagged>>

\* There is room now: only emit sends, and it holds the lock; the default of
\* this select is never taken.
OfferAgain(s) ==
  /\ full = s /\ dropped
  /\ IF Room(s) THEN Send(s) ELSE todo' = todo \ {s} /\ UNCHANGED <<chan, panicked>>
  /\ full' = Nobody /\ dropped' = FALSE
  /\ UNCHANGED <<game, packetIdx, ended, subscribers, closed, readers, lagged>>

\* variant: the ended game keeps its entry and its subscribers
OnGameEnd_keeps ==
  /\ game = "live" /\ ended /\ ~Locked
  /\ closed' = [s \in Subscribers |-> closed[s] \/ s \in subscribers]
  /\ panicked' = (panicked \/ \E s \in subscribers : closed[s])
  /\ UNCHANGED <<game, emission, subscribers, chan, readers, lagged>>

OnGameEnd ==
  /\ game = "live" /\ ended /\ ~Locked
  /\ game' = "gone" /\ subscribers' = {}
  /\ closed' = [s \in Subscribers |-> closed[s] \/ s \in subscribers]
  /\ panicked' = (panicked \/ \E s \in subscribers : closed[s])
  /\ UNCHANGED <<emission, chan, readers, lagged>>

-----------------------------------------------------------------------------
(* A stream handler *)

Becomes(s, from, to) == reader[s] = from /\ reader' = [reader EXCEPT ![s] = to]

\* variant: without the lock, so that emit's loop may meet the new subscriber
Subscribe_unlocked(s) ==
  /\ game = "live" /\ Becomes(s, "away", "reading")
  /\ subscribers' = subscribers \union {s}
  /\ todo' = IF Locked THEN todo \union {s} ELSE todo
  /\ chan' = [chan EXCEPT ![s] = IF packetIdx > 0 THEN Append(@, packetIdx) ELSE @]
  /\ UNCHANGED <<game, packetIdx, ended, full, dropped, closed, panicked, got, lagged>>

\* A subscriber finds the last packet in its channel; without a game it is
\* answered 404.
Subscribe(s) ==
  /\ ~Locked
  /\ \/ /\ game = "live" /\ Becomes(s, "away", "reading")
        /\ subscribers' = subscribers \union {s}
        /\ chan' = [chan EXCEPT ![s] = IF packetIdx > 0 THEN Append(@, packetIdx) ELSE @]
     \/ /\ game # "live" /\ Becomes(s, "away", "gone")
        /\ UNCHANGED <<subscribers, chan>>
  /\ UNCHANGED <<game, emission, closed, panicked, got, lagged>>

Read(s) ==
  /\ reader[s] = "reading" /\ chan[s] # <<>>
  /\ got' = [got EXCEPT ![s] = Head(chan[s])]
  /\ chan' = [chan EXCEPT ![s] = Tail(@)]
  /\ UNCHANGED <<game, emission, subscribers, closed, panicked, reader, lagged>>

SeesClose(s) ==
  /\ chan[s] = <<>> /\ closed[s] /\ Becomes(s, "reading", "closing")
  /\ UNCHANGED <<game, emission, subscribers, chan, closed, panicked, got, lagged>>

Disconnects(s) ==
  /\ Becomes(s, "reading", "leaving")
  /\ UNCHANGED <<game, emission, subscribers, chan, closed, panicked, got, lagged>>

\* The deferred cancel closes the channel unless the game's end has done so.
Cancel(s) ==
  /\ ~Locked
  /\ Becomes(s, "closing", "gone") \/ Becomes(s, "leaving", "gone")
  /\ IF game = "live" /\ s \in subscribers
     THEN /\ subscribers' = subscribers \ {s}
          /\ panicked' = (panicked \/ closed[s])
          /\ closed' = [closed EXCEPT ![s] = TRUE]
     ELSE UNCHANGED <<subscribers, panicked, closed>>
  /\ UNCHANGED <<game, emission, chan, got, lagged>>

-----------------------------------------------------------------------------

Game ==
  \/ OnGameStart \/ Emit \/ OnGameEnd
  \/ \E s \in Subscribers : Offer(s) \/ DropOldest(s) \/ OfferAgain(s)

Next ==
  \/ Game
  \/ \E s \in Subscribers :
       Subscribe(s) \/ Read(s) \/ SeesClose(s) \/ Disconnects(s) \/ Cancel(s)

Spec == Init /\ [][Next]_vars

\* A game goes on, whatever its subscribers do or fail to do.
FairSpec == Spec /\ WF_vars(Game)

\* The handlers run; clients need not come and may leave.
HandlersRun == \A s \in Subscribers : WF_vars(Read(s) \/ SeesClose(s) \/ Cancel(s))

-----------------------------------------------------------------------------
(* Properties *)

TypeOK ==
  /\ game \in {"none", "live", "gone"}
  /\ packetIdx \in 0..MaxPackets /\ ended \in BOOLEAN /\ dropped \in BOOLEAN
  /\ subscribers \subseteq Subscribers /\ todo \subseteq subscribers
  /\ full \in todo \union {Nobody}
  /\ \A s \in Subscribers : /\ chan[s] \in Seq(1..MaxPackets)
                            /\ Len(chan[s]) <= SubscriberBuffer
  /\ closed \in [Subscribers -> BOOLEAN] /\ panicked \in BOOLEAN
  /\ lagged \in [Subscribers -> BOOLEAN]
  /\ reader \in [Subscribers -> {"away", "reading", "closing", "leaving", "gone"}]
  /\ got \in [Subscribers -> 0..MaxPackets]

\* No channel is closed twice or sent to when closed, whether the game's end,
\* the client's leaving or a packet comes first.
NoPanic == ~panicked

\* The numbers a subscriber reads only grow: nothing twice, nothing backwards.
InOrder ==
  \A s \in Subscribers :
    /\ \A i, j \in 1..Len(chan[s]) : i < j => chan[s][i] < chan[s][j]
    /\ \A i \in 1..Len(chan[s]) : got[s] < chan[s][i]

\* However slow or late it is, a subscriber still has the newest packet before
\* it: what it shows is never stale for good.
NewestReaches ==
  \A s \in subscribers \ todo :
    packetIdx > 0 => IF chan[s] = <<>> THEN got[s] = packetIdx
                                       ELSE chan[s][Len(chan[s])] = packetIdx

\* A subscriber whose channel has never been full misses nothing.
LossOnlyWhenFull ==
  \A s \in Subscribers :
    ~lagged[s] => /\ \A i \in 1..Len(chan[s]) - 1 : chan[s][i + 1] = chan[s][i] + 1
                  /\ chan[s] # <<>> /\ got[s] # 0 => chan[s][1] = got[s] + 1

\* What a subscriber finds in its channel is what a reader of the game may rely on.
StreamsFaithful == TypeOK /\ InOrder /\ NewestReaches /\ LossOnlyWhenFull

\* "a slow subscriber does not block the game's goroutine" (the comment in emit),
\* nor does one that never reads.
NeverBlocks == game = "live" ~> game = "gone"

\* A subscriber whose handler runs and that stays is told of the end and then
\* finds its channel closed.
SeesEnd ==
  HandlersRun =>
    \A s \in Subscribers :
      reader[s] = "reading" ~> \/ reader[s] = "leaving"
                               \/ reader[s] = "closing" /\ ended /\ got[s] = packetIdx
=============================================================================
