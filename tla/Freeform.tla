------------------------------ MODULE Freeform ------------------------------
(***************************************************************************)
(* A group-chat session: runFreeform.  One listener goroutine per agent    *)
(* moves what the agent's connection delivers to talkChannel, a consumer   *)
(* goroutine validates, records and broadcasts it, and a context that ends *)
(* by time or by the consumer's cancel() stops them all.  The game's own   *)
(* goroutine waits for them, empties the connections' channels and sends   *)
(* the end of the phase.                                                   *)
(*                                                                         *)
(* HasError is raised by a listener, or by the goroutine that sends, under *)
(* no lock, and the consumer reads it whenever it uses an agent as a key:  *)
(* validating and building a talk are two steps, the flag may rise between. *)
(***************************************************************************)
EXTENDS CommunicationSession, SequencesExt

CONSTANTS
  Texts,                   \* the speeches an agent may send
  Capacity,                \* of talkChannel: len(s.agents) * 10
  MaxSent                  \* bound: messages every agent sends in the phase

ASSUME FreeformAssumption ==
  /\ Texts \in SUBSET Text /\ Capacity \in Nat \ {0} /\ MaxSent \in [Agents -> Nat]

VARIABLES
  hasError,    \* Agent.HasError
  s,           \* the CommunicationSession
  turnMap,     \* the next turn of every agent value
  msgChan,     \* Agent.msgChan: the messages, Broken when the connection broke
  unsent,      \* external: how many messages each client may still send
  received,    \* external: the talks each client has been sent
  listener,    \* per agent: what its listener does, and the text it holds
  talkChannel, \* the submissions not consumed yet
  consumer,    \* what the consumer does, its submission, whom it has yet to tell
  cancelled,   \* ctx.Done()
  main         \* the game's goroutine: "start", "chat", "drain", "end",
               \* "ended"; "panic" when the process went down

vars == <<hasError, s, turnMap, msgChan, unsent, received, listener, talkChannel,
          consumer, cancelled, main>>

Value(a) == <<a, hasError[a]>>
Broken   == [Plain("text") EXCEPT !.kind = "error"]
Messages == Texts \union {Plain("Skip"), Plain("Over"), Plain("ForceSkip")}

NoSubmission == [agent |-> CHOOSE a \in Agents : TRUE, text |-> Plain("Over")]
Consumer(at, submission, untold) ==
  [at |-> at, submission |-> submission, untold |-> untold]
Selecting == Consumer("select", NoSubmission, {})
Listener(at, text) == [at |-> at, text |-> text]
Listening == Listener("idle", Plain("Over"))
Stopped   == Listener("done", Plain("Over"))

Running == main # "panic"

-----------------------------------------------------------------------------
(* The clients (external): messages arrive while the phase is on for them *)

ClientSends(a) ==
  /\ Running /\ main # "ended" /\ unsent[a] > 0
  /\ \E text \in Messages : msgChan' = [msgChan EXCEPT ![a] = Append(@, text)]
  /\ unsent' = [unsent EXCEPT ![a] = @ - 1]
  /\ UNCHANGED <<hasError, s, turnMap, received, listener, talkChannel, consumer,
                 cancelled, main>>

ConnectionBreaks(a) ==
  /\ Running /\ main # "ended" /\ unsent[a] > 0
  /\ msgChan' = [msgChan EXCEPT ![a] = Append(@, Broken)]
  /\ unsent' = [unsent EXCEPT ![a] = 0]
  /\ UNCHANGED <<hasError, s, turnMap, received, listener, talkChannel, consumer,
                 cancelled, main>>

-----------------------------------------------------------------------------
(* The game's goroutine *)

Init ==
  /\ hasError = [a \in Agents |-> FALSE]
  /\ s = NewCommunicationSession
  /\ turnMap = [k \in {} |-> 0]
  /\ msgChan = [a \in Agents |-> <<>>] /\ unsent = MaxSent
  /\ received = [a \in Agents |-> <<>>]
  /\ listener = [a \in Agents |-> Stopped]
  /\ talkChannel = <<>> /\ consumer = Consumer("done", NoSubmission, {})
  /\ cancelled = FALSE /\ main = "start"

\* send to every agent: one whose packet cannot be written is lost.
MayFail ==
  \E lost \in SUBSET Agents :
    hasError' = [a \in Agents |-> hasError[a] \/ a \in lost]

\* sendStart, and the goroutines are started.
Start ==
  /\ main = "start" /\ main' = "chat"
  /\ MayFail
  /\ listener' = [a \in Agents |-> Listening]
  /\ consumer' = Selecting
  /\ turnMap' = [k \in {<<a, hasError'[a]>> : a \in Agents} |-> 0]
  /\ UNCHANGED <<s, msgChan, unsent, received, talkChannel, cancelled>>

\* The context's deadline.
Timeout ==
  /\ main = "chat" /\ ~cancelled
  /\ cancelled' = TRUE
  /\ UNCHANGED <<hasError, s, turnMap, msgChan, unsent, received, listener,
                 talkChannel, consumer, main>>

ListenersDone == \A a \in Agents : listener[a].at = "done"

\* variant: waits for the listeners only
Wait_listenersOnly ==
  /\ main = "chat" /\ ListenersDone
  /\ main' = "drain"
  /\ UNCHANGED <<hasError, s, turnMap, msgChan, unsent, received, listener,
                 talkChannel, consumer, cancelled>>

Wait ==
  /\ main = "chat" /\ ListenersDone /\ consumer.at = "done"
  /\ main' = "drain"
  /\ UNCHANGED <<hasError, s, turnMap, msgChan, unsent, received, listener,
                 talkChannel, consumer, cancelled>>

Drain ==
  /\ main = "drain" /\ main' = "end"
  /\ msgChan' = [a \in Agents |-> <<>>]
  /\ UNCHANGED <<hasError, s, turnMap, unsent, received, listener, talkChannel,
                 consumer, cancelled>>

SendEnd ==
  /\ main = "end" /\ main' = "ended"
  /\ MayFail
  /\ UNCHANGED <<s, turnMap, msgChan, unsent, received, listener, talkChannel,
                 consumer, cancelled>>

-----------------------------------------------------------------------------
(* listenForTalks.  An empty message is dropped.                           *)

Blank(text) == text.kind = "text" /\ text.before = 0 /\ ~text.mention

Hears(a) ==
  /\ Running /\ listener[a].at = "idle" /\ msgChan[a] # <<>>
  /\ msgChan' = [msgChan EXCEPT ![a] = Tail(@)]
  /\ LET text == Head(msgChan[a])
     IN  /\ hasError' = [hasError EXCEPT ![a] = @ \/ text = Broken]
         /\ listener' = [listener EXCEPT ![a] =
              IF text = Broken THEN Stopped
              ELSE IF Blank(text) THEN @ ELSE Listener("handing", text)]
  /\ UNCHANGED <<s, turnMap, unsent, received, talkChannel, consumer, cancelled, main>>

Submits(a) ==
  /\ Running /\ listener[a].at = "handing" /\ Len(talkChannel) < Capacity
  /\ talkChannel' = Append(talkChannel, [agent |-> a, text |-> listener[a].text])
  /\ listener' = [listener EXCEPT ![a] =
                    IF @.text.kind = "Over" THEN Stopped ELSE Listening]
  /\ UNCHANGED <<hasError, s, turnMap, msgChan, unsent, received, consumer,
                 cancelled, main>>

StopsListening(a) ==
  /\ Running /\ cancelled /\ listener[a].at \in {"idle", "handing"}
  /\ listener' = [listener EXCEPT ![a] = Stopped]
  /\ UNCHANGED <<hasError, s, turnMap, msgChan, unsent, received, talkChannel,
                 consumer, cancelled, main>>

-----------------------------------------------------------------------------
(* The consumer *)

\* variant: takes whatever is submitted
Valid_always(a, text) == TRUE

\* validateSubmission
Valid(a, text) == text.kind = "Over" \/ CanAgentTalk(s, Value(a))

Takes ==
  /\ Running /\ consumer.at = "select" /\ talkChannel # <<>>
  /\ talkChannel' = Tail(talkChannel)
  /\ LET submission == Head(talkChannel)
     IN  consumer' = Consumer(IF Valid(submission.agent, submission.text)
                              THEN "build" ELSE "check", submission, {})
  /\ UNCHANGED <<hasError, s, turnMap, msgChan, unsent, received, listener,
                 cancelled, main>>

Builds ==
  /\ Running /\ consumer.at = "build"
  /\ LET k    == Value(consumer.submission.agent)
         text == consumer.submission.text
     IN  IF BuildFails(s, k, text)
         THEN main' = "panic" /\ UNCHANGED <<s, turnMap, consumer>>
         ELSE /\ s' = BuildTalk(s, k, text, Get(turnMap, k))
              /\ turnMap' = Put(turnMap, k, Get(turnMap, k) + 1)
              /\ consumer' = [consumer EXCEPT !.at = "send", !.untold = Agents]
              /\ UNCHANGED main
  /\ UNCHANGED <<hasError, msgChan, unsent, received, listener, talkChannel, cancelled>>

\* variant: does not tell the speaker
Told_othersOnly(a) == IF a = consumer.submission.agent THEN <<>> ELSE <<Last(s.talks)>>

Told(a) == <<Last(s.talks)>>

\* sendTalk, one agent after the other.
Sends(a) ==
  /\ Running /\ consumer.at = "send" /\ a \in consumer.untold
  /\ consumer' = [consumer EXCEPT !.untold = @ \ {a}]
  /\ \/ ~hasError[a] /\ received' = [received EXCEPT ![a] = @ \o Told(a)]
        /\ UNCHANGED hasError
     \/ hasError' = [hasError EXCEPT ![a] = TRUE] /\ UNCHANGED received
  /\ UNCHANGED <<s, turnMap, msgChan, unsent, listener, talkChannel, cancelled, main>>

HasSent ==
  /\ Running /\ consumer.at = "send" /\ consumer.untold = {}
  /\ consumer' = [consumer EXCEPT !.at = "check"]
  /\ UNCHANGED <<hasError, s, turnMap, msgChan, unsent, received, listener,
                 talkChannel, cancelled, main>>

\* variant: looks the agents up as they were when the session began
Done_asDealt == AllAgentsDone(s, {<<a, FALSE>> : a \in Agents})

Done == AllAgentsDone(s, {Value(a) : a \in Agents})

Checks ==
  /\ Running /\ consumer.at = "check"
  /\ IF Done
     THEN cancelled' = TRUE /\ consumer' = [Selecting EXCEPT !.at = "done"]
     ELSE consumer' = Selecting /\ UNCHANGED cancelled
  /\ UNCHANGED <<hasError, s, turnMap, msgChan, unsent, received, listener,
                 talkChannel, main>>

StopsConsuming ==
  /\ Running /\ consumer.at = "select" /\ cancelled
  /\ consumer' = [Selecting EXCEPT !.at = "done"]
  /\ UNCHANGED <<hasError, s, turnMap, msgChan, unsent, received, listener,
                 talkChannel, cancelled, main>>

-----------------------------------------------------------------------------

Listen(a) == Hears(a) \/ Submits(a) \/ StopsListening(a)

Consume ==
  \/ Takes \/ Builds \/ HasSent \/ Checks \/ StopsConsuming
  \/ \E a \in Agents : Sends(a)

Main == Start \/ Wait \/ Drain \/ SendEnd

Next ==
  \/ Main \/ Consume \/ Timeout
  \/ \E a \in Agents : ClientSends(a) \/ ConnectionBreaks(a) \/ Listen(a)

Spec == Init /\ [][Next]_vars

\* The goroutines run; that time passes is not assumed.
FairSpec ==
  Spec /\ WF_vars(Main) /\ WF_vars(Consume) /\ \A a \in Agents : WF_vars(Listen(a))

-----------------------------------------------------------------------------
(* Properties *)

TypeOK ==
  /\ hasError \in [Agents -> BOOLEAN]
  /\ s.talks \in Seq(Talk)
  /\ \A m \in {s.count, s.skip, s.length, turnMap} :
       DOMAIN m \subseteq Key /\ \A k \in DOMAIN m : m[k] \in Int
  /\ msgChan \in [Agents -> Seq(Messages \union {Broken})]
  /\ unsent \in [Agents -> Nat] /\ \A a \in Agents : unsent[a] <= MaxSent[a]
  /\ received \in [Agents -> Seq(Talk)]
  /\ listener \in [Agents -> [at : {"idle", "handing", "done"}, text : Messages]]
  /\ talkChannel \in Seq([agent : Agents, text : Messages])
  /\ consumer \in [at : {"select", "build", "send", "check", "done"},
                   submission : [agent : Agents, text : Messages],
                   untold : SUBSET Agents]
  /\ cancelled \in BOOLEAN
  /\ main \in {"start", "chat", "drain", "end", "ended", "panic"}

\* Everybody reads the same discussion: what an agent has been sent is the
\* beginning of the transcript, and all of it for an agent whose connection
\* holds, once the consumer is not in the middle of a broadcast.
SameTranscript ==
  \A a \in Agents :
    /\ IsPrefix(received[a], s.talks)
    /\ (~hasError[a] /\ consumer.at # "send") => received[a] = s.talks

\* With every variable in its range, channels and counters included.
OneTranscript == TypeOK /\ SameTranscript

\* Once the end of the phase is being announced nobody adds to the transcript
\* or tells anybody of it: the session's goroutines are gone.
TranscriptCloses ==
  [][(main \in {"drain", "end", "ended"}) => UNCHANGED <<s, received>>]_vars

By(a) == {n \in DOMAIN s.talks : s.talks[n].agent[1] = a}
Said(a) == Cardinality({n \in By(a) : s.talks[n].kind # "Over"})

\* The session is held as Discussion promises.  An agent whose submission has
\* been validated may still speak, even if its connection breaks meanwhile.
Validated(a) == consumer.at = "build" /\ consumer.submission.agent = a
                  /\ consumer.submission.text.kind # "Over"

D == INSTANCE Discussion WITH
       said   <- [a \in Agents |-> Said(a)],
       silent <- {a \in Agents : ~CanAgentTalk(s, Value(a)) /\ ~Validated(a)},
       open   <- main \in {"start", "chat"}

\* Holds whether or not the session ends: the deadline is not assumed to come.
Discusses == D!Init /\ [][D!Next]_(D!vars)

\* When every agent has sent Over, the session ends without its deadline.
AllOver == ListenersDone /\ main = "chat" /\ ~cancelled /\ \A a \in Agents : ~hasError[a]
EndsEarly == AllOver ~> main \in {"ended", "panic"}

\* Whatever the goroutines hold when the deadline passes, all of them stop.
EndsOnCancel == cancelled ~> main \in {"ended", "panic"}

\* The game's goroutine does not wait for the session for good, with the
\* deadline or, when everybody is done, without it.
SessionEnds == EndsEarly /\ EndsOnCancel

\* "After the phase ends, discard the unprocessed messages left in the
\* channel": what a client sent before it was told of the end is not there
\* when the next request waits for its answer.
ChannelsClean == main = "ended" => \A a \in Agents : msgChan[a] = <<>>
=============================================================================
