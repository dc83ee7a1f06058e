----------------------------- MODULE AgentLink ------------------------------
(***************************************************************************)
(* Requests and answers between the game's goroutine and one agent:        *)
(* Agent.SendPacket and the reader goroutine behind msgChan.  A request    *)
(* that is not answered in time is followed by a NAME request, which tells *)
(* an agent that is slow from one that is lost.  An answer carries nothing *)
(* that says which request it is for.                                      *)
(*                                                                         *)
(* The client is external: it reads its requests one by one, at any time   *)
(* or never; it answers them or, unless it is asked for its name, leaves    *)
(* them unanswered; its connection may close or break.                     *)
(***************************************************************************)
EXTENDS Naturals, Sequences

CONSTANTS
  MaxRequests,     \* bound: requests of a game that want an answer
  Chatter          \* bound: messages a client sends without being asked

ASSUME LinkAssumption == MaxRequests \in Nat /\ Chatter \in Nat

VARIABLES
  hasError,    \* Agent.HasError
  pc,          \* SendPacket: "idle", "asked" or "probed"
  asked,       \* how many requests have been sent
  inbox,       \* external: requests the client has not read
  msgChan,     \* what the reader has read, or will
  client,      \* external: "up" or "gone"
  unasked,     \* external: how many more messages it sends unasked
  accepted     \* history: the answer the game got to every request

linkVars == <<hasError, pc, asked, inbox, msgChan, client, unasked, accepted>>

Name     == 0                  \* the NAME request, and the client's answer to it
Request  == 1..MaxRequests     \* the others, numbered; an answer has its number
Unasked  == MaxRequests + 1
Closed   == MaxRequests + 2    \* CloseNormalClosure or CloseGoingAway
Broken   == MaxRequests + 3    \* any other error of ReadMessage
Message  == 0..Broken
NoAnswer == 0

-----------------------------------------------------------------------------

LinkInit ==
  /\ hasError = FALSE /\ pc = "idle" /\ asked = 0
  /\ inbox = <<>> /\ msgChan = <<>>
  /\ client = "up" /\ unasked = Chatter
  /\ accepted = <<>>

\* WriteMessage: into a connection that is gone it may fail, or not yet.
Writes(request, then) ==
  \/ pc' = then /\ inbox' = Append(inbox, request) /\ UNCHANGED hasError
  \/ /\ client = "gone"
     /\ pc' = "idle" /\ hasError' = TRUE /\ UNCHANGED inbox

Fails == pc' = "idle" /\ hasError' = TRUE /\ UNCHANGED inbox

\* SendPacket up to its receive.  Request number asked + 1 gets no answer as
\* long as none is accepted.
Ask ==
  /\ pc = "idle" /\ ~hasError /\ asked < MaxRequests
  /\ asked' = asked + 1
  /\ accepted' = Append(accepted, NoAnswer)
  /\ Writes(asked + 1, "asked")
  /\ UNCHANGED <<msgChan, client, unasked>>

\* A packet that wants no answer: all it can do is to find the connection gone.
Tell ==
  /\ pc = "idle" /\ ~hasError /\ client = "gone"
  /\ hasError' = TRUE
  /\ UNCHANGED <<pc, asked, inbox, msgChan, client, unasked, accepted>>

Receives == msgChan # <<>> /\ msgChan' = Tail(msgChan)

Answer ==
  /\ pc = "asked" /\ Receives
  /\ Head(msgChan) \notin {Closed, Broken}
  /\ accepted' = [accepted EXCEPT ![asked] = Head(msgChan)]
  /\ pc' = "idle"
  /\ UNCHANGED <<hasError, asked, inbox, client, unasked>>

AnswerClosed ==
  /\ pc = "asked" /\ Receives /\ Head(msgChan) = Closed
  /\ Fails
  /\ UNCHANGED <<asked, client, unasked, accepted>>

\* variant: a request that was not answered is given up without a probe
NoAnswerInTime_noProbe ==
  /\ pc = "asked"
  /\ pc' = "idle"
  /\ UNCHANGED <<hasError, asked, inbox, msgChan, client, unasked, accepted>>

\* variant: an agent that misses its time is given up
NoAnswerInTime_lost ==
  /\ pc = "asked" /\ Fails
  /\ UNCHANGED <<asked, msgChan, client, unasked, accepted>>

\* time.After, or an error that is no close: the NAME request.
NoAnswerInTime ==
  /\ pc = "asked"
  /\ \/ UNCHANGED msgChan
     \/ Receives /\ Head(msgChan) = Broken
  /\ Writes(Name, "probed")
  /\ UNCHANGED <<asked, client, unasked, accepted>>

\* variant: whatever the agent answers to the probe, it is alive
Probed_anything ==
  /\ pc = "probed" /\ Receives
  /\ IF Head(msgChan) \notin {Closed, Broken}
     THEN pc' = "idle" /\ UNCHANGED <<hasError, inbox>> ELSE Fails
  /\ UNCHANGED <<asked, client, unasked, accepted>>

Probed ==
  /\ pc = "probed" /\ Receives
  /\ IF Head(msgChan) = Name
     THEN pc' = "idle" /\ UNCHANGED <<hasError, inbox>> ELSE Fails
  /\ UNCHANGED <<asked, client, unasked, accepted>>

\* variant: goes on waiting for the agent's name
ProbeTimeout_never ==
  /\ pc = "probed" /\ msgChan # <<>> /\ Fails
  /\ UNCHANGED <<asked, msgChan, client, unasked, accepted>>

ProbeTimeout ==
  /\ pc = "probed" /\ Fails
  /\ UNCHANGED <<asked, msgChan, client, unasked, accepted>>

-----------------------------------------------------------------------------
(* The client, external *)

ClientAnswers ==
  /\ client = "up" /\ inbox # <<>>
  /\ inbox' = Tail(inbox) /\ msgChan' = Append(msgChan, Head(inbox))
  /\ UNCHANGED <<hasError, pc, asked, client, unasked, accepted>>

ClientIgnores ==
  /\ client = "up" /\ inbox # <<>> /\ Head(inbox) # Name
  /\ inbox' = Tail(inbox)
  /\ UNCHANGED <<hasError, pc, asked, msgChan, client, unasked, accepted>>

ClientChats ==
  /\ client = "up" /\ unasked > 0
  /\ unasked' = unasked - 1 /\ msgChan' = Append(msgChan, Unasked)
  /\ UNCHANGED <<hasError, pc, asked, inbox, client, accepted>>

ClientGoes ==
  /\ client = "up" /\ client' = "gone"
  /\ \E end \in {Closed, Broken} : msgChan' = Append(msgChan, end)
  /\ UNCHANGED <<hasError, pc, asked, inbox, unasked, accepted>>

-----------------------------------------------------------------------------

SendPacket ==
  Ask \/ Tell \/ Answer \/ AnswerClosed \/ NoAnswerInTime \/ Probed \/ ProbeTimeout

Client == ClientAnswers \/ ClientIgnores \/ ClientChats \/ ClientGoes

LinkNext == SendPacket \/ Client

LinkSpec == LinkInit /\ [][LinkNext]_linkVars

\* Both waits are timed; of the client nothing is assumed.
LinkFairSpec == LinkSpec /\ WF_linkVars(NoAnswerInTime) /\ WF_linkVars(ProbeTimeout)

-----------------------------------------------------------------------------
(* Properties *)

LinkTypeOK ==
  /\ hasError \in BOOLEAN /\ pc \in {"idle", "asked", "probed"}
  /\ asked \in 0..MaxRequests
  /\ inbox \in Seq({Name} \union Request) /\ msgChan \in Seq(Message)
  /\ client \in {"up", "gone"} /\ unasked \in 0..Chatter
  /\ accepted \in Seq({NoAnswer} \union Request \union {Unasked})
  /\ Len(accepted) = asked

\* The client has sent nothing but answers.  A message it sends unasked is taken
\* for its next answer: nothing in a message says what it answers.
Prompted == unasked = Chatter

Matched == \A n \in 1..asked : accepted[n] \in {NoAnswer, n}

\* An answer is used for the request it was given to: a late one never passes
\* for the answer to the next request, the agent is given up instead.
AnswersMatch == Prompted => Matched

\* Between two requests to an agent in good standing nothing is under way: it
\* owes no answer and none has arrived.
QuietWhenIdle ==
  Prompted /\ pc = "idle" /\ ~hasError =>
    inbox = <<>> /\ msgChan \in {<<>>, <<Closed>>, <<Broken>>}

\* A request is over in bounded time, whatever the agent does.
Returns == pc # "idle" ~> pc = "idle"

\* An agent that only missed its time is not given up: as long as its
\* connection holds it is given up only with an answer still under way or
\* owed, or with its late answer taken for its name.
LostForCause ==
  [][(~hasError /\ hasError' /\ client = "up") =>
       (pc = "probed" /\ (inbox # <<>> \/ msgChan # <<>>))]_linkVars
=============================================================================
