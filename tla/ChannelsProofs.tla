--------------------------- MODULE ChannelsProofs ---------------------------
(***************************************************************************)
(* The two channels through which a game meets those outside it, and that  *)
(* close while it uses them: an agent's, which its requests are answered   *)
(* over, and a subscriber's, which its packets are sent over.  What holds  *)
(* of AgentLink for any number of requests, and of LiveState for any       *)
(* number of subscribers, any size of their channels and any number of     *)
(* packets.                                                                *)
(***************************************************************************)
EXTENDS AgentLink, LiveState, SequenceTheorems, TLAPS

-----------------------------------------------------------------------------
(* Requests and answers *)


Ends == {Closed, Broken}

\* A connection that holds: what is owed and what has arrived.
FlowUp ==
  \/ /\ pc = "idle" /\ inbox = <<>> /\ msgChan = <<>>
  \/ /\ pc = "asked"
     /\ \/ inbox = <<asked>> /\ msgChan = <<>>
        \/ inbox = <<>> /\ msgChan = <<asked>>
        \/ inbox = <<>> /\ msgChan = <<>>
  \/ /\ pc = "probed"
     /\ \/ inbox = <<asked, Name>> /\ msgChan = <<>>
        \/ inbox = <<Name>> /\ msgChan = <<asked>>
        \/ inbox = <<Name>> /\ msgChan = <<>>
        \/ inbox = <<>> /\ msgChan = <<asked, Name>>
        \/ inbox = <<>> /\ msgChan = <<Name>>

\* A connection that is gone: requests that are written into it stay there.
FlowGone ==
  \/ /\ pc = "idle" /\ inbox = <<>>
     /\ \E e \in Ends : msgChan = <<e>>
  \/ /\ pc = "asked"
     /\ \E e \in Ends :
          \/ inbox = <<>> /\ msgChan = <<asked, e>>
          \/ msgChan = <<e>>
  \/ /\ pc = "probed"
     /\ \/ msgChan = <<>>
        \/ \E e \in Ends :
             \/ msgChan = <<e>>
             \/ msgChan = <<asked, e>>
             \/ msgChan = <<asked, Name, e>>
             \/ inbox = <<>> /\ msgChan = <<Name, e>>

Flow == hasError \/ (client = "up" /\ FlowUp) \/ (client = "gone" /\ FlowGone)

Counters ==
  /\ hasError \in BOOLEAN /\ pc \in {"idle", "asked", "probed"}
  /\ client \in {"up", "gone"} /\ unasked \in 0..Chatter
  /\ asked \in 0..MaxRequests /\ (pc # "idle" => asked # 0 /\ ~hasError)

Answers ==
  /\ accepted \in Seq(0..Broken) /\ Len(accepted) = asked
  /\ Matched

LinkInv == Counters /\ (Prompted => Flow /\ Answers)

-----------------------------------------------------------------------------
(* Short sequences of numbers *)

LEMMA Taking ==
  ASSUME NEW a \in Nat, NEW b \in Nat, NEW c \in Nat
  PROVE  /\ Head(<<a>>) = a /\ Tail(<<a>>) = <<>>
         /\ Head(<<a, b>>) = a /\ Tail(<<a, b>>) = <<b>>
         /\ Head(<<a, b, c>>) = a /\ Tail(<<a, b, c>>) = <<b, c>>
         /\ <<a>> # <<>> /\ <<a, b>> # <<>> /\ <<a, b, c>> # <<>>
  OBVIOUS

LEMMA Appending ==
  ASSUME NEW a \in Nat, NEW b \in Nat, NEW c \in Nat
  PROVE  /\ Append(<<>>, a) = <<a>>
         /\ Append(<<a>>, b) = <<a, b>>
         /\ Append(<<a, b>>, c) = <<a, b, c>>
<1>1. Append(<<>>, a) = <<a>>
  OBVIOUS
<1>2. Append(<<a>>, b) = <<a, b>>
  <2> DEFINE s == Append(<<a>>, b)
             t == <<a, b>>
  <2>1. s \in Seq(Nat) /\ t \in Seq(Nat) /\ Len(s) = 2 /\ Len(t) = 2
    OBVIOUS
  <2>2. s[1] = a /\ s[2] = b /\ t[1] = a /\ t[2] = b
    OBVIOUS
  <2>3. \A n \in 1..Len(s) : s[n] = t[n]
    BY <2>1, <2>2
  <2> HIDE DEF s, t
  <2> QED  BY <2>1, <2>3, SeqEqual DEF s, t
<1>3. Append(<<a, b>>, c) = <<a, b, c>>
  <2> DEFINE s == Append(<<a, b>>, c)
             t == <<a, b, c>>
  <2>1. s \in Seq(Nat) /\ t \in Seq(Nat) /\ Len(s) = 3 /\ Len(t) = 3
    OBVIOUS
  <2>2. s[1] = a /\ s[2] = b /\ s[3] = c /\ t[1] = a /\ t[2] = b /\ t[3] = c
    OBVIOUS
  <2>3. \A n \in 1..Len(s) : s[n] = t[n]
    BY <2>1, <2>2
  <2> HIDE DEF s, t
  <2> QED  BY <2>1, <2>3, SeqEqual DEF s, t
<1> QED  BY <1>1, <1>2, <1>3

LEMMA Codes ==
  /\ Name \in Nat /\ \A e \in Ends : e \in Nat /\ e # Name
  /\ \A n \in 0..MaxRequests : n \in Nat /\ n \notin Ends /\ (n # 0 => n # Name)
  /\ Name \notin Ends /\ Ends \subseteq 0..Broken
  BY LinkAssumption DEF Name, Ends, Closed, Broken

-----------------------------------------------------------------------------
(* The flow of requests and answers *)

LEMMA FlowInit == LinkInit => Flow
  BY DEF LinkInit, Flow, FlowUp

\* What the client does: it moves a request to its answers, or stops.
LEMMA ClientFlow == ASSUME Counters, Flow, ~hasError, Client, ~ClientChats PROVE Flow'
<1>1. client = "up" /\ FlowUp
  <2>1. client = "up"
    BY DEF Client, ClientAnswers, ClientIgnores, ClientChats, ClientGoes, Counters
  <2> QED  BY <2>1 DEF Flow
<1>2. asked \in Nat /\ asked \in 0..MaxRequests /\ Name \in Nat
  BY Codes DEF Counters
<1>3. CASE ClientAnswers
  <2>1. ~hasError' /\ client' = "up" /\ pc' = pc /\ asked' = asked
    BY <1>1, <1>3 DEF ClientAnswers
  <2>2. inbox # <<>> /\ inbox' = Tail(inbox) /\ msgChan' = Append(msgChan, Head(inbox))
    BY <1>3 DEF ClientAnswers
  <2>3. CASE pc = "asked"
    <3>1. inbox = <<asked>> /\ msgChan = <<>>
      BY <1>1, <2>2, <2>3 DEF FlowUp
    <3>2. inbox' = <<>> /\ msgChan' = <<asked>>
      BY <3>1, <2>2, <1>2, Taking, Appending
    <3> QED  BY <3>2, <2>1, <2>3 DEF Flow, FlowUp
  <2>4. CASE pc = "probed"
    <3>1. CASE inbox = <<asked, Name>> /\ msgChan = <<>>
      <4>1. inbox' = <<Name>> /\ msgChan' = <<asked>>
        BY <3>1, <2>2, <1>2, Taking, Appending
      <4> QED  BY <4>1, <2>1, <2>4 DEF Flow, FlowUp
    <3>2. CASE inbox = <<Name>> /\ msgChan = <<asked>>
      <4>1. inbox' = <<>> /\ msgChan' = <<asked, Name>>
        BY <3>2, <2>2, <1>2, Taking, Appending
      <4> QED  BY <4>1, <2>1, <2>4 DEF Flow, FlowUp
    <3>3. CASE inbox = <<Name>> /\ msgChan = <<>>
      <4>1. inbox' = <<>> /\ msgChan' = <<Name>>
        BY <3>3, <2>2, <1>2, Taking, Appending
      <4> QED  BY <4>1, <2>1, <2>4 DEF Flow, FlowUp
    <3> QED  BY <1>1, <2>2, <2>4, <3>1, <3>2, <3>3 DEF FlowUp
  <2> QED  BY <1>1, <2>2, <2>3, <2>4 DEF FlowUp
<1>4. CASE ClientIgnores
  <2>1. ~hasError' /\ client' = "up" /\ pc' = pc /\ asked' = asked
    BY <1>1, <1>4 DEF ClientIgnores
  <2>2. /\ inbox # <<>> /\ Head(inbox) # Name
        /\ inbox' = Tail(inbox) /\ msgChan' = msgChan
    BY <1>4 DEF ClientIgnores
  <2>3. CASE pc = "asked"
    <3>1. inbox = <<asked>> /\ msgChan = <<>>
      BY <1>1, <2>2, <2>3 DEF FlowUp
    <3>2. inbox' = <<>> /\ msgChan' = <<>>
      BY <3>1, <2>2, <1>2, Taking
    <3> QED  BY <3>2, <2>1, <2>3 DEF Flow, FlowUp
  <2>4. CASE pc = "probed"
    <3>1. inbox = <<asked, Name>> /\ msgChan = <<>>
      <4>1. Head(<<Name>>) = Name
        BY <1>2, Taking
      <4> QED  BY <4>1, <1>1, <2>2, <2>4 DEF FlowUp
    <3>2. inbox' = <<Name>> /\ msgChan' = <<>>
      BY <3>1, <2>2, <1>2, Taking
    <3> QED  BY <3>2, <2>1, <2>4 DEF Flow, FlowUp
  <2> QED  BY <1>1, <2>2, <2>3, <2>4 DEF FlowUp
<1>5. CASE ClientGoes
  <2>1. ~hasError' /\ client' = "gone" /\ pc' = pc /\ asked' = asked /\ inbox' = inbox
    BY <1>5 DEF ClientGoes
  <2> PICK e \in Ends : msgChan' = Append(msgChan, e)
    BY <1>5 DEF ClientGoes, Ends
  <2>2. e \in Nat
    BY Codes
  <2>3. /\ msgChan = <<>> => msgChan' = <<e>>
        /\ msgChan = <<asked>> => msgChan' = <<asked, e>>
        /\ msgChan = <<Name>> => msgChan' = <<Name, e>>
        /\ msgChan = <<asked, Name>> => msgChan' = <<asked, Name, e>>
    BY <1>2, <2>2, Appending
  <2>4. FlowGone'
    BY <1>1, <2>1, <2>3 DEF FlowUp, FlowGone
  <2> QED  BY <2>1, <2>4 DEF Flow
<1> QED  BY <1>3, <1>4, <1>5 DEF Client

\* What the server does with a connection that holds.
LEMMA ServerFlowUp ==
  ASSUME Counters, FlowUp, client = "up", ~hasError, SendPacket PROVE Flow'
<1>1. asked \in Nat /\ asked \in 0..MaxRequests /\ Name \in Nat /\ client' = "up"
  BY Codes DEF Counters, SendPacket, Ask, Tell, Answer, AnswerClosed, NoAnswerInTime,
               Probed, ProbeTimeout
<1>2. CASE Ask
  <2>1. pc' = "asked" /\ inbox' = Append(inbox, asked + 1) /\ asked' = asked + 1
    BY <1>2 DEF Ask, Writes
  <2>2. inbox = <<>> /\ msgChan' = <<>>
    BY <1>2 DEF Ask, FlowUp
  <2>3. inbox' = <<asked'>>
    <3>1. asked + 1 \in Nat
      BY <1>1
    <3> QED  BY <3>1, <2>1, <2>2, Appending
  <2>4. FlowUp'
    BY <2>1, <2>2, <2>3 DEF FlowUp
  <2> QED  BY <1>1, <2>4 DEF Flow
<1>3. CASE Tell
  BY <1>3 DEF Tell
<1>4. CASE Answer
  <2>1. pc = "asked" /\ msgChan # <<>> /\ msgChan' = Tail(msgChan)
    BY <1>4 DEF Answer, Receives
  <2>2. inbox = <<>> /\ msgChan = <<asked>>
    BY <2>1 DEF FlowUp
  <2>3. pc' = "idle" /\ inbox' = <<>> /\ msgChan' = <<>>
    BY <1>1, <1>4, <2>1, <2>2, Taking DEF Answer
  <2> QED  BY <1>1, <2>3 DEF Flow, FlowUp
<1>5. CASE AnswerClosed
  BY <1>5 DEF AnswerClosed, Fails, Flow
<1>6. CASE NoAnswerInTime
  <2>1. pc = "asked" /\ pc' = "probed" /\ asked' = asked /\ inbox' = Append(inbox, Name)
    BY <1>6 DEF NoAnswerInTime, Writes
  <2>2. msgChan' = msgChan
    <3>1. ASSUME msgChan # <<>> PROVE Head(msgChan) # Broken
      <4>1. msgChan = <<asked>>
        BY <2>1, <3>1 DEF FlowUp
      <4> QED  BY <4>1, <1>1, Taking, Codes DEF Ends
    <3> QED  BY <1>6, <3>1 DEF NoAnswerInTime, Receives
  <2>3. /\ inbox = <<asked>> => inbox' = <<asked, Name>>
        /\ inbox = <<>> => inbox' = <<Name>>
    BY <1>1, <2>1, Appending
  <2>4. FlowUp'
    BY <2>1, <2>2, <2>3 DEF FlowUp
  <2> QED  BY <1>1, <2>4 DEF Flow
<1>7. CASE Probed
  <2>1. /\ pc = "probed" /\ msgChan # <<>> /\ msgChan' = Tail(msgChan)
        /\ Head(msgChan) = Name => pc' = "idle" /\ inbox' = inbox
        /\ Head(msgChan) # Name => hasError'
    BY <1>7 DEF Probed, Receives, Fails
  <2>2. CASE inbox = <<>> /\ msgChan = <<Name>>
    <3>1. pc' = "idle" /\ inbox' = <<>> /\ msgChan' = <<>>
      BY <1>1, <2>1, <2>2, Taking
    <3> QED  BY <1>1, <3>1 DEF Flow, FlowUp
  <2>3. CASE msgChan = <<asked>> \/ msgChan = <<asked, Name>>
    <3>1. Head(msgChan) = asked /\ asked # Name
      BY <1>1, <2>1, <2>3, Taking, Codes DEF Counters
    <3> QED  BY <2>1, <3>1 DEF Flow
  <2> QED  BY <2>1, <2>2, <2>3 DEF FlowUp
<1>8. CASE ProbeTimeout
  BY <1>8 DEF ProbeTimeout, Fails, Flow
<1> QED  BY <1>2, <1>3, <1>4, <1>5, <1>6, <1>7, <1>8 DEF SendPacket

\* What the server does with a connection that is gone.
LEMMA ServerFlowGone ==
  ASSUME Counters, FlowGone, client = "gone", ~hasError, SendPacket PROVE Flow'
<1>1. /\ asked \in Nat /\ asked \in 0..MaxRequests /\ Name \in Nat
      /\ client' = "gone" /\ (asked' = asked \/ Ask)
  BY Codes DEF Counters, SendPacket, Ask, Tell, Answer, AnswerClosed, NoAnswerInTime,
               Probed, ProbeTimeout
<1>2. \A e \in Ends : e \in Nat /\ e # Name /\ e # asked
  BY <1>1, Codes
<1>3. CASE Ask
  <2>1. pc = "idle" /\ msgChan' = msgChan
    BY <1>3 DEF Ask
  <2>2. hasError' \/ pc' = "asked"
    BY <1>3 DEF Ask, Writes
  <2>3. \E e \in Ends : msgChan' = <<e>>
    BY <2>1 DEF FlowGone
  <2> QED  BY <1>1, <2>2, <2>3 DEF Flow, FlowGone
<1>4. CASE Tell
  BY <1>4 DEF Tell, Flow
<1>5. CASE Answer
  <2>1. /\ pc = "asked" /\ msgChan # <<>> /\ msgChan' = Tail(msgChan)
        /\ Head(msgChan) \notin Ends /\ pc' = "idle" /\ inbox' = inbox
    BY <1>5 DEF Answer, Receives, Ends
  <2> PICK e \in Ends : (inbox = <<>> /\ msgChan = <<asked, e>>) \/ msgChan = <<e>>
    BY <2>1 DEF FlowGone
  <2>2. inbox = <<>> /\ msgChan = <<asked, e>>
    BY <1>2, <2>1, Taking
  <2>3. msgChan' = <<e>>
    BY <1>1, <1>2, <2>1, <2>2, Taking
  <2> QED  BY <1>1, <2>1, <2>2, <2>3 DEF Flow, FlowGone
<1>6. CASE AnswerClosed
  BY <1>6 DEF AnswerClosed, Fails, Flow
<1>7. CASE NoAnswerInTime
  <2>1. pc = "asked" /\ (hasError' \/ pc' = "probed") /\ asked' = asked
    BY <1>7 DEF NoAnswerInTime, Writes
  <2> PICK e \in Ends : (inbox = <<>> /\ msgChan = <<asked, e>>) \/ msgChan = <<e>>
    BY <2>1 DEF FlowGone
  <2>2. CASE msgChan = <<e>>
    <3>1. msgChan' = <<e>> \/ msgChan' = <<>>
      BY <1>2, <1>7, <2>2, Taking DEF NoAnswerInTime, Receives
    <3> QED  BY <1>1, <2>1, <3>1 DEF Flow, FlowGone
  <2>3. CASE msgChan = <<asked, e>>
    <3>1. Head(msgChan) = asked /\ asked # Broken
      BY <1>1, <1>2, <2>3, Taking DEF Ends
    <3>2. msgChan' = <<asked', e>>
      BY <1>7, <2>1, <2>3, <3>1 DEF NoAnswerInTime, Receives
    <3> QED  BY <1>1, <2>1, <3>2 DEF Flow, FlowGone
  <2> QED  BY <2>2, <2>3
<1>8. CASE Probed
  <2>1. /\ pc = "probed" /\ msgChan # <<>> /\ msgChan' = Tail(msgChan)
        /\ Head(msgChan) = Name => pc' = "idle" /\ inbox' = inbox
        /\ Head(msgChan) # Name => hasError'
    BY <1>8 DEF Probed, Receives, Fails
  <2> PICK e \in Ends :
        \/ msgChan = <<e>>
        \/ msgChan = <<asked, e>>
        \/ msgChan = <<asked, Name, e>>
        \/ inbox = <<>> /\ msgChan = <<Name, e>>
    BY <2>1 DEF FlowGone
  <2>2. asked # Name
    BY <1>1, <2>1, Codes DEF Counters
  <2>3. CASE inbox = <<>> /\ msgChan = <<Name, e>>
    <3>1. pc' = "idle" /\ inbox' = <<>> /\ msgChan' = <<e>>
      BY <1>1, <1>2, <2>1, <2>3, Taking
    <3> QED  BY <1>1, <3>1 DEF Flow, FlowGone
  <2>4. CASE ~(inbox = <<>> /\ msgChan = <<Name, e>>)
    <3>1. Head(msgChan) # Name
      BY <1>1, <1>2, <2>2, <2>4, Taking
    <3> QED  BY <2>1, <3>1 DEF Flow
  <2> QED  BY <2>3, <2>4
<1>9. CASE ProbeTimeout
  BY <1>9 DEF ProbeTimeout, Fails, Flow
<1> QED  BY <1>3, <1>4, <1>5, <1>6, <1>7, <1>8, <1>9 DEF SendPacket

-----------------------------------------------------------------------------
(* The invariant *)

LEMMA CountersStep == ASSUME Counters, [LinkNext]_linkVars PROVE Counters'
<1>1. CASE Ask
  <2>1. asked' = asked + 1 /\ asked' \in 0..MaxRequests /\ asked' # 0
    BY <1>1, LinkAssumption DEF Counters, Ask
  <2>2. (pc' = "asked" /\ hasError' = FALSE) \/ (pc' = "idle" /\ hasError' = TRUE)
    BY <1>1 DEF Ask, Writes
  <2> QED  BY <1>1, <2>1, <2>2 DEF Counters, Ask
<1>2. CASE Tell \/ Answer \/ AnswerClosed \/ Probed \/ ProbeTimeout
  BY <1>2 DEF Counters, Tell, Answer, AnswerClosed, Probed, ProbeTimeout, Fails
<1>3. CASE NoAnswerInTime
  <2>1. asked # 0 /\ ~hasError
    BY <1>3 DEF Counters, NoAnswerInTime
  <2>2. (pc' = "probed" /\ hasError' = FALSE) \/ (pc' = "idle" /\ hasError' = TRUE)
    BY <1>3, <2>1 DEF Counters, NoAnswerInTime, Writes
  <2> QED  BY <1>3, <2>1, <2>2 DEF Counters, NoAnswerInTime
<1>4. CASE Client
  <2>1. unasked' \in 0..Chatter
    BY <1>4, LinkAssumption DEF Counters, Client, ClientAnswers, ClientIgnores, ClientChats,
                               ClientGoes
  <2> QED  BY <1>4, <2>1 DEF Counters, Client, ClientAnswers, ClientIgnores, ClientChats,
                             ClientGoes
<1>5. CASE UNCHANGED linkVars
  BY <1>5 DEF Counters, linkVars
<1> QED  BY <1>1, <1>2, <1>3, <1>4, <1>5 DEF LinkNext, SendPacket

LEMMA FlowStep == ASSUME Counters, Flow, [LinkNext]_linkVars, ~ClientChats PROVE Flow'
<1>1. CASE hasError
  <2>1. hasError'
    BY <1>1 DEF Counters, LinkNext, SendPacket, Client, Ask, Tell, Answer, AnswerClosed,
                NoAnswerInTime, Probed, ProbeTimeout, ClientAnswers, ClientIgnores,
                ClientChats, ClientGoes, linkVars
  <2> QED  BY <2>1 DEF Flow
<1>2. CASE ~hasError /\ UNCHANGED linkVars
  BY <1>2 DEF Flow, FlowUp, FlowGone, linkVars
<1>3. CASE ~hasError /\ Client
  BY <1>3, ClientFlow
<1>4. CASE ~hasError /\ SendPacket
  BY <1>4, ServerFlowUp, ServerFlowGone DEF Flow
<1> QED  BY <1>1, <1>2, <1>3, <1>4 DEF LinkNext, Counters

\* Only an answer changes what has been accepted, and it is the one asked for.
LEMMA AnswersStep == ASSUME Counters, Flow, Answers, [LinkNext]_linkVars PROVE Answers'
<1>1. CASE Ask
  <2>1. /\ asked \in Nat /\ asked' = asked + 1
        /\ accepted' = Append(accepted, NoAnswer) /\ NoAnswer \in 0..Broken
    BY <1>1, LinkAssumption DEF Ask, Counters, NoAnswer, Broken
  <2>2. accepted' \in Seq(0..Broken) /\ Len(accepted') = asked'
    BY <2>1 DEF Answers
  <2>3. \A n \in 1..asked' : accepted'[n] \in {NoAnswer, n}
    <3>1. \A n \in 1..asked : accepted'[n] = accepted[n]
      BY <2>1, AppendProperties DEF Answers
    <3>2. accepted'[asked + 1] = NoAnswer
      BY <2>1, AppendProperties DEF Answers
    <3> QED  BY <2>1, <3>1, <3>2 DEF Answers, Matched
  <2> QED  BY <2>2, <2>3 DEF Answers, Matched
<1>2. CASE Answer
  <2>1. /\ pc = "asked" /\ msgChan # <<>> /\ Head(msgChan) \notin Ends
        /\ accepted' = [accepted EXCEPT ![asked] = Head(msgChan)] /\ asked' = asked
    BY <1>2 DEF Answer, Receives, Ends
  <2>2. asked \in 1..MaxRequests
    BY <2>1, LinkAssumption DEF Counters
  <2>3. Head(msgChan) = asked
    <3>1. ~hasError
      BY <2>1 DEF Counters
    <3>2. \/ msgChan = <<asked>>
          \/ \E e \in Ends : msgChan = <<asked, e>> \/ msgChan = <<e>>
      BY <2>1, <3>1 DEF Flow, FlowUp, FlowGone
    <3> QED  BY <2>1, <2>2, <3>2, Taking, Codes
  <2>4. asked \in 0..Broken
    BY <2>2, LinkAssumption DEF Broken
  <2> QED  BY <2>1, <2>2, <2>3, <2>4 DEF Answers, Matched
<1>3. CASE UNCHANGED <<asked, accepted>>
  BY <1>3 DEF Answers, Matched
<1>4. Client => UNCHANGED <<asked, accepted>>
  BY DEF Client, ClientAnswers, ClientIgnores, ClientChats, ClientGoes
<1>5. Tell \/ AnswerClosed \/ NoAnswerInTime \/ Probed \/ ProbeTimeout \/ UNCHANGED linkVars
        => UNCHANGED <<asked, accepted>>
  BY DEF Tell, AnswerClosed, NoAnswerInTime, Probed, ProbeTimeout, linkVars
<1> QED  BY <1>1, <1>2, <1>3, <1>4, <1>5 DEF LinkNext, SendPacket

\* A client that sends something unasked has done so for good.
LEMMA PromptedStep ==
  ASSUME Counters, [LinkNext]_linkVars, Prompted' PROVE Prompted /\ ~ClientChats
<1>1. unasked' = unasked \/ ClientChats
  BY DEF LinkNext, SendPacket, Client, Ask, Tell, Answer, AnswerClosed, NoAnswerInTime,
         Probed, ProbeTimeout, ClientAnswers, ClientIgnores, ClientGoes, linkVars
<1>2. ~ClientChats
  BY LinkAssumption DEF ClientChats, Counters, Prompted
<1> QED  BY <1>1, <1>2 DEF Prompted

\* The invariant: until the client sends something unasked, what is owed and
\* what has arrived depend on where SendPacket is, and every answer accepted
\* was the one asked for.
THEOREM LinkInvHolds == LinkSpec => []LinkInv
<1>1. LinkInit => LinkInv
  <2> SUFFICES ASSUME LinkInit PROVE LinkInv
    OBVIOUS
  <2>1. Counters
    <3>1. asked \in 0..MaxRequests /\ unasked \in 0..Chatter
      BY LinkAssumption DEF LinkInit
    <3> QED  BY <3>1 DEF LinkInit, Counters
  <2>2. Answers
    BY DEF LinkInit, Answers, Matched
  <2> QED  BY <2>1, <2>2, FlowInit DEF LinkInv
<1>2. LinkInv /\ [LinkNext]_linkVars => LinkInv'
  BY CountersStep, PromptedStep, FlowStep, AnswersStep DEF LinkInv
<1> QED  BY <1>1, <1>2, PTL DEF LinkSpec

\* SendPacket never takes a late answer for the answer to its next request,
\* however many requests there are and however slow the agent is.
THEOREM AnswersMatchTheorem == LinkSpec => []AnswersMatch
<1>1. LinkInv => AnswersMatch
  BY DEF LinkInv, Answers, AnswersMatch
<1> QED  BY <1>1, LinkInvHolds, PTL

\* When SendPacket returns and the agent is still in good standing, nothing is
\* owed or waiting: the next receive starts from an empty channel.
THEOREM QuietTheorem == LinkSpec => []QuietWhenIdle
<1>1. LinkInv => QuietWhenIdle
  BY DEF LinkInv, Flow, FlowUp, FlowGone, QuietWhenIdle, Ends
<1> QED  BY <1>1, LinkInvHolds, PTL

-----------------------------------------------------------------------------
(* Whom SendPacket gives up, whatever the client sends *)

Requests == {Name} \union Request
Replies  == {Name} \union Request \union {Unasked}

LEMMA Kinds ==
  /\ Replies \subseteq Message /\ Ends \subseteq Message /\ Message = Replies \union Ends
  /\ Requests \subseteq Replies /\ NoAnswer \in Replies /\ Name \in Requests
  /\ \A m \in Replies : m \notin Ends
BY LinkAssumption
DEF Replies, Requests, Message, Ends, Request, Name, Unasked, Closed, Broken, NoAnswer

\* Nothing but answers and chatter comes over a connection that holds, and while
\* SendPacket waits for a name the probe is the last request owed, or something has come.
Debt ==
  /\ pc # "idle" => asked # 0
  /\ client = "up" => msgChan \in Seq(Replies)
  /\ (pc = "probed" /\ client = "up") =>
       msgChan # <<>> \/ (inbox # <<>> /\ inbox[Len(inbox)] = Name)

LEMMA InitType == LinkInit => LinkTypeOK /\ Debt
<1> SUFFICES ASSUME LinkInit PROVE LinkTypeOK /\ Debt
  OBVIOUS
<1>1. asked \in 0..MaxRequests /\ unasked \in 0..Chatter /\ Len(accepted) = asked
  BY LinkAssumption DEF LinkInit
<1>2. \A S : <<>> \in Seq(S)
  OBVIOUS
<1> QED BY <1>1, <1>2 DEF LinkInit, LinkTypeOK, Debt

\* Sequences that are taken from, or added to.
LEMMA TailIs ==
  ASSUME NEW S, NEW u \in Seq(S), u # <<>>
  PROVE  Head(u) \in S /\ Tail(u) \in Seq(S)
BY HeadTailProperties

LEMMA LastOfTail ==
  ASSUME NEW S, NEW u \in Seq(S), u # <<>>, u[Len(u)] # Head(u)
  PROVE  Tail(u) # <<>> /\ Tail(u)[Len(Tail(u))] = u[Len(u)]
<1> DEFINE v == Tail(u)
           m == Len(u)
<1>1. m \in Nat \ {0} /\ Head(u) = u[1]
  BY EmptySeq, LenProperties
<1>2. v \in Seq(S) /\ Len(v) = m - 1 /\ \A n \in 1..Len(v) : v[n] = u[n + 1]
  BY HeadTailProperties
<1>3. u[m] # u[1]
  BY <1>1
<1> HIDE DEF v, m
<1>4. m # 1
  BY <1>3
<1>5. Len(v) \in 1..Len(v) /\ Len(v) + 1 = m
  BY <1>1, <1>2, <1>4
<1>6. v[Len(v)] = u[m]
  BY <1>2, <1>5
<1>7. v # <<>>
  BY <1>1, <1>2, <1>4, EmptySeq
<1> QED BY <1>6, <1>7 DEF v, m

LEMMA WritesIs ==
  ASSUME LinkTypeOK, NEW request \in Requests, NEW then, Writes(request, then)
  PROVE  /\ inbox' \in Seq(Requests)
         /\ \/ hasError' = hasError /\ pc' = then /\ inbox' # <<>> /\ inbox'[Len(inbox')] = request
            \/ hasError' = TRUE /\ pc' = "idle" /\ client = "gone"
<1>1. inbox \in Seq(Requests)
  BY DEF LinkTypeOK, Requests
<1>2. CASE pc' = then /\ inbox' = Append(inbox, request) /\ UNCHANGED hasError
  BY <1>1, <1>2, AppendProperties
<1>3. CASE client = "gone" /\ pc' = "idle" /\ hasError' = TRUE /\ UNCHANGED inbox
  BY <1>1, <1>3
<1> QED BY <1>2, <1>3 DEF Writes

LEMMA DebtStep == LinkTypeOK /\ Debt /\ [LinkNext]_linkVars => LinkTypeOK' /\ Debt'
<1> SUFFICES ASSUME LinkTypeOK, Debt, [LinkNext]_linkVars PROVE LinkTypeOK' /\ Debt'
  OBVIOUS
<1>1. /\ inbox \in Seq(Requests) /\ msgChan \in Seq(Message) /\ accepted \in Seq(Replies)
      /\ asked \in Nat
  <2>1. {NoAnswer} \union Request \union {Unasked} = Replies
    BY DEF Replies, NoAnswer, Name
  <2> QED BY <2>1 DEF LinkTypeOK, Requests
<1>2. ASSUME hasError' \in BOOLEAN, pc' \in {"idle", "asked", "probed"},
             asked' \in 0..MaxRequests, inbox' \in Seq(Requests), msgChan' \in Seq(Message),
             client' \in {"up", "gone"}, unasked' \in 0..Chatter,
             accepted' \in Seq(Replies), Len(accepted') = asked'
      PROVE  LinkTypeOK'
  BY <1>2 DEF LinkTypeOK, Requests, Replies, NoAnswer, Name
<1>3. CASE UNCHANGED linkVars
  BY <1>3 DEF linkVars, LinkTypeOK, Debt
<1>4. CASE Ask
  <2>1. asked + 1 \in Requests /\ asked + 1 \in 0..MaxRequests
    BY <1>1, <1>4, LinkAssumption DEF Ask, Requests, Request
  <2>2. inbox' \in Seq(Requests) /\ pc' \in {"idle", "asked"} /\ hasError' \in BOOLEAN
    BY <1>4, <2>1, WritesIs DEF Ask, LinkTypeOK
  <2>3. accepted' \in Seq(Replies) /\ Len(accepted') = asked'
    BY <1>1, <1>4, Kinds, AppendProperties DEF Ask, LinkTypeOK
  <2>4. LinkTypeOK'
    BY <1>2, <1>4, <2>1, <2>2, <2>3 DEF Ask, LinkTypeOK
  <2> QED BY <1>1, <1>4, <2>2, <2>4 DEF Ask, Debt
<1>5. CASE Tell
  BY <1>5 DEF Tell, LinkTypeOK, Debt
<1>6. CASE Receives /\ pc # "idle" /\ pc' = "idle" /\ hasError' \in BOOLEAN
           /\ UNCHANGED <<asked, inbox, client, unasked, accepted>>
  <2>1. msgChan' \in Seq(Message) /\ (client = "up" => msgChan' \in Seq(Replies))
    BY <1>1, <1>6, TailIs DEF Receives, Debt
  <2>2. LinkTypeOK'
    BY <1>6, <2>1 DEF LinkTypeOK
  <2> QED BY <1>6, <2>1, <2>2 DEF Debt
<1>7. CASE Answer
  <2>1. msgChan' \in Seq(Message) /\ (client = "up" => msgChan' \in Seq(Replies))
        /\ Head(msgChan) \in Message
    BY <1>1, <1>7, TailIs DEF Answer, Receives, Debt
  <2>2. Head(msgChan) \in Replies
    BY <1>7, <2>1, Kinds DEF Answer, Ends
  <2>3. accepted' \in Seq(Replies) /\ Len(accepted') = asked
    <3> DEFINE answer == Head(msgChan)
    <3>1. accepted' = [accepted EXCEPT ![asked] = answer] /\ Len(accepted) = asked /\ asked # 0
      BY <1>7 DEF Answer, LinkTypeOK, Debt
    <3> HIDE DEF answer
    <3>2. answer \in Replies
      BY <2>2 DEF answer
    <3>3. asked \in 1..Len(accepted)
      BY <1>1, <3>1
    <3> QED BY <1>1, <3>1, <3>2, <3>3, ExceptSeq
  <2>4. LinkTypeOK'
    BY <1>1, <1>2, <1>7, <2>1, <2>3 DEF Answer, LinkTypeOK
  <2> QED BY <1>7, <2>1, <2>4 DEF Answer, Debt
<1>8. CASE AnswerClosed \/ Probed
  BY <1>6, <1>8 DEF AnswerClosed, Probed, Fails, LinkTypeOK
<1>9. CASE NoAnswerInTime
  <2>1. msgChan' \in Seq(Message) /\ (client = "up" => msgChan' \in Seq(Replies))
    BY <1>1, <1>9, TailIs DEF NoAnswerInTime, Receives, Debt
  <2>2. /\ inbox' \in Seq(Requests) /\ pc' \in {"idle", "probed"} /\ hasError' \in BOOLEAN
        /\ pc' = "probed" => inbox' # <<>> /\ inbox'[Len(inbox')] = Name
    BY <1>9, Kinds, WritesIs DEF NoAnswerInTime, LinkTypeOK
  <2>3. LinkTypeOK'
    BY <1>1, <1>2, <1>9, <2>1, <2>2 DEF NoAnswerInTime, LinkTypeOK
  <2> QED BY <1>9, <2>1, <2>2, <2>3 DEF NoAnswerInTime, Debt
<1>10. CASE ProbeTimeout
  BY <1>10 DEF ProbeTimeout, Fails, LinkTypeOK, Debt
<1>11. CASE ClientAnswers
  <2>1. Head(inbox) \in Requests /\ inbox' \in Seq(Requests)
    BY <1>1, <1>11, TailIs DEF ClientAnswers
  <2>2. msgChan' \in Seq(Replies) /\ msgChan' \in Seq(Message) /\ msgChan' # <<>>
    <3>1. Head(inbox) \in Replies /\ Head(inbox) \in Message
      BY <2>1, Kinds
    <3> QED BY <1>1, <1>11, <3>1, AppendProperties DEF ClientAnswers, Debt
  <2>3. LinkTypeOK'
    BY <1>1, <1>2, <1>11, <2>1, <2>2 DEF ClientAnswers, LinkTypeOK
  <2> QED BY <1>11, <2>2, <2>3 DEF ClientAnswers, Debt
<1>12. CASE ClientIgnores
  <2>1. inbox' \in Seq(Requests)
    BY <1>1, <1>12, TailIs DEF ClientIgnores
  <2>2. inbox[Len(inbox)] = Name => inbox' # <<>> /\ inbox'[Len(inbox')] = Name
    BY <1>1, <1>12, LastOfTail DEF ClientIgnores
  <2>3. LinkTypeOK'
    BY <1>1, <1>2, <1>12, <2>1 DEF ClientIgnores, LinkTypeOK
  <2> QED BY <1>12, <2>2, <2>3 DEF ClientIgnores, Debt
<1>13. CASE ClientChats
  <2>1. Unasked \in Replies /\ Unasked \in Message
    BY Kinds DEF Replies
  <2>2. msgChan' \in Seq(Replies) /\ msgChan' \in Seq(Message) /\ msgChan' # <<>>
    BY <1>1, <1>13, <2>1, AppendProperties DEF ClientChats, Debt
  <2>3. unasked' \in 0..Chatter
    BY <1>13, LinkAssumption DEF ClientChats, LinkTypeOK
  <2>4. LinkTypeOK'
    BY <1>1, <1>2, <1>13, <2>2, <2>3 DEF ClientChats, LinkTypeOK
  <2> QED BY <1>13, <2>2, <2>4 DEF ClientChats, Debt
<1>14. CASE ClientGoes
  <2>1. msgChan' \in Seq(Message)
    <3>1. PICK end \in Ends : msgChan' = Append(msgChan, end)
      BY <1>14 DEF ClientGoes, Ends
    <3> QED BY <1>1, <3>1, Kinds, AppendProperties
  <2>2. LinkTypeOK'
    BY <1>1, <1>2, <1>14, <2>1 DEF ClientGoes, LinkTypeOK
  <2> QED BY <1>14, <2>2 DEF ClientGoes, Debt
<1> QED
  BY <1>3, <1>4, <1>5, <1>7, <1>8, <1>9, <1>10, <1>11, <1>12, <1>13, <1>14
  DEF LinkNext, SendPacket, Client

\* Type correctness of the link, and what is owed while a probe is under way.
THEOREM DebtHolds == LinkSpec => [](LinkTypeOK /\ Debt)
BY InitType, DebtStep, PTL DEF LinkSpec

\* SendPacket gives up no agent that only missed its time: while the connection holds it
\* takes an answer still owed or under way, chatter included, for any number of requests.
THEOREM CauseTheorem == LinkSpec => LostForCause
<1>1. LinkTypeOK /\ Debt /\ [LinkNext]_linkVars =>
        [(~hasError /\ hasError' /\ client = "up") =>
           (pc = "probed" /\ (inbox # <<>> \/ msgChan # <<>>))]_linkVars
  <2> SUFFICES ASSUME LinkTypeOK, Debt, [LinkNext]_linkVars, ~hasError, hasError', client = "up"
               PROVE  pc = "probed" /\ (inbox # <<>> \/ msgChan # <<>>)
    OBVIOUS
  <2>1. ~AnswerClosed
    <3> SUFFICES ASSUME AnswerClosed PROVE FALSE
      OBVIOUS
    <3>1. Head(msgChan) \in Replies /\ Head(msgChan) \in Ends
      BY TailIs DEF AnswerClosed, Receives, Debt, Ends
    <3> QED BY <3>1, Kinds
  <2>2. CASE Probed \/ ProbeTimeout
    BY <2>2 DEF Probed, ProbeTimeout, Receives, Debt
  <2> QED
    BY <2>1, <2>2
    DEF LinkNext, SendPacket, Client, Ask, Tell, Answer, NoAnswerInTime, Writes, ClientAnswers,
        ClientIgnores, ClientChats, ClientGoes, linkVars
<1> QED BY <1>1, DebtHolds, PTL DEF LinkSpec, LostForCause

-----------------------------------------------------------------------------
(* The channels of subscribers *)


\* Who is subscribed has come, its channel is open, and only a subscriber is in
\* the middle of being sent a packet; a channel is never opened again.
ChannelsInv ==
  /\ ~panicked
  /\ closed \in [Subscribers -> BOOLEAN]
  /\ reader \in [Subscribers -> {"away", "reading", "closing", "leaving", "gone"}]
  /\ todo \subseteq subscribers /\ subscribers \subseteq Subscribers
  /\ full = Nobody \/ full \in todo
  /\ \A s \in subscribers : ~closed[s] /\ reader[s] # "away"
  /\ \A s \in Subscribers : closed[s] => reader[s] # "away"

\* Sending touches open channels only, and ends with one subscriber the less.
LEMMA SendsToOpen == ChannelsInv /\ Game => ChannelsInv'
<1> SUFFICES ASSUME ChannelsInv, Game PROVE ChannelsInv'
  OBVIOUS
<1> USE DEF ChannelsInv
<1>1. CASE OnGameStart
  BY <1>1 DEF OnGameStart, emission, readers
<1>2. CASE Emit
  <2>1. full = Nobody
    BY <1>2 DEF Emit, Locked
  <2>2. QED
    BY <1>2, <2>1 DEF Emit, readers
<1>3. CASE OnGameEnd
  <2>1. todo = {} /\ full = Nobody /\ todo' = {} /\ full' = Nobody
    BY <1>3 DEF OnGameEnd, Locked, emission
  <2>2. ~panicked'
    BY <1>3 DEF OnGameEnd
  <2>3. QED
    BY <1>3, <2>1, <2>2 DEF OnGameEnd, readers
<1>4. ASSUME NEW s \in Subscribers, Offer(s) PROVE ChannelsInv'
  <2>1. s \in todo /\ ~closed[s]
    BY <1>4 DEF Offer
  <2>2. QED
    BY <1>4, <2>1 DEF Offer, Send, readers
<1>5. ASSUME NEW s \in Subscribers, DropOldest(s) PROVE ChannelsInv'
  BY <1>5 DEF DropOldest, readers
<1>6. ASSUME NEW s \in Subscribers, OfferAgain(s) PROVE ChannelsInv'
  <2>1. s \in todo /\ ~closed[s]
    BY <1>6, LiveAssumption DEF OfferAgain
  <2>2. todo' = todo \ {s} /\ full' = Nobody /\ ~panicked'
    BY <1>6, <2>1 DEF OfferAgain, Send
  <2>3. QED
    BY <1>6, <2>2 DEF OfferAgain, readers
<1>7. QED
  BY <1>1, <1>2, <1>3, <1>4, <1>5, <1>6 DEF Game

\* A handler subscribes and cancels under the lock, so never during a send.
LEMMA HandlersKeep ==
  ASSUME ChannelsInv, NEW s \in Subscribers,
         Subscribe(s) \/ Read(s) \/ SeesClose(s) \/ Disconnects(s) \/ Cancel(s)
  PROVE  ChannelsInv'
<1> USE DEF ChannelsInv
<1>1. CASE Subscribe(s)
  <2>1. todo = {} /\ full = Nobody /\ todo' = {} /\ full' = Nobody
    BY <1>1 DEF Subscribe, Locked, emission
  <2>2. ~closed[s] /\ UNCHANGED <<closed, panicked>>
    BY <1>1 DEF Subscribe, Becomes
  <2>3. subscribers' = subscribers \/ subscribers' = subscribers \union {s}
    BY <1>1 DEF Subscribe
  <2>4. reader' \in [Subscribers -> {"away", "reading", "closing", "leaving", "gone"}]
    BY <1>1 DEF Subscribe, Becomes
  <2>5. \A r \in Subscribers : reader'[r] # "away" \/ (r # s /\ reader'[r] = reader[r])
    BY <1>1 DEF Subscribe, Becomes
  <2>6. QED
    BY <2>1, <2>2, <2>3, <2>4, <2>5
<1>2. CASE Read(s)
  BY <1>2 DEF Read, emission
<1>3. CASE SeesClose(s) \/ Disconnects(s)
  BY <1>3 DEF SeesClose, Disconnects, Becomes, emission
<1>4. CASE Cancel(s)
  <2>1. todo = {} /\ full = Nobody /\ todo' = {} /\ full' = Nobody
    BY <1>4 DEF Cancel, Locked, emission
  <2>2. /\ reader' \in [Subscribers -> {"away", "reading", "closing", "leaving", "gone"}]
        /\ reader'[s] = "gone"
        /\ \A r \in Subscribers \ {s} : reader'[r] = reader[r]
    BY <1>4 DEF Cancel, Becomes
  <2>3. CASE game = "live" /\ s \in subscribers
    BY <1>4, <2>1, <2>2, <2>3 DEF Cancel
  <2>4. CASE ~(game = "live" /\ s \in subscribers)
    BY <1>4, <2>1, <2>2, <2>4 DEF Cancel
  <2>5. QED
    BY <2>3, <2>4
<1>5. QED
  BY <1>1, <1>2, <1>3, <1>4

\* The invariant of the channels holds whatever the subscribers do.
THEOREM ChannelsInvHolds == Spec => []ChannelsInv
<1>1. Init => ChannelsInv
  BY DEF Init, ChannelsInv
<1>2. ChannelsInv /\ [Next]_vars => ChannelsInv'
  <2> SUFFICES ASSUME ChannelsInv, [Next]_vars PROVE ChannelsInv'
    OBVIOUS
  <2>1. CASE UNCHANGED vars
    BY <2>1 DEF ChannelsInv, vars, emission, readers
  <2>2. QED
    BY <2>1, SendsToOpen, HandlersKeep DEF Next
<1>3. QED
  BY <1>1, <1>2, PTL DEF Spec

\* No channel is closed twice or sent to when closed, in whatever order the end of
\* the game, its packets and the leaving of clients come.
THEOREM NoPanicTheorem == Spec => []NoPanic
<1>1. ChannelsInv => NoPanic
  BY DEF ChannelsInv, NoPanic
<1>2. QED
  BY <1>1, ChannelsInvHolds, PTL

-----------------------------------------------------------------------------
(* What a channel and its reader hold between them: of the packets up to   *)
(* number top, an increasing run beyond the last one read, without a gap   *)
(* unless the channel has been full.                                       *)

WellFed(S, g, top, lag) ==
  /\ S \in Seq(Nat) /\ g \in Nat /\ g <= top
  /\ \A i, j \in 1..Len(S) : i < j => S[i] < S[j]
  /\ \A i \in 1..Len(S) : g < S[i] /\ S[i] <= top
  /\ ~lag => /\ \A i \in 1..Len(S) - 1 : S[i + 1] = S[i] + 1
             /\ S # <<>> /\ g # 0 => S[1] = g + 1

\* The newest packet lies last in the channel, or has been read.
Newest(S, g, top) == IF S = <<>> THEN g = top ELSE S[Len(S)] = top

LEMMA TailFacts ==
  ASSUME NEW S \in Seq(Nat), S # <<>>
  PROVE  /\ Tail(S) \in Seq(Nat) /\ Len(S) \in Nat \ {0} /\ Len(Tail(S)) = Len(S) - 1
         /\ \A i \in 1..Len(S) - 1 : Tail(S)[i] = S[i + 1]
         /\ Head(S) = S[1] /\ Head(S) \in Nat
BY HeadTailProperties, EmptySeq, LenProperties

LEMMA AppendFacts ==
  ASSUME NEW S \in Seq(Nat), NEW n \in Nat
  PROVE  /\ Append(S, n) \in Seq(Nat) /\ Len(S) \in Nat
         /\ Len(Append(S, n)) = Len(S) + 1 /\ Append(S, n) # <<>>
         /\ Append(S, n)[Len(S) + 1] = n
         /\ \A i \in 1..Len(S) : Append(S, n)[i] = S[i]
BY AppendProperties, EmptySeq, LenProperties

\* The reader takes the oldest packet.
LEMMA ReadFeeds ==
  ASSUME NEW S, NEW g, NEW top \in Nat, NEW lag \in BOOLEAN,
         WellFed(S, g, top, lag), S # <<>>
  PROVE  /\ WellFed(Tail(S), Head(S), top, lag)
         /\ Newest(S, g, top) => Newest(Tail(S), Head(S), top)
         /\ Len(Tail(S)) < Len(S)
<1>1. S \in Seq(Nat) /\ g \in Nat
  BY DEF WellFed
<1>2. /\ Tail(S) \in Seq(Nat) /\ Len(S) \in Nat \ {0} /\ Len(Tail(S)) = Len(S) - 1
      /\ \A i \in 1..Len(S) - 1 : Tail(S)[i] = S[i + 1]
      /\ Head(S) = S[1] /\ Head(S) \in Nat
  BY <1>1, TailFacts
<1>3. \A i \in 1..Len(S) : S[i] \in Nat
  BY <1>1, ElementOfSeq
<1>4. /\ \A i, j \in 1..Len(Tail(S)) : i < j => Tail(S)[i] < Tail(S)[j]
      /\ \A i \in 1..Len(Tail(S)) : Head(S) < Tail(S)[i] /\ Tail(S)[i] <= top
      /\ Head(S) <= top
  BY <1>2 DEF WellFed
<1>5. ~lag => /\ \A i \in 1..Len(Tail(S)) - 1 : Tail(S)[i + 1] = Tail(S)[i] + 1
              /\ Tail(S) # <<>> => Tail(S)[1] = Head(S) + 1
  <2> SUFFICES ASSUME ~lag
               PROVE  /\ \A i \in 1..Len(Tail(S)) - 1 : Tail(S)[i + 1] = Tail(S)[i] + 1
                      /\ Tail(S) # <<>> => Tail(S)[1] = Head(S) + 1
    OBVIOUS
  <2>1. \A i \in 1..Len(S) - 1 : S[i + 1] = S[i] + 1
    BY DEF WellFed
  <2>2. \A i \in 1..Len(Tail(S)) - 1 : Tail(S)[i + 1] = Tail(S)[i] + 1
    BY <1>2, <2>1
  <2>3. Tail(S) # <<>> => Len(Tail(S)) \in Nat \ {0}
    BY <1>2, TailFacts, EmptySeq, LenProperties
  <2> QED BY <1>2, <2>1, <2>2, <2>3
<1>6. Newest(S, g, top) => Newest(Tail(S), Head(S), top)
  <2>1. Tail(S) = <<>> => Len(S) = 1
    <3>1. ASSUME NEW T, T = <<>> PROVE Len(T) = 0
      BY <3>1, EmptySeq
    <3>2. Tail(S) = <<>> => Len(Tail(S)) = 0
      BY ONLY <3>1, Zenon
    <3> QED BY <1>2, <3>2
  <2>2. Tail(S) # <<>> => Len(Tail(S)) \in 1..Len(S) - 1
    BY <1>2, EmptySeq
  <2>3. Tail(S) # <<>> => Tail(S)[Len(Tail(S))] = S[Len(S)]
    BY <1>2, <2>2
  <2> QED BY <1>2, <2>1, <2>3 DEF Newest
<1> QED BY <1>2, <1>4, <1>5, <1>6 DEF WellFed

\* The oldest packet is thrown away, once the channel has been full.
LEMMA DropFeeds ==
  ASSUME NEW S, NEW g, NEW top \in Nat, WellFed(S, g, top, TRUE), S # <<>>
  PROVE  WellFed(Tail(S), g, top, TRUE) /\ Len(Tail(S)) < Len(S)
<1>1. S \in Seq(Nat)
  BY DEF WellFed
<1>2. /\ Tail(S) \in Seq(Nat) /\ Len(S) \in Nat \ {0} /\ Len(Tail(S)) = Len(S) - 1
      /\ \A i \in 1..Len(S) - 1 : Tail(S)[i] = S[i + 1]
  BY <1>1, TailFacts
<1> QED BY <1>2 DEF WellFed

\* The packet after the newest is sent.
LEMMA SendFeeds ==
  ASSUME NEW S, NEW g, NEW top \in Nat, NEW lag \in BOOLEAN,
         WellFed(S, g, top, lag), lag \/ Newest(S, g, top)
  PROVE  /\ WellFed(Append(S, top + 1), g, top + 1, lag)
         /\ Newest(Append(S, top + 1), g, top + 1)
         /\ Len(Append(S, top + 1)) = Len(S) + 1
<1> DEFINE T == Append(S, top + 1)
<1>1. S \in Seq(Nat) /\ g \in Nat
  BY DEF WellFed
<1>2. /\ T \in Seq(Nat) /\ Len(S) \in Nat /\ Len(T) = Len(S) + 1 /\ T # <<>>
      /\ T[Len(S) + 1] = top + 1 /\ \A i \in 1..Len(S) : T[i] = S[i]
  BY <1>1, AppendFacts
<1> HIDE DEF T
<1>3. /\ \A i, j \in 1..Len(T) : i < j => T[i] < T[j]
      /\ \A i \in 1..Len(T) : g < T[i] /\ T[i] <= top + 1
      /\ g <= top + 1
  <2>1. \A i \in 1..Len(S) : S[i] \in Nat /\ g < S[i] /\ S[i] <= top
    BY <1>1, ElementOfSeq DEF WellFed
  <2>2. \A i, j \in 1..Len(S) : i < j => S[i] < S[j]
    BY DEF WellFed
  <2>3. g <= top
    BY DEF WellFed
  <2>4. \A i \in 1..Len(T) :
          \/ i \in 1..Len(S) /\ T[i] = S[i]
          \/ i = Len(S) + 1 /\ T[i] = top + 1
    BY <1>2
  <2>5. ASSUME NEW i \in 1..Len(T), NEW j \in 1..Len(T), i < j
        PROVE  T[i] < T[j]
    <3>1. i \in 1..Len(S) /\ T[i] = S[i]
      BY <1>2, <2>5
    <3>2. CASE j \in 1..Len(S) /\ T[j] = S[j]
      BY <2>2, <2>5, <3>1, <3>2
    <3>3. CASE j = Len(S) + 1 /\ T[j] = top + 1
      BY <2>1, <3>1, <3>3
    <3> QED BY <2>4, <3>2, <3>3
  <2>6. ASSUME NEW i \in 1..Len(T)
        PROVE  g < T[i] /\ T[i] <= top + 1
    BY <1>1, <2>1, <2>3, <2>4
  <2> QED BY <1>1, <2>3, <2>5, <2>6
<1>4. ASSUME ~lag
      PROVE  /\ \A i \in 1..Len(T) - 1 : T[i + 1] = T[i] + 1
             /\ g # 0 => T[1] = g + 1
  <2>1. CASE S = <<>>
    BY <1>1, <1>2, <1>4, <2>1 DEF Newest
  <2>2. CASE S # <<>>
    <3>1. Len(S) \in Nat \ {0} /\ S[Len(S)] = top
      BY <1>1, <1>2, <1>4, <2>2, EmptySeq DEF Newest
    <3>2. \A i \in 1..Len(S) - 1 : S[i + 1] = S[i] + 1
      BY <1>4 DEF WellFed
    <3>3. g # 0 => S[1] = g + 1
      BY <1>4, <2>2 DEF WellFed
    <3>4. ASSUME NEW i \in 1..Len(T) - 1
          PROVE  T[i + 1] = T[i] + 1
      <4>1. CASE i = Len(S)
        BY <1>2, <3>1, <4>1
      <4>2. CASE i # Len(S)
        <5>1. i \in 1..Len(S) - 1 /\ i \in 1..Len(S) /\ i + 1 \in 1..Len(S)
          BY <1>2, <4>2
        <5> QED BY <1>2, <3>2, <5>1
      <4> QED BY <4>1, <4>2
    <3> QED BY <1>2, <3>1, <3>3, <3>4
  <2> QED BY <2>1, <2>2
<1>5. WellFed(T, g, top + 1, lag)
  BY <1>1, <1>2, <1>3, <1>4 DEF WellFed
<1>6. Newest(T, g, top + 1)
  BY <1>2 DEF Newest
<1> QED BY <1>2, <1>5, <1>6 DEF T

\* The game goes on to another packet.
LEMMA LaterFeeds ==
  ASSUME NEW S, NEW g, NEW top \in Nat, NEW later \in Nat, NEW lag,
         WellFed(S, g, top, lag), top <= later
  PROVE  WellFed(S, g, later, lag)
<1>1. \A i \in 1..Len(S) : S[i] \in Nat
  BY ElementOfSeq DEF WellFed
<1> QED BY <1>1 DEF WellFed

-----------------------------------------------------------------------------
(* The invariant of the streams: every channel is fed from the packets its *)
(* subscriber has been offered, and holds the newest of them except while  *)
(* a full channel is being sent to.                                        *)

\* The number of the last packet s has been offered.
Sent(s) == IF s \in todo THEN packetIdx - 1 ELSE packetIdx

FeedTypes ==
  /\ game \in {"none", "live", "gone"}
  /\ packetIdx \in 0..MaxPackets /\ ended \in BOOLEAN /\ dropped \in BOOLEAN
  /\ lagged \in [Subscribers -> BOOLEAN] /\ got \in [Subscribers -> Nat]
  /\ chan \in [Subscribers -> Seq(Nat)]
  /\ todo # {} => packetIdx > 0

\* Between the selects of a send: the channel was full, and room is made.
Between ==
  /\ full # Nobody => lagged[full]
  /\ dropped => full # Nobody /\ Room(full)

Fed(s) ==
  /\ WellFed(chan[s], got[s], Sent(s), lagged[s])
  /\ Len(chan[s]) <= SubscriberBuffer
  /\ reader[s] = "away" => chan[s] = <<>> /\ got[s] = 0
  /\ s \in subscribers /\ s # full => Newest(chan[s], got[s], Sent(s))

FeedInv == ChannelsInv /\ FeedTypes /\ Between /\ \A s \in Subscribers : Fed(s)

LEMMA SentIsNumber ==
  ASSUME FeedInv, NEW s \in Subscribers
  PROVE  Sent(s) \in Nat /\ Sent(s) <= packetIdx
BY LiveAssumption DEF FeedInv, FeedTypes, ChannelsInv, Sent

LEMMA InitFed == Init => FeedInv
<1> SUFFICES ASSUME Init PROVE FeedInv
  OBVIOUS
<1>1. ChannelsInv
  BY DEF Init, ChannelsInv
<1>2. FeedTypes /\ Between
  <2>1. <<>> \in Seq(Nat)
    BY EmptySeq
  <2>2. chan \in [Subscribers -> Seq(Nat)] /\ got \in [Subscribers -> Nat]
    BY <2>1 DEF Init
  <2>3. lagged \in [Subscribers -> BOOLEAN] /\ ended \in BOOLEAN /\ dropped \in BOOLEAN
    BY DEF Init
  <2>4. ~dropped /\ full = Nobody /\ todo = {} /\ packetIdx = 0 /\ game = "none"
    BY DEF Init
  <2>5. FeedTypes
    BY <2>2, <2>3, <2>4, LiveAssumption DEF FeedTypes
  <2> QED BY <2>4, <2>5 DEF Between
<1>3. ASSUME NEW s \in Subscribers PROVE Fed(s)
  <2>1. chan[s] = <<>> /\ got[s] = 0 /\ Sent(s) = 0 /\ Len(chan[s]) = 0
    BY EmptySeq DEF Init, Sent
  <2>2. ASSUME NEW lag PROVE WellFed(<<>>, 0, 0, lag) /\ Newest(<<>>, 0, 0)
    BY EmptySeq DEF WellFed, Newest
  <2> QED BY <2>1, <2>2, LiveAssumption DEF Fed
<1> QED BY <1>1, <1>2, <1>3 DEF FeedInv

\* What a step leaves alone of a stream keeps it fed.
LEMMA Undisturbed ==
  ASSUME NEW s \in Subscribers, Fed(s), chan'[s] = chan[s], got'[s] = got[s],
         lagged'[s] = lagged[s], reader[s] # "away" \/ reader'[s] = reader[s],
         reader[s] # "away" => reader'[s] # "away",
         Sent(s)' = Sent(s), s \in subscribers' => s \in subscribers,
         s # full' => s # full
  PROVE  Fed(s)'
BY DEF Fed

LEMMA EmitFeeds == FeedInv /\ Emit => FeedInv'
<1> SUFFICES ASSUME FeedInv, Emit PROVE FeedInv'
  OBVIOUS
<1>1. ChannelsInv'
  BY SendsToOpen DEF FeedInv, Game
<1>2. /\ packetIdx \in Nat /\ packetIdx' = packetIdx + 1 /\ packetIdx' \in 0..MaxPackets
      /\ todo = {} /\ todo' = subscribers /\ ended' \in BOOLEAN /\ full = Nobody /\ full' = Nobody
      /\ UNCHANGED <<game, dropped, subscribers, chan, reader, got, lagged>>
  <2>1. packetIdx \in Nat /\ todo = {} /\ full = Nobody
    BY LiveAssumption DEF Emit, FeedInv, FeedTypes, ChannelsInv, Locked
  <2>2. packetIdx' \in 0..MaxPackets
    BY <2>1, LiveAssumption DEF Emit
  <2>3. ended' \in BOOLEAN
    BY Zenon DEF Emit
  <2> QED BY <2>1, <2>2, <2>3 DEF Emit, readers
<1>3. FeedTypes' /\ Between'
  BY <1>2 DEF FeedInv, FeedTypes, Between
<1>4. ASSUME NEW s \in Subscribers PROVE Fed(s)'
  <2>1. Sent(s) = packetIdx /\ Sent(s)' \in {packetIdx, packetIdx + 1}
        /\ (s \in subscribers => Sent(s)' = packetIdx)
    BY <1>2 DEF Sent
  <2>2. Fed(s) /\ lagged[s] \in BOOLEAN
    BY DEF FeedInv, FeedTypes
  <2>3. WellFed(chan[s], got[s], Sent(s)', lagged[s])
    BY <1>2, <2>1, <2>2, LaterFeeds DEF Fed
  <2> QED BY <1>2, <2>1, <2>2, <2>3 DEF Fed
<1> QED BY <1>1, <1>3, <1>4 DEF FeedInv

\* Sending a packet to an open channel with room for it.
LEMMA SendFeedsOne ==
  ASSUME FeedInv, NEW s \in Subscribers, s \in todo, Room(s), Send(s),
         full' = Nobody, dropped' = FALSE, ChannelsInv',
         full = s \/ full = Nobody,
         UNCHANGED <<game, packetIdx, ended, subscribers, readers, lagged>>
  PROVE  FeedInv'
<1>1. /\ s \in subscribers /\ Nobody # s /\ packetIdx \in Nat /\ packetIdx # 0
      /\ Sent(s) = packetIdx - 1 /\ Sent(s) \in Nat /\ lagged[s] \in BOOLEAN
      /\ Fed(s) /\ Sent(s) + 1 = packetIdx
  BY LiveAssumption DEF FeedInv, FeedTypes, ChannelsInv, Sent
<1>2. lagged[s] \/ Newest(chan[s], got[s], Sent(s))
  BY <1>1 DEF Fed, FeedInv, Between
<1>3. /\ chan' = [chan EXCEPT ![s] = Append(@, packetIdx)] /\ todo' = todo \ {s}
      /\ chan \in [Subscribers -> Seq(Nat)] /\ got' = got /\ reader' = reader
  BY DEF Send, FeedInv, FeedTypes, readers
<1>4. chan'[s] = Append(chan[s], packetIdx) /\ chan[s] \in Seq(Nat)
  BY <1>3
<1>5. /\ WellFed(Append(chan[s], packetIdx), got[s], packetIdx, lagged[s])
      /\ Newest(Append(chan[s], packetIdx), got[s], packetIdx)
      /\ Len(Append(chan[s], packetIdx)) = Len(chan[s]) + 1
  <2> DEFINE top == Sent(s)
  <2>1. top \in Nat /\ WellFed(chan[s], got[s], top, lagged[s]) /\ top + 1 = packetIdx
        /\ (lagged[s] \/ Newest(chan[s], got[s], top))
    BY <1>1, <1>2 DEF Fed
  <2> HIDE DEF top
  <2>2. /\ WellFed(Append(chan[s], top + 1), got[s], top + 1, lagged[s])
        /\ Newest(Append(chan[s], top + 1), got[s], top + 1)
        /\ Len(Append(chan[s], top + 1)) = Len(chan[s]) + 1
    BY <1>1, <2>1, SendFeeds
  <2> QED BY <2>1, <2>2
<1>6. Sent(s)' = packetIdx
  BY <1>3 DEF Sent
<1>7. Fed(s)'
  <2>1. Len(chan[s]) \in Nat /\ Len(chan[s]) < SubscriberBuffer
    BY <1>4, LenProperties DEF Room
  <2>2. reader[s] # "away"
    BY <1>1 DEF FeedInv, ChannelsInv
  <2> QED BY <1>3, <1>4, <1>5, <1>6, <2>1, <2>2, LiveAssumption DEF Fed
<1>8. ASSUME NEW r \in Subscribers, r # s PROVE Fed(r)'
  <2>1. Fed(r) /\ chan'[r] = chan[r] /\ got'[r] = got[r]
        /\ Sent(r)' = Sent(r) /\ full # r
    BY <1>3, <1>8, LiveAssumption DEF FeedInv, Sent
  <2> QED BY <1>3, <2>1 DEF Fed
<1>9. chan' \in [Subscribers -> Seq(Nat)]
  BY <1>1, <1>3, <1>4, AppendFacts
<1>10. FeedTypes' /\ Between'
  BY <1>3, <1>9 DEF FeedInv, FeedTypes, Between, readers
<1> QED BY <1>7, <1>8, <1>10 DEF FeedInv

LEMMA OfferFeeds ==
  ASSUME FeedInv, NEW s \in Subscribers, Offer(s) PROVE FeedInv'
<1>1. ChannelsInv' /\ s \in todo /\ full = Nobody
  BY SendsToOpen DEF FeedInv, Game, Offer
<1>2. ~dropped
  BY <1>1 DEF FeedInv, Between
<1>3. CASE Room(s) /\ Send(s) /\ UNCHANGED <<full, lagged>>
  <2>1. /\ full' = Nobody /\ dropped' = FALSE
        /\ UNCHANGED <<game, packetIdx, ended, subscribers, readers, lagged>>
    BY <1>1, <1>2, <1>3 DEF Offer, FeedInv, FeedTypes
  <2> QED BY <1>1, <1>3, <2>1, SendFeedsOne
<1>4. CASE ~Room(s) /\ full' = s /\ lagged' = [lagged EXCEPT ![s] = TRUE]
             /\ UNCHANGED <<chan, panicked, todo>>
  <2>1. UNCHANGED <<game, packetIdx, ended, dropped, subscribers, chan, todo, reader, got>>
    BY <1>4 DEF Offer, readers
  <2>2. lagged \in [Subscribers -> BOOLEAN] /\ lagged' \in [Subscribers -> BOOLEAN]
        /\ lagged'[s] = TRUE /\ \A r \in Subscribers \ {s} : lagged'[r] = lagged[r]
    BY <1>4 DEF FeedInv, FeedTypes
  <2>3. FeedTypes' /\ Between'
    BY <1>2, <1>4, <2>1, <2>2 DEF FeedInv, FeedTypes, Between
  <2>4. ASSUME NEW r \in Subscribers PROVE Fed(r)'
    <3>1. Fed(r) /\ Sent(r)' = Sent(r) /\ r # full
      BY <1>1, <2>1, LiveAssumption DEF FeedInv, Sent
    <3>2. CASE r = s
      <4>1. WellFed(chan[s], got[s], Sent(s), TRUE)
        BY <3>1, <3>2 DEF Fed, WellFed
      <4> QED BY <1>4, <2>1, <2>2, <3>1, <3>2, <4>1 DEF Fed
    <3>3. CASE r # s
      BY <2>1, <2>2, <3>1, <3>3 DEF Fed
    <3> QED BY <3>2, <3>3
  <2> QED BY <1>1, <2>3, <2>4 DEF FeedInv
<1> QED BY <1>3, <1>4 DEF Offer

LEMMA DropOldestFeeds ==
  ASSUME FeedInv, NEW s \in Subscribers, DropOldest(s) PROVE FeedInv'
<1>1. ChannelsInv' /\ full = s /\ s \in todo /\ full # Nobody /\ lagged[s]
  BY SendsToOpen, LiveAssumption DEF FeedInv, Game, DropOldest, ChannelsInv, Between
<1>2. UNCHANGED <<game, packetIdx, ended, todo, full, subscribers, reader, got, lagged>>
      /\ dropped' = TRUE
      /\ chan' = [chan EXCEPT ![s] = IF @ = <<>> THEN @ ELSE Tail(@)]
  BY DEF DropOldest, readers
<1>3. chan \in [Subscribers -> Seq(Nat)] /\ chan[s] \in Seq(Nat) /\ Len(chan[s]) \in Nat
  BY LenProperties DEF FeedInv, FeedTypes
<1>4. /\ chan'[s] = IF chan[s] = <<>> THEN chan[s] ELSE Tail(chan[s])
      /\ \A r \in Subscribers \ {s} : chan'[r] = chan[r]
  BY <1>2, <1>3
<1>5. /\ Fed(s) /\ Sent(s) \in Nat /\ Sent(s)' = Sent(s)
      /\ WellFed(chan[s], got[s], Sent(s), TRUE) /\ Len(chan[s]) <= SubscriberBuffer
  BY <1>1, <1>2, SentIsNumber DEF FeedInv, Fed, WellFed, Sent
<1>6. /\ WellFed(chan'[s], got[s], Sent(s), TRUE)
      /\ chan'[s] \in Seq(Nat) /\ Len(chan'[s]) < SubscriberBuffer
  <2>1. CASE chan[s] = <<>>
    <3>1. Len(chan[s]) = 0
      BY <2>1, EmptySeq
    <3>2. chan'[s] = chan[s]
      BY <1>4, <2>1, Zenon
    <3>3. Len(chan[s]) < SubscriberBuffer
      BY <3>1, LiveAssumption
    <3> QED BY <1>3, <1>5, <3>2, <3>3, Zenon
  <2>2. CASE chan[s] # <<>>
    <3>1. WellFed(Tail(chan[s]), got[s], Sent(s), TRUE) /\ Len(Tail(chan[s])) < Len(chan[s])
      BY <1>5, <2>2, DropFeeds
    <3>2. Tail(chan[s]) \in Seq(Nat) /\ Len(Tail(chan[s])) \in Nat
      BY <1>3, <2>2, TailFacts, LenProperties
    <3>3. chan'[s] = Tail(chan[s])
      BY <1>4, <2>2, Zenon
    <3>4. Len(chan'[s]) < SubscriberBuffer
      BY <1>3, <1>5, <3>1, <3>2, <3>3, LiveAssumption
    <3> QED BY <3>1, <3>2, <3>3, <3>4
  <2> QED BY <2>1, <2>2
<1>7. FeedTypes'
  BY <1>2, <1>3, <1>6 DEF FeedInv, FeedTypes
<1>8. Between'
  BY <1>1, <1>2, <1>6 DEF FeedInv, Between, Room
<1>9. Fed(s)'
  <2>1. reader[s] # "away" /\ SubscriberBuffer \in Nat /\ Len(chan'[s]) \in Nat
    BY <1>1, <1>6, LiveAssumption, LenProperties DEF FeedInv, ChannelsInv
  <2>2. WellFed(chan'[s], got'[s], Sent(s)', lagged'[s])
    BY <1>1, <1>2, <1>5, <1>6 DEF WellFed
  <2> QED BY <1>1, <1>2, <1>6, <2>1, <2>2 DEF Fed
<1>10. ASSUME NEW r \in Subscribers, r # s PROVE Fed(r)'
  <2>1. Fed(r) /\ Sent(r)' = Sent(r) /\ chan'[r] = chan[r]
    BY <1>2, <1>4, <1>10 DEF FeedInv, Sent
  <2> QED BY <1>2, <2>1 DEF Fed
<1> QED BY <1>1, <1>7, <1>8, <1>9, <1>10 DEF FeedInv

LEMMA OfferAgainFeeds ==
  ASSUME FeedInv, NEW s \in Subscribers, OfferAgain(s) PROVE FeedInv'
<1>1. ChannelsInv' /\ full = s /\ s \in todo /\ full # Nobody /\ dropped /\ Room(s)
  BY SendsToOpen, LiveAssumption DEF FeedInv, Game, OfferAgain, ChannelsInv, Between
<1>2. /\ Send(s) /\ full' = Nobody /\ dropped' = FALSE
      /\ UNCHANGED <<game, packetIdx, ended, subscribers, readers, lagged>>
  BY <1>1 DEF OfferAgain
<1> QED BY <1>1, <1>2, SendFeedsOne

LEMMA GameFeeds == FeedInv /\ Game => FeedInv'
<1> SUFFICES ASSUME FeedInv, Game PROVE FeedInv'
  OBVIOUS
<1>0. ChannelsInv'
  BY SendsToOpen DEF FeedInv
<1>1. CASE OnGameStart
  <2>1. game' = "live" /\ UNCHANGED <<emission, subscribers, chan, readers, lagged>>
    BY <1>1 DEF OnGameStart
  <2>2. FeedTypes' /\ Between'
    BY <2>1 DEF FeedInv, FeedTypes, Between, Room, emission, readers
  <2>3. ASSUME NEW s \in Subscribers PROVE Fed(s)'
    BY <2>1 DEF FeedInv, Fed, Sent, emission, readers
  <2> QED BY <1>0, <2>2, <2>3 DEF FeedInv
<1>2. CASE OnGameEnd
  <2>1. game' = "gone" /\ subscribers' = {} /\ UNCHANGED <<emission, chan, readers, lagged>>
    BY <1>2 DEF OnGameEnd
  <2>2. FeedTypes' /\ Between'
    BY <2>1 DEF FeedInv, FeedTypes, Between, Room, emission, readers
  <2>3. ASSUME NEW s \in Subscribers PROVE Fed(s)'
    BY <2>1 DEF FeedInv, Fed, Sent, emission, readers
  <2> QED BY <1>0, <2>2, <2>3 DEF FeedInv
<1> QED
  BY <1>1, <1>2, EmitFeeds, OfferFeeds, DropOldestFeeds, OfferAgainFeeds DEF Game

\* A subscriber finds the last packet in its channel, and nothing before it.
LEMMA SubscribeFeeds ==
  ASSUME FeedInv, NEW s \in Subscribers, Subscribe(s) PROVE FeedInv'
<1>1. ChannelsInv'
  BY HandlersKeep DEF FeedInv
<1>2. /\ todo = {} /\ full = Nobody /\ s # full /\ reader[s] = "away"
      /\ UNCHANGED <<game, emission, got, lagged>> /\ todo' = {} /\ full' = Nobody
  BY LiveAssumption DEF Subscribe, Becomes, FeedInv, ChannelsInv, Locked, emission
<1>3. /\ Fed(s) /\ chan[s] = <<>> /\ got[s] = 0 /\ packetIdx \in Nat /\ lagged[s] \in BOOLEAN
      /\ Sent(s) = packetIdx /\ Sent(s)' = packetIdx /\ Len(<<>>) = 0
  BY <1>2, LiveAssumption, EmptySeq DEF FeedInv, Fed, FeedTypes, Sent, emission
<1>4. \A r \in Subscribers \ {s} : reader'[r] = reader[r] /\ chan'[r] = chan[r]
                                     /\ (r \in subscribers' => r \in subscribers)
  <2>1. /\ \/ chan' = [chan EXCEPT ![s] = IF packetIdx > 0 THEN Append(@, packetIdx) ELSE @]
           \/ chan' = chan
        /\ subscribers' = subscribers \/ subscribers' = subscribers \union {s}
        /\ \E to \in {"reading", "gone"} : reader' = [reader EXCEPT ![s] = to]
    BY DEF Subscribe, Becomes
  <2>2. chan \in [Subscribers -> Seq(Nat)]
    BY DEF FeedInv, FeedTypes
  <2>3. DOMAIN reader = Subscribers
    BY DEF FeedInv, ChannelsInv
  <2>4. \A r \in Subscribers \ {s} : chan'[r] = chan[r]
    BY <2>1, <2>2
  <2> QED BY <2>1, <2>3, <2>4
<1>5. reader'[s] # "away"
  BY DEF Subscribe, Becomes, FeedInv, ChannelsInv
<1>6. /\ chan' \in [Subscribers -> Seq(Nat)]
      /\ \/ chan'[s] = <<>> /\ (s \in subscribers' => packetIdx = 0)
         \/ chan'[s] = Append(<<>>, packetIdx) /\ packetIdx > 0
  <2>1. chan \in [Subscribers -> Seq(Nat)] /\ <<>> \in Seq(Nat)
    BY EmptySeq DEF FeedInv, FeedTypes
  <2>2. Append(<<>>, packetIdx) \in Seq(Nat)
    BY <1>3, <2>1, AppendFacts
  <2>3. s \notin subscribers
    BY <1>2 DEF FeedInv, ChannelsInv
  <2>4. CASE chan' = [chan EXCEPT ![s] = Append(@, packetIdx)] /\ packetIdx > 0
    BY <1>3, <2>1, <2>2, <2>4
  <2>5. CASE chan' = chan /\ (packetIdx = 0 \/ subscribers' = subscribers)
    BY <1>3, <2>1, <2>3, <2>5
  <2>6. \/ chan' = [chan EXCEPT ![s] = Append(@, packetIdx)] /\ packetIdx > 0
        \/ chan' = chan /\ (packetIdx = 0 \/ subscribers' = subscribers)
    <3>1. CASE packetIdx > 0
      BY <2>1, <3>1 DEF Subscribe
    <3>2. CASE ~(packetIdx > 0)
      <4>1. packetIdx = 0
        BY <1>3, <3>2
      <4>2. [chan EXCEPT ![s] = chan[s]] = chan
        BY <2>1
      <4> QED BY <3>2, <4>1, <4>2 DEF Subscribe
    <3> QED BY <3>1, <3>2
  <2> QED BY <2>4, <2>5, <2>6
<1>7. ASSUME NEW lag \in BOOLEAN, NEW n \in Nat, n # 0
      PROVE  /\ WellFed(Append(<<>>, n), 0, n, lag) /\ Newest(Append(<<>>, n), 0, n)
             /\ Len(Append(<<>>, n)) = 1
  <2>1. <<>> \in Seq(Nat) /\ Len(<<>>) = 0
    BY EmptySeq
  <2>2. /\ Append(<<>>, n) \in Seq(Nat) /\ Len(Append(<<>>, n)) = 1
        /\ Append(<<>>, n) # <<>> /\ Append(<<>>, n)[1] = n
    BY <2>1, AppendFacts
  <2> QED BY <1>7, <2>2 DEF WellFed, Newest
<1>8. Fed(s)'
  <2>1. CASE chan'[s] = <<>> /\ (s \in subscribers' => packetIdx = 0)
    <3>1. WellFed(chan[s], got[s], Sent(s), lagged[s])
      BY <1>3 DEF Fed
    <3>2. WellFed(chan'[s], got'[s], Sent(s)', lagged'[s])
      BY <1>2, <1>3, <2>1, <3>1
    <3>3. s \in subscribers' => Newest(chan'[s], got'[s], Sent(s)')
      BY <1>2, <1>3, <2>1 DEF Newest
    <3> QED BY <1>3, <1>5, <2>1, <3>2, <3>3, LiveAssumption DEF Fed
  <2>2. CASE chan'[s] = Append(<<>>, packetIdx) /\ packetIdx > 0
    <3>1. /\ WellFed(chan'[s], 0, packetIdx, lagged[s])
          /\ Newest(chan'[s], 0, packetIdx) /\ Len(chan'[s]) = 1
      BY <1>3, <1>7, <2>2
    <3> QED BY <1>2, <1>3, <1>5, <3>1, LiveAssumption DEF Fed
  <2> QED BY <1>6, <2>1, <2>2
<1>9. ASSUME NEW r \in Subscribers, r # s PROVE Fed(r)'
  <2>1. Fed(r) /\ Sent(r)' = Sent(r) /\ full = full'
    BY <1>2 DEF FeedInv, Sent, emission
  <2> QED BY <1>2, <1>4, <1>9, <2>1 DEF Fed
<1>10. FeedTypes' /\ Between'
  BY <1>2, <1>6 DEF FeedInv, FeedTypes, Between, emission
<1> QED BY <1>1, <1>8, <1>9, <1>10 DEF FeedInv

LEMMA ReaderFeeds ==
  ASSUME FeedInv, NEW s \in Subscribers, Read(s) PROVE FeedInv'
<1>1. ChannelsInv'
  BY HandlersKeep DEF FeedInv
<1>2. /\ chan[s] # <<>> /\ chan[s] \in Seq(Nat) /\ reader[s] = "reading"
      /\ UNCHANGED <<game, emission, subscribers, reader, lagged>>
      /\ got'[s] = Head(chan[s]) /\ chan'[s] = Tail(chan[s])
      /\ \A r \in Subscribers \ {s} : got'[r] = got[r] /\ chan'[r] = chan[r]
  BY DEF Read, FeedInv, FeedTypes
<1>3. /\ Tail(chan[s]) \in Seq(Nat) /\ Head(chan[s]) \in Nat
      /\ Len(Tail(chan[s])) \in Nat /\ Len(chan[s]) \in Nat
  BY <1>2, TailFacts, LenProperties
<1>4. chan' \in [Subscribers -> Seq(Nat)] /\ got' \in [Subscribers -> Nat]
  BY <1>3 DEF Read, FeedInv, FeedTypes
<1>5. Fed(s) /\ Sent(s) \in Nat /\ lagged[s] \in BOOLEAN /\ Sent(s)' = Sent(s)
  BY <1>2, SentIsNumber DEF FeedInv, FeedTypes, Sent, emission
<1>6. /\ WellFed(chan'[s], got'[s], Sent(s), lagged[s])
      /\ Newest(chan[s], got[s], Sent(s)) => Newest(chan'[s], got'[s], Sent(s))
      /\ Len(chan'[s]) < Len(chan[s])
  <2>1. WellFed(chan[s], got[s], Sent(s), lagged[s])
    BY <1>5 DEF Fed
  <2> QED BY <1>2, <1>5, <2>1, ReadFeeds
<1>7. FeedTypes' /\ Between'
  <2>1. full # Nobody => full \in Subscribers
    BY DEF FeedInv, ChannelsInv
  <2>2. Room(full) => Room(full)' \/ full = Nobody
    <3>1. CASE full = s
      <4>1. full' = s /\ Len(chan'[s]) \in Nat
        BY <1>2, <1>3, <3>1 DEF emission
      <4> QED BY <1>3, <1>6, <3>1, <4>1, LiveAssumption DEF Room
    <3>2. CASE full # s
      BY <1>2, <2>1, <3>2 DEF Room, emission
    <3> QED BY <3>1, <3>2
  <2> QED BY <1>2, <1>4, <2>2 DEF FeedInv, FeedTypes, Between, emission
<1>8. Fed(s)'
  <2>1. Len(chan'[s]) <= SubscriberBuffer
    BY <1>2, <1>3, <1>5, <1>6, LiveAssumption DEF Fed
  <2> QED BY <1>2, <1>5, <1>6, <2>1 DEF Fed, emission
<1>9. ASSUME NEW r \in Subscribers, r # s PROVE Fed(r)'
  <2>1. Fed(r) /\ Sent(r)' = Sent(r)
    BY <1>2 DEF FeedInv, Sent, emission
  <2> QED BY <1>2, <1>9, <2>1 DEF Fed, emission
<1> QED BY <1>1, <1>7, <1>8, <1>9 DEF FeedInv

\* A handler that only moves on, or is no subscriber any longer.
LEMMA LeavingFeeds ==
  ASSUME FeedInv, NEW s \in Subscribers, SeesClose(s) \/ Disconnects(s) \/ Cancel(s)
  PROVE  FeedInv'
<1>1. ChannelsInv'
  BY HandlersKeep DEF FeedInv
<1>2. /\ UNCHANGED <<game, emission, chan, got, lagged>> /\ subscribers' \subseteq subscribers
      /\ \A r \in Subscribers : reader'[r] = "away" => reader[r] = "away"
  BY DEF SeesClose, Disconnects, Cancel, Becomes, FeedInv, ChannelsInv
<1>3. FeedTypes' /\ Between'
  BY <1>2 DEF FeedInv, FeedTypes, Between, Room, emission
<1>4. ASSUME NEW r \in Subscribers PROVE Fed(r)'
  <2>1. Fed(r) /\ Sent(r)' = Sent(r)
    BY <1>2 DEF FeedInv, Sent, emission
  <2> QED BY <1>2, <2>1 DEF Fed, emission
<1> QED BY <1>1, <1>3, <1>4 DEF FeedInv

\* The invariant of the streams holds whatever the subscribers do.
THEOREM FeedInvHolds == Spec => []FeedInv
<1>1. FeedInv /\ [Next]_vars => FeedInv'
  <2> SUFFICES ASSUME FeedInv, [Next]_vars PROVE FeedInv'
    OBVIOUS
  <2>1. CASE UNCHANGED vars
    <3>1. UNCHANGED <<game, emission, subscribers, chan, closed, panicked, readers, lagged>>
      BY <2>1 DEF vars
    <3>2. ChannelsInv' /\ FeedTypes' /\ Between'
      BY <3>1 DEF FeedInv, ChannelsInv, FeedTypes, Between, Room, emission, readers
    <3>3. ASSUME NEW s \in Subscribers PROVE Fed(s)'
      BY <3>1 DEF FeedInv, Fed, Sent, emission, readers
    <3> QED BY <3>2, <3>3 DEF FeedInv
  <2> QED
    BY <2>1, GameFeeds, SubscribeFeeds, ReaderFeeds, LeavingFeeds DEF Next
<1> QED BY <1>1, InitFed, PTL DEF Spec

\* ~panicked alone does not make panicked a Boolean.
PanicType == panicked \in BOOLEAN

LEMMA PanicIsBoolean == Spec => []PanicType
<1>1. Init => PanicType
  BY Zenon DEF Init, PanicType
<1>2. PanicType /\ [Next]_vars => PanicType'
  <2> SUFFICES ASSUME panicked \in BOOLEAN, [Next]_vars PROVE panicked' \in BOOLEAN
    BY DEF PanicType
  <2>1. UNCHANGED panicked \/ panicked' \in BOOLEAN
    BY DEF Next, Game, vars, OnGameStart, Emit, Offer, Send, DropOldest, OfferAgain,
           OnGameEnd, Subscribe, Read, SeesClose, Disconnects, Cancel
  <2> QED BY <2>1
<1> QED BY <1>1, <1>2, PTL DEF Spec

LEMMA FedStreams == FeedInv /\ PanicType => StreamsFaithful
<1> SUFFICES ASSUME FeedInv, panicked \in BOOLEAN PROVE StreamsFaithful
  BY DEF PanicType
<1>1. ASSUME NEW s \in Subscribers
      PROVE  /\ chan[s] \in Seq(Nat) /\ Len(chan[s]) \in Nat
             /\ WellFed(chan[s], got[s], Sent(s), lagged[s]) /\ got[s] \in Nat
             /\ Len(chan[s]) <= SubscriberBuffer
             /\ Sent(s) \in Nat /\ Sent(s) <= packetIdx
             /\ packetIdx \in Nat /\ packetIdx <= MaxPackets /\ MaxPackets \in Nat
  BY LiveAssumption, SentIsNumber, LenProperties DEF FeedInv, FeedTypes, Fed
<1>2. TypeOK
  <2>1. ASSUME NEW s \in Subscribers
        PROVE  chan[s] \in Seq(1..MaxPackets) /\ got[s] \in 0..MaxPackets
    <3>1. \A i \in 1..Len(chan[s]) : chan[s][i] \in 1..MaxPackets
      <4>1. \A i \in 1..Len(chan[s]) : chan[s][i] \in Nat
        BY <1>1, ElementOfSeq
      <4> QED BY <1>1, <4>1 DEF WellFed
    <3>2. chan[s] \in [1..Len(chan[s]) -> 1..MaxPackets]
      BY <1>1, <3>1, LenProperties
    <3>3. got[s] <= Sent(s)
      BY <1>1 DEF WellFed
    <3> QED BY <1>1, <3>2, <3>3
  <2>2. got \in [Subscribers -> 0..MaxPackets]
    BY <2>1 DEF FeedInv, FeedTypes
  <2>3. /\ todo \subseteq subscribers /\ subscribers \subseteq Subscribers
        /\ full \in todo \union {Nobody} /\ closed \in [Subscribers -> BOOLEAN]
        /\ reader \in [Subscribers -> {"away", "reading", "closing", "leaving", "gone"}]
    BY DEF FeedInv, ChannelsInv
  <2> QED BY <1>1, <2>1, <2>2, <2>3 DEF TypeOK, FeedInv, FeedTypes
<1>3. InOrder
  BY <1>1 DEF InOrder, WellFed
<1>4. NewestReaches
  <2>1. ASSUME NEW s \in subscribers \ todo
        PROVE  Newest(chan[s], got[s], packetIdx)
    BY <2>1, LiveAssumption DEF FeedInv, ChannelsInv, Fed, Sent
  <2> QED BY <2>1 DEF NewestReaches, Newest
<1>5. LossOnlyWhenFull
  BY <1>1 DEF LossOnlyWhenFull, WellFed
<1> QED BY <1>2, <1>3, <1>4, <1>5 DEF StreamsFaithful

\* Every subscriber reads growing packet numbers, has the newest packet before
\* it, and misses one only after its channel was full: for any number of
\* subscribers, any capacity of their channels and any length of the game.
THEOREM StreamsTheorem == Spec => []StreamsFaithful
BY FedStreams, FeedInvHolds, PanicIsBoolean, PTL

=============================================================================
