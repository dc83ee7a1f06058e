----------------------------- MODULE Composite ------------------------------
(***************************************************************************)
(* observer/composite.go: a game tells its observers of every event, one   *)
(* after the other in the order of newObserver, and goes on when the last  *)
(* of them has returned.  An event is its kind; "status" stands also for   *)
(* the result, "talk" for all that is played, talks, votes and abilities,  *)
(* and "phase" also for the talks of a group chat.  The modules of the     *)
(* observers extend this one: a call of an observer goes through steps of  *)
(* its own, and they write to files that the games of a process share.  A  *)
(* file is the sequence of its lines.                                      *)
(***************************************************************************)
EXTENDS Naturals, Sequences, FiniteSets, Functions

CONSTANTS
  Games,       \* the games of a process
  FileNames,   \* what the template of a file name can come to
  MaxEvents,   \* bound: the events of a game
  MaxFaults,   \* bound: writes that fail
  Scrap        \* what is no line: the end of a longer content that a shorter one was
               \* written over, the beginning of one whose write failed, or nothing at all

ASSUME CompositeAssumption == MaxEvents \in Nat /\ MaxFaults \in Nat

VARIABLES
  observers,   \* the enabled observers
  lasts,       \* bound: the events of each game that comes, 0 when it is not started
  fileOf,      \* the name of a game's files
  told,        \* the events of each game so far, the one being told included
  todo,        \* the observers that event is still to be told to
  step,        \* where the first of them is in its call
  faults,      \* the number of writes that failed
  stale        \* history: <<o, g>> when a write of o for g failed and was not made up for

config == <<observers, lasts, fileOf>>
composite == <<config, told, todo, step, faults, stale>>

\* What each observer does not leave to NoopObserver.
Heard ==
  [json     |-> {"start", "request", "response", "phase", "end"},
   log      |-> {"start", "status", "talk", "end"},
   realtime |-> {"start", "talk", "end"},
   tts      |-> {"start", "talk", "end"}]

\* The order in which newObserver composes them.
Place == [json |-> 1, log |-> 2, realtime |-> 3, tts |-> 4]

\* The one whose call it is.
Turn(g) == {o \in todo[g] : \A p \in todo[g] : Place[o] <= Place[p]}

Number(g) == Len(told[g])      \* of the event being told
Event(g)  == told[g][Number(g)]

\* A game starts, asks and is answered, plays, and ends.
Follows(g, e) ==
  LET last == IF told[g] = <<>> THEN "none" ELSE Event(g) IN
  /\ last # "end"
  /\ (last = "none") <=> (e = "start")
  /\ (last = "request") <=> (e = "response")
  /\ Number(g) + (IF e = "request" THEN 2 ELSE 1) < lasts[g] \/ e = "end"

\* An event nobody hears is left out.
Notify(g, e) ==
  /\ lasts[g] > 0 /\ todo[g] = {} /\ Follows(g, e)
  /\ told' = [told EXCEPT ![g] = Append(@, e)]
  /\ todo' = [todo EXCEPT ![g] = {o \in observers : e \in Heard[o]}]
  /\ todo'[g] # {}
  /\ UNCHANGED <<config, step, faults, stale>>

At(g, o, s) == o \in Turn(g) /\ step[g] = s

Goes(g, s) ==
  /\ step' = [step EXCEPT ![g] = s]
  /\ UNCHANGED <<config, told, todo>>

Returns(g) ==
  /\ todo' = [todo EXCEPT ![g] = @ \ Turn(g)] /\ step' = [step EXCEPT ![g] = "called"]
  /\ UNCHANGED <<config, told>>

-----------------------------------------------------------------------------
(* Files *)

Well == UNCHANGED <<faults, stale>>

\* A write for this event fails; errors are logged or ignored.
Fails(o, g) ==
  /\ faults < MaxFaults /\ faults' = faults + 1
  /\ stale' = stale \union {<<o, g>>}

\* The file now holds all there is to tell.
Made(o, g) == faults' = faults /\ stale' = stale \ {<<o, g>>}

\* A logger's map of the games that are on.
Known(data) == DOMAIN data
Stored(data, g, content) == [h \in DOMAIN data \union {g} |-> IF h = g THEN content ELSE data[h]]
Deleted(data, g) == Restrict(data, DOMAIN data \ {g})

Emptied(file, g) == [file EXCEPT ![fileOf[g]] = <<>>]

\* What a file may be when content is written to its beginning: another game
\* may have written to it since it was emptied.
Written(file, g, content) ==
  {[file EXCEPT ![fileOf[g]] = c] :
     c \in {content} \union IF file[fileOf[g]] = <<>> THEN {} ELSE {Append(content, Scrap)}}

\* What it may be when that write fails: nothing was written, or a part of it.
Torn(file, g, content) ==
  {file} \union
  {[file EXCEPT ![fileOf[g]] = Append(SubSeq(content, 1, n), Scrap)] : n \in 0..Len(content)}
=============================================================================
