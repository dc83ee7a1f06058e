-------------------------- MODULE ObserversProofs ---------------------------
(***************************************************************************)
(* What holds of the observers and of the files they write, for any games, *)
(* any observers enabled, any file names, any number of events and any     *)
(* number of writes that fail.                                             *)
(***************************************************************************)
EXTENDS Observers, SequenceTheorems, TLAPS

-----------------------------------------------------------------------------
(* Whose call it is *)

Names == {"json", "log", "realtime", "tts"}

LEMMA NamesAre ==
  /\ Names = DOMAIN Place /\ Names = DOMAIN Heard
  /\ \A o, p \in Names : Place[o] \in Nat /\ (Place[o] = Place[p] => o = p)
  /\ \A o \in Names : Heard[o] \subseteq Kinds
<1>1. Names = DOMAIN Place /\ Names = DOMAIN Heard
  BY DEF Names, Place, Heard
<1>2. \A o, p \in Names : Place[o] \in Nat /\ (Place[o] = Place[p] => o = p)
  BY DEF Names, Place
<1>3. \A o \in Names : Heard[o] \subseteq Kinds
  BY <1>1 DEF Kinds
<1> QED BY <1>1, <1>2, <1>3

\* Where an observer is in the call for the event that a game is telling.
Phase(o, g) ==
  IF o \notin todo[g] THEN "out" ELSE IF o \in Turn(g) THEN step[g] ELSE "called"

\* The calls a game has yet to make, and those it makes, are for the last event.
Calls ==
  /\ observers \subseteq Names
  /\ lasts \in [Games -> 0..MaxEvents] /\ fileOf \in [Games -> FileNames]
  /\ told \in [Games -> Seq(Kinds)] /\ todo \in [Games -> SUBSET observers]
  /\ DOMAIN step = Games
  /\ \A g \in Games : todo[g] = {} => step[g] = "called"
  /\ \A g \in Games : \A o \in todo[g] : told[g] # <<>> /\ Event(g) \in Heard[o]

LEMMA TurnIsOne ==
  ASSUME Calls, NEW g \in Games, NEW o \in Turn(g)
  PROVE  Turn(g) = {o} /\ o \in todo[g] /\ o \in Names
<1>1. ASSUME NEW p \in Turn(g) PROVE p = o
  <2>1. o \in Names /\ p \in Names /\ Place[o] <= Place[p] /\ Place[p] <= Place[o]
    BY <1>1 DEF Calls, Turn
  <2> QED BY <2>1, NamesAre
<1> QED BY <1>1 DEF Calls, Turn

\* The call of o for g is at t, and nothing else has moved.
Moves(o, g, t) ==
  /\ Calls' /\ UNCHANGED <<config, told>>
  /\ Phase(o, g)' = t
  /\ \A p, h : h \in Games /\ (p # o \/ h # g) => Phase(p, h)' = Phase(p, h)

LEMMA GoesMoves ==
  ASSUME Calls, NEW g \in Games, NEW o, NEW s, At(g, o, s), NEW t, Goes(g, t)
  PROVE  Moves(o, g, t) /\ Phase(o, g) = s
<1>1. Turn(g) = {o} /\ o \in todo[g] /\ step[g] = s
  BY TurnIsOne DEF At
<1>2. step' = [step EXCEPT ![g] = t] /\ UNCHANGED <<config, told, todo>>
  BY DEF Goes
<1>3. \A h : Turn(h)' = Turn(h)
  BY <1>2 DEF Turn
<1>4. Calls'
  BY <1>1, <1>2 DEF Calls, config, Event, Number
<1>5. \A p, h : h \in Games /\ (p # o \/ h # g) => Phase(p, h)' = Phase(p, h)
  BY <1>1, <1>2, <1>3 DEF Phase, Calls
<1>6. Phase(o, g)' = t /\ Phase(o, g) = s
  BY <1>1, <1>2, <1>3 DEF Phase, Calls
<1> QED BY <1>2, <1>4, <1>5, <1>6 DEF Moves

LEMMA ReturnsMoves ==
  ASSUME Calls, NEW g \in Games, NEW o, NEW s, At(g, o, s), Returns(g)
  PROVE  Moves(o, g, "out") /\ Phase(o, g) = s
<1>1. Turn(g) = {o} /\ o \in todo[g] /\ step[g] = s
  BY TurnIsOne DEF At
<1>2. /\ todo' = [todo EXCEPT ![g] = @ \ {o}] /\ step' = [step EXCEPT ![g] = "called"]
      /\ UNCHANGED <<config, told>>
  BY <1>1 DEF Returns
<1>3. \A h \in Games : h # g => todo'[h] = todo[h] /\ Turn(h)' = Turn(h) /\ step'[h] = step[h]
  BY <1>2 DEF Turn, Calls
<1>4. todo'[g] = todo[g] \ {o} /\ step'[g] = "called"
  BY <1>2 DEF Calls
<1>5. Calls'
  <2>1. observers' = observers /\ lasts' = lasts /\ fileOf' = fileOf /\ told' = told
    BY <1>2 DEF config
  <2>2. todo' \in [Games -> SUBSET observers] /\ DOMAIN step' = Games
    <3>1. todo \in [Games -> SUBSET observers] /\ DOMAIN step = Games
      BY DEF Calls
    <3>2. todo[g] \in SUBSET observers
      BY <3>1
    <3>3. todo[g] \ {o} \in SUBSET observers
      BY <3>2
    <3> QED BY <1>2, <3>1, <3>3
  <2>3. ASSUME NEW h \in Games PROVE todo'[h] = {} => step'[h] = "called"
    BY <1>3, <1>4 DEF Calls
  <2>4. ASSUME NEW h \in Games, NEW p \in todo'[h] PROVE told'[h] # <<>> /\ Event(h)' \in Heard[p]
    <3>1. p \in todo[h]
      BY <1>3, <1>4, <2>4
    <3> QED BY <2>1, <3>1 DEF Calls, Event, Number
  <2> QED BY <2>1, <2>2, <2>3, <2>4 DEF Calls
<1>6. \A p, h : h \in Games /\ (p # o \/ h # g) => Phase(p, h)' = Phase(p, h)
  BY <1>1, <1>3, <1>4 DEF Phase
<1>7. Phase(o, g)' = "out" /\ Phase(o, g) = s
  BY <1>1, <1>4 DEF Phase
<1> QED BY <1>2, <1>5, <1>6, <1>7 DEF Moves

\* An event is told when everybody has returned; who hears it is called.
LEMMA NotifyMoves ==
  ASSUME Calls, NEW g \in Games, NEW e \in Kinds, Notify(g, e)
  PROVE  /\ Calls' /\ UNCHANGED <<config, faults, stale>>
         /\ told' = [told EXCEPT ![g] = Append(@, e)]
         /\ Number(g)' = Number(g) + 1 /\ Event(g)' = e /\ Number(g) \in Nat
         /\ \A n \in 1..Number(g) : told'[g][n] = told[g][n]
         /\ \A h \in Games : h # g => told'[h] = told[h] /\ Number(h)' = Number(h) /\ Event(h)' = Event(h)
         /\ \A p : Phase(p, g) = "out"
         /\ \A p : Phase(p, g)' = IF p \in observers /\ e \in Heard[p] THEN "called" ELSE "out"
         /\ \A p, h : h \in Games /\ h # g => Phase(p, h)' = Phase(p, h)
<1> DEFINE called == {o \in observers : e \in Heard[o]}
<1>1. /\ todo[g] = {} /\ told' = [told EXCEPT ![g] = Append(@, e)]
      /\ todo' = [todo EXCEPT ![g] = called]
      /\ UNCHANGED <<config, step, faults, stale>>
  BY DEF Notify
<1>2. told[g] \in Seq(Kinds) /\ told'[g] = Append(told[g], e)
  BY <1>1 DEF Calls
<1>3. /\ Number(g)' = Number(g) + 1 /\ Number(g) \in Nat /\ told'[g] \in Seq(Kinds) /\ told'[g] # <<>>
      /\ told'[g][Number(g) + 1] = e /\ \A n \in 1..Number(g) : told'[g][n] = told[g][n]
  BY <1>2, AppendProperties, LenProperties DEF Number
<1>4. Event(g)' = e
  BY <1>3 DEF Event, Number
<1>5. \A h \in Games : h # g => /\ told'[h] = told[h] /\ Number(h)' = Number(h) /\ Event(h)' = Event(h)
                                /\ todo'[h] = todo[h] /\ Turn(h)' = Turn(h) /\ step'[h] = step[h]
  BY <1>1 DEF Calls, Number, Event, Turn
<1>6. todo'[g] = called /\ step'[g] = "called" /\ called \in SUBSET observers
  BY <1>1 DEF Calls
<1>7. Calls'
  <2>1. observers' = observers /\ lasts' = lasts /\ fileOf' = fileOf /\ step' = step
    BY <1>1 DEF config
  <2>2. told' \in [Games -> Seq(Kinds)]
    BY <1>1, <1>2, <1>3 DEF Calls
  <2>3. todo' \in [Games -> SUBSET observers]
    BY <1>1, <1>6 DEF Calls
  <2>4. ASSUME NEW h \in Games PROVE todo'[h] = {} => step'[h] = "called"
    BY <1>5, <1>6 DEF Calls
  <2>5. ASSUME NEW h \in Games, NEW p \in todo'[h] PROVE told'[h] # <<>> /\ Event(h)' \in Heard[p]
    <3>1. CASE h = g
      BY <1>3, <1>4, <1>6, <2>5, <3>1
    <3>2. CASE h # g
      BY <1>5, <2>5, <3>2 DEF Calls
    <3> QED BY <3>1, <3>2
  <2> QED BY <2>1, <2>2, <2>3, <2>4, <2>5 DEF Calls
<1>8. /\ \A p : Phase(p, g) = "out"
      /\ \A p : Phase(p, g)' = IF p \in observers /\ e \in Heard[p] THEN "called" ELSE "out"
      /\ \A p, h : h \in Games /\ h # g => Phase(p, h)' = Phase(p, h)
  BY <1>1, <1>5, <1>6 DEF Phase
<1> QED BY <1>1, <1>3, <1>4, <1>5, <1>7, <1>8

-----------------------------------------------------------------------------
(* Records *)

\* A record with these lines.
Lists(ls, lines) == ls \in Seq(lines) /\ Holds(ls, lines)

Numbered(lines) == \A l \in lines : l[2] \in Nat

LEMMA ListsNothing == Lists(<<>>, {})
<1>1. <<>> \in Seq({}) /\ Range(<<>>) = {} /\ Len(<<>>) = 0
  BY EmptySeq DEF Range
<1> QED BY <1>1 DEF Lists, Holds, Ordered

LEMMA OrderedAppend ==
  ASSUME NEW lines, Numbered(lines), NEW ls \in Seq(lines), Ordered(ls),
         NEW l, l[2] \in Nat, \A x \in lines : x[2] < l[2]
  PROVE  /\ Append(ls, l) \in Seq(lines \union {l}) /\ Ordered(Append(ls, l))
         /\ Range(Append(ls, l)) = Range(ls) \union {l}
<1> DEFINE more == Append(ls, l)
<1>0. ls \in Seq(lines \union {l})
  BY SeqMonotonic
<1>1. /\ more \in Seq(lines \union {l}) /\ Len(more) = Len(ls) + 1 /\ more[Len(ls) + 1] = l
      /\ \A n \in 1..Len(ls) : more[n] = ls[n]
  BY <1>0, AppendProperties
<1>2. Len(ls) \in Nat /\ DOMAIN ls = 1..Len(ls) /\ DOMAIN more = 1..Len(ls) + 1
      /\ \A n \in 1..Len(ls) : ls[n] \in lines
  BY <1>1, LenProperties, ElementOfSeq
<1> HIDE DEF more
<1>3. Ordered(more)
  BY <1>1, <1>2 DEF Ordered, Numbered
<1>4. Range(more) = Range(ls) \union {l}
  <2>1. \A x : x \in Range(more) <=> \E n \in 1..Len(ls) + 1 : x = more[n]
    BY <1>2 DEF Range
  <2>2. \A x : x \in Range(ls) <=> \E n \in 1..Len(ls) : x = ls[n]
    BY <1>2 DEF Range
  <2> QED BY <1>1, <1>2, <2>1, <2>2
<1> QED BY <1>1, <1>3, <1>4 DEF more

LEMMA ListsAppend ==
  ASSUME NEW lines, Numbered(lines), NEW ls, Lists(ls, lines),
         NEW l, l[2] \in Nat, \A x \in lines : x[2] < l[2]
  PROVE  Lists(Append(ls, l), lines \union {l})
BY OrderedAppend DEF Lists, Holds

\* A file that is one of these records, and one with the beginning of a further line.
Cut(file, records) == \E lines \in records : Lists(file, lines)
Ripped(file, records) == \E ls : file = Append(ls, Scrap) /\ Cut(ls, records)

LEMMA CutGrows ==
  ASSUME NEW records, NEW more, records \subseteq more
  PROVE  \A file : /\ Cut(file, records) => Cut(file, more)
                   /\ Ripped(file, records) => Ripped(file, more)
<1>1. \A file : Cut(file, records) => Cut(file, more)
  BY DEF Cut
<1> QED BY <1>1 DEF Ripped

\* The beginning of a record is a record of what has come first.
LEMMA ListsBegin ==
  ASSUME NEW lines, Numbered(lines), NEW ls, Lists(ls, lines), NEW n \in 1..Len(ls)
  PROVE  Lists(SubSeq(ls, 1, n), UpTo(lines, ls[n][2])) /\ ls[n] \in lines
<1> DEFINE part == SubSeq(ls, 1, n)
           some == UpTo(lines, ls[n][2])
<1>1. /\ ls \in Seq(lines) /\ Len(ls) \in Nat /\ DOMAIN ls = 1..Len(ls)
      /\ \A i \in 1..Len(ls) : ls[i] \in lines /\ ls[i][2] \in Nat
      /\ \A i, j \in 1..Len(ls) : i < j => ls[i][2] < ls[j][2]
  BY LenProperties, ElementOfSeq DEF Lists, Holds, Ordered, Numbered
<1>2. n \in Nat /\ n <= Len(ls)
  BY <1>1
<1>3. Len(part) = n /\ \A i \in 1..n : part[i] = ls[i]
  BY <1>1, <1>2, SubSeqProperties
<1>4. \A i \in 1..n : part[i] \in some
  <2>1. ASSUME NEW i \in 1..n PROVE ls[i] \in lines /\ ls[i][2] <= ls[n][2]
    <3>1. i \in 1..Len(ls) /\ (i = n \/ i < n)
      BY <1>2
    <3> QED BY <1>1, <3>1
  <2> QED BY <1>3, <2>1 DEF UpTo
<1>5. part \in Seq(lines)
  BY <1>1, <1>2, SubSeqProperties
<1>6. DOMAIN part = 1..n
  BY <1>3, <1>5, LenProperties
<1> HIDE DEF part, some
<1>7. part \in Seq(some)
  <2>1. part = [i \in 1..n |-> part[i]]
    BY <1>5, <1>6
  <2> QED BY <1>2, <1>4, <2>1, SeqDef
<1>8. Range(part) = some
  <2>1. ASSUME NEW l \in some PROVE \E i \in 1..n : l = part[i]
    <3>1. l \in Range(ls) /\ l[2] <= ls[n][2]
      BY <2>1 DEF some, UpTo, Lists, Holds
    <3>2. PICK i \in 1..Len(ls) : l = ls[i]
      BY <1>1, <3>1 DEF Range
    <3>3. i <= n
      <4>1. ~ (n < i)
        BY <1>1, <3>1, <3>2
      <4> QED BY <1>2, <3>2, <4>1
    <3> QED BY <1>2, <1>3, <3>2, <3>3
  <2> QED BY <1>4, <1>6, <2>1 DEF Range
<1>9. Ordered(part)
  BY <1>1, <1>2, <1>3 DEF Ordered
<1> QED BY <1>1, <1>7, <1>8, <1>9 DEF Lists, Holds, part, some

\* Lines in order, with gaps, and scraps among them.
Sparse(ls, lines) ==
  /\ ls \in Seq(lines \union {Scrap})
  /\ \A i, j \in 1..Len(ls) : i < j /\ ls[i] # Scrap /\ ls[j] # Scrap => ls[i][2] < ls[j][2]

LEMMA SparseNothing == \A lines : Sparse(<<>>, lines)
<1>1. ASSUME NEW lines PROVE Sparse(<<>>, lines)
  <2>1. <<>> \in Seq(lines \union {Scrap}) /\ 1..Len(<<>>) = {}
    BY EmptySeq
  <2> QED BY <2>1 DEF Sparse
<1> QED BY <1>1

LEMMA ListsSparse ==
  ASSUME NEW ls, NEW lines, Lists(ls, lines)
  PROVE  Sparse(ls, lines)
<1>1. ls \in Seq(lines \union {Scrap})
  BY SeqMonotonic DEF Lists
<1> QED BY <1>1 DEF Lists, Holds, Ordered, Sparse

LEMMA SparseMore ==
  ASSUME NEW ls, NEW lines, NEW more, lines \subseteq more, Sparse(ls, lines)
  PROVE  Sparse(ls, more)
<1>1. lines \union {Scrap} \subseteq more \union {Scrap}
  OBVIOUS
<1>2. ls \in Seq(more \union {Scrap})
  BY <1>1, SeqMonotonic DEF Sparse
<1> QED BY <1>2 DEF Sparse

LEMMA SparseAppend ==
  ASSUME NEW lines, NEW ls, Sparse(ls, lines),
         NEW l, \A x \in lines : x[2] < l[2]
  PROVE  Sparse(Append(ls, l), lines \union {l})
<1> DEFINE more == Append(ls, l)
           all == lines \union {l} \union {Scrap}
<1>1. ls \in Seq(lines \union {Scrap}) /\ Len(ls) \in Nat /\ \A i \in 1..Len(ls) : ls[i] \in lines \union {Scrap}
  BY LenProperties, ElementOfSeq DEF Sparse
<1>2. ls \in Seq(all) /\ l \in all
  BY <1>1, SeqMonotonic
<1> HIDE DEF all
<1>3. /\ more \in Seq(all) /\ Len(more) = Len(ls) + 1 /\ more[Len(ls) + 1] = l
      /\ \A i \in 1..Len(ls) : more[i] = ls[i]
  BY <1>2, AppendProperties
<1> HIDE DEF more
<1>4. ASSUME NEW i \in 1..Len(more), NEW j \in 1..Len(more), i < j, more[i] # Scrap, more[j] # Scrap
      PROVE  more[i][2] < more[j][2]
  <2>1. i \in 1..Len(ls) /\ (j \in 1..Len(ls) \/ j = Len(ls) + 1)
    BY <1>1, <1>3, <1>4
  <2>2. CASE j \in 1..Len(ls)
    BY <1>3, <1>4, <2>1, <2>2 DEF Sparse
  <2>3. CASE j = Len(ls) + 1
    BY <1>1, <1>3, <1>4, <2>1, <2>3
  <2> QED BY <2>1, <2>2, <2>3
<1>5. (lines \union {l}) \union {Scrap} = all
  BY DEF all
<1> QED BY <1>3, <1>4, <1>5 DEF Sparse, more

LEMMA SparseScrap ==
  ASSUME NEW lines, NEW ls, Sparse(ls, lines)
  PROVE  Sparse(Append(ls, Scrap), lines)
<1> DEFINE more == Append(ls, Scrap)
           all == lines \union {Scrap}
<1>1. ls \in Seq(all) /\ Len(ls) \in Nat /\ Scrap \in all
  BY LenProperties DEF Sparse
<1> HIDE DEF all
<1>2. /\ more \in Seq(all) /\ Len(more) = Len(ls) + 1 /\ more[Len(ls) + 1] = Scrap
      /\ \A i \in 1..Len(ls) : more[i] = ls[i]
  BY <1>1, AppendProperties
<1> HIDE DEF more
<1>3. ASSUME NEW i \in 1..Len(more), NEW j \in 1..Len(more), i < j, more[i] # Scrap, more[j] # Scrap
      PROVE  more[i][2] < more[j][2]
  <2>1. i \in 1..Len(ls) /\ j \in 1..Len(ls)
    BY <1>1, <1>2, <1>3
  <2> QED BY <1>2, <1>3, <2>1 DEF Sparse
<1> QED BY <1>2, <1>3 DEF Sparse, all, more

LEMMA SparseBegin ==
  ASSUME NEW lines, NEW ls, Sparse(ls, lines), NEW n \in 0..Len(ls)
  PROVE  Sparse(SubSeq(ls, 1, n), lines)
<1> DEFINE part == SubSeq(ls, 1, n)
           all == lines \union {Scrap}
<1>1. ls \in Seq(all) /\ Len(ls) \in Nat /\ \A i \in 1..Len(ls) : ls[i] \in all
  BY LenProperties, ElementOfSeq DEF Sparse
<1>2. n \in Nat /\ n <= Len(ls) /\ \A i \in 1..n : i \in 1..Len(ls)
  BY <1>1
<1> HIDE DEF all
<1>3. CASE n = 0
  <2>1. part = <<>>
    BY <1>3, SubSeqEmpty
  <2> QED BY <2>1, SparseNothing
<1>4. CASE n # 0
  <2>1. part \in Seq(all) /\ Len(part) = n /\ \A i \in 1..n : part[i] = ls[i]
    BY <1>1, <1>2, <1>4, SubSeqProperties
  <2> HIDE DEF part
  <2>2. ASSUME NEW i \in 1..Len(part), NEW j \in 1..Len(part), i < j, part[i] # Scrap, part[j] # Scrap
        PROVE  part[i][2] < part[j][2]
    BY <1>2, <2>1, <2>2 DEF Sparse
  <2> QED BY <2>1, <2>2 DEF Sparse, all, part
<1> QED BY <1>3, <1>4

-----------------------------------------------------------------------------
(* What is to be recorded *)

KindsOf(o) ==
  CASE o = "json" -> {"response", "phase", "end"}
    [] o = "log" -> {"status", "talk"}
    [] OTHER -> {"start", "talk", "end"}

LineOf(o, g, n) == IF o = "json" THEN JSONLine(g, n) ELSE <<g, n>>

Lines(o, g) == {LineOf(o, g, n) : n \in Told(g, KindsOf(o))}

\* The lines of o for the first n events of g.
First(o, g, n) == UpTo(Lines(o, g), n)

\* What its file can be when it has taken in so many.
Records(o, g, n) == {First(o, g, k) : k \in 0..n}

\* A game starts with its first event and has room for the events that must follow.
Stories ==
  \A g \in Games :
    /\ Number(g) <= lasts[g]
    /\ told[g] # <<>> /\ Event(g) # "end" => Number(g) < lasts[g]
    /\ told[g] # <<>> /\ Event(g) = "request" => Number(g) + 1 < lasts[g]
    /\ \A n \in 1..Number(g) : told[g][n] = "start" => n = 1

-----------------------------------------------------------------------------
(* The two loggers *)

Loggers == {"json", "log"}

DataOf(o) == IF o = "json" THEN jsonData ELSE logData
FileOf(o) == IF o = "json" THEN jsonFile ELSE logFile

\* The events that a logger has taken in.
Seen(o, g) == IF Phase(o, g) = "called" THEN Number(g) - 1 ELSE Number(g)

\* The entries of a game in memory are those of the events it has taken in.
DataRight(o, g) ==
  g \in DOMAIN DataOf(o) =>
    /\ o \in observers /\ told[g] # <<>>
    /\ Lists(DataOf(o)[g], First(o, g, Seen(o, g)))

\* A file of its own is up to date unless it is being written or a write failed,
\* which may have torn it.
FileRight(o, g) ==
  LET file == FileOf(o)[fileOf[g]]
      records == Records(o, g, Seen(o, g))
  IN
  Own(g) =>
    /\ Cut(file, records) \/ (<<o, g>> \in stale /\ Ripped(file, records))
    /\ Phase(o, g) = "write" => file = <<>>
    /\ Phase(o, g) \in {"called", "out"} /\ o \in observers /\ <<o, g>> \notin stale =>
         Lists(file, First(o, g, Seen(o, g)))

Book(o, g) ==
  /\ Phase(o, g) \in {"called", "save", "write", "out"}
  /\ Phase(o, g) \in {"save", "write"} => g \in DOMAIN DataOf(o)
  /\ DataRight(o, g) /\ FileRight(o, g)

\* A request waits beside its event for the response that comes next.
Asked(g) ==
  "json" \in observers /\ told[g] # <<>> =>
    /\ Event(g) = "request" /\ Phase("json", g) # "called" => requestMap[g] = Number(g)
    /\ Event(g) = "response" /\ Phase("json", g) = "called" => requestMap[g] = Number(g) - 1

Books ==
  /\ DOMAIN jsonData \subseteq Games /\ DOMAIN logData \subseteq Games
  /\ requestMap \in [Games -> Nat]
  /\ DOMAIN jsonFile = FileNames /\ DOMAIN logFile = FileNames
  /\ \A g \in Games : Asked(g) /\ \A o \in Loggers : Book(o, g)

-----------------------------------------------------------------------------
(* The packets and the list of games *)

RT(g) == Phase("realtime", g)

\* The packets that have been gathered, and those that have gone to the file.
Gathered(g) == IF RT(g) \in {"called", "emit"} THEN Number(g) - 1 ELSE Number(g)
Sent(g) == IF RT(g) \in {"called", "emit", "append"} THEN Number(g) - 1 ELSE Number(g)

Packed(g) ==
  g \in DOMAIN rtData =>
    /\ "realtime" \in observers /\ told[g] # <<>>
    /\ Lists(rtData[g], First("realtime", g, Gathered(g)))
    /\ RT(g) = "append" => rtData[g] # <<>> /\ rtData[g][Len(rtData[g])] = <<g, Number(g)>>

Appended(g) ==
  LET file == rtFile[fileOf[g]] IN
  Own(g) =>
    /\ Sparse(file, First("realtime", g, Sent(g)))
    /\ RT(g) = "write" \/ "realtime" \notin observers => file = <<>>
    /\ RT(g) # "write" /\ "realtime" \in observers /\ <<"realtime", g>> \notin stale =>
         Lists(file, First("realtime", g, Sent(g)))

RTPhases ==
  {"called", "emit", "append", "write", "list", "listOpen", "listWrite", "close", "out"}

Pack(g) ==
  /\ RT(g) \in RTPhases
  /\ RT(g) \notin {"called", "out"} => g \in DOMAIN rtData
  /\ RT(g) = "emit" => Event(g) = "start"
  /\ RT(g) = "close" => Event(g) = "end"
  /\ g \in closing =>
       Event(g) = "end" /\ RT(g) \in {"write", "list", "listOpen", "listWrite"}
  /\ Packed(g) /\ Appended(g)

Packs ==
  /\ DOMAIN rtData \subseteq Games /\ DOMAIN rtFile = FileNames /\ closing \subseteq Games
  /\ \A g \in Games : Pack(g)

\* The games that are on and have been through the list.
Due(g) == g \in DOMAIN rtData /\ (Event(g) # "start" \/ RT(g) = "out")

InList(g) == RT(g) \in {"listOpen", "listWrite"}

ListSound ==
  /\ items \in [Games -> SUBSET Games] /\ list.games \subseteq Games /\ list.whole \in BOOLEAN
  /\ list = [games |-> list.games, whole |-> list.whole]
  /\ alone =>
       /\ \A g, h \in Games : InList(g) /\ InList(h) => g = h
       /\ (\A g \in Games : ~InList(g)) => list.whole /\ \A h \in Games : Due(h) => h \in list.games
       /\ \A g \in Games : InList(g) =>
            /\ g \in items[g] /\ \A h \in Games : Due(h) => h \in items[g]
            /\ RT(g) = "listWrite" => list.games = {}

-----------------------------------------------------------------------------
(* The streams *)

TT(g) == Phase("tts", g)

Places == {"synthesis", "convert", "add", "write", "over"}

\* The speeches that have a segment, and those that are in the playlist.
Numbering(g, n) == n \in DOMAIN speeches[g] /\ speeches[g][n].at \in {"convert", "add", "write"}
Entered(g, n) == n \in DOMAIN speeches[g] /\ speeches[g][n].at \in {"write", "over"}

SpeechesRight(g) ==
  /\ speeches[g] \in [DOMAIN speeches[g] -> [at : Places, segment : Nat]]
  /\ DOMAIN speeches[g] \subseteq 1..Number(g)
  /\ TT(g) \in {"called", "create", "speak"} => Number(g) \notin DOMAIN speeches[g]
  /\ DOMAIN speeches[g] # {} => g \in DOMAIN playlists
  /\ ~async => \A n \in DOMAIN speeches[g] :
       speeches[g][n].at # "over" => n = Number(g) /\ TT(g) = "wait"
  /\ \A n \in DOMAIN speeches[g] : Numbering(g, n) => speeches[g][n].segment < counter[g]
  /\ \A m, n \in DOMAIN speeches[g] :
       Numbering(g, m) /\ Numbering(g, n) /\ speeches[g][m].segment = speeches[g][n].segment => m = n
  /\ playlistMu[g] \in Nat
  /\ \A n \in DOMAIN speeches[g] : speeches[g][n].at = "write" <=> playlistMu[g] = n
  /\ playlistMu[g] = Unlocked \/ playlistMu[g] \in DOMAIN speeches[g]

PlaylistRight(g) ==
  LET entries == playlists[g] IN
  g \in DOMAIN playlists =>
    /\ told[g] # <<>> /\ entries \in Seq(Nat \X Nat)
    /\ \A i \in 1..Len(entries) :
         /\ entries[i][1] < counter[g] /\ Entered(g, entries[i][2])
         /\ \A n \in DOMAIN speeches[g] :
              speeches[g][n].at \in {"convert", "add"} => speeches[g][n].segment # entries[i][1]
    /\ \A i, j \in 1..Len(entries) : i # j => entries[i][1] # entries[j][1] /\ entries[i][2] # entries[j][2]
    /\ ~async => \A i, j \in 1..Len(entries) : i < j => entries[i][2] < entries[j][2]
    /\ TT(g) = "create" => entries = <<>> /\ DOMAIN speeches[g] = {}

\* The segment k of g is the speech n, if the clean-up has not taken it.
Keeps(g, k, n) == k \in taken[g] \/ (k \in DOMAIN segments[g] /\ segments[g][k] = n)

FilesRight(g) ==
  g \in DOMAIN playlists =>
    /\ g \in dirs \/ g \in swept
    /\ \A i \in 1..Len(playlists[g]) : Keeps(g, playlists[g][i][1], playlists[g][i][2])
    /\ \A n \in DOMAIN speeches[g] :
         speeches[g][n].at \in {"add", "write"} => Keeps(g, speeches[g][n].segment, n)
    /\ playlistMu[g] = Unlocked /\ TT(g) # "create" =>
         g \in swept \/ <<"tts", g>> \in stale \/ m3u8[g] = playlists[g]

Stream(g) ==
  /\ TT(g) = "create" => g \in DOMAIN playlists
  /\ SpeechesRight(g) /\ PlaylistRight(g) /\ FilesRight(g)

Streams ==
  /\ async \in BOOLEAN /\ DOMAIN playlists \subseteq Games
  /\ counter \in [Games -> Nat] /\ playlistMu \in [Games -> Nat]
  /\ DOMAIN speeches = Games /\ DOMAIN segments = Games /\ DOMAIN m3u8 = Games
  /\ DOMAIN taken = Games
  /\ \A g \in Games : Stream(g)

IInv ==
  /\ Calls /\ Stories /\ faults \in 0..MaxFaults
  /\ Books /\ Packs /\ ListSound /\ Streams

-----------------------------------------------------------------------------
(* The lines of the first events *)

LEMMA LineAt ==
  ASSUME NEW o, NEW g, NEW n
  PROVE  LineOf(o, g, n)[2] = n
BY DEF LineOf, JSONLine

LEMMA FirstIs ==
  ASSUME NEW o, NEW g, NEW k, NEW l
  PROVE  l \in First(o, g, k) <=>
           \E n \in 1..Number(g) : told[g][n] \in KindsOf(o) /\ n <= k /\ l = LineOf(o, g, n)
<1>1. l \in Lines(o, g) <=> \E n \in 1..Number(g) : told[g][n] \in KindsOf(o) /\ l = LineOf(o, g, n)
  BY DEF Lines, Told
<1> QED BY <1>1, LineAt DEF First, UpTo

LEMMA FirstNumbered ==
  ASSUME Calls, NEW o, NEW g \in Games, NEW k \in Nat
  PROVE  Numbered(First(o, g, k)) /\ \A l \in First(o, g, k) : l[2] \in 1..k
<1>1. Number(g) \in Nat
  BY LenProperties DEF Calls, Number
<1>2. ASSUME NEW l \in First(o, g, k) PROVE l[2] \in 1..k
  BY <1>1, <1>2, FirstIs, LineAt
<1> QED BY <1>2 DEF Numbered

LEMMA FirstZero ==
  ASSUME Calls, NEW o, NEW g \in Games
  PROVE  First(o, g, 0) = {}
BY FirstNumbered

LEMMA FirstNext ==
  ASSUME Calls, NEW o, NEW g \in Games, NEW n \in 1..Number(g)
  PROVE  First(o, g, n) = First(o, g, n - 1) \union
                            IF told[g][n] \in KindsOf(o) THEN {LineOf(o, g, n)} ELSE {}
<1>1. Number(g) \in Nat /\ n \in Nat
  BY LenProperties DEF Calls, Number
<1>2. ASSUME NEW l
      PROVE  l \in First(o, g, n) <=> \/ l \in First(o, g, n - 1)
                                      \/ (told[g][n] \in KindsOf(o) /\ l = LineOf(o, g, n))
  <2>1. \A m \in 1..Number(g) : m <= n <=> m <= n - 1 \/ m = n
    BY <1>1
  <2>2. l \in First(o, g, n) <=>
          \E m \in 1..Number(g) : told[g][m] \in KindsOf(o) /\ m <= n /\ l = LineOf(o, g, m)
    BY FirstIs
  <2>3. l \in First(o, g, n - 1) <=>
          \E m \in 1..Number(g) : told[g][m] \in KindsOf(o) /\ m <= n - 1 /\ l = LineOf(o, g, m)
    BY FirstIs
  <2>4. \A m \in 1..Number(g) : m <= n <=> m <= n - 1 \/ m = n
    BY <2>1
  <2>5. CASE l \in First(o, g, n)
    <3>1. PICK m \in 1..Number(g) : told[g][m] \in KindsOf(o) /\ m <= n /\ l = LineOf(o, g, m)
      BY <2>2, <2>5
    <3>2. m <= n - 1 \/ m = n
      BY <2>1, <3>1
    <3>3. CASE m <= n - 1
      BY <2>3, <2>5, <3>1, <3>3
    <3>4. CASE m = n
      BY <2>5, <3>1, <3>4
    <3> QED BY <3>2, <3>3, <3>4
  <2>6. CASE l \notin First(o, g, n)
    <3>1. ~ (told[g][n] \in KindsOf(o) /\ l = LineOf(o, g, n))
      BY <1>1, <2>2, <2>6
    <3>2. l \notin First(o, g, n - 1)
      BY <2>1, <2>2, <2>3, <2>6
    <3> QED BY <2>6, <3>1, <3>2
  <2> QED BY <2>5, <2>6
<1>3. CASE told[g][n] \in KindsOf(o)
  <2> DEFINE old == First(o, g, n - 1)  new == First(o, g, n)  line == LineOf(o, g, n)
  <2>1. \A l : l \in new <=> l \in old \/ l = line
    BY <1>2, <1>3
  <2> HIDE DEF old, new, line
  <2>2. new = old \union {line}
    BY <2>1
  <2> QED BY <1>3, <2>2 DEF old, new, line
<1>4. CASE told[g][n] \notin KindsOf(o)
  <2> DEFINE old == First(o, g, n - 1)  new == First(o, g, n)
  <2>1. \A l : l \in new <=> l \in old
    BY <1>2, <1>4
  <2> HIDE DEF old, new
  <2>2. new = old
    BY <2>1
  <2> QED BY <1>4, <2>2 DEF old, new
<1> QED BY <1>3, <1>4

LEMMA FirstAll ==
  ASSUME Calls, NEW o, NEW g \in Games
  PROVE  First(o, g, Number(g)) = Lines(o, g)
<1>1. Number(g) \in Nat
  BY LenProperties DEF Calls, Number
<1>2. \A l \in Lines(o, g) : l[2] <= Number(g)
  BY <1>1, LineAt DEF Lines, Told
<1> QED BY <1>2 DEF First, UpTo

LEMMA LinesAre ==
  ASSUME NEW g
  PROVE  /\ Lines("json", g) = JSONLines(g) /\ Lines("log", g) = LogLines(g)
         /\ Lines("realtime", g) = Packets(g)
BY DEF Lines, LineOf, KindsOf, JSONLines, LogLines, Packets

LEMMA FirstSame ==
  ASSUME NEW o, NEW g, told'[g] = told[g]
  PROVE  /\ Number(g)' = Number(g) /\ Event(g)' = Event(g)
         /\ \A k : First(o, g, k)' = First(o, g, k)
<1>1. Number(g)' = Number(g) /\ Event(g)' = Event(g)
  BY DEF Number, Event
<1>2. Lines(o, g)' = Lines(o, g)
  BY <1>1 DEF Lines, LineOf, JSONLine, Told
<1> QED BY <1>1, <1>2 DEF First, UpTo

\* What has been told does not change.
LEMMA FirstOld ==
  ASSUME Calls, NEW o, NEW g \in Games, NEW e \in Kinds, Notify(g, e)
  PROVE  /\ \A k \in 0..Number(g) : First(o, g, k)' = First(o, g, k)
         /\ First(o, g, Number(g))' = First(o, g, Number(g)) \union
              IF e \in KindsOf(o) THEN {LineOf(o, g, Number(g))'} ELSE {}
<1>1. /\ Calls' /\ Number(g)' = Number(g) + 1 /\ Number(g) \in Nat /\ told'[g][Number(g) + 1] = e
      /\ \A n \in 1..Number(g) : told'[g][n] = told[g][n]
  BY NotifyMoves DEF Event, Number
<1>2. \A n \in 1..Number(g) : LineOf(o, g, n)' = LineOf(o, g, n)
  BY <1>1 DEF LineOf, JSONLine
<1>4. ASSUME NEW k, NEW l
      PROVE  l \in First(o, g, k)' <=>
               \E n \in 1..Number(g)' : told'[g][n] \in KindsOf(o) /\ n <= k /\ l = LineOf(o, g, n)'
  <2>1. \A n : LineOf(o, g, n)'[2] = n
    BY DEF LineOf, JSONLine
  <2>2. l \in Lines(o, g)' <=>
          \E n \in 1..Number(g)' : told'[g][n] \in KindsOf(o) /\ l = LineOf(o, g, n)'
    BY DEF Lines, Told
  <2> QED BY <2>1, <2>2 DEF First, UpTo
<1>3. ASSUME NEW k \in 0..Number(g) PROVE First(o, g, k)' = First(o, g, k)
  <2>1. ASSUME NEW l PROVE l \in First(o, g, k)' <=> l \in First(o, g, k)
    <3>1. \A n \in 1..Number(g)' : n <= k => n \in 1..Number(g)
      BY <1>1
    <3>2. l \in First(o, g, k) <=>
            \E n \in 1..Number(g) : told[g][n] \in KindsOf(o) /\ n <= k /\ l = LineOf(o, g, n)
      BY FirstIs
    <3> QED BY <1>1, <1>2, <1>4, <3>1, <3>2
  <2> QED BY <2>1
<1>5. ASSUME NEW l
      PROVE  l \in First(o, g, Number(g))' <=>
               \/ l \in First(o, g, Number(g))
               \/ (e \in KindsOf(o) /\ l = LineOf(o, g, Number(g))')
  <2> DEFINE k == Number(g)
  <2>1. \A n : n \in 1..Number(g)' <=> n \in 1..k \/ n = k + 1
    BY <1>1
  <2>2. l \in First(o, g, k) <=>
          \E n \in 1..k : told[g][n] \in KindsOf(o) /\ n <= k /\ l = LineOf(o, g, n)
    BY FirstIs
  <2>3. l \in First(o, g, k)' <=>
          \E n \in 1..k' : told'[g][n] \in KindsOf(o) /\ n <= k' /\ l = LineOf(o, g, n)'
    <3> DEFINE top == k'
    <3>1. l \in First(o, g, k)' <=>
            \E n \in 1..Number(g)' : told'[g][n] \in KindsOf(o) /\ n <= top /\ l = LineOf(o, g, n)'
      BY DEF First, UpTo, Lines, Told, LineOf, JSONLine
    <3> QED BY <3>1
  <2>4. LineOf(o, g, k)' = IF o = "json" THEN JSONLine(g, k)' ELSE <<g, k'>>
    BY DEF LineOf
  <2> QED BY <1>1, <1>2, <2>1, <2>2, <2>3
<1> QED BY <1>1, <1>3, <1>5

-----------------------------------------------------------------------------
(* Steps *)

\* A step of o for g: nothing but it has moved.
Marks(o, g) ==
  /\ faults \in 0..MaxFaults => faults' \in 0..MaxFaults
  /\ \A p, h : p # o \/ h # g => (<<p, h>> \in stale' <=> <<p, h>> \in stale)

LEMMA MarksAre ==
  ASSUME CompositeAssumption, NEW o, NEW g
  PROVE  /\ Well => Marks(o, g) /\ (<<o, g>> \in stale' <=> <<o, g>> \in stale)
         /\ Fails(o, g) => Marks(o, g) /\ <<o, g>> \in stale'
         /\ Made(o, g) => Marks(o, g) /\ <<o, g>> \notin stale'
<1>1. \A p, h : p # o \/ h # g => <<p, h>> # <<o, g>>
  OBVIOUS
<1>2. Well => Marks(o, g) /\ (<<o, g>> \in stale' <=> <<o, g>> \in stale)
  BY DEF Well, Marks
<1>3. Fails(o, g) => Marks(o, g) /\ <<o, g>> \in stale'
  BY <1>1, CompositeAssumption DEF Fails, Marks, CompositeAssumption
<1>4. Made(o, g) => Marks(o, g) /\ <<o, g>> \notin stale'
  BY <1>1 DEF Made, Marks
<1> QED BY <1>2, <1>3, <1>4

\* A logger is where it was with g, and so are its entries and its file.
Kept(o, g) ==
  /\ UNCHANGED config /\ told'[g] = told[g] /\ Phase(o, g)' = Phase(o, g)
  /\ <<o, g>> \in stale' <=> <<o, g>> \in stale
  /\ g \in (DOMAIN DataOf(o))' <=> g \in DOMAIN DataOf(o)
  /\ g \in DOMAIN DataOf(o) => DataOf(o)'[g] = DataOf(o)[g]
  /\ Own(g) => FileOf(o)'[fileOf[g]] = FileOf(o)[fileOf[g]]

LEMMA KeptBook ==
  ASSUME NEW o, NEW g \in Games, Book(o, g), Kept(o, g)
  PROVE  Book(o, g)'
<1>1. /\ observers' = observers /\ fileOf' = fileOf /\ told'[g] = told[g]
      /\ Phase(o, g)' = Phase(o, g)
      /\ Own(g)' <=> Own(g)
  BY DEF Kept, config, Own
<1>2. Number(g)' = Number(g) /\ Seen(o, g)' = Seen(o, g) /\ \A k : First(o, g, k)' = First(o, g, k)
  BY <1>1, FirstSame DEF Seen
<1>3. First(o, g, Seen(o, g))' = First(o, g, Seen(o, g))
  BY <1>1, <1>2 DEF First, UpTo, Lines, Told, LineOf, JSONLine
<1>4. DataRight(o, g)'
  BY <1>1, <1>3 DEF Book, Kept, DataRight, Lists
<1>5. FileRight(o, g)'
  <2>1. Records(o, g, Seen(o, g))' = Records(o, g, Seen(o, g))
    BY <1>1, <1>2 DEF Records, First, UpTo, Lines, Told, LineOf, JSONLine
  <2> QED BY <1>1, <1>2, <1>3, <2>1 DEF Book, Kept, FileRight, Lists, Cut, Ripped
<1> QED BY <1>1, <1>4, <1>5 DEF Book, Kept

LEMMA RecordsGrow ==
  ASSUME NEW o, NEW g, NEW m \in Nat, NEW n \in Nat, m <= n
  PROVE  Records(o, g, m) \subseteq Records(o, g, n)
<1>1. 0..m \subseteq 0..n
  OBVIOUS
<1> QED BY <1>1 DEF Records

LEMMA CalledFor ==
  ASSUME Calls, NEW g \in Games, NEW o, Phase(o, g) # "out"
  PROVE  /\ o \in observers /\ o \in Names /\ told[g] # <<>> /\ Event(g) \in Heard[o]
         /\ Number(g) \in Nat \ {0} /\ Number(g) \in 1..Number(g)
         /\ Event(g) = told[g][Number(g)]
<1>1. o \in todo[g]
  BY DEF Phase
<1>2. o \in observers /\ o \in Names /\ told[g] # <<>> /\ Event(g) \in Heard[o] /\ told[g] \in Seq(Kinds)
  BY <1>1 DEF Calls
<1>3. Len(told[g]) \in Nat \ {0}
  BY <1>2, EmptySeq, LenProperties
<1> QED BY <1>2, <1>3 DEF Number, Event

\* What the steps of o for g leave, given where they lead.
LEMMA MovesTold ==
  ASSUME NEW o, NEW g, NEW t, Moves(o, g, t)
  PROVE  /\ UNCHANGED <<observers, lasts, fileOf, told>> /\ Phase(o, g)' = t /\ Calls'
         /\ \A h : /\ Own(h)' <=> Own(h)
                   /\ Number(h)' = Number(h) /\ Event(h)' = Event(h)
                   /\ \A p, k : First(p, h, k)' = First(p, h, k)
BY DEF Moves, config, Own, First, UpTo, Lines, Told, LineOf, JSONLine, Number, Event

LEMMA HeedsBook ==
  ASSUME Calls, NEW o \in Loggers, NEW g \in Games, Book(o, g), Moves(o, g, "save"),
         Phase(o, g) = "called", Event(g) \in KindsOf(o),
         g \in DOMAIN DataOf(o), g \in (DOMAIN DataOf(o))',
         DataOf(o)'[g] = Append(DataOf(o)[g], LineOf(o, g, Number(g))),
         <<o, g>> \in stale' <=> <<o, g>> \in stale,
         FileOf(o)'[fileOf[g]] = FileOf(o)[fileOf[g]]
  PROVE  Book(o, g)'
<1> DEFINE n == Number(g)
<1>1. o \in observers /\ told[g] # <<>> /\ n \in Nat \ {0} /\ n \in 1..n /\ Event(g) = told[g][n]
  BY CalledFor
<1>2. /\ UNCHANGED <<observers, fileOf, told>> /\ Phase(o, g)' = "save" /\ (Own(g)' <=> Own(g))
      /\ Number(g)' = n /\ \A k : First(o, g, k)' = First(o, g, k)
  BY MovesTold
<1>3. Seen(o, g) = n - 1 /\ Seen(o, g)' = n
  BY <1>2 DEF Seen
<1>4. First(o, g, Seen(o, g))' = First(o, g, n)
  BY <1>2, <1>3 DEF First, UpTo, Lines, Told, LineOf, JSONLine
<1>5. DataRight(o, g)'
  <2>1. Lists(DataOf(o)[g], First(o, g, n - 1))
    BY <1>3 DEF Book, DataRight
  <2>2. First(o, g, n) = First(o, g, n - 1) \union {LineOf(o, g, n)}
    BY <1>1, FirstNext
  <2>3. Numbered(First(o, g, n - 1)) /\ \A l \in First(o, g, n - 1) : l[2] < n
    <3>1. n - 1 \in Nat
      BY <1>1
    <3>2. Numbered(First(o, g, n - 1)) /\ \A l \in First(o, g, n - 1) : l[2] \in 1..(n - 1)
      BY <3>1, FirstNumbered
    <3> QED BY <1>1, <3>2
  <2>4. LineOf(o, g, n)[2] = n
    BY LineAt
  <2>5. Lists(DataOf(o)'[g], First(o, g, n))
    BY <1>1, <2>1, <2>2, <2>3, <2>4, ListsAppend
  <2> QED BY <1>1, <1>2, <1>4, <2>5 DEF DataRight, Lists
<1>6. FileRight(o, g)'
  <2> DEFINE file == FileOf(o)[fileOf[g]]
  <2>1. Records(o, g, n - 1) \subseteq Records(o, g, n)
    BY <1>1, RecordsGrow
  <2>2. Records(o, g, Seen(o, g))' = Records(o, g, n)
    BY <1>2, <1>3 DEF Records, First, UpTo, Lines, Told, LineOf, JSONLine
  <2>3. Own(g) => \/ Cut(file, Records(o, g, n - 1))
                  \/ <<o, g>> \in stale /\ Ripped(file, Records(o, g, n - 1))
    BY <1>3 DEF Book, FileRight
  <2>4. Own(g) => \/ Cut(file, Records(o, g, n))
                  \/ <<o, g>> \in stale /\ Ripped(file, Records(o, g, n))
    BY <2>1, <2>3, CutGrows
  <2> HIDE DEF file
  <2>5. file' = file
    BY <1>2 DEF file
  <2> QED BY <1>2, <2>2, <2>4, <2>5 DEF FileRight, Cut, Ripped, Lists, file
<1> QED BY <1>2, <1>5, <1>6 DEF Book

LEMMA LeavesBook ==
  ASSUME Calls, NEW o \in Loggers, NEW g \in Games, Book(o, g),
         NEW t \in {"save", "out"}, Moves(o, g, t),
         Phase(o, g) = "called", Event(g) \notin KindsOf(o),
         <<o, g>> \in stale' <=> <<o, g>> \in stale,
         t = "save" => g \in (DOMAIN DataOf(o))',
         g \in (DOMAIN DataOf(o))' =>
           \/ g \in DOMAIN DataOf(o) /\ DataOf(o)'[g] = DataOf(o)[g]
           \/ DataOf(o)'[g] = <<>> /\ Number(g) = 1,
         FileOf(o)'[fileOf[g]] = FileOf(o)[fileOf[g]]
  PROVE  Book(o, g)'
<1> DEFINE n == Number(g)
<1>1. o \in observers /\ told[g] # <<>> /\ n \in Nat \ {0} /\ n \in 1..n /\ Event(g) = told[g][n]
  BY CalledFor
<1>2. /\ UNCHANGED <<observers, fileOf, told>> /\ Phase(o, g)' = t /\ (Own(g)' <=> Own(g))
      /\ Number(g)' = n /\ \A k : First(o, g, k)' = First(o, g, k)
  BY MovesTold
<1>3. Seen(o, g) = n - 1 /\ Seen(o, g)' = n
  BY <1>2 DEF Seen
<1>4. First(o, g, Seen(o, g))' = First(o, g, n) /\ First(o, g, n) = First(o, g, n - 1)
  <2>1. First(o, g, Seen(o, g))' = First(o, g, n)
    BY <1>2, <1>3 DEF First, UpTo, Lines, Told, LineOf, JSONLine
  <2>2. First(o, g, n) = First(o, g, n - 1)
    <3>1. First(o, g, n) = First(o, g, n - 1) \union
                             IF told[g][n] \in KindsOf(o) THEN {LineOf(o, g, n)} ELSE {}
      BY <1>1, FirstNext
    <3> QED BY <1>1, <3>1
  <2> QED BY <2>1, <2>2
<1>5. DataRight(o, g)'
  <2>1. ASSUME g \in (DOMAIN DataOf(o))'
        PROVE  Lists(DataOf(o)'[g], First(o, g, n - 1))
    <3>1. CASE g \in DOMAIN DataOf(o) /\ DataOf(o)'[g] = DataOf(o)[g]
      BY <1>3, <3>1 DEF Book, DataRight
    <3>2. CASE DataOf(o)'[g] = <<>> /\ n = 1
      <4>1. First(o, g, 0) = {} /\ n - 1 = 0
        BY <3>2, FirstZero
      <4> QED BY <3>2, <4>1, ListsNothing
    <3> QED BY <2>1, <3>1, <3>2
  <2> QED BY <1>1, <1>2, <1>4, <2>1 DEF DataRight, Lists
<1>6. FileRight(o, g)'
  <2> DEFINE file == FileOf(o)[fileOf[g]]
  <2>1. Records(o, g, n - 1) \subseteq Records(o, g, n)
    BY <1>1, RecordsGrow
  <2>2. Records(o, g, Seen(o, g))' = Records(o, g, n)
    BY <1>2, <1>3 DEF Records, First, UpTo, Lines, Told, LineOf, JSONLine
  <2>3. Own(g) => \/ Cut(file, Records(o, g, n - 1))
                  \/ <<o, g>> \in stale /\ Ripped(file, Records(o, g, n - 1))
    BY <1>3 DEF Book, FileRight
  <2>4. Own(g) => \/ Cut(file, Records(o, g, n))
                  \/ <<o, g>> \in stale /\ Ripped(file, Records(o, g, n))
    BY <2>1, <2>3, CutGrows
  <2>5. Own(g) /\ <<o, g>> \notin stale => Lists(file, First(o, g, n))
    BY <1>1, <1>3, <1>4 DEF Book, FileRight
  <2> HIDE DEF file
  <2>6. file' = file
    BY <1>2 DEF file
  <2> QED BY <1>2, <1>3, <1>4, <2>2, <2>4, <2>5, <2>6 DEF FileRight, Cut, Ripped, Lists, file
<1> QED BY <1>2, <1>5, <1>6 DEF Book

\* The steps of a save: the data stay, unless the game is over and they go.
LEMMA SavesBook ==
  ASSUME Calls, NEW o \in Loggers, NEW g \in Games, Book(o, g),
         NEW t \in {"write", "out"}, Moves(o, g, t), Phase(o, g) \in {"save", "write"},
         g \in (DOMAIN DataOf(o))' => DataOf(o)'[g] = DataOf(o)[g],
         t = "write" => g \in (DOMAIN DataOf(o))',
         NEW file, Own(g) => FileOf(o)'[fileOf[g]] = file,
         \/ t = "write" /\ file = <<>>
         \/ t = "out" /\ file = FileOf(o)[fileOf[g]] /\ <<o, g>> \in stale'
         \/ t = "out" /\ file = DataOf(o)[g]
         \/ /\ t = "out" /\ <<o, g>> \in stale'
            /\ \E i \in 0..Len(DataOf(o)[g]) : file = Append(SubSeq(DataOf(o)[g], 1, i), Scrap)
  PROVE  Book(o, g)'
<1> DEFINE n == Number(g)
<1>1. o \in observers /\ told[g] # <<>> /\ n \in Nat \ {0}
  BY CalledFor
<1>2. /\ UNCHANGED <<observers, fileOf, told>> /\ Phase(o, g)' = t /\ (Own(g)' <=> Own(g))
      /\ Number(g)' = n /\ \A k : First(o, g, k)' = First(o, g, k)
  BY MovesTold
<1>3. Seen(o, g) = n /\ Seen(o, g)' = n
  BY <1>2 DEF Seen
<1>4. First(o, g, Seen(o, g))' = First(o, g, n)
  BY <1>2, <1>3 DEF First, UpTo, Lines, Told, LineOf, JSONLine
<1>5. Lists(DataOf(o)[g], First(o, g, n))
  BY <1>3 DEF Book, DataRight
<1>6. DataRight(o, g)'
  BY <1>1, <1>2, <1>4, <1>5 DEF DataRight, Lists
<1>7. FileRight(o, g)'
  <2> DEFINE records == Records(o, g, n)
  <2>1. ASSUME Own(g), <<o, g>> \in stale => <<o, g>> \in stale'
        PROVE  file = FileOf(o)[fileOf[g]] =>
                 Cut(file, records) \/ (<<o, g>> \in stale' /\ Ripped(file, records))
    BY <1>3, <2>1 DEF Book, FileRight
  <2>2. file = <<>> => Cut(file, records)
    <3>1. 0 \in 0..n /\ First(o, g, 0) = {}
      BY <1>1, FirstZero
    <3> QED BY <3>1, ListsNothing DEF Cut, Records
  <2>3. file = DataOf(o)[g] => Cut(file, records)
    <3>1. n \in 0..n
      BY <1>1
    <3> QED BY <1>5, <3>1 DEF Cut, Records
  <2>4. ASSUME NEW i \in 0..Len(DataOf(o)[g]), file = Append(SubSeq(DataOf(o)[g], 1, i), Scrap)
        PROVE  Ripped(file, records)
    <3> DEFINE ls == DataOf(o)[g]
               part == SubSeq(ls, 1, i)
    <3> HIDE DEF ls, part
    <3>1. Lists(ls, First(o, g, n)) /\ Numbered(First(o, g, n)) /\ \A l \in First(o, g, n) : l[2] \in 1..n
      BY <1>1, <1>5, FirstNumbered DEF ls
    <3>2. Cut(part, records)
      <4>1. CASE i = 0
        <5>1. part = <<>>
          BY <4>1, SubSeqEmpty, <3>1 DEF part, Lists
        <5>2. 0 \in 0..n /\ First(o, g, 0) = {}
          BY <1>1, FirstZero
        <5> QED BY <5>1, <5>2, ListsNothing DEF Cut, Records
      <4>2. CASE i # 0
        <5>1. i \in 1..Len(ls)
          BY <2>4, <4>2 DEF ls
        <5>2. Lists(part, UpTo(First(o, g, n), ls[i][2])) /\ ls[i][2] \in 1..n
          BY <3>1, <5>1, ListsBegin DEF part
        <5>3. UpTo(First(o, g, n), ls[i][2]) = First(o, g, ls[i][2])
          <6> DEFINE k == ls[i][2]
          <6> HIDE DEF k
          <6>1. \A l \in First(o, g, k) : l[2] <= k
            BY DEF First, UpTo
          <6>2. \A l : l[2] \in Nat /\ l[2] <= k /\ k \in 1..n => l[2] <= n
            BY <1>1
          <6>3. k \in 1..n /\ k \in Nat
            BY <1>1, <5>2 DEF k
          <6>4. \A l \in First(o, g, k) : l[2] \in Nat
            BY <6>3, FirstNumbered
          <6>5. \A l : l \in First(o, g, k) => l \in First(o, g, n)
            BY <6>1, <6>2, <6>3, <6>4 DEF First, UpTo
          <6>6. \A l : l \in UpTo(First(o, g, n), k) <=> l \in First(o, g, k)
            BY <6>1, <6>5 DEF First, UpTo
          <6> QED BY <6>6 DEF k
        <5>4. ls[i][2] \in 0..n
          BY <1>1, <5>2
        <5> QED BY <5>2, <5>3, <5>4 DEF Cut, Records
      <4> QED BY <4>1, <4>2
    <3> QED BY <2>4, <3>2 DEF Ripped, ls, part
  <2>5. Own(g) => Cut(file, records) \/ (<<o, g>> \in stale' /\ Ripped(file, records))
    BY <2>1, <2>2, <2>3, <2>4
  <2>6. Records(o, g, Seen(o, g))' = Records(o, g, n)
    BY <1>2, <1>3 DEF Records, First, UpTo, Lines, Told, LineOf, JSONLine
  <2>7. Own(g) => FileOf(o)'[fileOf'[g]] = file
    BY <1>2
  <2> HIDE DEF records
  <2>8. /\ t = "write" => file = <<>>
        /\ t = "out" /\ <<o, g>> \notin stale' => file = DataOf(o)[g]
    OBVIOUS
  <2>9. Own(g)' => \/ Cut(FileOf(o)[fileOf[g]], Records(o, g, Seen(o, g)))'
                   \/ (<<o, g>> \in stale /\ Ripped(FileOf(o)[fileOf[g]], Records(o, g, Seen(o, g))))'
    BY <1>2, <2>5, <2>6, <2>7 DEF Cut, Ripped, Lists, records
  <2> QED BY <1>2, <1>3, <1>4, <1>5, <2>7, <2>8, <2>9 DEF FileRight, Lists
<1> QED BY <1>2, <1>6, <1>7 DEF Book

-----------------------------------------------------------------------------
(* Maps and files, where a step of g changes them *)

\* What is kept of the other games.
Others(data, new, g) ==
  \A h : h # g => /\ h \in DOMAIN new <=> h \in DOMAIN data
                  /\ h \in DOMAIN data => new[h] = data[h]

OtherFiles(file, new, g) ==
  /\ DOMAIN new = DOMAIN file
  /\ \A f \in DOMAIN file : f # fileOf[g] => new[f] = file[f]

LEMMA StoredIs ==
  ASSUME NEW data, NEW g, NEW content
  PROVE  /\ DOMAIN Stored(data, g, content) = DOMAIN data \union {g}
         /\ Stored(data, g, content)[g] = content
         /\ Others(data, Stored(data, g, content), g)
BY DEF Stored, Others

LEMMA DeletedIs ==
  ASSUME NEW data, NEW g
  PROVE  DOMAIN Deleted(data, g) = DOMAIN data \ {g} /\ Others(data, Deleted(data, g), g)
BY DEF Deleted, Others, Restrict

LEMMA ChangedIs ==
  ASSUME NEW data, NEW g \in DOMAIN data, NEW content
  PROVE  /\ DOMAIN [data EXCEPT ![g] = content] = DOMAIN data
         /\ [data EXCEPT ![g] = content][g] = content
         /\ Others(data, [data EXCEPT ![g] = content], g)
BY DEF Others

LEMMA EmptiedIs ==
  ASSUME NEW file, NEW g, fileOf[g] \in DOMAIN file
  PROVE  Emptied(file, g)[fileOf[g]] = <<>> /\ OtherFiles(file, Emptied(file, g), g)
BY DEF Emptied, OtherFiles

LEMMA WrittenIs ==
  ASSUME NEW file, NEW g, fileOf[g] \in DOMAIN file, NEW content, NEW new \in Written(file, g, content)
  PROVE  /\ new[fileOf[g]] = content \/ new[fileOf[g]] = Append(content, Scrap)
         /\ file[fileOf[g]] = <<>> => new[fileOf[g]] = content
         /\ OtherFiles(file, new, g)
<1>1. PICK c \in {content} \union IF file[fileOf[g]] = <<>> THEN {} ELSE {Append(content, Scrap)} :
        new = [file EXCEPT ![fileOf[g]] = c]
  BY DEF Written
<1>2. c = content \/ (c = Append(content, Scrap) /\ file[fileOf[g]] # <<>>)
  BY <1>1
<1> QED BY <1>1, <1>2 DEF OtherFiles

LEMMA TornIs ==
  ASSUME NEW file, NEW g, fileOf[g] \in DOMAIN file, NEW content, NEW new \in Torn(file, g, content)
  PROVE  /\ \/ new[fileOf[g]] = file[fileOf[g]]
            \/ \E n \in 0..Len(content) : new[fileOf[g]] = Append(SubSeq(content, 1, n), Scrap)
         /\ OtherFiles(file, new, g)
<1>1. CASE new = file
  BY <1>1 DEF OtherFiles
<1>2. CASE \E n \in 0..Len(content) : new = [file EXCEPT ![fileOf[g]] = Append(SubSeq(content, 1, n), Scrap)]
  <2>1. PICK n \in 0..Len(content) : new = [file EXCEPT ![fileOf[g]] = Append(SubSeq(content, 1, n), Scrap)]
    BY <1>2
  <2>2. new[fileOf[g]] = Append(SubSeq(content, 1, n), Scrap) /\ OtherFiles(file, new, g)
    BY <2>1 DEF OtherFiles
  <2> QED BY <2>2
<1> QED BY <1>1, <1>2 DEF Torn

\* What a step of one logger for g leaves to the other games and the other logger.
LoggerStep(o, g) ==
  /\ Calls' /\ Marks(o, g) /\ \E t : Moves(o, g, t)
  /\ Others(DataOf(o), DataOf(o)', g) /\ OtherFiles(FileOf(o), FileOf(o)', g)
  /\ g \in (DOMAIN DataOf(o))' => g \in Games
  /\ Book(o, g)'

LEMMA StepBooks ==
  ASSUME Calls, NEW o \in Loggers, NEW g \in Games, LoggerStep(o, g),
         \A p \in Loggers, h \in Games : Book(p, h),
         \A p \in Loggers : p # o => UNCHANGED <<DataOf(p), FileOf(p)>>,
         \A p \in Loggers : DOMAIN FileOf(p) = FileNames
  PROVE  \A p \in Loggers, h \in Games : Book(p, h)'
<1>1. PICK t : Moves(o, g, t)
  BY DEF LoggerStep
<1>2. UNCHANGED <<config, told>>
  BY <1>1 DEF Moves
<1>3. ASSUME NEW p \in Loggers, NEW h \in Games, p # o \/ h # g PROVE Book(p, h)'
  <2>1. Phase(p, h)' = Phase(p, h) /\ (<<p, h>> \in stale' <=> <<p, h>> \in stale)
    BY <1>1, <1>3 DEF Moves, LoggerStep, Marks
  <2>2. fileOf[g] \in FileNames /\ fileOf[h] \in FileNames
    BY DEF Calls
  <2>3. CASE p # o
    BY <1>2, <2>1, <2>3, KeptBook DEF Kept
  <2>4. CASE p = o /\ h # g
    <3>1. /\ h \in (DOMAIN DataOf(o))' <=> h \in DOMAIN DataOf(o)
          /\ h \in DOMAIN DataOf(o) => DataOf(o)'[h] = DataOf(o)[h]
      BY <2>4 DEF LoggerStep, Others
    <3>2. Own(h) => FileOf(o)'[fileOf[h]] = FileOf(o)[fileOf[h]]
      BY <2>2, <2>4 DEF LoggerStep, OtherFiles, Own
    <3> QED BY <1>2, <2>1, <2>4, <3>1, <3>2, KeptBook DEF Kept
  <2> QED BY <1>3, <2>3, <2>4
<1> QED BY <1>3 DEF LoggerStep

LEMMA AskedKept ==
  ASSUME NEW g, Asked(g), UNCHANGED <<config, told>>, requestMap'[g] = requestMap[g],
         Phase("json", g)' = "called" <=> Phase("json", g) = "called"
  PROVE  Asked(g)'
BY DEF Asked, config, Number, Event

-----------------------------------------------------------------------------
(* JSONLogger *)

\* A step of its for g, that leads to t.
JSONTo(g, t) ==
  /\ t # "called" /\ Moves("json", g, t) /\ Marks("json", g)
  /\ Others(jsonData, jsonData', g) /\ OtherFiles(jsonFile, jsonFile', g)
  /\ Book("json", g)'

LEMMA JSONIs ==
  /\ "json" \in Loggers /\ DataOf("json") = jsonData /\ FileOf("json") = jsonFile
  /\ KindsOf("json") = {"response", "phase", "end"}
BY DEF Loggers, DataOf, FileOf, KindsOf

\* An entry is added; the request is that of the response it stands beside.
LEMMA AddEntryTo ==
  ASSUME CompositeAssumption, Calls, Books, NEW g \in Games, NEW request,
         At(g, "json", "called"), Event(g) \in KindsOf("json"),
         <<g, Number(g), request>> = JSONLine(g, Number(g)), AddEntry(g, request)
  PROVE  JSONTo(g, "save")
<1>1. Moves("json", g, "save") /\ Phase("json", g) = "called"
  BY GoesMoves DEF AddEntry
<1>2. Marks("json", g) /\ (<<"json", g>> \in stale' <=> <<"json", g>> \in stale)
  BY MarksAre DEF AddEntry
<1>3. /\ g \in DOMAIN jsonData /\ jsonFile' = jsonFile
      /\ jsonData' = [jsonData EXCEPT ![g] = Append(@, LineOf("json", g, Number(g)))]
  BY DEF AddEntry, Known, LineOf
<1>4. /\ DOMAIN jsonData' = DOMAIN jsonData /\ Others(jsonData, jsonData', g)
      /\ jsonData'[g] = Append(jsonData[g], LineOf("json", g, Number(g)))
  BY <1>3, ChangedIs
<1>5. Book("json", g)
  BY JSONIs DEF Books
<1>6. Book("json", g)'
  BY <1>1, <1>2, <1>3, <1>4, <1>5, JSONIs, HeedsBook DEF DataOf, FileOf
<1> QED BY <1>1, <1>2, <1>3, <1>4, <1>6 DEF JSONTo, OtherFiles

LEMMA CallTo ==
  ASSUME CompositeAssumption, Calls, Books, NEW g \in Games,
         At(g, "json", "called"), Event(g) \notin KindsOf("json"), Returns(g), Well,
         UNCHANGED jsonFile,
         \/ UNCHANGED jsonData
         \/ jsonData' = Stored(jsonData, g, <<>>) /\ Number(g) = 1
  PROVE  JSONTo(g, "out")
<1>1. Moves("json", g, "out") /\ Phase("json", g) = "called"
  BY ReturnsMoves
<1>2. Marks("json", g) /\ (<<"json", g>> \in stale' <=> <<"json", g>> \in stale)
  BY MarksAre
<1>3. /\ Others(jsonData, jsonData', g)
      /\ g \in DOMAIN jsonData' => \/ g \in DOMAIN jsonData /\ jsonData'[g] = jsonData[g]
                                   \/ jsonData'[g] = <<>> /\ Number(g) = 1
  <2>1. CASE UNCHANGED jsonData
    BY <2>1 DEF Others
  <2>2. CASE jsonData' = Stored(jsonData, g, <<>>) /\ Number(g) = 1
    <3>1. Others(jsonData, Stored(jsonData, g, <<>>), g)
      BY StoredIs
    <3>2. Stored(jsonData, g, <<>>)[g] = <<>>
      BY DEF Stored
    <3> QED BY <2>2, <3>1, <3>2
  <2> QED BY <2>1, <2>2
<1>4. Book("json", g)
  BY JSONIs DEF Books
<1>5. Book("json", g)'
  BY <1>1, <1>2, <1>3, <1>4, JSONIs, LeavesBook DEF DataOf, FileOf
<1> QED BY <1>1, <1>2, <1>3, <1>5 DEF JSONTo, OtherFiles

LEMMA SaveTo ==
  ASSUME CompositeAssumption, Calls, Books, NEW g \in Games, JSONCreate(g) \/ JSONWrite(g)
  PROVE  \E t : JSONTo(g, t)
<1>1. PICK s \in {"save", "write"} : At(g, "json", s)
  BY DEF JSONCreate, JSONWrite
<1>2. fileOf[g] \in DOMAIN jsonFile /\ Book("json", g)
  BY JSONIs DEF Books, Calls
<1>3. ASSUME JSONSaved(g)
      PROVE  /\ Moves("json", g, "out") /\ Phase("json", g) = s
             /\ Others(jsonData, jsonData', g)
             /\ g \in DOMAIN jsonData' => jsonData'[g] = jsonData[g]
  <2>1. Returns(g) /\ (jsonData' = jsonData \/ jsonData' = Deleted(jsonData, g))
    BY <1>3 DEF JSONSaved
  <2>2. Moves("json", g, "out") /\ Phase("json", g) = s
    BY <1>1, <2>1, ReturnsMoves
  <2>3. CASE jsonData' = jsonData
    BY <2>2, <2>3 DEF Others
  <2>4. CASE jsonData' = Deleted(jsonData, g)
    BY <2>2, <2>4, DeletedIs
  <2> QED BY <2>1, <2>3, <2>4
<1>4. CASE jsonFile' = Emptied(jsonFile, g) /\ Goes(g, "write") /\ Well /\ UNCHANGED jsonData
  <2>1. Moves("json", g, "write") /\ Phase("json", g) = s /\ Marks("json", g)
    BY <1>1, <1>4, GoesMoves, MarksAre
  <2>2. jsonFile'[fileOf[g]] = <<>> /\ OtherFiles(jsonFile, jsonFile', g)
    BY <1>2, <1>4, EmptiedIs
  <2>3. g \in DOMAIN jsonData
    BY <1>2, <2>1, JSONIs DEF Book
  <2>4. Book("json", g)'
    BY <1>2, <1>4, <2>1, <2>2, <2>3, JSONIs, SavesBook DEF DataOf, FileOf
  <2> QED BY <1>4, <2>1, <2>2, <2>4 DEF JSONTo, Others
<1>5. CASE Fails("json", g) /\ JSONSaved(g) /\ UNCHANGED jsonFile
  <2>1. Marks("json", g) /\ <<"json", g>> \in stale'
    BY <1>5, MarksAre
  <2>2. Book("json", g)'
    BY <1>2, <1>3, <1>5, <2>1, JSONIs, SavesBook DEF DataOf, FileOf
  <2> QED BY <1>3, <1>5, <2>1, <2>2 DEF JSONTo, OtherFiles
<1>6. CASE s = "write" /\ jsonFile' \in Written(jsonFile, g, jsonData[g]) /\ Made("json", g) /\ JSONSaved(g)
  <2>1. Marks("json", g)
    BY <1>6, MarksAre
  <2>2. OtherFiles(jsonFile, jsonFile', g) /\ (jsonFile[fileOf[g]] = <<>> => jsonFile'[fileOf[g]] = jsonData[g])
    BY <1>2, <1>6, WrittenIs
  <2>3. Own(g) => jsonFile[fileOf[g]] = <<>>
    BY <1>2, <1>3, <1>6, JSONIs DEF Book, FileRight
  <2>4. Book("json", g)'
    BY <1>2, <1>3, <1>6, <2>2, <2>3, JSONIs, SavesBook DEF DataOf, FileOf
  <2> QED BY <1>3, <1>6, <2>1, <2>2, <2>4 DEF JSONTo
<1>8. CASE s = "write" /\ jsonFile' \in Torn(jsonFile, g, jsonData[g]) /\ Fails("json", g) /\ JSONSaved(g)
  <2>1. Marks("json", g) /\ <<"json", g>> \in stale'
    BY <1>8, MarksAre
  <2>2. /\ OtherFiles(jsonFile, jsonFile', g)
        /\ \/ jsonFile'[fileOf[g]] = jsonFile[fileOf[g]]
           \/ \E n \in 0..Len(jsonData[g]) : jsonFile'[fileOf[g]] = Append(SubSeq(jsonData[g], 1, n), Scrap)
    <3> DEFINE content == jsonData[g]
    <3>1. jsonFile' \in Torn(jsonFile, g, content) /\ fileOf[g] \in DOMAIN jsonFile
      BY <1>2, <1>8
    <3> HIDE DEF content
    <3>2. /\ \/ jsonFile'[fileOf[g]] = jsonFile[fileOf[g]]
             \/ \E n \in 0..Len(content) : jsonFile'[fileOf[g]] = Append(SubSeq(content, 1, n), Scrap)
          /\ OtherFiles(jsonFile, jsonFile', g)
      BY <3>1, TornIs
    <3> QED BY <3>2 DEF content
  <2>3. Book("json", g)'
    <3>1. CASE jsonFile'[fileOf[g]] = jsonFile[fileOf[g]]
      BY <1>2, <1>3, <1>8, <2>1, <3>1, JSONIs, SavesBook DEF DataOf, FileOf
    <3>2. CASE \E n \in 0..Len(jsonData[g]) : jsonFile'[fileOf[g]] = Append(SubSeq(jsonData[g], 1, n), Scrap)
      BY <1>2, <1>3, <1>8, <2>1, <3>2, JSONIs, SavesBook DEF DataOf, FileOf
    <3> QED BY <2>2, <3>1, <3>2
  <2> QED BY <1>3, <1>8, <2>1, <2>2, <2>3 DEF JSONTo
<1>7. \/ jsonFile' = Emptied(jsonFile, g) /\ Goes(g, "write") /\ Well /\ UNCHANGED jsonData
      \/ Fails("json", g) /\ JSONSaved(g) /\ UNCHANGED jsonFile
      \/ s = "write" /\ jsonFile' \in Written(jsonFile, g, jsonData[g]) /\ Made("json", g) /\ JSONSaved(g)
      \/ s = "write" /\ jsonFile' \in Torn(jsonFile, g, jsonData[g]) /\ Fails("json", g) /\ JSONSaved(g)
  <2>1. CASE JSONCreate(g)
    BY <2>1 DEF JSONCreate
  <2>2. CASE JSONWrite(g)
    BY <1>1, <2>2 DEF JSONWrite, At
  <2> QED BY <2>1, <2>2
<1> QED BY <1>4, <1>5, <1>6, <1>7, <1>8

LEMMA JSONSteps ==
  ASSUME CompositeAssumption, Calls, Stories, Books, NEW g \in Games, JSONStep(g), UNCHANGED log
  PROVE  Books' /\ (\E t : Moves("json", g, t)) /\ Marks("json", g)
<1>1. ASSUME NEW t, JSONTo(g, t), requestMap' \in [Games -> Nat],
             \A h \in Games : h # g => requestMap'[h] = requestMap[h],
             Asked(g)'
      PROVE  Books' /\ (\E u : Moves("json", g, u)) /\ Marks("json", g)
  <2>1. Moves("json", g, t) /\ Marks("json", g) /\ Calls' /\ UNCHANGED <<config, told>>
    BY <1>1 DEF JSONTo, Moves
  <2>2. DOMAIN jsonData' \subseteq Games /\ DOMAIN jsonFile' = FileNames
    BY <1>1 DEF JSONTo, Others, OtherFiles, Books
  <2>3. LoggerStep("json", g)
    BY <1>1, <2>1, JSONIs DEF JSONTo, LoggerStep, DataOf, FileOf
  <2>4. \A o \in Loggers, h \in Games : Book(o, h)'
    <3>1. \A o \in Loggers : o # "json" => UNCHANGED <<DataOf(o), FileOf(o)>>
      BY DEF DataOf, FileOf, log
    <3>2. \A o \in Loggers : DOMAIN FileOf(o) = FileNames
      BY DEF Books, FileOf
    <3>3. \A o \in Loggers, h \in Games : Book(o, h)
      BY DEF Books
    <3> QED BY <2>3, <3>1, <3>2, <3>3, JSONIs, StepBooks
  <2>5. \A h \in Games : Asked(h)'
    <3>1. ASSUME NEW h \in Games, h # g PROVE Asked(h)'
      <4>1. Phase("json", h)' = Phase("json", h)
        BY <2>1, <3>1 DEF Moves
      <4>2. Asked(h) /\ requestMap'[h] = requestMap[h]
        BY <1>1, <3>1 DEF Books
      <4> QED BY <2>1, <4>1, <4>2, AskedKept
    <3> QED BY <1>1, <3>1
  <2> QED BY <1>1, <2>1, <2>2, <2>4, <2>5 DEF Books, log
<1>2. /\ requestMap \in [Games -> Nat] /\ Asked(g) /\ Book("json", g)
  BY JSONIs DEF Books
<1>3. ASSUME NEW t, JSONTo(g, t), requestMap' = requestMap,
             Phase("json", g) # "called" \/ Event(g) # "request"
      PROVE  Asked(g)'
  <2>1. t # "called" /\ Phase("json", g)' = t /\ UNCHANGED <<observers, told>> /\ Event(g)' = Event(g) /\ Number(g)' = Number(g)
    BY <1>3, MovesTold DEF JSONTo
  <2> QED BY <1>2, <1>3, <2>1 DEF Asked
<1>4. ASSUME At(g, "json", "called")
      PROVE  /\ Phase("json", g) = "called" /\ "json" \in observers /\ told[g] # <<>>
             /\ Number(g) \in Nat \ {0} /\ Event(g) = told[g][Number(g)] /\ Number(g) \in 1..Number(g)
  <2>1. "json" \in Turn(g) /\ step[g] = "called" /\ "json" \in todo[g]
    BY <1>4, TurnIsOne DEF At
  <2>2. Phase("json", g) = "called"
    BY <2>1 DEF Phase
  <2> QED BY <2>2, CalledFor
<1>5. CASE JSONTrackStartGame(g)
  <2>1. At(g, "json", "called") /\ Event(g) = "start" /\ requestMap' = requestMap
    BY <1>5 DEF JSONTrackStartGame, JSONCalled
  <2>2. Number(g) = 1
    BY <1>4, <2>1 DEF Stories
  <2>3. JSONTo(g, "out")
    BY <1>5, <2>1, <2>2, CallTo, JSONIs DEF JSONTrackStartGame
  <2> QED BY <1>1, <1>2, <1>3, <2>1, <2>3
<1>6. CASE TrackStartRequest(g)
  <2>1. /\ At(g, "json", "called") /\ Event(g) = "request"
        /\ requestMap' = [requestMap EXCEPT ![g] = Number(g)]
    BY <1>6 DEF TrackStartRequest, JSONCalled
  <2>2. JSONTo(g, "out")
    BY <1>6, <2>1, CallTo, JSONIs DEF TrackStartRequest
  <2>3. requestMap' \in [Games -> Nat] /\ requestMap'[g] = Number(g)
    BY <1>2, <1>4, <2>1
  <2>4. Asked(g)'
    <3>1. UNCHANGED <<observers, told>> /\ Event(g)' = "request" /\ Number(g)' = Number(g)
      BY <2>1, <2>2, MovesTold DEF JSONTo
    <3> QED BY <2>3, <3>1 DEF Asked
  <2> QED BY <1>1, <1>2, <2>1, <2>2, <2>3, <2>4
<1>7. CASE TrackEndRequest(g)
  <2>1. /\ At(g, "json", "called") /\ Event(g) = "response" /\ AddEntry(g, requestMap[g])
        /\ requestMap' = [requestMap EXCEPT ![g] = 0]
    BY <1>7 DEF TrackEndRequest, JSONCalled
  <2>2. requestMap[g] = Number(g) - 1
    BY <1>2, <1>4, <2>1 DEF Asked
  <2>3. <<g, Number(g), requestMap[g]>> = JSONLine(g, Number(g))
    BY <1>4, <2>1, <2>2 DEF JSONLine
  <2>4. JSONTo(g, "save")
    BY <2>1, <2>3, AddEntryTo, JSONIs
  <2>5. requestMap' \in [Games -> Nat]
    BY <1>2, <2>1
  <2>6. Asked(g)'
    <3>1. Event(g)' = "response" /\ Phase("json", g)' = "save"
      BY <2>1, <2>4, MovesTold DEF JSONTo
    <3> QED BY <3>1 DEF Asked
  <2> QED BY <1>1, <1>2, <2>1, <2>4, <2>5, <2>6
<1>8. CASE TrackPhase(g)
  <2>1. At(g, "json", "called") /\ Event(g) = "phase" /\ AddEntry(g, Number(g)) /\ requestMap' = requestMap
    BY <1>8 DEF TrackPhase, JSONCalled
  <2>2. <<g, Number(g), Number(g)>> = JSONLine(g, Number(g))
    BY <1>4, <2>1 DEF JSONLine
  <2>3. JSONTo(g, "save")
    BY <2>1, <2>2, AddEntryTo, JSONIs
  <2> QED BY <1>1, <1>2, <1>3, <2>1, <2>3
<1>9. CASE JSONTrackEndGame(g)
  <2>1. At(g, "json", "called") /\ Event(g) = "end" /\ AddEntry(g, 0) /\ requestMap' = requestMap
    BY <1>9 DEF JSONTrackEndGame, JSONCalled
  <2>2. <<g, Number(g), 0>> = JSONLine(g, Number(g))
    BY <1>4, <2>1 DEF JSONLine
  <2>3. JSONTo(g, "save")
    BY <2>1, <2>2, AddEntryTo, JSONIs
  <2> QED BY <1>1, <1>2, <1>3, <2>1, <2>3
<1>10. CASE JSONCreate(g) \/ JSONWrite(g)
  <2>1. PICK t : JSONTo(g, t)
    BY <1>10, SaveTo
  <2>2. requestMap' = requestMap
    BY <1>10 DEF JSONCreate, JSONWrite
  <2>3. Phase("json", g) # "called"
    <3>1. PICK s \in {"save", "write"} : At(g, "json", s)
      BY <1>10 DEF JSONCreate, JSONWrite
    <3>2. "json" \in Turn(g) /\ step[g] = s /\ "json" \in todo[g]
      BY <3>1, TurnIsOne DEF At
    <3> QED BY <3>1, <3>2 DEF Phase
  <2> QED BY <1>1, <1>2, <1>3, <2>1, <2>2, <2>3
<1> QED BY <1>5, <1>6, <1>7, <1>8, <1>9, <1>10 DEF JSONStep

-----------------------------------------------------------------------------
(* GameLogger *)

LogTo(g, t) ==
  /\ Moves("log", g, t) /\ Marks("log", g)
  /\ Others(logData, logData', g) /\ OtherFiles(logFile, logFile', g)
  /\ Book("log", g)'

LEMMA LogIs ==
  /\ "log" \in Loggers /\ DataOf("log") = logData /\ FileOf("log") = logFile
  /\ KindsOf("log") = {"status", "talk"}
BY DEF Loggers, DataOf, FileOf, KindsOf

LEMMA LogCallTo ==
  ASSUME CompositeAssumption, Calls, Stories, Books, NEW g \in Games,
         LogTrackStartGame(g) \/ AppendLog(g) \/ LogTrackEndGame(g)
  PROVE  \E t : LogTo(g, t)
<1>1. At(g, "log", "called") /\ Well /\ logFile' = logFile
  BY DEF LogTrackStartGame, AppendLog, LogTrackEndGame, log
<1>2. Marks("log", g) /\ (<<"log", g>> \in stale' <=> <<"log", g>> \in stale)
  BY <1>1, MarksAre
<1>3. OtherFiles(logFile, logFile', g) /\ Book("log", g)
  BY <1>1, LogIs DEF Books, OtherFiles
<1>4. CASE LogTrackStartGame(g)
  <2>1. Moves("log", g, "out") /\ Phase("log", g) = "called"
    BY <1>1, <1>4, ReturnsMoves DEF LogTrackStartGame
  <2>2. Event(g) = "start" /\ logData' = Stored(logData, g, <<>>)
    BY <1>4 DEF LogTrackStartGame
  <2>3. Number(g) = 1
    BY <2>1, <2>2, CalledFor DEF Stories
  <2>4. Others(logData, Stored(logData, g, <<>>), g)
    BY StoredIs
  <2>5. Stored(logData, g, <<>>)[g] = <<>>
    BY DEF Stored
  <2>6. Book("log", g)'
    BY <1>1, <1>2, <1>3, <2>1, <2>2, <2>3, <2>5, LogIs, LeavesBook DEF DataOf, FileOf
  <2> QED BY <1>2, <1>3, <2>1, <2>2, <2>4, <2>6 DEF LogTo
<1>5. CASE AppendLog(g)
  <2>1. Moves("log", g, "save") /\ Phase("log", g) = "called"
    BY <1>1, <1>5, GoesMoves DEF AppendLog
  <2>2. /\ Event(g) \in KindsOf("log") /\ g \in DOMAIN logData
        /\ logData' = [logData EXCEPT ![g] = Append(@, LineOf("log", g, Number(g)))]
    BY <1>5, LogIs DEF AppendLog, Known, LineOf
  <2>3. /\ DOMAIN logData' = DOMAIN logData /\ Others(logData, logData', g)
        /\ logData'[g] = Append(logData[g], LineOf("log", g, Number(g)))
    BY <2>2, ChangedIs
  <2>4. Book("log", g)'
    BY <1>1, <1>2, <1>3, <2>1, <2>2, <2>3, LogIs, HeedsBook DEF DataOf, FileOf
  <2> QED BY <1>2, <1>3, <2>1, <2>3, <2>4 DEF LogTo
<1>6. CASE LogTrackEndGame(g)
  <2>1. Moves("log", g, "save") /\ Phase("log", g) = "called"
    BY <1>1, <1>6, GoesMoves DEF LogTrackEndGame
  <2>2. Event(g) \notin KindsOf("log") /\ g \in DOMAIN logData /\ logData' = logData
    BY <1>6, LogIs DEF LogTrackEndGame, Known, log
  <2>3. Book("log", g)'
    BY <1>1, <1>2, <1>3, <2>1, <2>2, LogIs, LeavesBook DEF DataOf, FileOf
  <2> QED BY <1>2, <1>3, <2>1, <2>2, <2>3 DEF LogTo, Others
<1> QED BY <1>4, <1>5, <1>6

LEMMA LogSaveTo ==
  ASSUME CompositeAssumption, Calls, Books, NEW g \in Games, LogCreate(g) \/ LogWrite(g)
  PROVE  \E t : LogTo(g, t)
<1>1. PICK s \in {"save", "write"} : At(g, "log", s)
  BY DEF LogCreate, LogWrite
<1>2. fileOf[g] \in DOMAIN logFile /\ Book("log", g)
  BY LogIs DEF Books, Calls
<1>3. ASSUME LogSaved(g)
      PROVE  /\ Moves("log", g, "out") /\ Phase("log", g) = s
             /\ Others(logData, logData', g)
             /\ g \in DOMAIN logData' => logData'[g] = logData[g]
  <2>1. Returns(g) /\ (logData' = logData \/ logData' = Deleted(logData, g))
    BY <1>3 DEF LogSaved
  <2>2. Moves("log", g, "out") /\ Phase("log", g) = s
    BY <1>1, <2>1, ReturnsMoves
  <2>3. CASE logData' = logData
    BY <2>2, <2>3 DEF Others
  <2>4. CASE logData' = Deleted(logData, g)
    BY <2>2, <2>4, DeletedIs
  <2> QED BY <2>1, <2>3, <2>4
<1>4. CASE logFile' = Emptied(logFile, g) /\ Goes(g, "write") /\ Well /\ UNCHANGED logData
  <2>1. Moves("log", g, "write") /\ Phase("log", g) = s /\ Marks("log", g)
    BY <1>1, <1>4, GoesMoves, MarksAre
  <2>2. logFile'[fileOf[g]] = <<>> /\ OtherFiles(logFile, logFile', g)
    BY <1>2, <1>4, EmptiedIs
  <2>3. g \in DOMAIN logData
    BY <1>2, <2>1, LogIs DEF Book
  <2>4. Book("log", g)'
    BY <1>2, <1>4, <2>1, <2>2, <2>3, LogIs, SavesBook DEF DataOf, FileOf
  <2> QED BY <1>4, <2>1, <2>2, <2>4 DEF LogTo, Others
<1>5. CASE Fails("log", g) /\ LogSaved(g) /\ UNCHANGED logFile
  <2>1. Marks("log", g) /\ <<"log", g>> \in stale'
    BY <1>5, MarksAre
  <2>2. Book("log", g)'
    BY <1>2, <1>3, <1>5, <2>1, LogIs, SavesBook DEF DataOf, FileOf
  <2> QED BY <1>3, <1>5, <2>1, <2>2 DEF LogTo, OtherFiles
<1>6. CASE s = "write" /\ logFile' \in Written(logFile, g, logData[g]) /\ Made("log", g) /\ LogSaved(g)
  <2>1. Marks("log", g)
    BY <1>6, MarksAre
  <2>2. OtherFiles(logFile, logFile', g) /\ (logFile[fileOf[g]] = <<>> => logFile'[fileOf[g]] = logData[g])
    BY <1>2, <1>6, WrittenIs
  <2>3. Own(g) => logFile[fileOf[g]] = <<>>
    BY <1>2, <1>3, <1>6, LogIs DEF Book, FileRight
  <2>4. Book("log", g)'
    BY <1>2, <1>3, <1>6, <2>2, <2>3, LogIs, SavesBook DEF DataOf, FileOf
  <2> QED BY <1>3, <1>6, <2>1, <2>2, <2>4 DEF LogTo
<1>8. CASE s = "write" /\ logFile' \in Torn(logFile, g, logData[g]) /\ Fails("log", g) /\ LogSaved(g)
  <2>1. Marks("log", g) /\ <<"log", g>> \in stale'
    BY <1>8, MarksAre
  <2>2. /\ OtherFiles(logFile, logFile', g)
        /\ \/ logFile'[fileOf[g]] = logFile[fileOf[g]]
           \/ \E n \in 0..Len(logData[g]) : logFile'[fileOf[g]] = Append(SubSeq(logData[g], 1, n), Scrap)
    <3> DEFINE content == logData[g]
    <3>1. logFile' \in Torn(logFile, g, content) /\ fileOf[g] \in DOMAIN logFile
      BY <1>2, <1>8
    <3> HIDE DEF content
    <3>2. /\ \/ logFile'[fileOf[g]] = logFile[fileOf[g]]
             \/ \E n \in 0..Len(content) : logFile'[fileOf[g]] = Append(SubSeq(content, 1, n), Scrap)
          /\ OtherFiles(logFile, logFile', g)
      BY <3>1, TornIs
    <3> QED BY <3>2 DEF content
  <2>3. Book("log", g)'
    <3>1. CASE logFile'[fileOf[g]] = logFile[fileOf[g]]
      BY <1>2, <1>3, <1>8, <2>1, <3>1, LogIs, SavesBook DEF DataOf, FileOf
    <3>2. CASE \E n \in 0..Len(logData[g]) : logFile'[fileOf[g]] = Append(SubSeq(logData[g], 1, n), Scrap)
      BY <1>2, <1>3, <1>8, <2>1, <3>2, LogIs, SavesBook DEF DataOf, FileOf
    <3> QED BY <2>2, <3>1, <3>2
  <2> QED BY <1>3, <1>8, <2>1, <2>2, <2>3 DEF LogTo
<1>7. \/ logFile' = Emptied(logFile, g) /\ Goes(g, "write") /\ Well /\ UNCHANGED logData
      \/ Fails("log", g) /\ LogSaved(g) /\ UNCHANGED logFile
      \/ s = "write" /\ logFile' \in Written(logFile, g, logData[g]) /\ Made("log", g) /\ LogSaved(g)
      \/ s = "write" /\ logFile' \in Torn(logFile, g, logData[g]) /\ Fails("log", g) /\ LogSaved(g)
  <2>1. CASE LogCreate(g)
    BY <2>1 DEF LogCreate
  <2>2. CASE LogWrite(g)
    BY <1>1, <2>2 DEF LogWrite, At
  <2> QED BY <2>1, <2>2
<1> QED BY <1>4, <1>5, <1>6, <1>7, <1>8

LEMMA LogSteps ==
  ASSUME CompositeAssumption, Calls, Stories, Books, NEW g \in Games, LogStep(g), UNCHANGED json
  PROVE  Books' /\ (\E t : Moves("log", g, t)) /\ Marks("log", g)
<1>1. PICK t : LogTo(g, t)
  BY LogCallTo, LogSaveTo DEF LogStep
<1>2. Moves("log", g, t) /\ Marks("log", g) /\ Calls' /\ UNCHANGED <<config, told>>
  BY <1>1 DEF LogTo, Moves
<1>3. DOMAIN logData' \subseteq Games /\ DOMAIN logFile' = FileNames
  BY <1>1 DEF LogTo, Others, OtherFiles, Books
<1>4. LoggerStep("log", g)
  BY <1>1, <1>2, LogIs DEF LogTo, LoggerStep, DataOf, FileOf
<1>5. \A o \in Loggers, h \in Games : Book(o, h)'
  <2>1. \A o \in Loggers : o # "log" => UNCHANGED <<DataOf(o), FileOf(o)>>
    BY DEF DataOf, FileOf, json, Loggers
  <2>2. \A o \in Loggers : DOMAIN FileOf(o) = FileNames
    BY DEF Books, FileOf
  <2>3. \A o \in Loggers, h \in Games : Book(o, h)
    BY DEF Books
  <2> QED BY <1>4, <2>1, <2>2, <2>3, LogIs, StepBooks
<1>6. ASSUME NEW h \in Games PROVE Asked(h)'
  <2>1. Phase("json", h)' = Phase("json", h)
    BY <1>2 DEF Moves
  <2>2. Asked(h) /\ requestMap'[h] = requestMap[h]
    BY DEF Books, json
  <2> QED BY <1>2, <2>1, <2>2, AskedKept
<1> QED BY <1>2, <1>3, <1>5, <1>6 DEF Books, json

-----------------------------------------------------------------------------
(* What the other steps leave to the loggers, and the start of an event *)

LEMMA BooksKept ==
  ASSUME Calls, Books, UNCHANGED <<json, log, config, told>>,
         \A o \in Loggers, h \in Games :
           Phase(o, h)' = Phase(o, h) /\ (<<o, h>> \in stale' <=> <<o, h>> \in stale)
  PROVE  Books'
<1>1. ASSUME NEW o \in Loggers, NEW h \in Games PROVE Book(o, h)'
  <2>1. Kept(o, h)
    BY DEF Kept, json, log, DataOf, FileOf
  <2> QED BY <2>1, KeptBook DEF Books
<1>2. ASSUME NEW h \in Games PROVE Asked(h)'
  BY AskedKept, JSONIs DEF Books, json
<1> QED BY <1>1, <1>2 DEF Books, json, log

LEMMA NotifyBook ==
  ASSUME Calls, NEW o \in Loggers, NEW g \in Games, NEW e \in Kinds, Notify(g, e),
         UNCHANGED <<json, log>>, Book(o, g)
  PROVE  Book(o, g)'
<1> DEFINE n == Number(g)
<1>1. /\ observers' = observers /\ fileOf' = fileOf /\ stale' = stale /\ told'[g] # <<>>
      /\ Number(g)' = n + 1 /\ n \in Nat /\ Phase(o, g) = "out"
      /\ Phase(o, g)' = IF o \in observers /\ e \in Heard[o] THEN "called" ELSE "out"
      /\ (Own(g)' <=> Own(g))
  <2>1. told' = [told EXCEPT ![g] = Append(@, e)] /\ told[g] \in Seq(Kinds)
    BY NotifyMoves DEF Calls
  <2>2. told'[g] = Append(told[g], e)
    BY <2>1 DEF Calls
  <2>3. told'[g] # <<>>
    BY <2>1, <2>2, AppendProperties
  <2> QED BY <2>3, NotifyMoves DEF config, Own
<1>2. UNCHANGED <<DataOf(o), FileOf(o)>>
  BY DEF DataOf, FileOf, json, log
<1>3. Seen(o, g) = n /\ Seen(o, g)' \in n..(n + 1)
  BY <1>1 DEF Seen
<1>4. \A k \in 0..n : First(o, g, k)' = First(o, g, k)
  BY FirstOld
<1>5. o \in observers => First(o, g, Seen(o, g))' = First(o, g, n)
  <2>1. ASSUME o \in observers, e \in Heard[o] PROVE First(o, g, Seen(o, g))' = First(o, g, n)
    <3>1. Seen(o, g)' = n
      BY <1>1, <2>1 DEF Seen
    <3>2. First(o, g, Seen(o, g))' = UpTo(Lines(o, g)', n)
      BY <3>1 DEF First, UpTo
    <3>3. First(o, g, n) = UpTo(Lines(o, g)', n)
      BY <1>1, <1>4 DEF First, UpTo
    <3> QED BY <3>2, <3>3
  <2>2. ASSUME e \notin Heard[o] PROVE First(o, g, Seen(o, g))' = First(o, g, n)
    <3>1. e \notin KindsOf(o)
      BY <2>2 DEF KindsOf, Heard, Loggers
    <3>2. First(o, g, Number(g))' = First(o, g, n)
      BY <3>1, FirstOld
    <3>3. Seen(o, g)' = Number(g)'
      BY <1>1, <2>2 DEF Seen
    <3> QED BY <3>2, <3>3 DEF First, UpTo
  <2> QED BY <2>1, <2>2
<1>6. DataRight(o, g)'
  BY <1>1, <1>2, <1>3, <1>5 DEF Book, DataRight, Lists
<1>7. FileRight(o, g)'
  <2> DEFINE file == FileOf(o)[fileOf[g]]
  <2>1. Records(o, g, n) \subseteq Records(o, g, Seen(o, g))'
    <3> DEFINE m == Seen(o, g)'
    <3> HIDE DEF m
    <3>1. Records(o, g, Seen(o, g))' = {First(o, g, k)' : k \in 0..m}
      BY DEF Records, First, UpTo, m
    <3>2. \A k \in 0..n : k \in 0..m
      BY <1>1, <1>3 DEF m
    <3>3. Records(o, g, n) = {First(o, g, k) : k \in 0..n}
      BY DEF Records
    <3> QED BY <1>4, <3>1, <3>2, <3>3
  <2>2. Own(g) => \/ Cut(file, Records(o, g, n))
                  \/ <<o, g>> \in stale /\ Ripped(file, Records(o, g, n))
    BY <1>3 DEF Book, FileRight
  <2>3. Own(g) => \/ Cut(file, Records(o, g, Seen(o, g))')
                  \/ <<o, g>> \in stale /\ Ripped(file, Records(o, g, Seen(o, g))')
    BY <2>1, <2>2, CutGrows
  <2>4. file' = file
    BY <1>1, <1>2
  <2> HIDE DEF file
  <2>5. Own(g)' => Cut(file, Records(o, g, Seen(o, g)))' \/ (<<o, g>> \in stale /\ Ripped(file, Records(o, g, Seen(o, g))))'
    BY <1>1, <2>3, <2>4 DEF Cut, Ripped, Lists
  <2>6. Own(g) /\ o \in observers /\ <<o, g>> \notin stale => Lists(file, First(o, g, n))
    BY <1>1, <1>3 DEF Book, FileRight, file
  <2>7. (Own(g) /\ o \in observers /\ <<o, g>> \notin stale)' => Lists(file, First(o, g, Seen(o, g)))'
    BY <1>1, <1>5, <2>4, <2>6 DEF Lists
  <2>8. Phase(o, g)' # "write"
    BY <1>1
  <2> QED BY <2>5, <2>7, <2>8 DEF FileRight, file
<1> QED BY <1>1, <1>6, <1>7 DEF Book

LEMMA NotifyBooks ==
  ASSUME Calls, Books, NEW g \in Games, NEW e \in Kinds, Notify(g, e), UNCHANGED <<json, log>>
  PROVE  Books'
<1>1. UNCHANGED <<observers, fileOf, lasts, stale>>
  BY NotifyMoves DEF config
<1>2. ASSUME NEW o \in Loggers, NEW h \in Games PROVE Book(o, h)'
  <2>1. CASE h = g
    BY <2>1, NotifyBook DEF Books
  <2>2. CASE h # g
    <3>1. told'[h] = told[h] /\ Phase(o, h)' = Phase(o, h)
      BY <2>2, NotifyMoves
    <3>2. UNCHANGED <<DataOf(o), FileOf(o)>>
      BY DEF DataOf, FileOf, json, log
    <3>3. Kept(o, h)
      BY <1>1, <3>1, <3>2 DEF Kept, config
    <3> QED BY <3>3, KeptBook DEF Books
  <2> QED BY <2>1, <2>2
<1>3. ASSUME NEW h \in Games PROVE Asked(h)'
  <2>1. requestMap' = requestMap /\ Asked(h)
    BY DEF Books, json
  <2>2. CASE h # g
    <3>1. /\ told'[h] = told[h] /\ Phase("json", h)' = Phase("json", h)
          /\ Number(h)' = Number(h) /\ Event(h)' = Event(h)
      BY <2>2, NotifyMoves
    <3> QED BY <1>1, <2>1, <3>1 DEF Asked
  <2>3. CASE h = g
    <3>1. /\ Event(g)' = e /\ Number(g)' = Number(g) + 1 /\ Phase("json", g) = "out"
          /\ Phase("json", g)' = IF "json" \in observers /\ e \in Heard["json"] THEN "called" ELSE "out"
      BY NotifyMoves
    <3>2. "request" \in Heard["json"]
      BY DEF Heard
    <3>3. e = "response" => told[g] # <<>> /\ Event(g) = "request"
      BY DEF Notify, Follows
    <3>4. ASSUME "json" \in observers, e = "response" PROVE requestMap[g] = Number(g)
      BY <2>1, <2>3, <3>1, <3>3, <3>4 DEF Asked
    <3>5. Number(g) \in Nat
      BY NotifyMoves
    <3>6. ASSUME "json" \in observers, e = "request" PROVE Phase("json", g)' = "called"
      BY <3>1, <3>2, <3>6
    <3>7. ASSUME "json" \in observers, e = "response" PROVE requestMap'[g] = Number(g)' - 1
      <4>1. requestMap'[g] = Number(g)
        BY <2>1, <3>4, <3>7
      <4>2. Number(g)' - 1 = Number(g)
        BY <3>1, <3>5
      <4> QED BY <4>1, <4>2
    <3> QED BY <1>1, <2>3, <3>1, <3>6, <3>7 DEF Asked
  <2> QED BY <2>2, <2>3
<1> QED BY <1>1, <1>2, <1>3 DEF Books, json, log

-----------------------------------------------------------------------------
(* The stories *)

LEMMA StoriesKept ==
  ASSUME Stories, UNCHANGED <<told, lasts>>
  PROVE  Stories'
BY DEF Stories, Number, Event

LEMMA NotifyStories ==
  ASSUME ObserversAssumption, CompositeAssumption, Calls, Stories, NEW g \in Games, NEW e \in Kinds,
         Notify(g, e)
  PROVE  Stories'
<1>1. /\ lasts' = lasts /\ Number(g)' = Number(g) + 1 /\ Event(g)' = e /\ Number(g) \in Nat
      /\ \A n \in 1..Number(g) : told'[g][n] = told[g][n]
      /\ \A h \in Games : h # g => told'[h] = told[h] /\ Number(h)' = Number(h) /\ Event(h)' = Event(h)
  BY NotifyMoves DEF config
<1>2. lasts[g] \in Nat
  BY CompositeAssumption DEF Calls, CompositeAssumption
<1>3. told[g] = <<>> <=> Number(g) = 0
  BY EmptySeq, LenProperties DEF Calls, Number
<1>4. /\ told[g] # <<>> => Event(g) # "end"
      /\ told[g] = <<>> <=> e = "start"
      /\ told[g] # <<>> /\ Event(g) = "request" <=> e = "response"
      /\ Number(g) + (IF e = "request" THEN 2 ELSE 1) < lasts[g] \/ e = "end"
  <2>1. told[g] # <<>> => Event(g) \in Kinds /\ Event(g) # "none"
    <3>1. ASSUME told[g] # <<>> PROVE Event(g) \in Kinds
      <4>1. told[g] \in Seq(Kinds) /\ Number(g) \in 1..Len(told[g])
        BY <1>1, <1>3, <3>1 DEF Calls, Number
      <4> QED BY <4>1, ElementOfSeq DEF Event
    <3>2. "none" \notin Kinds
      BY DEF Kinds, Heard
    <3> QED BY <3>1, <3>2
  <2> QED BY <2>1 DEF Notify, Follows
<1>5. ASSUME NEW h \in Games, h # g
      PROVE  /\ Number(h)' <= lasts'[h]
             /\ told'[h] # <<>> /\ Event(h)' # "end" => Number(h)' < lasts'[h]
             /\ told'[h] # <<>> /\ Event(h)' = "request" => Number(h)' + 1 < lasts'[h]
             /\ \A n \in 1..Number(h)' : told'[h][n] = "start" => n = 1
  BY <1>1, <1>5 DEF Stories
<1>6. Number(g)' <= lasts'[g]
  BY <1>1, <1>2, <1>3, <1>4 DEF Stories
<1>7. Event(g)' # "end" => Number(g)' < lasts'[g]
  BY <1>1, <1>2, <1>3, <1>4 DEF Stories
<1>8. Event(g)' = "request" => Number(g)' + 1 < lasts'[g]
  BY <1>1, <1>2, <1>4
<1>9. ASSUME NEW n \in 1..Number(g)', told'[g][n] = "start" PROVE n = 1
  <2>1. n \in 1..Number(g) \/ n = Number(g) + 1
    BY <1>1
  <2>2. told'[g][Number(g) + 1] = e
    BY <1>1 DEF Event, Number
  <2> QED BY <1>1, <1>3, <1>4, <1>9, <2>1, <2>2 DEF Stories
<1> QED BY <1>5, <1>6, <1>7, <1>8, <1>9 DEF Stories

-----------------------------------------------------------------------------
(* RealtimeBroadcaster: the packets *)

LEMMA RTIs == KindsOf("realtime") = Heard["realtime"] /\ \A g, n : LineOf("realtime", g, n) = <<g, n>>
BY DEF KindsOf, Heard, LineOf

LEMMA RTFacts ==
  ASSUME Calls, NEW g \in Games, RT(g) # "out"
  PROVE  LET n == Number(g)
             old == First("realtime", g, n - 1)
             new == First("realtime", g, n) IN
         /\ "realtime" \in observers /\ told[g] # <<>> /\ n \in Nat \ {0}
         /\ new = old \union {<<g, n>>}
         /\ Numbered(old) /\ \A l \in old : l[2] < n
<1> DEFINE n == Number(g)
           old == First("realtime", g, n - 1)
           new == First("realtime", g, n)
<1>1. /\ "realtime" \in observers /\ told[g] # <<>> /\ n \in Nat \ {0} /\ n \in 1..n
      /\ Event(g) = told[g][n] /\ Event(g) \in KindsOf("realtime")
  BY CalledFor, RTIs DEF RT
<1>2. new = old \union IF told[g][n] \in KindsOf("realtime") THEN {LineOf("realtime", g, n)} ELSE {}
  BY <1>1, FirstNext
<1>3. new = old \union {<<g, n>>}
  BY <1>1, <1>2, RTIs
<1>4. n - 1 \in Nat
  BY <1>1
<1>5. Numbered(old) /\ \A l \in old : l[2] \in 1..(n - 1)
  BY <1>4, FirstNumbered
<1>6. \A l \in old : l[2] < n
  BY <1>1, <1>5
<1> QED BY <1>1, <1>3, <1>5, <1>6

KeptRT(g) ==
  /\ UNCHANGED config /\ told'[g] = told[g] /\ RT(g)' = RT(g)
  /\ <<"realtime", g>> \in stale' <=> <<"realtime", g>> \in stale
  /\ g \in closing' <=> g \in closing
  /\ g \in DOMAIN rtData' <=> g \in DOMAIN rtData
  /\ g \in DOMAIN rtData => rtData'[g] = rtData[g]
  /\ Own(g) => rtFile'[fileOf[g]] = rtFile[fileOf[g]]

LEMMA KeptPack ==
  ASSUME NEW g \in Games, Pack(g), KeptRT(g)
  PROVE  Pack(g)'
<1>1. /\ observers' = observers /\ fileOf' = fileOf /\ told'[g] = told[g] /\ RT(g)' = RT(g)
      /\ Own(g)' <=> Own(g)
  BY DEF KeptRT, config, Own
<1>2. Number(g)' = Number(g) /\ Event(g)' = Event(g)
  BY <1>1 DEF Number, Event
<1>3. /\ First("realtime", g, Gathered(g))' = First("realtime", g, Gathered(g))
      /\ First("realtime", g, Sent(g))' = First("realtime", g, Sent(g))
  BY <1>1, <1>2 DEF First, UpTo, Lines, Told, LineOf, Gathered, Sent
<1>4. Packed(g)'
  BY <1>1, <1>2, <1>3 DEF Pack, KeptRT, Packed, Lists
<1>5. Appended(g)'
  BY <1>1, <1>3 DEF Pack, KeptRT, Appended, Lists, Sparse
<1> QED BY <1>1, <1>2, <1>4, <1>5 DEF Pack, KeptRT

\* The call is at t and the packets are what they should be there.
LEMMA ToPack ==
  ASSUME Calls, NEW g \in Games, NEW t \in RTPhases, Moves("realtime", g, t), RT(g) # "out",
         NEW k, k = IF t \in {"called", "emit"} THEN Number(g) - 1 ELSE Number(g),
         t # "out" => g \in DOMAIN rtData',
         t = "emit" => Event(g) = "start",
         t = "close" => Event(g) = "end",
         g \in closing' => Event(g) = "end" /\ t \in {"write", "list", "listOpen", "listWrite"},
         g \in DOMAIN rtData' => Lists(rtData'[g], First("realtime", g, k)),
         t = "append" => rtData'[g] # <<>> /\ rtData'[g][Len(rtData'[g])] = <<g, Number(g)>>,
         NEW i, i = IF t \in {"called", "emit", "append"} THEN Number(g) - 1 ELSE Number(g),
         NEW file, Own(g) => rtFile'[fileOf[g]] = file,
         Own(g) => Sparse(file, First("realtime", g, i)),
         Own(g) /\ t = "write" => file = <<>>,
         Own(g) /\ t # "write" /\ <<"realtime", g>> \notin stale' => Lists(file, First("realtime", g, i))
  PROVE  Pack(g)'
<1>1. /\ observers' = observers /\ fileOf' = fileOf /\ told' = told /\ RT(g)' = t
      /\ Own(g)' <=> Own(g)
      /\ Number(g)' = Number(g) /\ Event(g)' = Event(g)
  BY MovesTold DEF RT
<1>2. Gathered(g)' = k /\ Sent(g)' = i
  BY <1>1 DEF Gathered, Sent
<1>3. /\ First("realtime", g, Gathered(g))' = First("realtime", g, k)
      /\ First("realtime", g, Sent(g))' = First("realtime", g, i)
  BY <1>1, <1>2 DEF First, UpTo, Lines, Told, LineOf
<1>4. "realtime" \in observers /\ told[g] # <<>>
  BY RTFacts
<1>5. Packed(g)'
  BY <1>1, <1>3, <1>4 DEF Packed, Lists
<1>6. Appended(g)'
  BY <1>1, <1>3, <1>4 DEF Appended, Lists, Sparse
<1> QED BY <1>1, <1>5, <1>6 DEF Pack

\* A step of it for g, that leads to t.
RTTo(g, t) ==
  /\ Moves("realtime", g, t) /\ Marks("realtime", g)
  /\ Others(rtData, rtData', g) /\ OtherFiles(rtFile, rtFile', g)
  /\ \A h : h # g => (h \in closing' <=> h \in closing)
  /\ Pack(g)'

\* What g has at hand while its call is under way.
RTHas(g, s) ==
  LET n == Number(g)
      file == rtFile[fileOf[g]]
      sent == First("realtime", g, IF s \in {"called", "emit", "append"} THEN n - 1 ELSE n) IN
  /\ RT(g) = s /\ n \in Nat \ {0} /\ "realtime" \in observers /\ told[g] # <<>>
  /\ fileOf[g] \in DOMAIN rtFile
  /\ s = "emit" => Event(g) = "start"
  /\ s = "close" => Event(g) = "end"
  /\ g \in closing => Event(g) = "end" /\ s \in {"write", "list", "listOpen", "listWrite"}
  /\ s # "called" => g \in DOMAIN rtData
  /\ g \in DOMAIN rtData =>
       Lists(rtData[g], First("realtime", g, IF s \in {"called", "emit"} THEN n - 1 ELSE n))
  /\ s = "append" => rtData[g] # <<>> /\ rtData[g][Len(rtData[g])] = <<g, n>>
  /\ Own(g) =>
       /\ Sparse(file, sent)
       /\ s = "write" => file = <<>>
       /\ s # "write" /\ <<"realtime", g>> \notin stale => Lists(file, sent)

LEMMA RTHasIt ==
  ASSUME Calls, Packs, NEW g \in Games, NEW s, s # "out", At(g, "realtime", s)
  PROVE  RTHas(g, s)
<1>1. "realtime" \in Turn(g) /\ step[g] = s /\ "realtime" \in todo[g]
  BY TurnIsOne DEF At
<1>2. RT(g) = s
  BY <1>1 DEF RT, Phase
<1>3. Pack(g) /\ fileOf[g] \in DOMAIN rtFile
  BY DEF Packs, Calls
<1>5. /\ "realtime" \in observers /\ told[g] # <<>> /\ Number(g) \in Nat \ {0}
  BY <1>2, RTFacts
<1> QED BY <1>2, <1>3, <1>5 DEF RTHas, Pack, Packed, Appended, Gathered, Sent

LEMMA StartTo ==
  ASSUME CompositeAssumption, Calls, Stories, Packs, NEW g \in Games, TrackStartGame(g)
  PROVE  RTTo(g, "emit")
<1> DEFINE n == Number(g)
           file == rtFile[fileOf[g]]
<1>1. /\ At(g, "realtime", "called") /\ Event(g) = "start" /\ Goes(g, "emit") /\ Well
      /\ rtData' = Stored(rtData, g, <<>>) /\ UNCHANGED <<rtFile, closing>>
  BY DEF TrackStartGame
<1>2. Moves("realtime", g, "emit") /\ RTHas(g, "called")
  BY <1>1, GoesMoves, RTHasIt
<1>3. Marks("realtime", g) /\ (<<"realtime", g>> \in stale' <=> <<"realtime", g>> \in stale)
  BY <1>1, MarksAre
<1>4. RT(g) # "out" /\ n \in Nat \ {0}
  BY <1>2 DEF RTHas
<1>5. n = 1
  <2>1. Event(g) = told[g][n] /\ n \in 1..n
    BY <1>4, CalledFor DEF RT
  <2> QED BY <1>1, <2>1 DEF Stories
<1>6. Others(rtData, Stored(rtData, g, <<>>), g) /\ DOMAIN Stored(rtData, g, <<>>) = DOMAIN rtData \union {g}
  BY StoredIs
<1>7. Stored(rtData, g, <<>>)[g] = <<>>
  BY DEF Stored
<1>8. Lists(<<>>, First("realtime", g, n - 1))
  <2>1. First("realtime", g, 0) = {} /\ n - 1 = 0
    BY <1>5, FirstZero
  <2> QED BY <2>1, ListsNothing
<1>9. Pack(g)'
  <2>1. "emit" \in RTPhases
    BY DEF RTPhases
  <2>2. rtFile'[fileOf[g]] = file /\ g \notin closing'
    BY <1>1, <1>2 DEF RTHas
  <2>3. Own(g) => /\ Sparse(file, First("realtime", g, n - 1))
                  /\ <<"realtime", g>> \notin stale' => Lists(file, First("realtime", g, n - 1))
    BY <1>2, <1>3 DEF RTHas
  <2> QED BY <1>1, <1>2, <1>4, <1>6, <1>7, <1>8, <2>1, <2>2, <2>3, ToPack
<1> QED BY <1>1, <1>2, <1>3, <1>6, <1>9 DEF RTTo, OtherFiles

LEMMA EmitTo ==
  ASSUME CompositeAssumption, Calls, Packs, NEW g \in Games, Emit(g)
  PROVE  RTTo(g, "append")
<1> DEFINE n == Number(g)
           file == rtFile[fileOf[g]]
           old == First("realtime", g, n - 1)
<1>1. /\ At(g, "realtime", "emit") \/ At(g, "realtime", "called")
      /\ Goes(g, "append") /\ Well /\ g \in DOMAIN rtData
      /\ rtData' = [rtData EXCEPT ![g] = Append(@, <<g, n>>)] /\ UNCHANGED <<rtFile, closing>>
  BY DEF Emit, Known
<1>2. PICK s \in {"emit", "called"} : At(g, "realtime", s)
  BY <1>1
<1>3. Moves("realtime", g, "append") /\ RTHas(g, s)
  BY <1>1, <1>2, GoesMoves, RTHasIt
<1>4. Marks("realtime", g) /\ (<<"realtime", g>> \in stale' <=> <<"realtime", g>> \in stale)
  BY <1>1, MarksAre
<1>5. RT(g) # "out" /\ n \in Nat \ {0}
  BY <1>2, <1>3 DEF RTHas
<1>6. /\ First("realtime", g, n) = old \union {<<g, n>>}
      /\ Numbered(old) /\ \A l \in old : l[2] < n
  BY <1>5, RTFacts
<1>7. Lists(rtData[g], old)
  BY <1>1, <1>2, <1>3 DEF RTHas
<1>8. /\ DOMAIN rtData' = DOMAIN rtData /\ Others(rtData, rtData', g)
      /\ rtData'[g] = Append(rtData[g], <<g, n>>)
  BY <1>1, ChangedIs
<1>9. Lists(rtData'[g], First("realtime", g, n))
  <2> DEFINE l == <<g, n>>
  <2>1. l[2] = n
    OBVIOUS
  <2> HIDE DEF l
  <2>2. l[2] \in Nat /\ \A x \in old : x[2] < l[2]
    BY <1>5, <1>6, <2>1
  <2>3. Lists(Append(rtData[g], l), old \union {l})
    BY <1>6, <1>7, <2>2, ListsAppend
  <2> QED BY <1>6, <1>8, <2>3 DEF l
<1>10. rtData'[g] # <<>> /\ rtData'[g][Len(rtData'[g])] = <<g, n>>
  <2>1. rtData[g] \in Seq(old)
    BY <1>7 DEF Lists
  <2> HIDE DEF old
  <2>2. \A l : /\ Append(rtData[g], l) # <<>>
               /\ Append(rtData[g], l)[Len(Append(rtData[g], l))] = l
    <3> SUFFICES ASSUME NEW l
                 PROVE  /\ Append(rtData[g], l) # <<>>
                        /\ Append(rtData[g], l)[Len(Append(rtData[g], l))] = l
      OBVIOUS
    <3>2. rtData[g] \in Seq(old \union {l})
      BY <2>1, SeqMonotonic
    <3>3. /\ Append(rtData[g], l) \in Seq(old \union {l}) /\ Append(rtData[g], l) # <<>>
          /\ Len(Append(rtData[g], l)) = Len(rtData[g]) + 1
          /\ Append(rtData[g], l)[Len(rtData[g]) + 1] = l
      BY <3>2, AppendProperties
    <3> QED BY <3>3
  <2> QED BY <1>8, <2>2
<1>11. Pack(g)'
  <2>1. "append" \in RTPhases
    BY DEF RTPhases
  <2>2. rtFile'[fileOf[g]] = file /\ g \notin closing' /\ g \in DOMAIN rtData'
    BY <1>1, <1>2, <1>3, <1>8 DEF RTHas
  <2>3. Own(g) => /\ Sparse(file, old)
                  /\ <<"realtime", g>> \notin stale' => Lists(file, old)
    BY <1>2, <1>3, <1>4 DEF RTHas
  <2> QED BY <1>3, <1>5, <1>9, <1>10, <2>1, <2>2, <2>3, ToPack
<1> QED BY <1>1, <1>3, <1>4, <1>8, <1>11 DEF RTTo, OtherFiles

\* The call goes on to t without a packet: the file is left as it is, emptied, or
\* written whole.
LEMMA FileTo ==
  ASSUME CompositeAssumption, Calls, Packs, NEW g \in Games,
         NEW s \in {"append", "write", "list", "listOpen", "listWrite", "close"}, RTHas(g, s),
         NEW t \in {"write", "list", "listOpen", "listWrite", "close", "out"},
         Moves("realtime", g, t), Marks("realtime", g),
         rtData' = rtData \/ (t = "out" /\ rtData' = Deleted(rtData, g)),
         \A h : h # g => (h \in closing' <=> h \in closing),
         t = "close" => Event(g) = "end",
         g \in closing' => Event(g) = "end" /\ t \notin {"close", "out"},
         OtherFiles(rtFile, rtFile', g),
         NEW file, Own(g) => rtFile'[fileOf[g]] = file,
         \/ ~Own(g)
         \/ t = "write" /\ file = <<>>
         \/ /\ t # "write" /\ <<"realtime", g>> \in stale'
            /\ Sparse(file, First("realtime", g, Number(g)))
         \/ /\ t # "write" /\ file = rtFile[fileOf[g]]
            /\ \/ <<"realtime", g>> \in stale'
               \/ s \notin {"append", "write"} /\ (<<"realtime", g>> \in stale' <=> <<"realtime", g>> \in stale)
         \/ t # "write" /\ file = rtData[g]
         \/ /\ s = "append" /\ t = "list" /\ file = Append(rtFile[fileOf[g]], <<g, Number(g)>>)
            /\ <<"realtime", g>> \in stale' <=> <<"realtime", g>> \in stale
  PROVE  RTTo(g, t)
<1> DEFINE n == Number(g)
           was == rtFile[fileOf[g]]
           old == First("realtime", g, n - 1)
           new == First("realtime", g, n)
<1>1. /\ RT(g) # "out" /\ n \in Nat \ {0} /\ g \in DOMAIN rtData /\ Lists(rtData[g], new)
  BY DEF RTHas
<1>2. new = old \union {<<g, n>>} /\ Numbered(old) /\ \A l \in old : l[2] < n
  BY <1>1, RTFacts
<1>3. Own(g) => /\ Sparse(was, IF s = "append" THEN old ELSE new)
                /\ s # "write" /\ <<"realtime", g>> \notin stale =>
                     Lists(was, IF s = "append" THEN old ELSE new)
  BY DEF RTHas
<1>4. Sparse(was, old) => Sparse(was, new)
  <2> HIDE DEF old, new, was
  <2>1. old \subseteq new
    BY <1>2
  <2> QED BY <2>1, SparseMore
<1>5. Own(g) => /\ Sparse(file, new)
                /\ t = "write" => file = <<>>
                /\ t # "write" /\ <<"realtime", g>> \notin stale' => Lists(file, new)
  <2> SUFFICES ASSUME Own(g)
               PROVE  /\ Sparse(file, new)
                      /\ t = "write" => file = <<>>
                      /\ t # "write" /\ <<"realtime", g>> \notin stale' => Lists(file, new)
    OBVIOUS
  <2>1. CASE t = "write" /\ file = <<>>
    BY <2>1, SparseNothing
  <2>5. CASE t # "write" /\ <<"realtime", g>> \in stale' /\ Sparse(file, new)
    BY <2>5
  <2>2. CASE /\ t # "write" /\ file = was
             /\ \/ <<"realtime", g>> \in stale'
                \/ s \notin {"append", "write"} /\ (<<"realtime", g>> \in stale' <=> <<"realtime", g>> \in stale)
    BY <1>3, <1>4, <2>2
  <2>3. CASE t # "write" /\ file = rtData[g]
    BY <1>1, <2>3, ListsSparse
  <2>4. CASE /\ s = "append" /\ t = "list" /\ file = Append(was, <<g, n>>)
             /\ <<"realtime", g>> \in stale' <=> <<"realtime", g>> \in stale
    <3> DEFINE l == <<g, n>>
    <3>1. l[2] = n
      OBVIOUS
    <3> HIDE DEF l, old, new, was
    <3>2. l[2] \in Nat /\ \A x \in old : x[2] < l[2]
      BY <1>1, <1>2, <3>1 DEF n
    <3>3. Sparse(was, old) /\ new = old \union {l}
      BY <1>2, <1>3, <2>4 DEF l
    <3>4. Sparse(Append(was, l), new)
      BY <3>2, <3>3, SparseAppend
    <3>5. ASSUME <<"realtime", g>> \notin stale' PROVE Lists(Append(was, l), new)
      <4>1. Lists(was, old)
        BY <1>3, <2>4, <3>5
      <4> QED BY <1>2, <3>2, <3>3, <4>1, ListsAppend
    <3> QED BY <2>4, <3>4, <3>5 DEF l
  <2> QED BY <2>1, <2>2, <2>3, <2>4, <2>5
<1>6. /\ Others(rtData, rtData', g)
      /\ g \in DOMAIN rtData' => rtData'[g] = rtData[g]
      /\ t # "out" => g \in DOMAIN rtData'
  <2>1. CASE rtData' = rtData
    BY <1>1, <2>1 DEF Others
  <2>2. CASE t = "out" /\ rtData' = Deleted(rtData, g)
    BY <2>2, DeletedIs
  <2> QED BY <2>1, <2>2
<1>7. t \in RTPhases /\ t \notin {"called", "emit", "append"}
  BY DEF RTPhases
<1>8. g \in DOMAIN rtData' => Lists(rtData'[g], new)
  BY <1>1, <1>6
<1>9. Own(g) /\ t = "write" => file = <<>>
  BY <1>5
<1>10. g \in closing' => Event(g) = "end" /\ t \in {"write", "list", "listOpen", "listWrite"}
  OBVIOUS
<1> HIDE DEF n, new
<1>11. Pack(g)'
  BY <1>1, <1>5, <1>6, <1>7, <1>8, <1>9, <1>10, ToPack DEF n, new
<1> QED BY <1>6, <1>11 DEF RTTo

\* A file that is all right is not empty when another line comes.
LEMMA NotEmpty ==
  ASSUME Calls, NEW g \in Games, RTHas(g, "append"), ~FirstLine(g), Own(g), <<"realtime", g>> \notin stale
  PROVE  rtFile[fileOf[g]] # <<>>
<1> DEFINE n == Number(g)
           old == First("realtime", g, n - 1)
           ls == rtData[g]
           l == <<g, n>>
<1>1. /\ RT(g) # "out" /\ n \in Nat \ {0} /\ Lists(ls, First("realtime", g, n)) /\ ls # <<>>
      /\ Lists(rtFile[fileOf[g]], old) /\ Len(ls) # 1
  BY DEF RTHas, FirstLine
<1>2. First("realtime", g, n) = old \union {l}
  BY <1>1, RTFacts
<1>3. l[2] = n
  OBVIOUS
<1> HIDE DEF old, ls, l
<1>4. ASSUME old = {} PROVE FALSE
  <2>1. Lists(ls, {l})
    BY <1>1, <1>2, <1>4
  <2>2. ls \in Seq({l}) /\ Len(ls) \in Nat /\ \A i \in 1..Len(ls) : ls[i] = l
    BY <2>1, LenProperties, ElementOfSeq DEF Lists
  <2>3. Len(ls) # 0
    BY <1>1, <2>2, EmptySeq
  <2>4. 1 \in 1..Len(ls) /\ 2 \in 1..Len(ls)
    <3> DEFINE k == Len(ls)
    <3>1. k \in Nat /\ k # 0 /\ k # 1
      BY <1>1, <2>2, <2>3
    <3> HIDE DEF k
    <3>2. 1 \in 1..k /\ 2 \in 1..k
      BY <3>1
    <3> QED BY <3>2 DEF k
  <2>5. l[2] < l[2]
    BY <2>1, <2>2, <2>4 DEF Lists, Holds, Ordered
  <2> QED BY <1>1, <1>3, <2>5
<1>5. rtFile[fileOf[g]] = <<>> => old = {}
  <2>1. Range(<<>>) = {}
    BY ListsNothing DEF Lists, Holds
  <2> QED BY <1>1, <2>1 DEF Lists, Holds
<1> QED BY <1>4, <1>5

LEMMA AppendTo ==
  ASSUME CompositeAssumption, Calls, Packs, NEW g \in Games, AppendGameFileLine(g)
  PROVE  \E t : RTTo(g, t)
<1> DEFINE was == rtFile[fileOf[g]]
           n == Number(g)
           old == First("realtime", g, n - 1)
           before == IF was = <<>> THEN <<Scrap>> ELSE was
<1>1. At(g, "realtime", "append") /\ UNCHANGED <<rtData, closing>>
  BY DEF AppendGameFileLine
<1>2. /\ RTHas(g, "append") /\ fileOf[g] \in DOMAIN rtFile /\ g \notin closing
      /\ rtData[g][Len(rtData[g])] = <<g, n>>
  BY <1>1, RTHasIt DEF RTHas
<1>3. ASSUME NEW line, rtFile' = Added(g, line)
      PROVE  rtFile'[fileOf[g]] = Append(before, line) /\ OtherFiles(rtFile, rtFile', g)
  BY <1>2, <1>3 DEF OtherFiles, Added
<1>4. /\ First("realtime", g, n) = old \union {<<g, n>>}
      /\ n \in Nat /\ \A l \in old : l[2] < n
  <2>1. RT(g) # "out"
    BY <1>2 DEF RTHas
  <2> QED BY <2>1, RTFacts
<1>5. Own(g) => Sparse(before, old)
  <2>1. Own(g) => Sparse(was, old)
    BY <1>2 DEF RTHas
  <2>2. Sparse(Append(<<>>, Scrap), old)
    BY SparseNothing, SparseScrap
  <2>3. Append(<<>>, Scrap) = <<Scrap>>
    OBVIOUS
  <2> QED BY <2>1, <2>2, <2>3
<1>6. CASE ~FirstLine(g) /\ Well /\ Goes(g, "list") /\ rtFile' = Added(g, rtData[g][Len(rtData[g])])
  <2>1. Moves("realtime", g, "list")
    BY <1>1, <1>6, GoesMoves
  <2>2. Marks("realtime", g) /\ (<<"realtime", g>> \in stale' <=> <<"realtime", g>> \in stale)
    BY <1>6, MarksAre
  <2>3. rtFile'[fileOf[g]] = Append(before, <<g, n>>) /\ OtherFiles(rtFile, rtFile', g)
    BY <1>2, <1>3, <1>6
  <2>4. Own(g) => Sparse(Append(before, <<g, n>>), First("realtime", g, n))
    <3> DEFINE l == <<g, n>>
    <3>1. l[2] = n
      OBVIOUS
    <3> HIDE DEF l, old, before, n
    <3>2. Own(g) => Sparse(Append(before, l), old \union {l})
      BY <1>4, <1>5, <3>1, SparseAppend
    <3> QED BY <1>4, <3>2 DEF l, n
  <2>5. CASE ~Own(g)
    BY <1>1, <1>2, <2>1, <2>2, <2>3, <2>5, FileTo
  <2>6. CASE Own(g) /\ <<"realtime", g>> \in stale
    BY <1>1, <1>2, <2>1, <2>2, <2>3, <2>4, <2>6, FileTo
  <2>7. CASE Own(g) /\ <<"realtime", g>> \notin stale
    <3>1. before = was
      BY <1>2, <1>6, <2>7, NotEmpty
    <3>2. rtFile'[fileOf[g]] = Append(was, <<g, n>>)
      BY <2>3, <3>1
    <3> QED BY <1>1, <1>2, <2>1, <2>2, <2>3, <3>2, FileTo
  <2> QED BY <2>5, <2>6, <2>7
<1>7. CASE rtFile' = Emptied(rtFile, g) /\ Well /\ Goes(g, "write")
  <2>1. Moves("realtime", g, "write") /\ Marks("realtime", g)
    BY <1>1, <1>7, GoesMoves, MarksAre
  <2>2. rtFile'[fileOf[g]] = <<>> /\ OtherFiles(rtFile, rtFile', g)
    BY <1>2, <1>7, EmptiedIs
  <2> QED BY <1>1, <1>2, <2>1, <2>2, FileTo
<1>8. CASE Fails("realtime", g) /\ Goes(g, "list") /\ (UNCHANGED rtFile \/ rtFile' = Added(g, Scrap))
  <2>1. Moves("realtime", g, "list") /\ Marks("realtime", g) /\ <<"realtime", g>> \in stale'
    BY <1>1, <1>8, GoesMoves, MarksAre
  <2>2. CASE UNCHANGED rtFile
    BY <1>1, <1>2, <2>1, <2>2, FileTo DEF OtherFiles
  <2>3. CASE rtFile' = Added(g, Scrap)
    <3>1. rtFile'[fileOf[g]] = Append(before, Scrap) /\ OtherFiles(rtFile, rtFile', g)
      BY <1>3, <2>3
    <3>2. Own(g) => Sparse(Append(before, Scrap), First("realtime", g, n))
      <4> HIDE DEF old, before, n
      <4>1. Own(g) => Sparse(Append(before, Scrap), old)
        BY <1>5, SparseScrap
      <4>2. old \subseteq First("realtime", g, n)
        BY <1>4
      <4> QED BY <4>1, <4>2, SparseMore
    <3> QED BY <1>1, <1>2, <2>1, <3>1, <3>2, FileTo
  <2> QED BY <1>8, <2>2, <2>3
<1>9. \/ ~FirstLine(g) /\ Well /\ Goes(g, "list") /\ rtFile' = Added(g, rtData[g][Len(rtData[g])])
      \/ rtFile' = Emptied(rtFile, g) /\ Well /\ Goes(g, "write")
      \/ Fails("realtime", g) /\ Goes(g, "list") /\ (UNCHANGED rtFile \/ rtFile' = Added(g, Scrap))
  BY DEF AppendGameFileLine
<1> QED BY <1>6, <1>7, <1>8, <1>9

LEMMA EndFileTo ==
  ASSUME CompositeAssumption, Calls, Packs, NEW g \in Games, EndGameFile(g)
  PROVE  \E t : RTTo(g, t)
<1>1. At(g, "realtime", "close") /\ rtData' = rtData /\ closing' = closing \union {g}
  BY DEF EndGameFile
<1>2. RTHas(g, "close") /\ fileOf[g] \in DOMAIN rtFile /\ Event(g) = "end"
  BY <1>1, RTHasIt DEF RTHas
<1>3. CASE rtFile' = Emptied(rtFile, g) /\ Well /\ Goes(g, "write")
  <2>1. Moves("realtime", g, "write") /\ Marks("realtime", g)
    BY <1>1, <1>3, GoesMoves, MarksAre
  <2>2. rtFile'[fileOf[g]] = <<>> /\ OtherFiles(rtFile, rtFile', g)
    BY <1>2, <1>3, EmptiedIs
  <2> QED BY <1>1, <1>2, <2>1, <2>2, FileTo
<1>4. CASE Fails("realtime", g) /\ UNCHANGED rtFile /\ Goes(g, "list")
  <2>1. Moves("realtime", g, "list") /\ Marks("realtime", g) /\ <<"realtime", g>> \in stale'
    BY <1>1, <1>4, GoesMoves, MarksAre
  <2> QED BY <1>1, <1>2, <1>4, <2>1, FileTo DEF OtherFiles
<1> QED BY <1>3, <1>4 DEF EndGameFile

LEMMA WriteFileTo ==
  ASSUME CompositeAssumption, Calls, Packs, NEW g \in Games, WriteGameFile(g)
  PROVE  RTTo(g, "list")
<1>1. /\ At(g, "realtime", "write") /\ UNCHANGED <<rtData, closing>> /\ Goes(g, "list")
  BY DEF WriteGameFile
<1>2. /\ RTHas(g, "write") /\ fileOf[g] \in DOMAIN rtFile /\ (g \in closing => Event(g) = "end")
      /\ (Own(g) => rtFile[fileOf[g]] = <<>>)
  BY <1>1, RTHasIt DEF RTHas
<1>3. Moves("realtime", g, "list")
  BY <1>1, GoesMoves
<1>4. CASE rtFile' \in Written(rtFile, g, rtData[g]) /\ Made("realtime", g)
  <2>1. Marks("realtime", g)
    BY <1>4, MarksAre
  <2>2. /\ OtherFiles(rtFile, rtFile', g)
        /\ rtFile[fileOf[g]] = <<>> => rtFile'[fileOf[g]] = rtData[g]
    BY <1>2, <1>4, WrittenIs
  <2> QED BY <1>1, <1>2, <1>3, <2>1, <2>2, FileTo
<1>5. CASE rtFile' \in Torn(rtFile, g, rtData[g]) /\ Fails("realtime", g)
  <2> DEFINE content == rtData[g]
             file == rtFile'[fileOf[g]]
             lines == First("realtime", g, Number(g))
  <2>1. Marks("realtime", g) /\ <<"realtime", g>> \in stale'
    BY <1>5, MarksAre
  <2>2. rtFile' \in Torn(rtFile, g, content) /\ fileOf[g] \in DOMAIN rtFile
    BY <1>2, <1>5
  <2>3. Sparse(content, lines)
    BY <1>2, ListsSparse DEF RTHas
  <2> HIDE DEF content
  <2>4. /\ \/ file = rtFile[fileOf[g]]
           \/ \E n \in 0..Len(content) : file = Append(SubSeq(content, 1, n), Scrap)
        /\ OtherFiles(rtFile, rtFile', g)
    BY <2>2, TornIs
  <2> HIDE DEF lines, file
  <2>5. Own(g) => Sparse(file, lines)
    <3>1. CASE file = rtFile[fileOf[g]]
      BY <1>2, <3>1, SparseNothing
    <3>2. CASE \E n \in 0..Len(content) : file = Append(SubSeq(content, 1, n), Scrap)
      <4>1. PICK n \in 0..Len(content) : file = Append(SubSeq(content, 1, n), Scrap)
        BY <3>2
      <4>2. Sparse(SubSeq(content, 1, n), lines)
        BY <2>3, SparseBegin
      <4> QED BY <4>1, <4>2, SparseScrap
    <3> QED BY <2>4, <3>1, <3>2
  <2> QED BY <1>1, <1>2, <1>3, <2>1, <2>4, <2>5, FileTo DEF lines, file
<1> QED BY <1>4, <1>5 DEF WriteGameFile

LEMMA ListTo ==
  ASSUME CompositeAssumption, Calls, Packs, NEW g \in Games, GatherItems(g) \/ OpenList(g)
  PROVE  \E t : RTTo(g, t) /\ (GatherItems(g) => t = "listOpen") /\ (OpenList(g) => t = "listWrite")
<1>1. PICK s \in {"list", "listOpen"}, t \in {"listOpen", "listWrite"} :
        /\ At(g, "realtime", s) /\ Goes(g, t) /\ Well /\ UNCHANGED <<rtData, rtFile, closing>>
        /\ GatherItems(g) => t = "listOpen"
        /\ OpenList(g) => t = "listWrite"
  <2>1. GatherItems(g) => step[g] = "list" /\ step'[g] = "listOpen"
    BY DEF GatherItems, At, Goes, Calls
  <2>2. OpenList(g) => step[g] = "listOpen" /\ step'[g] = "listWrite"
    BY DEF OpenList, At, Goes, Calls
  <2>3. CASE GatherItems(g)
    BY <2>1, <2>2, <2>3 DEF GatherItems
  <2>4. CASE OpenList(g)
    BY <2>1, <2>2, <2>4 DEF OpenList
  <2> QED BY <2>3, <2>4
<1>2. RTHas(g, s) /\ (g \in closing => Event(g) = "end")
  BY <1>1, RTHasIt DEF RTHas
<1>3. Moves("realtime", g, t)
  BY <1>1, GoesMoves
<1>4. Marks("realtime", g) /\ (<<"realtime", g>> \in stale' <=> <<"realtime", g>> \in stale)
  BY <1>1, MarksAre
<1> QED BY <1>1, <1>2, <1>3, <1>4, FileTo DEF OtherFiles

LEMMA ListedTo ==
  ASSUME CompositeAssumption, Calls, Packs, NEW g \in Games, WriteList(g) \/ ListFails(g)
  PROVE  \E t \in {"close", "out"} : RTTo(g, t) /\ (Event(g) # "end" => t = "out")
<1>1. PICK s \in {"listOpen", "listWrite"} : At(g, "realtime", s)
  BY DEF WriteList, ListFails, Listing
<1>2. /\ UNCHANGED <<stale, rtFile>> /\ Listed(g) /\ faults' \in {faults, faults + 1}
      /\ faults' # faults => faults < MaxFaults
  BY DEF WriteList, ListFails, Well
<1>3. RTHas(g, s) /\ (g \in closing => Event(g) = "end")
  BY <1>1, RTHasIt DEF RTHas
<1>4. Marks("realtime", g)
  BY <1>2, CompositeAssumption DEF Marks, CompositeAssumption
<1>5. CASE Event(g) # "end" /\ Returns(g) /\ UNCHANGED <<rtData, closing>>
  <2>1. Moves("realtime", g, "out")
    BY <1>1, <1>5, ReturnsMoves
  <2> QED BY <1>2, <1>3, <1>4, <1>5, <2>1, FileTo DEF OtherFiles
<1>6. CASE Event(g) = "end" /\ g \notin closing /\ Goes(g, "close") /\ UNCHANGED <<rtData, closing>>
  <2>1. Moves("realtime", g, "close")
    BY <1>1, <1>6, GoesMoves
  <2> QED BY <1>2, <1>3, <1>4, <1>6, <2>1, FileTo DEF OtherFiles
<1>7. CASE /\ g \in closing /\ closing' = closing \ {g}
           /\ rtData' = Deleted(rtData, g) /\ Returns(g)
  <2>1. Moves("realtime", g, "out")
    BY <1>1, <1>7, ReturnsMoves
  <2> QED BY <1>2, <1>3, <1>4, <1>7, <2>1, FileTo DEF OtherFiles
<1> QED BY <1>2, <1>5, <1>6, <1>7 DEF Listed

LEMMA PacksMoved ==
  ASSUME Calls, Packs, NEW g \in Games, NEW t, RTTo(g, t)
  PROVE  Packs' /\ Calls'
<1>1. Calls' /\ UNCHANGED <<config, told>>
  BY DEF RTTo, Moves
<1>2. ASSUME NEW h \in Games, h # g PROVE Pack(h)'
  <2>1. RT(h)' = RT(h) /\ (<<"realtime", h>> \in stale' <=> <<"realtime", h>> \in stale)
    BY <1>2 DEF RTTo, Moves, Marks, RT
  <2>2. Own(h) => rtFile'[fileOf[h]] = rtFile[fileOf[h]]
    <3>1. fileOf[h] \in DOMAIN rtFile /\ (Own(h) => fileOf[g] # fileOf[h])
      BY <1>2 DEF Packs, Calls, Own
    <3> QED BY <3>1 DEF RTTo, OtherFiles
  <2>3. KeptRT(h)
    BY <1>1, <1>2, <2>1, <2>2 DEF KeptRT, RTTo, Others
  <2> QED BY <2>3, KeptPack DEF Packs
<1>3. DOMAIN rtData' \subseteq Games /\ DOMAIN rtFile' = FileNames
  BY DEF RTTo, Others, OtherFiles, Packs
<1>4. closing' \subseteq Games
  BY DEF RTTo, Packs
<1> QED BY <1>1, <1>2, <1>3, <1>4 DEF Packs, RTTo

LEMMA PacksKept ==
  ASSUME Packs, UNCHANGED <<realtime, config, told>>,
         \A h \in Games : RT(h)' = RT(h) /\ (<<"realtime", h>> \in stale' <=> <<"realtime", h>> \in stale)
  PROVE  Packs'
<1>1. ASSUME NEW h \in Games PROVE Pack(h)'
  <2>1. KeptRT(h)
    BY DEF KeptRT, realtime
  <2> QED BY <2>1, KeptPack DEF Packs
<1> QED BY <1>1 DEF Packs, realtime

LEMMA NotifyPacks ==
  ASSUME Calls, Packs, NEW g \in Games, NEW e \in Kinds, Notify(g, e), UNCHANGED realtime
  PROVE  Packs'
<1> DEFINE n == Number(g)
<1>1. UNCHANGED <<observers, fileOf, lasts, stale, rtData, rtFile, closing>>
  BY NotifyMoves DEF config, realtime
<1>2. ASSUME NEW h \in Games, h # g PROVE Pack(h)'
  <2>1. told'[h] = told[h] /\ RT(h)' = RT(h)
    BY <1>2, NotifyMoves DEF RT
  <2>2. KeptRT(h)
    BY <1>1, <2>1 DEF KeptRT, config
  <2> QED BY <2>2, KeptPack DEF Packs
<1>3. /\ Number(g)' = n + 1 /\ n \in Nat /\ RT(g) = "out" /\ told'[g] # <<>>
      /\ RT(g)' = IF "realtime" \in observers /\ e \in Heard["realtime"] THEN "called" ELSE "out"
      /\ (Own(g)' <=> Own(g))
  <2>1. told' = [told EXCEPT ![g] = Append(@, e)] /\ told[g] \in Seq(Kinds)
    BY NotifyMoves DEF Calls
  <2>2. told'[g] = Append(told[g], e)
    BY <2>1 DEF Calls
  <2>3. told'[g] # <<>>
    BY <2>1, <2>2, AppendProperties
  <2> QED BY <1>1, <2>3, NotifyMoves DEF Own, RT
<1>4. Gathered(g) = n /\ Sent(g) = n /\ Gathered(g)' = Sent(g)'
  BY <1>3 DEF Gathered, Sent
<1>6. First("realtime", g, n) \subseteq First("realtime", g, Sent(g))'
  <2>1. CASE RT(g)' = "called"
    <3>1. Sent(g)' = n
      BY <1>3, <2>1 DEF Sent
    <3>2. First("realtime", g, Sent(g))' = UpTo(Lines("realtime", g)', n)
      BY <3>1 DEF First, UpTo
    <3>3. n \in 0..n /\ \A k \in 0..n : UpTo(Lines("realtime", g)', k) = First("realtime", g, k)
      BY <1>3, FirstOld DEF First, UpTo
    <3> QED BY <3>2, <3>3
  <2>2. CASE RT(g)' = "out"
    <3>1. Sent(g)' = Number(g)'
      BY <2>2 DEF Sent
    <3>2. First("realtime", g, Sent(g))' = First("realtime", g, Number(g))'
      BY <3>1 DEF First, UpTo
    <3> QED BY <3>2, FirstOld
  <2> QED BY <1>3, <2>1, <2>2
<1>7. "realtime" \in observers =>
        First("realtime", g, Sent(g))' = First("realtime", g, n)
  <2>1. ASSUME "realtime" \in observers, e \in Heard["realtime"]
        PROVE  First("realtime", g, Sent(g))' = First("realtime", g, n)
    <3>1. Sent(g)' = n
      BY <1>3, <2>1 DEF Sent
    <3>2. First("realtime", g, Sent(g))' = UpTo(Lines("realtime", g)', n)
      BY <3>1 DEF First, UpTo
    <3>3. n \in 0..n /\ \A k \in 0..n : UpTo(Lines("realtime", g)', k) = First("realtime", g, k)
      BY <1>3, FirstOld DEF First, UpTo
    <3> QED BY <3>2, <3>3
  <2>2. ASSUME e \notin Heard["realtime"]
        PROVE  First("realtime", g, Sent(g))' = First("realtime", g, n)
    <3>1. Sent(g)' = Number(g)'
      BY <1>3, <2>2 DEF Sent
    <3>2. First("realtime", g, Sent(g))' = First("realtime", g, Number(g))'
      BY <3>1 DEF First, UpTo
    <3>3. First("realtime", g, Number(g))' = First("realtime", g, n)
      BY <2>2, RTIs, FirstOld
    <3> QED BY <3>2, <3>3
  <2> QED BY <2>1, <2>2
<1>8. First("realtime", g, Gathered(g))' = First("realtime", g, Sent(g))'
  BY <1>4 DEF First, UpTo
<1>9. Pack(g) /\ g \notin closing
  BY <1>3 DEF Packs, Pack
<1>10. Packed(g)'
  BY <1>1, <1>3, <1>4, <1>7, <1>8, <1>9 DEF Pack, Packed, Lists
<1>11. Appended(g)'
  <2>1. Own(g) => /\ Sparse(rtFile[fileOf[g]], First("realtime", g, n))
                  /\ "realtime" \in observers /\ <<"realtime", g>> \notin stale =>
                       Lists(rtFile[fileOf[g]], First("realtime", g, n))
                  /\ "realtime" \notin observers => rtFile[fileOf[g]] = <<>>
    BY <1>3, <1>4, <1>9 DEF Pack, Appended
  <2>2. Own(g) => Sparse(rtFile[fileOf[g]], First("realtime", g, Sent(g))')
    BY <1>6, <2>1, SparseMore
  <2> QED BY <1>1, <1>3, <1>7, <2>1, <2>2 DEF Appended, Lists, Sparse
<1>12. Pack(g)'
  <2>1. RT(g)' \in {"called", "out"} /\ "called" \in RTPhases /\ "out" \in RTPhases
    BY <1>3 DEF RTPhases
  <2> QED BY <1>1, <1>9, <1>10, <1>11, <2>1 DEF Pack
<1> QED BY <1>1, <1>2, <1>12 DEF Packs

-----------------------------------------------------------------------------
(* RealtimeBroadcaster: the list *)

LEMMA ListingIs ==
  ASSUME Calls, NEW g \in Games
  PROVE  /\ g \in Listing <=> InList(g)
         /\ At(g, "realtime", "listWrite") => RT(g) = "listWrite"
<1>1. \A o : o \in Turn(g) => o \in todo[g]
  BY DEF Turn
<1>2. \A s : At(g, "realtime", s) => RT(g) = s
  BY <1>1 DEF At, RT, Phase
<1>3. ASSUME NEW s \in {"listOpen", "listWrite"}, RT(g) = s PROVE At(g, "realtime", s)
  BY <1>3 DEF At, RT, Phase
<1> QED BY <1>2, <1>3 DEF Listing, InList

LEMMA ListKept ==
  ASSUME ListSound, UNCHANGED <<items, list, alone>>,
         \A h \in Games : /\ InList(h)' <=> InList(h)
                          /\ RT(h)' = "listWrite" <=> RT(h) = "listWrite"
                          /\ Due(h)' => Due(h)
  PROVE  ListSound'
BY DEF ListSound

\* Steps of other observers, and events, are not seen in the list.
LEMMA ListApart ==
  ASSUME Calls, Packs, ListSound, UNCHANGED realtime,
         \/ UNCHANGED told /\ \A h \in Games : RT(h)' = RT(h)
         \/ \E g \in Games, e \in Kinds : Notify(g, e)
  PROVE  ListSound'
<1>1. UNCHANGED <<items, list, alone, rtData>>
  BY DEF realtime
<1>2. CASE UNCHANGED told /\ \A h \in Games : RT(h)' = RT(h)
  <2>1. \A h \in Games : Due(h)' <=> Due(h)
    BY <1>1, <1>2 DEF Due, Event, Number
  <2>2. \A h \in Games : InList(h)' <=> InList(h)
    BY <1>2 DEF InList
  <2> QED BY <1>1, <1>2, <2>1, <2>2, ListKept
<1>3. CASE \E g \in Games, e \in Kinds : Notify(g, e)
  <2>1. PICK g \in Games, e \in Kinds : Notify(g, e)
    BY <1>3
  <2>2. /\ \A h \in Games : h # g => RT(h)' = RT(h) /\ Event(h)' = Event(h)
        /\ RT(g) = "out" /\ RT(g)' \in {"called", "out"}
    BY <2>1, NotifyMoves DEF RT
  <2>3. ASSUME NEW h \in Games, Due(h)' PROVE Due(h)
    BY <1>1, <2>2, <2>3 DEF Due
  <2>4. \A h \in Games : (InList(h)' <=> InList(h)) /\ (RT(h)' = "listWrite" <=> RT(h) = "listWrite")
    BY <2>2 DEF InList
  <2> QED BY <1>1, <2>3, <2>4, ListKept
<1> QED BY <1>2, <1>3

\* Where a step of g leads the list.
LEMMA DueMoved ==
  ASSUME Calls, Packs, NEW g \in Games, NEW t, RTTo(g, t)
  PROVE  /\ \A h \in Games : h # g => /\ RT(h)' = RT(h) /\ (InList(h)' <=> InList(h))
                                      /\ Due(h)' <=> Due(h)
         /\ RT(g)' = t /\ Event(g)' = Event(g)
<1>1. /\ \A h \in Games : h # g => RT(h)' = RT(h)
      /\ \A h \in Games : Event(h)' = Event(h)
      /\ \A h \in Games : h # g => (h \in DOMAIN rtData' <=> h \in DOMAIN rtData)
      /\ RT(g)' = t
  BY MovesTold DEF RTTo, Moves, RT, Others
<1> QED BY <1>1 DEF Due, InList

LEMMA RealtimeSteps ==
  ASSUME CompositeAssumption, Calls, Stories, Packs, ListSound, NEW g \in Games, RealtimeStep(g)
  PROVE  Packs' /\ ListSound' /\ (\E t : Moves("realtime", g, t)) /\ Marks("realtime", g)
<1>1. ASSUME NEW t, RTTo(g, t)
      PROVE  Packs' /\ (\E u : Moves("realtime", g, u)) /\ Marks("realtime", g)
  BY <1>1, PacksMoved DEF RTTo
<1>2. ASSUME NEW t, RTTo(g, t), t \notin {"listOpen", "listWrite", "out"}, ~InList(g),
             Event(g) = "start" \/ g \in DOMAIN rtData, UNCHANGED <<items, list, alone>>
      PROVE  ListSound'
  <2>1. \A h \in Games : Due(h)' => Due(h)
    BY <1>2, DueMoved DEF Due
  <2>2. \A h \in Games : (InList(h)' <=> InList(h)) /\ (RT(h)' = "listWrite" <=> RT(h) = "listWrite")
    BY <1>2, DueMoved DEF InList
  <2> QED BY <1>2, <2>1, <2>2, ListKept
<1>3. ASSUME NEW s, At(g, "realtime", s), s # "out"
      PROVE  /\ RT(g) = s /\ (s # "called" => g \in DOMAIN rtData)
             /\ InList(g) <=> s \in {"listOpen", "listWrite"}
  BY <1>3, RTHasIt DEF RTHas, InList
<1>4. CASE TrackStartGame(g)
  <2>1. RTTo(g, "emit") /\ At(g, "realtime", "called") /\ Event(g) = "start" /\ UNCHANGED <<items, list, alone>>
    BY <1>4, StartTo DEF TrackStartGame
  <2> QED BY <1>1, <1>2, <1>3, <2>1
<1>5. CASE Emit(g)
  <2>1. /\ RTTo(g, "append") /\ g \in DOMAIN rtData /\ UNCHANGED <<items, list, alone>>
        /\ At(g, "realtime", "called") \/ At(g, "realtime", "emit")
    BY <1>5, EmitTo DEF Emit, Known
  <2>2. ~InList(g)
    BY <1>3, <2>1
  <2> QED BY <1>1, <1>2, <2>1, <2>2
<1>6. CASE AppendGameFileLine(g)
  <2>1. PICK t : RTTo(g, t)
    BY <1>6, AppendTo
  <2>2. At(g, "realtime", "append") /\ UNCHANGED <<items, list, alone>> /\ step'[g] \in {"list", "write"}
    BY <1>6 DEF AppendGameFileLine, Goes, Calls
  <2>3. t \notin {"listOpen", "listWrite", "out"}
    <3>1. "realtime" \in Turn(g)' /\ "realtime" \in todo'[g] /\ t = Phase("realtime", g)'
      BY <1>6, <2>1, <2>2, TurnIsOne DEF AppendGameFileLine, Goes, At, Turn, RTTo, Moves
    <3> QED BY <2>2, <3>1 DEF Phase
  <2> QED BY <1>1, <1>2, <1>3, <2>1, <2>2, <2>3
<1>7. CASE EndGameFile(g)
  <2>1. PICK t : RTTo(g, t)
    BY <1>7, EndFileTo
  <2>2. At(g, "realtime", "close") /\ UNCHANGED <<items, list, alone>> /\ step'[g] \in {"list", "write"}
    BY <1>7 DEF EndGameFile, Goes, Calls
  <2>3. t \notin {"listOpen", "listWrite", "out"}
    <3>1. "realtime" \in Turn(g)' /\ "realtime" \in todo'[g] /\ t = Phase("realtime", g)'
      BY <1>7, <2>1, <2>2, TurnIsOne DEF EndGameFile, Goes, At, Turn, RTTo, Moves
    <3> QED BY <2>2, <3>1 DEF Phase
  <2> QED BY <1>1, <1>2, <1>3, <2>1, <2>2, <2>3
<1>8. CASE WriteGameFile(g)
  <2>1. RTTo(g, "list") /\ At(g, "realtime", "write") /\ UNCHANGED <<items, list, alone>>
    BY <1>8, WriteFileTo DEF WriteGameFile
  <2> QED BY <1>1, <1>2, <1>3, <2>1
<1>9. CASE GatherItems(g)
  <2>1. PICK t : RTTo(g, t) /\ t = "listOpen"
    BY <1>9, ListTo
  <2>2. /\ At(g, "realtime", "list") /\ items' = [items EXCEPT ![g] = DOMAIN rtData]
        /\ alone' = (Listing = {}) /\ UNCHANGED <<list, rtData>>
    BY <1>9 DEF GatherItems, Known
  <2>3. items' \in [Games -> SUBSET Games] /\ items'[g] = DOMAIN rtData /\ g \in DOMAIN rtData
    BY <1>3, <2>2 DEF ListSound, Packs
  <2>4. alone' => \A h \in Games : ~InList(h)
    BY <2>2, ListingIs
  <2>5. InList(g)' /\ RT(g)' = "listOpen" /\ \A h \in Games : h # g => (InList(h)' <=> InList(h))
    BY <2>1, DueMoved DEF InList
  <2>6. \A h \in Games : Due(h)' => h \in DOMAIN rtData
    BY <2>2 DEF Due
  <2>7. ListSound'
    BY <2>2, <2>3, <2>4, <2>5, <2>6 DEF ListSound
  <2> QED BY <1>1, <2>1, <2>7
<1>10. CASE OpenList(g)
  <2>1. PICK t : RTTo(g, t) /\ t = "listWrite"
    BY <1>10, ListTo
  <2>2. At(g, "realtime", "listOpen") /\ list' = [games |-> {}, whole |-> FALSE] /\ UNCHANGED <<items, alone, rtData>>
    BY <1>10 DEF OpenList
  <2>3. InList(g) /\ InList(g)' /\ \A h \in Games : h # g => (InList(h)' <=> InList(h))
    BY <1>3, <2>1, <2>2, DueMoved DEF InList
  <2>4. \A h \in Games : Due(h)' => Due(h)
    BY <1>3, <2>1, <2>2, DueMoved DEF Due
  <2>5. ListSound'
    BY <2>2, <2>3, <2>4 DEF ListSound
  <2> QED BY <1>1, <2>1, <2>5
<1>11. CASE WriteList(g)
  <2>1. PICK t \in {"close", "out"} : RTTo(g, t)
    BY <1>11, ListedTo
  <2>2. At(g, "realtime", "listWrite") /\ UNCHANGED <<items, alone>>
    BY <1>11 DEF WriteList
  <2>3. PICK whole \in BOOLEAN : /\ list.games = {} => whole
                                 /\ list' = [games |-> items[g], whole |-> whole]
    BY <1>11 DEF WriteList
  <2>4. RT(g) = "listWrite" /\ InList(g)
    BY <1>3, <2>2
  <2>5. ~InList(g)' /\ \A h \in Games : h # g => (InList(h)' <=> InList(h)) /\ (Due(h)' <=> Due(h))
    BY <2>1, DueMoved DEF InList
  <2>6. items[g] \in SUBSET Games /\ list'.games = items[g] /\ list'.whole = whole
    BY <2>3 DEF ListSound
  <2>7. alone => /\ \A h \in Games : InList(h) => h = g
                 /\ list.games = {} /\ g \in items[g]
                 /\ \A h \in Games : Due(h) => h \in items[g]
    BY <2>4 DEF ListSound
  <2>8. ListSound'
    <3>1. alone' => /\ \A h \in Games : ~InList(h)'
                    /\ list'.whole /\ \A h \in Games : Due(h)' => h \in list'.games
      BY <2>2, <2>3, <2>5, <2>6, <2>7
    <3> QED BY <2>2, <2>3, <2>6, <3>1 DEF ListSound
  <2> QED BY <1>1, <2>1, <2>8
<1>12. CASE ListFails(g)
  <2>1. PICK t \in {"close", "out"} : RTTo(g, t)
    BY <1>12, ListedTo
  <2>2. alone' = FALSE /\ items' = items /\ (list' = list \/ list' = [games |-> items[g], whole |-> FALSE])
    BY <1>12 DEF ListFails
  <2>3. ListSound'
    <3>1. items \in [Games -> SUBSET Games] /\ items[g] \subseteq Games
      BY DEF ListSound
    <3>2. CASE list' = list
      BY <2>2, <3>2 DEF ListSound
    <3>3. CASE list' = [games |-> items[g], whole |-> FALSE]
      BY <2>2, <3>1, <3>3 DEF ListSound
    <3> QED BY <2>2, <3>2, <3>3
  <2> QED BY <1>1, <2>1, <2>3
<1> QED BY <1>4, <1>5, <1>6, <1>7, <1>8, <1>9, <1>10, <1>11, <1>12 DEF RealtimeStep

-----------------------------------------------------------------------------
(* TTSBroadcaster *)

KeptTTS(g) ==
  /\ told'[g] = told[g] /\ TT(g)' = TT(g) /\ async' = async
  /\ g \in DOMAIN playlists' <=> g \in DOMAIN playlists
  /\ g \in DOMAIN playlists => playlists'[g] = playlists[g]
  /\ counter'[g] = counter[g] /\ playlistMu'[g] = playlistMu[g] /\ speeches'[g] = speeches[g]
  /\ g \in dirs' <=> g \in dirs
  /\ g \in swept' <=> g \in swept
  /\ segments'[g] = segments[g] /\ m3u8'[g] = m3u8[g] /\ taken'[g] = taken[g]
  /\ <<"tts", g>> \in stale' <=> <<"tts", g>> \in stale

LEMMA KeptStream ==
  ASSUME NEW g \in Games, Stream(g), KeptTTS(g)
  PROVE  Stream(g)'
<1>1. Number(g)' = Number(g)
  BY DEF KeptTTS, Number
<1>2. SpeechesRight(g)'
  BY <1>1 DEF Stream, KeptTTS, SpeechesRight, Numbering
<1>3. PlaylistRight(g)'
  BY DEF Stream, KeptTTS, PlaylistRight, Entered
<1>4. FilesRight(g)'
  BY DEF Stream, KeptTTS, FilesRight, Keeps
<1> QED BY <1>2, <1>3, <1>4 DEF Stream, KeptTTS

\* Nothing but where the call is has changed.
OnlyCall(g) ==
  /\ UNCHANGED <<async, playlists, counter, playlistMu, speeches>>
  /\ UNCHANGED <<dirs, segments, m3u8, swept, taken>>
  /\ <<"tts", g>> \in stale => <<"tts", g>> \in stale'
  /\ told'[g] # <<>> /\ Number(g) \in Nat /\ Number(g)' \in Nat /\ Number(g) <= Number(g)'
  /\ TT(g) # "create" /\ TT(g)' # "create"
  /\ ~async => TT(g)' = TT(g) \/ \A n \in DOMAIN speeches[g] : speeches[g][n].at = "over"
  /\ TT(g)' \in {"called", "speak"} => Number(g)' \notin DOMAIN speeches[g]
  /\ Number(g)' = Number(g) \/ \A n \in DOMAIN speeches[g] : ~async => speeches[g][n].at = "over"

LEMMA CallStream ==
  ASSUME NEW g \in Games, Stream(g), Streams, OnlyCall(g)
  PROVE  Stream(g)'
<1> USE DEF OnlyCall
<1>1. SpeechesRight(g)'
  <2>1. DOMAIN speeches[g] \subseteq 1..Number(g)'
    BY DEF Stream, SpeechesRight
  <2>2. ~async => \A n \in DOMAIN speeches[g] :
          speeches[g][n].at # "over" => n = Number(g)' /\ TT(g)' = "wait"
    BY DEF Stream, SpeechesRight
  <2> QED BY <2>1, <2>2 DEF Stream, SpeechesRight, Numbering
<1>2. PlaylistRight(g)'
  BY DEF Stream, PlaylistRight, Entered
<1>3. FilesRight(g)'
  BY DEF Stream, FilesRight, Keeps
<1> QED BY <1>1, <1>2, <1>3 DEF Stream

LEMMA NotifyStream ==
  ASSUME Calls, Streams, NEW g \in Games, NEW e \in Kinds, Notify(g, e), UNCHANGED tts
  PROVE  Streams'
<1>1. UNCHANGED <<async, playlists, counter, playlistMu, speeches, dirs, segments, m3u8, swept, taken, stale>>
  BY NotifyMoves DEF tts, files, removed
<1>2. ASSUME NEW h \in Games, h # g PROVE Stream(h)'
  <2>1. told'[h] = told[h] /\ TT(h)' = TT(h)
    BY <1>2, NotifyMoves DEF TT
  <2> QED BY <1>1, <2>1, KeptStream DEF KeptTTS, Streams
<1>3. /\ Number(g)' = Number(g) + 1 /\ Number(g) \in Nat /\ TT(g) = "out" /\ TT(g)' \in {"called", "out"}
  BY NotifyMoves DEF TT
<1>4. told'[g] # <<>>
  <2>1. told' = [told EXCEPT ![g] = Append(@, e)] /\ told[g] \in Seq(Kinds)
    BY NotifyMoves DEF Calls
  <2>2. told'[g] = Append(told[g], e)
    BY <2>1 DEF Calls
  <2> QED BY <2>1, <2>2, AppendProperties
<1>5. Stream(g) /\ DOMAIN speeches[g] \subseteq 1..Number(g)
  BY DEF Streams, Stream, SpeechesRight
<1>6. ~async => \A n \in DOMAIN speeches[g] : speeches[g][n].at = "over"
  BY <1>3, <1>5 DEF Stream, SpeechesRight
<1>7. Number(g)' \notin DOMAIN speeches[g]
  BY <1>3, <1>5
<1>8. Stream(g)'
  <2>1. OnlyCall(g)
    BY <1>1, <1>3, <1>4, <1>5, <1>6, <1>7 DEF OnlyCall
  <2> QED BY <1>5, <2>1, CallStream
<1> QED BY <1>1, <1>2, <1>8 DEF Streams

LEMMA StreamsKept ==
  ASSUME Streams, UNCHANGED <<tts, told>>,
         \A h \in Games : TT(h)' = TT(h) /\ (<<"tts", h>> \in stale' <=> <<"tts", h>> \in stale)
  PROVE  Streams'
<1>1. ASSUME NEW h \in Games PROVE Stream(h)'
  BY KeptStream DEF KeptTTS, Streams, tts, files, removed
<1> QED BY <1>1 DEF Streams, tts, files, removed

\* The directory is emptied: every stream has lost what it had there.
LEMMA StartStreams ==
  ASSUME Calls, Streams, Start
  PROVE  Streams'
<1>1. /\ dirs' = {} /\ segments' = [g \in Games |-> <<>>] /\ m3u8' = [g \in Games |-> NoPlaylist]
      /\ swept' = swept \union dirs /\ taken' = [g \in Games |-> taken[g] \union DOMAIN segments[g]]
      /\ UNCHANGED <<async, playlists, counter, playlistMu, speeches, told, todo, step, stale>>
  BY DEF Start, composite
<1>2. ASSUME NEW h \in Games PROVE Stream(h)'
  <2>1. TT(h)' = TT(h) /\ Number(h)' = Number(h)
    BY <1>1 DEF TT, Phase, Turn, Number
  <2>2. SpeechesRight(h)'
    BY <1>1, <2>1 DEF Streams, Stream, SpeechesRight, Numbering
  <2>3. PlaylistRight(h)'
    BY <1>1, <2>1 DEF Streams, Stream, PlaylistRight, Entered
  <2>4. FilesRight(h)'
    <3>1. FilesRight(h)
      BY DEF Streams, Stream
    <3>2. \A k, n : Keeps(h, k, n) => Keeps(h, k, n)'
      BY <1>1 DEF Keeps
    <3>3. h \in DOMAIN playlists => h \in swept'
      BY <1>1, <3>1 DEF FilesRight
    <3> QED BY <1>1, <3>1, <3>2, <3>3 DEF FilesRight
  <2> QED BY <1>1, <2>1, <2>2, <2>3, <2>4 DEF Streams, Stream
<1> QED BY <1>1, <1>2 DEF Streams

\* A step for g that leads its call to t, or one of its speeches on, leaves the others.
OtherStreams(g) ==
  /\ UNCHANGED <<told, async>>
  /\ Others(playlists, playlists', g)
  /\ counter' \in [Games -> Nat] /\ playlistMu' \in [Games -> Nat]
  /\ DOMAIN speeches' = Games /\ DOMAIN segments' = Games /\ DOMAIN m3u8' = Games
  /\ DOMAIN taken' = Games
  /\ \A h \in Games : h # g =>
       /\ TT(h)' = TT(h) /\ counter'[h] = counter[h] /\ playlistMu'[h] = playlistMu[h]
       /\ speeches'[h] = speeches[h] /\ segments'[h] = segments[h] /\ m3u8'[h] = m3u8[h]
       /\ h \in dirs' <=> h \in dirs
       /\ h \in swept' <=> h \in swept
       /\ taken'[h] = taken[h] /\ (<<"tts", h>> \in stale' <=> <<"tts", h>> \in stale)

LEMMA StreamMoved ==
  ASSUME Streams, NEW g \in Games, OtherStreams(g), Stream(g)'
  PROVE  Streams'
<1>1. ASSUME NEW h \in Games, h # g PROVE Stream(h)'
  BY <1>1, KeptStream DEF KeptTTS, Streams, OtherStreams, Others
<1>2. DOMAIN playlists' \subseteq Games
  BY DEF OtherStreams, Others, Streams
<1> QED BY <1>1, <1>2 DEF Streams, OtherStreams

LEMMA TTAt ==
  ASSUME Calls, NEW g \in Games, NEW s, s # "out", At(g, "tts", s)
  PROVE  /\ TT(g) = s /\ told[g] # <<>> /\ Number(g) \in Nat \ {0} /\ Event(g) = told[g][Number(g)]
         /\ Number(g) \in 1..Number(g)
<1>1. "tts" \in Turn(g) /\ step[g] = s /\ "tts" \in todo[g]
  BY TurnIsOne DEF At
<1>2. TT(g) = s
  BY <1>1 DEF TT, Phase
<1> QED BY <1>2, CalledFor DEF TT

LEMMA TTSteps ==
  ASSUME CompositeAssumption, Calls, Stories, Streams, NEW g \in Games, TTSStep(g)
  PROVE  Streams' /\ (\E t : Moves("tts", g, t)) /\ Marks("tts", g)
<1> DEFINE n == Number(g)
<1>1. ASSUME NEW t, Moves("tts", g, t)
      PROVE  /\ told' = told /\ TT(g)' = t /\ Number(g)' = n
             /\ \A h \in Games : h # g => TT(h)' = TT(h)
  BY <1>1, MovesTold DEF Moves, TT
<1>2. Stream(g)
  BY DEF Streams
<1>3. CASE CreateStream(g)
  <2>1. At(g, "tts", "called") /\ Event(g) = "start"
        /\ UNCHANGED <<async, counter, playlistMu, speeches, segments, m3u8, swept, taken>>
    BY <1>3 DEF CreateStream, removed
  <2>2. TT(g) = "called" /\ told[g] # <<>> /\ n \in Nat \ {0} /\ n = 1
    BY <2>1, TTAt DEF Stories
  <2>3. DOMAIN speeches[g] = {}
    <3>1. DOMAIN speeches[g] \subseteq 1..n /\ n \notin DOMAIN speeches[g]
      BY <1>2, <2>2 DEF Stream, SpeechesRight
    <3> QED BY <2>2, <3>1
  <2>4. CASE /\ dirs' = dirs \union {g} /\ playlists' = Stored(playlists, g, <<>>)
             /\ Well /\ Goes(g, "create")
    <3>1. Moves("tts", g, "create") /\ Marks("tts", g)
      BY <2>1, <2>4, GoesMoves, MarksAre
    <3>2. /\ Others(playlists, Stored(playlists, g, <<>>), g)
          /\ DOMAIN Stored(playlists, g, <<>>) = DOMAIN playlists \union {g}
      BY StoredIs
    <3>3. Stored(playlists, g, <<>>)[g] = <<>>
      BY DEF Stored
    <3>4. TT(g)' = "create" /\ Number(g)' = n /\ told'[g] # <<>>
      BY <1>1, <2>2, <3>1
    <3>5. SpeechesRight(g)'
      BY <1>2, <2>1, <2>3, <3>4 DEF Stream, SpeechesRight, Numbering
    <3>6. PlaylistRight(g)'
      <4>1. <<>> \in Seq(Nat \X Nat) /\ Len(<<>>) = 0
        BY EmptySeq
      <4>2. playlists'[g] = <<>> /\ DOMAIN speeches'[g] = {}
        BY <2>1, <2>3, <2>4, <3>3
      <4>3. 1..0 = {}
        OBVIOUS
      <4> QED BY <3>4, <4>1, <4>2, <4>3 DEF PlaylistRight
    <3>7. FilesRight(g)'
      <4>1. Len(<<>>) = 0 /\ 1..0 = {}
        BY EmptySeq
      <4>2. playlists'[g] = <<>> /\ DOMAIN speeches'[g] = {}
        BY <2>1, <2>3, <2>4, <3>3
      <4> QED BY <2>4, <3>4, <4>1, <4>2 DEF FilesRight
    <3>8. Stream(g)'
      BY <2>4, <3>2, <3>5, <3>6, <3>7 DEF Stream
    <3>9. OtherStreams(g)
      BY <1>1, <2>1, <2>4, <3>1, <3>2 DEF OtherStreams, Streams, Marks
    <3> QED BY <3>1, <3>8, <3>9, StreamMoved
  <2>5. CASE Fails("tts", g) /\ Goes(g, "speak") /\ UNCHANGED <<dirs, playlists>>
    <3>1. Moves("tts", g, "speak") /\ Marks("tts", g) /\ <<"tts", g>> \in stale'
      BY <2>1, <2>5, GoesMoves, MarksAre
    <3>2. TT(g)' = "speak" /\ Number(g)' = n /\ told'[g] # <<>>
      BY <1>1, <2>2, <3>1
    <3>3. Stream(g)'
      <4>1. OnlyCall(g)
        BY <1>2, <2>1, <2>2, <2>3, <2>5, <3>1, <3>2 DEF OnlyCall
      <4> QED BY <1>2, <4>1, CallStream
    <3>4. OtherStreams(g)
      BY <1>1, <2>1, <2>5, <3>1 DEF OtherStreams, Streams, Others, Marks
    <3> QED BY <3>1, <3>3, <3>4, StreamMoved
  <2> QED BY <1>3, <2>4, <2>5 DEF CreateStream
<1>4. CASE WriteEmptyPlaylist(g)
  <2>1. /\ At(g, "tts", "create") /\ Goes(g, "speak")
        /\ UNCHANGED <<async, playlists, counter, playlistMu, speeches, segments, taken>>
        /\ \/ /\ dirs' = dirs \union {g} /\ m3u8' = [m3u8 EXCEPT ![g] = <<>>] /\ swept' = swept \ {g}
              /\ Made("tts", g)
           \/ /\ dirs' \in {dirs, dirs \union {g}} /\ Fails("tts", g) /\ UNCHANGED <<m3u8, swept>>
    BY <1>4 DEF WriteEmptyPlaylist
  <2>2. Moves("tts", g, "speak") /\ Marks("tts", g) /\ (Fails("tts", g) => <<"tts", g>> \in stale')
    BY <2>1, GoesMoves, MarksAre
  <2>3. TT(g) = "create" /\ told[g] # <<>>
    BY <2>1, TTAt
  <2>4. g \in DOMAIN playlists /\ playlists[g] = <<>> /\ DOMAIN speeches[g] = {}
    BY <1>2, <2>3 DEF Stream, PlaylistRight
  <2>5. TT(g)' = "speak" /\ Number(g)' = n /\ told' = told
    BY <1>1, <2>2
  <2>6. /\ m3u8'[g] = <<>> \/ <<"tts", g>> \in stale'
        /\ g \in dirs' \/ g \in swept'
        /\ DOMAIN m3u8' = Games /\ \A h \in Games : h # g => m3u8'[h] = m3u8[h]
    <3>1. g \in dirs \/ g \in swept
      BY <1>2, <2>4 DEF Stream, FilesRight
    <3> QED BY <2>1, <2>2, <3>1 DEF Streams
  <2>7. SpeechesRight(g)'
    BY <1>2, <2>1, <2>4, <2>5 DEF Stream, SpeechesRight, Numbering
  <2>8. PlaylistRight(g)'
    BY <1>2, <2>1, <2>5 DEF Stream, PlaylistRight, Entered
  <2>9. FilesRight(g)'
    <3>1. Len(<<>>) = 0 /\ 1..0 = {}
      BY EmptySeq
    <3> QED BY <2>1, <2>4, <2>6, <3>1 DEF FilesRight
  <2>10. Stream(g)'
    BY <2>5, <2>7, <2>8, <2>9 DEF Stream
  <2>11. OtherStreams(g)
    BY <1>1, <2>1, <2>2, <2>6 DEF OtherStreams, Streams, Others, Marks
  <2> QED BY <2>2, <2>10, <2>11, StreamMoved
<1>5. ASSUME Speaks(g)
      PROVE  /\ TT(g) \in {"called", "speak"} /\ told[g] # <<>> /\ n \in Nat \ {0}
             /\ n \notin DOMAIN speeches[g]
             /\ ~async => \A m \in DOMAIN speeches[g] : speeches[g][m].at = "over"
             /\ Well /\ UNCHANGED <<async, playlists, counter, playlistMu, dirs, segments, m3u8, swept, taken, stale>>
             /\ \A t : Goes(g, t) => Moves("tts", g, t)
             /\ Returns(g) => Moves("tts", g, "out")
  <2>1. PICK s \in {"called", "speak"} : At(g, "tts", s)
    BY <1>5 DEF Speaks
  <2>2. TT(g) = s /\ told[g] # <<>> /\ n \in Nat \ {0}
    BY <2>1, TTAt
  <2>3. n \notin DOMAIN speeches[g] /\ (~async => \A m \in DOMAIN speeches[g] : speeches[g][m].at = "over")
    BY <1>2, <2>2 DEF Stream, SpeechesRight
  <2>4. Well /\ UNCHANGED <<async, playlists, counter, playlistMu, dirs, segments, m3u8, swept, taken, stale>>
    BY <1>5 DEF Speaks, files, removed, Well
  <2>5. \A t : Goes(g, t) => Moves("tts", g, t)
    BY <2>1, GoesMoves
  <2>6. Returns(g) => Moves("tts", g, "out")
    BY <2>1, ReturnsMoves
  <2> QED BY <2>2, <2>3, <2>4, <2>5, <2>6
<1>6. CASE SaysNothing(g)
  <2>1. Speaks(g) /\ Returns(g) /\ UNCHANGED speeches
    BY <1>6 DEF SaysNothing
  <2>2. Moves("tts", g, "out") /\ Marks("tts", g)
    BY <1>5, <2>1, MarksAre
  <2>3. TT(g)' = "out" /\ Number(g)' = n /\ told' = told
    BY <1>1, <2>2
  <2>4. Stream(g)'
    <3>1. OnlyCall(g)
      BY <1>2, <1>5, <2>1, <2>3 DEF OnlyCall
    <3> QED BY <1>2, <3>1, CallStream
  <2>5. OtherStreams(g)
    BY <1>1, <1>5, <2>1, <2>2 DEF OtherStreams, Streams, Others, Marks
  <2> QED BY <2>2, <2>4, <2>5, StreamMoved
<1>7. CASE BroadcastText(g)
  <2> DEFINE t == IF async THEN "out" ELSE "wait"
             r == [at |-> "synthesis", segment |-> 0]
  <2>1. /\ Speaks(g) /\ g \in DOMAIN playlists
        /\ speeches' = [speeches EXCEPT ![g] = Stored(@, n, r)]
        /\ IF async THEN Returns(g) ELSE Goes(g, "wait")
    BY <1>7 DEF BroadcastText, Known
  <2>12. /\ TT(g) \in {"called", "speak"} /\ told[g] # <<>> /\ n \in Nat \ {0}
         /\ n \notin DOMAIN speeches[g]
         /\ ~async => \A m \in DOMAIN speeches[g] : speeches[g][m].at = "over"
         /\ Well /\ UNCHANGED <<async, playlists, counter, playlistMu, dirs, segments, m3u8, swept, taken, stale>>
    BY <1>5, <2>1
  <2>2. Moves("tts", g, t) /\ Marks("tts", g)
    BY <1>5, <2>1, <2>12, MarksAre
  <2>3. TT(g)' = t /\ Number(g)' = n /\ told' = told
    BY <1>1, <2>2
  <2>4. /\ DOMAIN speeches' = Games /\ DOMAIN speeches'[g] = DOMAIN speeches[g] \union {n}
        /\ speeches'[g][n] = r /\ \A m \in DOMAIN speeches[g] : speeches'[g][m] = speeches[g][m]
        /\ \A h \in Games : h # g => speeches'[h] = speeches[h]
        /\ speeches'[g] = [m \in DOMAIN speeches'[g] |-> speeches'[g][m]]
    BY <2>12, <2>1 DEF Streams, Stored
  <2>5. r \in [at : Places, segment : Nat] /\ r.at = "synthesis"
    BY DEF Places
  <2> HIDE DEF r, t
  <2>6. t # "create" /\ t # "called" /\ t # "speak" /\ (~async => t = "wait")
    BY DEF t
  <2>7. SpeechesRight(g)'
    <3>1. speeches'[g] \in [DOMAIN speeches'[g] -> [at : Places, segment : Nat]]
      BY <1>2, <2>4, <2>5 DEF Stream, SpeechesRight
    <3>2. DOMAIN speeches'[g] \subseteq 1..Number(g)'
      BY <1>2, <2>12, <2>3, <2>4 DEF Stream, SpeechesRight
    <3>3. \A m \in DOMAIN speeches'[g] : m \in DOMAIN speeches[g] \/ (m = n /\ ~Numbering(g, m)')
      BY <2>4, <2>5 DEF Numbering
    <3>4. \A m \in DOMAIN speeches'[g] : speeches'[g][m].at = "write" <=> playlistMu'[g] = m
      <4>1. playlistMu[g] # n
        BY <1>2, <2>12 DEF Stream, SpeechesRight, Unlocked
      <4> QED BY <1>2, <2>12, <2>4, <2>5, <4>1 DEF Stream, SpeechesRight
    <3>5. \A m \in DOMAIN speeches[g] : Numbering(g, m)' <=> Numbering(g, m)
      BY <2>4 DEF Numbering
    <3> QED BY <1>2, <2>12, <2>1, <2>3, <2>4, <2>6, <3>1, <3>2, <3>3, <3>4, <3>5 DEF Stream, SpeechesRight
  <2>8. PlaylistRight(g)'
    <3>2. \A m \in DOMAIN speeches'[g] :
            speeches'[g][m].at \in {"convert", "add"} => m \in DOMAIN speeches[g]
      BY <2>4, <2>5
    <3>3. PlaylistRight(g) /\ g \in DOMAIN playlists
      BY <1>2, <2>1 DEF Stream
    <3>4. ASSUME NEW i \in 1..Len(playlists[g])
          PROVE  /\ playlists[g][i][1] < counter[g]
                 /\ playlists[g][i][2] \in DOMAIN speeches'[g]
                 /\ speeches'[g][playlists[g][i][2]].at \in {"write", "over"}
                 /\ \A m \in DOMAIN speeches'[g] :
                      speeches'[g][m].at \in {"convert", "add"} =>
                        speeches'[g][m].segment # playlists[g][i][1]
      <4>1. /\ playlists[g][i][1] < counter[g] /\ Entered(g, playlists[g][i][2])
            /\ \A m \in DOMAIN speeches[g] :
                 speeches[g][m].at \in {"convert", "add"} => speeches[g][m].segment # playlists[g][i][1]
        BY <3>3 DEF PlaylistRight
      <4>2. /\ playlists[g][i][2] \in DOMAIN speeches'[g]
            /\ speeches'[g][playlists[g][i][2]].at \in {"write", "over"}
        BY <2>4, <4>1 DEF Entered
      <4>3. \A m \in DOMAIN speeches'[g] :
              speeches'[g][m].at \in {"convert", "add"} => speeches'[g][m].segment # playlists[g][i][1]
        BY <2>4, <3>2, <4>1
      <4> QED BY <4>1, <4>2, <4>3
    <3>5. TT(g)' # "create"
      BY <2>3, <2>6
    <3> QED BY <2>3, <2>12, <3>3, <3>4, <3>5 DEF PlaylistRight, Entered
  <2>9. FilesRight(g)'
    <3>1. \A m \in DOMAIN speeches'[g] :
            speeches'[g][m].at \in {"add", "write"} => m \in DOMAIN speeches[g]
      BY <2>4, <2>5
    <3> QED BY <1>2, <2>12, <2>3, <2>4, <3>1 DEF Stream, FilesRight, Keeps
  <2>10. Stream(g)'
    BY <2>3, <2>6, <2>7, <2>8, <2>9 DEF Stream
  <2>11. OtherStreams(g)
    BY <1>1, <2>12, <2>2, <2>4 DEF OtherStreams, Streams, Others, Marks
  <2> QED BY <2>2, <2>10, <2>11, StreamMoved
<1>8. CASE Spoken(g)
  <2>1. /\ At(g, "tts", "wait") /\ speeches[g][n].at = "over" /\ Returns(g) /\ Well
        /\ UNCHANGED <<async, playlists, counter, playlistMu, speeches, dirs, segments, m3u8, swept, taken, stale>>
    BY <1>8 DEF Spoken, tts, files, removed, Well
  <2>2. Moves("tts", g, "out") /\ Marks("tts", g)
    BY <2>1, ReturnsMoves, MarksAre
  <2>3. TT(g)' = "out" /\ Number(g)' = n /\ told' = told
    BY <1>1, <2>2
  <2>4. TT(g) = "wait" /\ told[g] # <<>> /\ n \in Nat \ {0}
    BY <2>1, TTAt
  <2>5. ~async => \A m \in DOMAIN speeches[g] : speeches[g][m].at = "over"
    BY <1>2, <2>1 DEF Stream, SpeechesRight
  <2>6. Stream(g)'
    <3>1. OnlyCall(g)
      BY <1>2, <2>1, <2>3, <2>4, <2>5 DEF OnlyCall
    <3> QED BY <1>2, <3>1, CallStream
  <2>7. OtherStreams(g)
    BY <1>1, <2>1, <2>2 DEF OtherStreams, Streams, Others, Marks
  <2> QED BY <2>2, <2>6, <2>7, StreamMoved
<1> QED BY <1>3, <1>4, <1>6, <1>7, <1>8 DEF TTSStep

\* The speech n of g goes on, and is r now.
GoesOn(g, n, r) ==
  /\ UNCHANGED <<told, todo, step, async>> /\ r \in [at : Places, segment : Nat]
  /\ n \in DOMAIN speeches[g] /\ speeches' = [speeches EXCEPT ![g][n] = r]
  /\ speeches[g][n].at # "over"

LEMMA GoesOnIs ==
  ASSUME Streams, NEW g \in Games, NEW n, NEW r, GoesOn(g, n, r)
  PROVE  /\ DOMAIN speeches' = Games /\ DOMAIN speeches'[g] = DOMAIN speeches[g]
         /\ \A h \in Games : h # g => speeches'[h] = speeches[h]
         /\ speeches'[g][n] = r /\ \A m \in DOMAIN speeches[g] : m # n => speeches'[g][m] = speeches[g][m]
         /\ speeches'[g] \in [DOMAIN speeches[g] -> [at : Places, segment : Nat]]
         /\ Number(g)' = Number(g) /\ \A h : TT(h)' = TT(h)
<1>1. speeches[g] \in [DOMAIN speeches[g] -> [at : Places, segment : Nat]] /\ DOMAIN speeches = Games
  BY DEF Streams, Stream, SpeechesRight
<1>2. speeches'[g] = [speeches[g] EXCEPT ![n] = r] /\ n \in DOMAIN speeches[g]
  BY <1>1 DEF GoesOn
<1>3. \A h \in Games : h # g => speeches'[h] = speeches[h]
  BY <1>1 DEF GoesOn
<1>4. Number(g)' = Number(g) /\ \A h : TT(h)' = TT(h)
  BY DEF GoesOn, Number, TT, Phase, Turn
<1>5. r \in [at : Places, segment : Nat] /\ DOMAIN speeches' = Games
  BY <1>1 DEF GoesOn
<1> QED BY <1>1, <1>2, <1>3, <1>4, <1>5

LEMMA GoesOnSpeeches ==
  ASSUME Streams, NEW g \in Games, NEW n, NEW r, GoesOn(g, n, r),
         g \in DOMAIN playlists', counter'[g] \in Nat, counter[g] <= counter'[g],
         r.at \in {"convert", "add", "write"} =>
           /\ r.segment < counter'[g]
           /\ \A m \in DOMAIN speeches[g] :
                m # n /\ Numbering(g, m) => speeches[g][m].segment # r.segment,
         \/ r.at = "write" /\ playlistMu[g] = Unlocked /\ playlistMu'[g] = n
         \/ r.at # "write" /\ speeches[g][n].at = "write" /\ playlistMu'[g] = Unlocked
         \/ r.at # "write" /\ speeches[g][n].at # "write" /\ playlistMu'[g] = playlistMu[g]
  PROVE  SpeechesRight(g)'
<1>1. /\ DOMAIN speeches'[g] = DOMAIN speeches[g] /\ speeches'[g][n] = r
      /\ \A m \in DOMAIN speeches[g] : m # n => speeches'[g][m] = speeches[g][m]
      /\ speeches'[g] \in [DOMAIN speeches[g] -> [at : Places, segment : Nat]]
      /\ Number(g)' = Number(g) /\ TT(g)' = TT(g) /\ n \in DOMAIN speeches[g] /\ async' = async
      /\ speeches[g][n].at # "over"
  BY GoesOnIs DEF GoesOn
<1>2. SpeechesRight(g) /\ counter[g] \in Nat
  BY DEF Streams, Stream
<1>3. DOMAIN speeches[g] \subseteq Nat \ {0}
  <2>1. \A m \in DOMAIN speeches[g] : m \in 1..Number(g)
    BY <1>2 DEF SpeechesRight
  <2> QED BY <2>1
<1>4. ASSUME NEW m \in DOMAIN speeches[g], m # n
      PROVE  Numbering(g, m)' <=> Numbering(g, m)
  BY <1>1, <1>4 DEF Numbering
<1>5. \A m \in DOMAIN speeches[g] : Numbering(g, m)' => speeches'[g][m].segment < counter'[g]
  <2>1. ASSUME NEW m \in DOMAIN speeches[g], m # n, Numbering(g, m)'
        PROVE  speeches'[g][m].segment < counter'[g]
    <3>1. speeches[g][m].segment \in Nat /\ speeches[g][m].segment < counter[g]
      BY <1>2, <1>4, <2>1 DEF SpeechesRight
    <3> QED BY <1>1, <1>2, <2>1, <3>1
  <2>2. Numbering(g, n)' => speeches'[g][n].segment < counter'[g]
    BY <1>1 DEF Numbering
  <2> QED BY <2>1, <2>2
<1>6. \A l, m \in DOMAIN speeches[g] :
        Numbering(g, l)' /\ Numbering(g, m)' /\ speeches'[g][l].segment = speeches'[g][m].segment => l = m
  <2>1. \A l, m \in DOMAIN speeches[g] :
          Numbering(g, l) /\ Numbering(g, m) /\ speeches[g][l].segment = speeches[g][m].segment => l = m
    BY <1>2 DEF SpeechesRight
  <2>2. Numbering(g, n)' => r.at \in {"convert", "add", "write"}
    BY <1>1 DEF Numbering
  <2>3. ASSUME NEW l \in DOMAIN speeches[g], NEW m \in DOMAIN speeches[g],
               Numbering(g, l)', Numbering(g, m)', speeches'[g][l].segment = speeches'[g][m].segment
        PROVE  l = m
    <3>1. CASE l # n /\ m # n
      BY <1>1, <1>4, <2>1, <2>3, <3>1
    <3>2. CASE l = n /\ m # n
      BY <1>1, <1>4, <2>2, <2>3, <3>2
    <3>3. CASE l # n /\ m = n
      BY <1>1, <1>4, <2>2, <2>3, <3>3
    <3> QED BY <3>1, <3>2, <3>3
  <2> QED BY <2>3
<1>7. \A m \in DOMAIN speeches[g] : speeches'[g][m].at = "write" <=> playlistMu'[g] = m
  <2>1. \A m \in DOMAIN speeches[g] : speeches[g][m].at = "write" <=> playlistMu[g] = m
    BY <1>2 DEF SpeechesRight
  <2> QED BY <1>1, <1>3, <2>1 DEF Unlocked
<1>8. playlistMu'[g] \in Nat /\ (playlistMu'[g] = Unlocked \/ playlistMu'[g] \in DOMAIN speeches[g])
  BY <1>1, <1>2, <1>3 DEF SpeechesRight, Unlocked
<1>9. ~async => \A m \in DOMAIN speeches[g] : speeches'[g][m].at # "over" => m = Number(g) /\ TT(g) = "wait"
  BY <1>1, <1>2 DEF SpeechesRight
<1>10. /\ DOMAIN speeches[g] \subseteq 1..Number(g)
       /\ TT(g) \in {"called", "create", "speak"} => Number(g) \notin DOMAIN speeches[g]
  BY <1>2 DEF SpeechesRight
<1> QED BY <1>1, <1>5, <1>6, <1>7, <1>8, <1>9, <1>10 DEF SpeechesRight

\* A speech that is numbered, converted, written or given up leaves the playlist.
LEMMA GoesOnPlaylist ==
  ASSUME Streams, NEW g \in Games, NEW n, NEW r, GoesOn(g, n, r),
         g \in DOMAIN playlists, playlists' = playlists, counter'[g] \in Nat, counter[g] <= counter'[g],
         speeches[g][n].at = "write" => r.at \in {"write", "over"},
         r.at \in {"convert", "add"} =>
           \A i \in 1..Len(playlists[g]) : playlists[g][i][1] # r.segment
  PROVE  PlaylistRight(g)'
<1>1. /\ DOMAIN speeches'[g] = DOMAIN speeches[g] /\ speeches'[g][n] = r
      /\ \A m \in DOMAIN speeches[g] : m # n => speeches'[g][m] = speeches[g][m]
      /\ TT(g)' = TT(g) /\ n \in DOMAIN speeches[g] /\ async' = async /\ told' = told
      /\ speeches[g][n].at # "over"
  BY GoesOnIs DEF GoesOn
<1>2. PlaylistRight(g) /\ counter[g] \in Nat
  BY DEF Streams, Stream
<1>3. playlists[g] \in Seq(Nat \X Nat)
  BY <1>2 DEF PlaylistRight
<1>4. ASSUME NEW i \in 1..Len(playlists[g])
      PROVE  /\ playlists[g][i][1] < counter'[g]
             /\ playlists[g][i][2] \in DOMAIN speeches'[g]
             /\ speeches'[g][playlists[g][i][2]].at \in {"write", "over"}
             /\ \A m \in DOMAIN speeches'[g] :
                  speeches'[g][m].at \in {"convert", "add"} =>
                    speeches'[g][m].segment # playlists[g][i][1]
  <2>1. /\ playlists[g][i][1] < counter[g] /\ Entered(g, playlists[g][i][2])
        /\ \A m \in DOMAIN speeches[g] :
             speeches[g][m].at \in {"convert", "add"} => speeches[g][m].segment # playlists[g][i][1]
    BY <1>2 DEF PlaylistRight
  <2>2. playlists[g][i][1] < counter'[g]
    <3>1. playlists[g][i] \in Nat \X Nat
      BY <1>3, ElementOfSeq
    <3>2. playlists[g][i][1] \in Nat
      BY <3>1
    <3> QED BY <1>2, <2>1, <3>2
  <2>3. /\ playlists[g][i][2] \in DOMAIN speeches'[g]
        /\ speeches'[g][playlists[g][i][2]].at \in {"write", "over"}
    BY <1>1, <2>1 DEF Entered
  <2>4. \A m \in DOMAIN speeches'[g] :
          speeches'[g][m].at \in {"convert", "add"} => speeches'[g][m].segment # playlists[g][i][1]
    BY <1>1, <2>1
  <2> QED BY <2>2, <2>3, <2>4
<1> QED BY <1>1, <1>2, <1>4 DEF PlaylistRight, Entered

LEMMA GoesOnOthers ==
  ASSUME Streams, NEW g \in Games, NEW n, NEW r, GoesOn(g, n, r),
         Others(playlists, playlists', g),
         counter' = counter \/ counter' = [counter EXCEPT ![g] = @ + 1],
         playlistMu' = playlistMu \/ \E mu \in Nat : playlistMu' = [playlistMu EXCEPT ![g] = mu],
         segments' = segments \/ \E new : segments' = [segments EXCEPT ![g] = new],
         m3u8' = m3u8 \/ \E new : m3u8' = [m3u8 EXCEPT ![g] = new],
         dirs' = dirs \/ dirs' = dirs \union {g}, swept' = swept \/ swept' = swept \ {g},
         taken' = taken, Marks("tts", g)
  PROVE  OtherStreams(g)
<1>1. /\ DOMAIN speeches' = Games /\ \A h \in Games : h # g => speeches'[h] = speeches[h]
      /\ \A h : TT(h)' = TT(h)
  BY GoesOnIs
<1>2. counter' \in [Games -> Nat] /\ \A h \in Games : h # g => counter'[h] = counter[h]
  BY DEF Streams
<1>3. playlistMu' \in [Games -> Nat] /\ \A h \in Games : h # g => playlistMu'[h] = playlistMu[h]
  BY DEF Streams
<1>4. DOMAIN segments' = Games /\ \A h \in Games : h # g => segments'[h] = segments[h]
  BY DEF Streams
<1>5. DOMAIN m3u8' = Games /\ \A h \in Games : h # g => m3u8'[h] = m3u8[h]
  BY DEF Streams
<1> QED BY <1>1, <1>2, <1>3, <1>4, <1>5 DEF OtherStreams, GoesOn, Marks, Streams

LEMMA SpeechSteps ==
  ASSUME CompositeAssumption, Calls, Streams, NEW g \in Games, NEW n \in 1..MaxEvents, Speech(g, n)
  PROVE  Streams' /\ Marks("tts", g) /\ UNCHANGED <<config, told, todo, step>>
<1> DEFINE was == speeches[g][n]
           entries == playlists[g]
<1>1. /\ n \in DOMAIN speeches[g] /\ UNCHANGED <<config, told, todo, step, async, taken>>
      /\ was.at \in {"synthesis", "convert", "add", "write"}
  BY DEF Speech, Synthesize, Convert, AddSegments, WritePlaylist, SpeechAt, composite, files, removed, Beside
<1>12. Marks("tts", g)
  <2>1. CASE UNCHANGED composite
    BY <2>1, MarksAre DEF composite, Well
  <2>2. CASE AddSegments(g, n)
    <3>1. Well \/ Fails("tts", g)
      BY <2>2 DEF AddSegments
    <3> QED BY <3>1, MarksAre
  <2>3. CASE WritePlaylist(g, n)
    <3>1. Well \/ Fails("tts", g) \/ Made("tts", g)
      BY <2>3 DEF WritePlaylist, PlaylistWritten
    <3> QED BY <3>1, MarksAre
  <2> QED BY <2>1, <2>2, <2>3 DEF Speech, Synthesize, Convert
<1>2. SpeechesRight(g) /\ PlaylistRight(g) /\ FilesRight(g) /\ (TT(g) = "create" => g \in DOMAIN playlists)
  BY DEF Streams, Stream
<1>3. g \in DOMAIN playlists /\ was \in [at : Places, segment : Nat] /\ n \in Nat \ {0}
  BY <1>1, <1>2 DEF SpeechesRight
<1>4. counter[g] \in Nat /\ DOMAIN speeches = Games /\ playlistMu[g] \in Nat
  BY DEF Streams
<1>5. /\ "over" \in Places /\ "convert" \in Places /\ "add" \in Places /\ "write" \in Places
  BY DEF Places
<1>6. ASSUME NEW s \in Places, Becomes(g, n, s)
      PROVE  GoesOn(g, n, [at |-> s, segment |-> was.segment])
  <2>1. speeches' = [speeches EXCEPT ![g][n] = [speeches[g][n] EXCEPT !.at = s]]
    BY <1>1, <1>4, <1>6 DEF Becomes
  <2>2. [speeches[g][n] EXCEPT !.at = s] = [at |-> s, segment |-> was.segment]
    BY <1>3
  <2> QED BY <1>1, <1>3, <2>1, <2>2 DEF GoesOn
\* given up
<1>7. ASSUME Becomes(g, n, "over"), was.at \in {"synthesis", "convert"},
             UNCHANGED <<playlists, counter, playlistMu, dirs, segments, m3u8, swept, stale>>
      PROVE  Streams'
  <2> DEFINE r == [at |-> "over", segment |-> was.segment]
  <2>1. GoesOn(g, n, r) /\ r.at = "over"
    BY <1>5, <1>6, <1>7
  <2> HIDE DEF r
  <2>2. SpeechesRight(g)'
    BY <1>3, <1>4, <1>7, <2>1, GoesOnSpeeches
  <2>3. PlaylistRight(g)'
    BY <1>3, <1>4, <1>7, <2>1, GoesOnPlaylist
  <2>4. FilesRight(g)'
    BY <1>1, <1>2, <1>7, <2>1, GoesOnIs DEF FilesRight, Keeps
  <2>5. OtherStreams(g)
    BY <1>1, <1>7, <1>12, <2>1, GoesOnOthers DEF Others
  <2>6. Stream(g)'
    BY <1>3, <1>7, <2>2, <2>3, <2>4 DEF Stream
  <2> QED BY <2>5, <2>6, StreamMoved
<1>8. CASE Synthesize(g, n)
  <2> DEFINE r == [at |-> "convert", segment |-> counter[g]]
  <2>1. was.at = "synthesis" /\ UNCHANGED <<playlists, playlistMu, dirs, segments, m3u8, swept, stale>>
    BY <1>8 DEF Synthesize, SpeechAt, files, removed, composite
  <2>2. CASE counter' = [counter EXCEPT ![g] = @ + 1] /\ speeches' = [speeches EXCEPT ![g][n] = r]
    <3>1. GoesOn(g, n, r) /\ r.at = "convert" /\ r.segment = counter[g]
      BY <1>1, <1>4, <1>5, <2>1, <2>2 DEF GoesOn
    <3> HIDE DEF r
    <3>2. counter'[g] = counter[g] + 1
      BY <2>2 DEF Streams
    <3>3. \A m \in DOMAIN speeches[g] : Numbering(g, m) => speeches[g][m].segment # counter[g]
      <4>1. \A m \in DOMAIN speeches[g] :
              speeches[g][m].segment \in Nat /\ (Numbering(g, m) => speeches[g][m].segment < counter[g])
        BY <1>2 DEF SpeechesRight
      <4> QED BY <1>4, <4>1
    <3>4. \A i \in 1..Len(entries) : entries[i][1] # counter[g]
      <4>1. \A i \in 1..Len(entries) : entries[i] \in Nat \X Nat /\ entries[i][1] < counter[g]
        BY <1>2, <1>3, ElementOfSeq DEF PlaylistRight
      <4>2. \A i \in 1..Len(entries) : entries[i][1] \in Nat
        BY <4>1
      <4> QED BY <1>4, <4>1, <4>2
    <3>5. SpeechesRight(g)'
      BY <1>3, <1>4, <2>1, <3>1, <3>2, <3>3, GoesOnSpeeches
    <3>6. PlaylistRight(g)'
      BY <1>3, <1>4, <2>1, <3>1, <3>2, <3>4, GoesOnPlaylist
    <3>7. FilesRight(g)'
      BY <1>1, <1>2, <2>1, <3>1, GoesOnIs DEF FilesRight, Keeps
    <3>8. OtherStreams(g)
      BY <1>1, <1>12, <2>1, <2>2, <3>1, GoesOnOthers DEF Others
    <3>9. Stream(g)'
      BY <1>3, <2>1, <3>5, <3>6, <3>7 DEF Stream
    <3> QED BY <1>1, <1>12, <3>8, <3>9, StreamMoved
  <2>3. CASE Becomes(g, n, "over") /\ UNCHANGED counter
    BY <1>1, <1>7, <1>12, <2>1, <2>3
  <2> QED BY <1>8, <2>2, <2>3 DEF Synthesize
<1>9. CASE Convert(g, n)
  <2> DEFINE r == [at |-> "add", segment |-> was.segment]
  <2>1. was.at = "convert" /\ UNCHANGED <<playlists, counter, playlistMu, dirs, m3u8, swept, stale>>
    BY <1>9 DEF Convert, SpeechAt, removed, composite
  <2>2. CASE /\ segments' = [segments EXCEPT ![g] = Stored(@, was.segment, n)]
             /\ Becomes(g, n, "add")
    <3>1. GoesOn(g, n, r) /\ r.at = "add" /\ r.segment = was.segment
      BY <1>5, <1>6, <2>2
    <3> HIDE DEF r
    <3>2. /\ was.segment < counter[g]
          /\ \A m \in DOMAIN speeches[g] :
               m # n /\ Numbering(g, m) => speeches[g][m].segment # was.segment
      BY <1>1, <1>2, <2>1 DEF SpeechesRight, Numbering
    <3>3. \A i \in 1..Len(entries) : entries[i][1] # was.segment
      BY <1>1, <1>2, <1>3, <2>1 DEF PlaylistRight
    <3>4. SpeechesRight(g)'
      BY <1>3, <1>4, <2>1, <3>1, <3>2, GoesOnSpeeches
    <3>5. PlaylistRight(g)'
      BY <1>3, <1>4, <2>1, <3>1, <3>3, GoesOnPlaylist
    <3>6. FilesRight(g)'
      <4>1. /\ DOMAIN segments'[g] = DOMAIN segments[g] \union {was.segment}
            /\ segments'[g][was.segment] = n
            /\ \A k \in DOMAIN segments[g] : k # was.segment => segments'[g][k] = segments[g][k]
        BY <2>2 DEF Stored, Streams
      <4>2. /\ TT(g)' = TT(g) /\ DOMAIN speeches'[g] = DOMAIN speeches[g] /\ speeches'[g][n] = r
            /\ \A m \in DOMAIN speeches[g] : m # n => speeches'[g][m] = speeches[g][m]
        BY <3>1, GoesOnIs
      <4>3. \A k, m : k # was.segment /\ Keeps(g, k, m) => Keeps(g, k, m)'
        BY <1>1, <4>1 DEF Keeps
      <4>4. Keeps(g, was.segment, n)'
        BY <3>1, <4>1, <4>2 DEF Keeps
      <4>5. \A i \in 1..Len(entries) : Keeps(g, entries[i][1], entries[i][2])'
        BY <1>2, <1>3, <2>1, <3>3, <4>3 DEF FilesRight
      <4>6. ASSUME NEW m \in DOMAIN speeches[g], speeches'[g][m].at \in {"add", "write"}
            PROVE  Keeps(g, speeches[g][m].segment, m)'
        <5>1. CASE m = n
          BY <3>1, <4>2, <4>4, <5>1
        <5>2. CASE m # n
          <6>1. /\ speeches'[g][m] = speeches[g][m] /\ Numbering(g, m)
                /\ speeches[g][m].segment # was.segment
            BY <3>2, <4>2, <4>6, <5>2 DEF Numbering
          <6>2. Keeps(g, speeches[g][m].segment, m)
            BY <1>2, <1>3, <4>6, <6>1 DEF FilesRight
          <6> QED BY <4>3, <6>1, <6>2
        <5> QED BY <5>1, <5>2
      <4> QED BY <1>1, <1>2, <1>3, <2>1, <4>2, <4>5, <4>6 DEF FilesRight
    <3>7. OtherStreams(g)
      BY <1>1, <1>12, <2>1, <2>2, <3>1, GoesOnOthers DEF Others
    <3>8. Stream(g)'
      BY <1>3, <2>1, <3>4, <3>5, <3>6 DEF Stream
    <3> QED BY <1>1, <1>12, <3>7, <3>8, StreamMoved
  <2>3. CASE Becomes(g, n, "over") /\ UNCHANGED segments
    BY <1>1, <1>7, <1>12, <2>1, <2>3
  <2> QED BY <1>9, <2>2, <2>3 DEF Convert
<1>10. CASE AddSegments(g, n)
  <2> DEFINE more == Append(entries, <<was.segment, n>>)
  <2>0. PICK s \in {"write", "over"} :
          /\ was.at = "add" /\ playlistMu[g] = Unlocked
          /\ playlists' = [playlists EXCEPT ![g] = more]
          /\ dirs' \in {dirs, dirs \union {g}}
          /\ Becomes(g, n, s) /\ UNCHANGED <<async, counter, segments, swept>>
          /\ s = "write" => /\ playlistMu' = [playlistMu EXCEPT ![g] = n]
                            /\ m3u8' = [m3u8 EXCEPT ![g] = NoPlaylist]
          /\ s = "over" => Fails("tts", g) /\ UNCHANGED <<playlistMu, m3u8>>
    BY <1>10 DEF AddSegments, SpeechAt, removed
  <2> DEFINE r == [at |-> s, segment |-> was.segment]
  <2>1. /\ was.at = "add" /\ playlistMu[g] = Unlocked
        /\ playlists' = [playlists EXCEPT ![g] = more]
        /\ UNCHANGED <<async, counter, segments, swept>>
        /\ s = "over" => <<"tts", g>> \in stale'
    BY <2>0, MarksAre
  <2>2. GoesOn(g, n, r) /\ r.at \in {"write", "over"} /\ r.at = s /\ r.segment = was.segment
    BY <1>5, <1>6, <2>0
  <2>3. /\ DOMAIN playlists' = DOMAIN playlists /\ playlists'[g] = more /\ Others(playlists, playlists', g)
        /\ playlistMu'[g] = IF s = "write" THEN n ELSE Unlocked
    <3>1. /\ DOMAIN playlists' = DOMAIN playlists /\ playlists'[g] = more
          /\ Others(playlists, playlists', g)
      BY <1>3, <2>1, ChangedIs
    <3>2. s = "write" => playlistMu'[g] = n
      BY <2>0 DEF Streams
    <3>3. s # "write" => playlistMu'[g] = Unlocked
      BY <2>0
    <3> QED BY <3>1, <3>2, <3>3
  <2>4. /\ was.segment \in Nat /\ was.segment < counter[g]
        /\ \A m \in DOMAIN speeches[g] :
             m # n /\ Numbering(g, m) => speeches[g][m].segment # was.segment
    BY <1>1, <1>2, <1>3, <2>1 DEF SpeechesRight, Numbering
  <2>5. entries \in Seq(Nat \X Nat) /\ <<was.segment, n>> \in Nat \X Nat
    BY <1>2, <1>3, <2>4 DEF PlaylistRight
  <2>6. /\ more \in Seq(Nat \X Nat) /\ Len(more) = Len(entries) + 1 /\ Len(entries) \in Nat
        /\ more[Len(entries) + 1] = <<was.segment, n>>
        /\ \A i \in 1..Len(entries) : more[i] = entries[i]
    BY <2>5, AppendProperties, LenProperties
  <2>7. \A i \in 1..Len(entries) : /\ entries[i][1] # was.segment /\ entries[i][2] # n
                                   /\ Entered(g, entries[i][2])
    BY <1>1, <1>2, <1>3, <2>1 DEF PlaylistRight, Entered
  <2>8. /\ DOMAIN speeches'[g] = DOMAIN speeches[g] /\ speeches'[g][n] = r
        /\ \A m \in DOMAIN speeches[g] : m # n => speeches'[g][m] = speeches[g][m]
        /\ TT(g)' = TT(g) /\ Number(g)' = Number(g)
    BY <2>2, GoesOnIs
  <2> HIDE DEF more, r
  <2>9. SpeechesRight(g)'
    <3>1. g \in DOMAIN playlists' /\ counter'[g] \in Nat /\ counter[g] <= counter'[g]
      BY <1>3, <1>4, <2>1, <2>3
    <3>2. r.segment < counter'[g]
      BY <2>1, <2>2, <2>4
    <3> QED BY <2>1, <2>2, <2>3, <2>4, <3>1, <3>2, GoesOnSpeeches
  <2>10. PlaylistRight(g)'
    <3>1. \A i \in 1..Len(more) : i \in 1..Len(entries) \/ i = Len(entries) + 1
      BY <2>6
    <3>2. ASSUME NEW i \in 1..Len(more)
          PROVE  /\ more[i][1] < counter[g]
                 /\ more[i][2] \in DOMAIN speeches[g]
                 /\ speeches'[g][more[i][2]].at \in {"write", "over"}
                 /\ \A m \in DOMAIN speeches[g] :
                      speeches'[g][m].at \in {"convert", "add"} => speeches'[g][m].segment # more[i][1]
      <4>1. CASE i = Len(entries) + 1
        <5>1. more[i][1] = was.segment /\ more[i][2] = n
          BY <2>6, <4>1
        <5>2. ASSUME NEW m \in DOMAIN speeches[g], speeches'[g][m].at \in {"convert", "add"}
              PROVE  speeches'[g][m].segment # was.segment
          <6>1. m # n
            BY <2>2, <2>8, <5>2
          <6>2. speeches'[g][m] = speeches[g][m] /\ Numbering(g, m)
            BY <2>8, <5>2, <6>1 DEF Numbering
          <6> QED BY <2>4, <6>1, <6>2
        <5> QED BY <1>1, <2>2, <2>4, <2>8, <5>1, <5>2
      <4>2. CASE i \in 1..Len(entries)
        <5>1. /\ entries[i][1] < counter[g] /\ Entered(g, entries[i][2]) /\ entries[i][2] # n
              /\ \A m \in DOMAIN speeches[g] :
                   speeches[g][m].at \in {"convert", "add"} => speeches[g][m].segment # entries[i][1]
          BY <1>2, <1>3, <2>7, <4>2 DEF PlaylistRight
        <5>2. \A m \in DOMAIN speeches[g] :
                speeches'[g][m].at \in {"convert", "add"} => speeches'[g][m].segment # entries[i][1]
          BY <2>2, <2>8, <5>1
        <5> QED BY <2>6, <2>8, <4>2, <5>1, <5>2 DEF Entered
      <4> QED BY <3>1, <4>1, <4>2
    <3>3. \A i, j \in 1..Len(more) : i # j => more[i][1] # more[j][1] /\ more[i][2] # more[j][2]
      <4>1. \A i, j \in 1..Len(entries) : i # j => entries[i][1] # entries[j][1] /\ entries[i][2] # entries[j][2]
        BY <1>2, <1>3 DEF PlaylistRight
      <4>2. more[Len(entries) + 1][1] = was.segment /\ more[Len(entries) + 1][2] = n
        BY <2>6
      <4>3. SUFFICES ASSUME NEW i \in 1..Len(more), NEW j \in 1..Len(more), i # j
                     PROVE  more[i][1] # more[j][1] /\ more[i][2] # more[j][2]
        OBVIOUS
      <4>4. CASE i \in 1..Len(entries) /\ j \in 1..Len(entries)
        <5>1. more[i] = entries[i] /\ more[j] = entries[j]
          BY <2>6, <4>4
        <5> QED BY <4>1, <4>3, <4>4, <5>1
      <4>5. CASE i \in 1..Len(entries) /\ j = Len(entries) + 1
        <5>1. more[i] = entries[i] /\ entries[i][1] # was.segment /\ entries[i][2] # n
          BY <2>6, <2>7, <4>5
        <5> QED BY <4>2, <4>5, <5>1
      <4>6. CASE i = Len(entries) + 1 /\ j \in 1..Len(entries)
        <5>1. more[j] = entries[j] /\ entries[j][1] # was.segment /\ entries[j][2] # n
          BY <2>6, <2>7, <4>6
        <5> QED BY <4>2, <4>6, <5>1
      <4> QED BY <3>1, <4>3, <4>4, <4>5, <4>6
    <3>4. ~async => \A i, j \in 1..Len(more) : i < j => more[i][2] < more[j][2]
      <4>1. SUFFICES ASSUME ~async, NEW i \in 1..Len(more), NEW j \in 1..Len(more), i < j
                     PROVE  more[i][2] < more[j][2]
        OBVIOUS
      <4>2. n = Number(g)
        BY <1>1, <1>2, <2>1, <4>1 DEF SpeechesRight
      <4>3. i \in 1..Len(entries)
        BY <2>6, <4>1
      <4>4. CASE j \in 1..Len(entries)
        BY <1>2, <1>3, <2>6, <4>1, <4>3, <4>4 DEF PlaylistRight
      <4>5. CASE j = Len(entries) + 1
        <5>1. entries[i][2] \in DOMAIN speeches[g] /\ entries[i][2] # n
          BY <2>7, <4>3 DEF Entered
        <5>2. entries[i][2] \in 1..n
          BY <1>2, <4>2, <5>1 DEF SpeechesRight
        <5>3. entries[i][2] < n
          BY <1>3, <5>1, <5>2
        <5>4. more[j][2] = n /\ more[i] = entries[i]
          BY <2>6, <4>3, <4>5
        <5> QED BY <5>3, <5>4
      <4> QED BY <3>1, <4>4, <4>5
    <3>5. TT(g) # "create" /\ told[g] # <<>>
      BY <1>1, <1>2, <1>3 DEF PlaylistRight
    <3> QED BY <1>1, <2>1, <2>3, <2>6, <2>8, <3>2, <3>3, <3>4, <3>5 DEF PlaylistRight, Entered
  <2>11. FilesRight(g)'
    <3>1. playlistMu'[g] # Unlocked \/ <<"tts", g>> \in stale'
      BY <1>3, <2>1, <2>3 DEF Unlocked
    <3>2. \A k, m : Keeps(g, k, m)' <=> Keeps(g, k, m)
      BY <1>1, <2>1 DEF Keeps
    <3>3. /\ \A i \in 1..Len(entries) : Keeps(g, entries[i][1], entries[i][2])
          /\ \A m \in DOMAIN speeches[g] :
               speeches[g][m].at \in {"add", "write"} => Keeps(g, speeches[g][m].segment, m)
          /\ g \in dirs \/ g \in swept
      BY <1>2, <1>3 DEF FilesRight
    <3>4. Keeps(g, was.segment, n)
      BY <1>1, <2>1, <3>3
    <3>5. \A i \in 1..Len(more) : Keeps(g, more[i][1], more[i][2])
      <4>1. more[Len(entries) + 1][1] = was.segment /\ more[Len(entries) + 1][2] = n
        BY <2>6
      <4>2. \A i \in 1..Len(more) : i \in 1..Len(entries) \/ i = Len(entries) + 1
        BY <2>6
      <4> QED BY <2>6, <3>3, <3>4, <4>1, <4>2
    <3>6. \A m \in DOMAIN speeches[g] :
            speeches'[g][m].at \in {"add", "write"} => Keeps(g, speeches'[g][m].segment, m)
      BY <2>2, <2>8, <3>3, <3>4
    <3>7. g \in dirs' \/ g \in swept'
      BY <2>0, <2>1, <3>3
    <3> QED BY <2>3, <2>8, <3>1, <3>2, <3>5, <3>6, <3>7 DEF FilesRight
  <2>12. OtherStreams(g)
    <3>1. playlistMu' = playlistMu \/ \E mu \in Nat : playlistMu' = [playlistMu EXCEPT ![g] = mu]
      BY <1>3, <2>0
    <3>2. m3u8' = m3u8 \/ \E new : m3u8' = [m3u8 EXCEPT ![g] = new]
      BY <2>0
    <3> QED BY <1>1, <1>12, <2>0, <2>1, <2>2, <2>3, <3>1, <3>2, GoesOnOthers
  <2>13. Stream(g)'
    BY <1>3, <2>3, <2>9, <2>10, <2>11 DEF Stream
  <2> QED BY <1>1, <1>12, <2>12, <2>13, StreamMoved
<1>11. CASE WritePlaylist(g, n)
  <2> DEFINE r == [at |-> "over", segment |-> was.segment]
  <2>1. /\ was.at = "write" /\ playlistMu' = [playlistMu EXCEPT ![g] = Unlocked]
        /\ PlaylistWritten(g)
        /\ Becomes(g, n, "over") /\ UNCHANGED <<async, playlists, counter, dirs, segments>>
    BY <1>11 DEF WritePlaylist, SpeechAt
  <2>2. GoesOn(g, n, r) /\ r.at = "over"
    BY <1>5, <1>6, <2>1
  <2>3. playlistMu'[g] = Unlocked /\ Unlocked \in Nat
    BY <2>1 DEF Streams, Unlocked
  <2> HIDE DEF r
  <2>4. /\ g \in dirs \/ g \in swept'
        /\ g \in swept' \/ <<"tts", g>> \in stale' \/ m3u8'[g] = entries
        /\ m3u8' = m3u8 \/ \E new : m3u8' = [m3u8 EXCEPT ![g] = new]
        /\ swept' = swept \/ swept' = swept \ {g}
    <3>1. g \in dirs \/ g \in swept
      BY <1>2, <1>3 DEF FilesRight
    <3>2. CASE g \in dirs /\ m3u8' = [m3u8 EXCEPT ![g] = playlists[g]] /\ swept' = swept \ {g}
      BY <3>2 DEF Streams
    <3>3. CASE g \notin dirs /\ UNCHANGED <<m3u8, swept>>
      BY <3>1, <3>3
    <3>4. CASE Fails("tts", g) /\ UNCHANGED <<m3u8, swept>>
      BY <3>1, <3>4, MarksAre
    <3> QED BY <2>1, <3>2, <3>3, <3>4 DEF PlaylistWritten
  <2>5. SpeechesRight(g)'
    BY <1>3, <1>4, <2>1, <2>2, <2>3, GoesOnSpeeches
  <2>6. PlaylistRight(g)'
    BY <1>3, <1>4, <2>1, <2>2, GoesOnPlaylist
  <2>7. FilesRight(g)'
    <3>1. \A k, m : Keeps(g, k, m)' <=> Keeps(g, k, m)
      BY <1>1, <2>1 DEF Keeps
    <3>2. /\ DOMAIN speeches'[g] = DOMAIN speeches[g] /\ speeches'[g][n] = r
          /\ \A m \in DOMAIN speeches[g] : m # n => speeches'[g][m] = speeches[g][m]
      BY <2>2, GoesOnIs
    <3> QED BY <1>2, <1>3, <2>1, <2>2, <2>4, <3>1, <3>2 DEF FilesRight
  <2>8. OtherStreams(g)
    BY <1>1, <1>12, <2>1, <2>2, <2>3, <2>4, GoesOnOthers DEF Others
  <2>9. Stream(g)'
    BY <1>3, <2>1, <2>5, <2>6, <2>7 DEF Stream
  <2> QED BY <1>1, <1>12, <2>8, <2>9, StreamMoved
<1> QED BY <1>1, <1>8, <1>9, <1>10, <1>11, <1>12 DEF Speech

-----------------------------------------------------------------------------
(* All together *)

LEMMA InitIInv ==
  ASSUME ObserversAssumption, CompositeAssumption, Init
  PROVE  IInv
<1>1. PICK c \in Configurations :
        observers = c.enabled /\ async = c.async /\ lasts = c.lasts /\ fileOf = c.fileOf
  BY DEF Init
<1>2. /\ told = [g \in Games |-> <<>>] /\ todo = [g \in Games |-> {}]
      /\ step = [g \in Games |-> "called"] /\ faults = 0 /\ stale = {}
      /\ JSONInit /\ LogInit /\ RealtimeInit /\ TTSInit
  BY DEF Init
<1>3. /\ observers \subseteq Names /\ async \in BOOLEAN
      /\ lasts \in [Games -> 0..MaxEvents] /\ fileOf \in [Games -> FileNames]
  BY <1>1, NamesAre, ObserversAssumption DEF ObserversAssumption
<1>4. <<>> \in Seq(Kinds)
  BY EmptySeq
<1>5. Calls
  BY <1>2, <1>3, <1>4 DEF Calls
<1>6. \A g \in Games : Number(g) = 0 /\ told[g] = <<>> /\ \A o : Phase(o, g) = "out"
  <2>1. Len(<<>>) = 0
    BY EmptySeq
  <2> QED BY <1>2, <2>1 DEF Number, Phase
<1>7. \A o, g : g \in Games => Lists(<<>>, First(o, g, 0))
  BY <1>5, FirstZero, ListsNothing
<1>8. Stories
  BY <1>3, <1>6, CompositeAssumption DEF Stories, Calls, CompositeAssumption
<1>9. Books
  <2>1. /\ DOMAIN jsonData = {} /\ DOMAIN logData = {} /\ requestMap \in [Games -> Nat]
        /\ jsonFile = [f \in FileNames |-> <<>>] /\ logFile = [f \in FileNames |-> <<>>]
    BY <1>2 DEF JSONInit, LogInit
  <2>2. ASSUME NEW g \in Games, NEW o \in Loggers PROVE Book(o, g)
    <3>1. Seen(o, g) = 0 /\ 0 \in 0..0 /\ fileOf[g] \in FileNames
      BY <1>3, <1>6 DEF Seen
    <3>2. FileOf(o)[fileOf[g]] = <<>> /\ DOMAIN DataOf(o) = {}
      BY <2>1, <3>1 DEF FileOf, DataOf
    <3>3. Cut(<<>>, Records(o, g, 0))
      BY <1>7, <3>1 DEF Cut, Records
    <3> QED BY <1>6, <1>7, <3>1, <3>2, <3>3 DEF Book, DataRight, FileRight
  <2> QED BY <1>6, <2>1, <2>2 DEF Books, Asked
<1>10. Packs
  <2>1. DOMAIN rtData = {} /\ closing = {} /\ rtFile = [f \in FileNames |-> <<>>]
    BY <1>2 DEF RealtimeInit
  <2>2. ASSUME NEW g \in Games PROVE Pack(g)
    <3>1. RT(g) = "out" /\ Sent(g) = 0 /\ rtFile[fileOf[g]] = <<>> /\ "out" \in RTPhases
      BY <1>3, <1>6, <2>1 DEF RT, Sent, RTPhases
    <3>2. Lists(<<>>, First("realtime", g, 0))
      BY <1>7
    <3>3. Appended(g)
      BY <3>1, <3>2, SparseNothing DEF Appended
    <3> QED BY <2>1, <3>1, <3>3 DEF Pack, Packed
  <2> QED BY <2>1, <2>2 DEF Packs
<1>11. ListSound
  <2>1. DOMAIN rtData = {} /\ items = [g \in Games |-> {}] /\ list = [games |-> {}, whole |-> TRUE]
    BY <1>2 DEF RealtimeInit
  <2>2. \A g \in Games : ~InList(g) /\ ~Due(g)
    BY <1>6, <2>1 DEF InList, RT, Due
  <2> QED BY <2>1, <2>2 DEF ListSound
<1>12. Streams
  <2>1. /\ DOMAIN playlists = {} /\ counter = [g \in Games |-> 0]
        /\ playlistMu = [g \in Games |-> 0] /\ speeches = [g \in Games |-> <<>>]
        /\ segments = [g \in Games |-> <<>>] /\ m3u8 = [g \in Games |-> NoPlaylist]
        /\ taken = [g \in Games |-> {}]
    BY <1>2 DEF TTSInit, Unlocked
  <2>2. ASSUME NEW g \in Games PROVE Stream(g)
    <3>1. DOMAIN speeches[g] = {} /\ playlistMu[g] = 0 /\ TT(g) = "out"
      BY <1>6, <2>1 DEF TT
    <3>2. speeches[g] \in [DOMAIN speeches[g] -> [at : Places, segment : Nat]]
      BY <2>1, <3>1
    <3>3. SpeechesRight(g)
      BY <3>1, <3>2 DEF SpeechesRight, Unlocked
    <3> QED BY <2>1, <3>1, <3>3 DEF Stream, PlaylistRight, FilesRight
  <2> QED BY <1>3, <2>1, <2>2 DEF Streams
<1> QED BY <1>2, <1>5, <1>8, <1>9, <1>10, <1>11, <1>12, CompositeAssumption DEF IInv, CompositeAssumption

\* A step of one observer is not seen by the others.
LEMMA MovesApart ==
  ASSUME NEW o, NEW g \in Games, NEW t, Moves(o, g, t), Marks(o, g), Stories, faults \in 0..MaxFaults
  PROVE  /\ Calls' /\ UNCHANGED <<config, told>> /\ faults' \in 0..MaxFaults /\ Stories'
         /\ \A p, h : p # o /\ h \in Games =>
              Phase(p, h)' = Phase(p, h) /\ (<<p, h>> \in stale' <=> <<p, h>> \in stale)
<1>1. /\ Calls' /\ UNCHANGED <<config, told>>
      /\ \A p, h : p # o /\ h \in Games => Phase(p, h)' = Phase(p, h)
  BY DEF Moves
<1>2. Stories'
  BY <1>1, StoriesKept DEF config
<1> QED BY <1>1, <1>2 DEF Marks

LEMMA StillApart ==
  ASSUME Calls, Stories, UNCHANGED <<config, told, todo, step>>
  PROVE  Calls' /\ Stories' /\ \A p, h : Phase(p, h)' = Phase(p, h)
<1>1. Calls'
  BY DEF Calls, config, Event, Number
<1>2. Stories'
  BY StoriesKept DEF config
<1>3. \A p, h : Phase(p, h)' = Phase(p, h)
  BY DEF Phase, Turn
<1> QED BY <1>1, <1>2, <1>3

LEMMA NextIInv ==
  ASSUME ObserversAssumption, CompositeAssumption, IInv, [Next]_vars
  PROVE  IInv'
<1> USE DEF IInv
<1>1. ASSUME NEW g \in Games, NEW e \in Kinds, Notify(g, e), UNCHANGED <<json, log, realtime, tts>>
      PROVE  IInv'
  <2>1. Calls' /\ UNCHANGED <<config, faults>>
    BY <1>1, NotifyMoves
  <2>2. Stories'
    BY <1>1, NotifyStories
  <2>3. Books' /\ Packs' /\ Streams'
    BY <1>1, NotifyBooks, NotifyPacks, NotifyStream
  <2>4. ListSound'
    BY <1>1, ListApart
  <2> QED BY <2>1, <2>2, <2>3, <2>4
<1>2. ASSUME NEW g \in Games, JSONStep(g), UNCHANGED <<log, realtime, tts>>
      PROVE  IInv'
  <2>1. PICK t : Books' /\ Moves("json", g, t) /\ Marks("json", g)
    BY <1>2, JSONSteps
  <2>2. /\ Calls' /\ UNCHANGED <<config, told>> /\ faults' \in 0..MaxFaults /\ Stories'
        /\ \A p, h : p # "json" /\ h \in Games =>
             Phase(p, h)' = Phase(p, h) /\ (<<p, h>> \in stale' <=> <<p, h>> \in stale)
    BY <2>1, MovesApart
  <2>3. \A h \in Games : /\ RT(h)' = RT(h) /\ TT(h)' = TT(h)
                         /\ <<"realtime", h>> \in stale' <=> <<"realtime", h>> \in stale
                         /\ <<"tts", h>> \in stale' <=> <<"tts", h>> \in stale
    <3>1. "realtime" # "json" /\ "tts" # "json"
      OBVIOUS
    <3> QED BY <2>2, <3>1 DEF RT, TT
  <2>4. Packs' /\ ListSound' /\ Streams'
    BY <1>2, <2>2, <2>3, PacksKept, ListApart, StreamsKept
  <2> QED BY <2>1, <2>2, <2>4
<1>3. ASSUME NEW g \in Games, LogStep(g), UNCHANGED <<json, realtime, tts>>
      PROVE  IInv'
  <2>1. PICK t : Books' /\ Moves("log", g, t) /\ Marks("log", g)
    BY <1>3, LogSteps
  <2>2. /\ Calls' /\ UNCHANGED <<config, told>> /\ faults' \in 0..MaxFaults /\ Stories'
        /\ \A p, h : p # "log" /\ h \in Games =>
             Phase(p, h)' = Phase(p, h) /\ (<<p, h>> \in stale' <=> <<p, h>> \in stale)
    BY <2>1, MovesApart
  <2>3. \A h \in Games : /\ RT(h)' = RT(h) /\ TT(h)' = TT(h)
                         /\ <<"realtime", h>> \in stale' <=> <<"realtime", h>> \in stale
                         /\ <<"tts", h>> \in stale' <=> <<"tts", h>> \in stale
    <3>1. "realtime" # "log" /\ "tts" # "log"
      OBVIOUS
    <3> QED BY <2>2, <3>1 DEF RT, TT
  <2>4. Packs' /\ ListSound' /\ Streams'
    BY <1>3, <2>2, <2>3, PacksKept, ListApart, StreamsKept
  <2> QED BY <2>1, <2>2, <2>4
<1>4. ASSUME NEW g \in Games, RealtimeStep(g), UNCHANGED <<json, log, tts>>
      PROVE  IInv'
  <2>1. PICK t : Packs' /\ ListSound' /\ Moves("realtime", g, t) /\ Marks("realtime", g)
    BY <1>4, RealtimeSteps
  <2>2. /\ Calls' /\ UNCHANGED <<config, told>> /\ faults' \in 0..MaxFaults /\ Stories'
        /\ \A p, h : p # "realtime" /\ h \in Games =>
             Phase(p, h)' = Phase(p, h) /\ (<<p, h>> \in stale' <=> <<p, h>> \in stale)
    BY <2>1, MovesApart
  <2>3. /\ \A h \in Games : TT(h)' = TT(h) /\ (<<"tts", h>> \in stale' <=> <<"tts", h>> \in stale)
        /\ \A o \in Loggers, h \in Games :
             Phase(o, h)' = Phase(o, h) /\ (<<o, h>> \in stale' <=> <<o, h>> \in stale)
    <3>1. "tts" # "realtime" /\ \A o \in Loggers : o # "realtime"
      BY DEF Loggers
    <3> QED BY <2>2, <3>1 DEF TT
  <2>4. Books' /\ Streams'
    BY <1>4, <2>2, <2>3, BooksKept, StreamsKept
  <2> QED BY <2>1, <2>2, <2>4
<1>5. ASSUME NEW g \in Games, TTSStep(g), UNCHANGED <<json, log, realtime>>
      PROVE  IInv'
  <2>1. PICK t : Streams' /\ Moves("tts", g, t) /\ Marks("tts", g)
    BY <1>5, TTSteps
  <2>2. /\ Calls' /\ UNCHANGED <<config, told>> /\ faults' \in 0..MaxFaults /\ Stories'
        /\ \A h \in Games : /\ RT(h)' = RT(h)
                            /\ <<"realtime", h>> \in stale' <=> <<"realtime", h>> \in stale
        /\ \A o \in Loggers, h \in Games :
             Phase(o, h)' = Phase(o, h) /\ (<<o, h>> \in stale' <=> <<o, h>> \in stale)
    BY <2>1, MovesApart DEF RT, Loggers
  <2>3. Books' /\ Packs' /\ ListSound'
    BY <1>5, <2>2, BooksKept, PacksKept, ListApart
  <2> QED BY <2>1, <2>2, <2>3
<1>6. ASSUME UNCHANGED <<config, told, todo, step, json, log, realtime>>, Streams', faults' \in 0..MaxFaults,
             \A o, h : o # "tts" => (<<o, h>> \in stale' <=> <<o, h>> \in stale)
      PROVE  IInv'
  <2>1. Calls' /\ Stories' /\ \A p, h : Phase(p, h)' = Phase(p, h)
    BY <1>6, StillApart
  <2>2. /\ \A h \in Games : /\ RT(h)' = RT(h)
                            /\ <<"realtime", h>> \in stale' <=> <<"realtime", h>> \in stale
        /\ \A o \in Loggers, h \in Games :
             Phase(o, h)' = Phase(o, h) /\ (<<o, h>> \in stale' <=> <<o, h>> \in stale)
    BY <1>6, <2>1 DEF RT, Loggers
  <2>3. Books' /\ Packs' /\ ListSound'
    BY <1>6, <2>1, <2>2, BooksKept, PacksKept, ListApart
  <2> QED BY <1>6, <2>1, <2>3
<1>7. ASSUME NEW g \in Games, NEW n \in 1..MaxEvents, Spoke(g, n)
      PROVE  IInv'
  <2>1. Speech(g, n) /\ UNCHANGED <<json, log, realtime>>
    BY <1>7 DEF Spoke
  <2>2. Streams' /\ Marks("tts", g) /\ UNCHANGED <<config, told, todo, step>>
    BY <2>1, SpeechSteps
  <2>3. faults' \in 0..MaxFaults /\ \A o, h : o # "tts" => (<<o, h>> \in stale' <=> <<o, h>> \in stale)
    BY <2>2 DEF Marks
  <2> QED BY <1>6, <2>1, <2>2, <2>3
<1>8. ASSUME Start, UNCHANGED <<json, log, realtime>>
      PROVE  IInv'
  <2>1. Streams' /\ UNCHANGED <<config, told, todo, step, faults, stale>>
    BY <1>8, StartStreams DEF Start, composite
  <2> QED BY <1>6, <1>8, <2>1
<1>9. CASE UNCHANGED vars
  <2>1. UNCHANGED <<config, told, todo, step, faults, stale, json, log, realtime, tts>>
    BY <1>9 DEF vars, composite
  <2>2. \A h \in Games : TT(h)' = TT(h)
    BY <2>1 DEF TT, Phase, Turn
  <2>3. Streams'
    BY <2>1, <2>2, StreamsKept
  <2> QED BY <1>6, <2>1, <2>3
<1> QED BY <1>1, <1>2, <1>3, <1>4, <1>5, <1>7, <1>8, <1>9 DEF Next, Call

\* The invariant of the observers together holds in every state.
THEOREM IInvHolds == Spec => []IInv
<1>1. Init => IInv
  BY InitIInv, ObserversAssumption, CompositeAssumption
<1>2. IInv /\ [Next]_vars => IInv'
  BY NextIInv, ObserversAssumption, CompositeAssumption
<1> QED BY <1>1, <1>2, PTL DEF Spec

-----------------------------------------------------------------------------
(* What it says of the files *)

LEMMA AppendIs ==
  ASSUME NEW S, NEW ls \in Seq(S), NEW e, NEW file, file = Append(ls, e)
  PROVE  /\ Len(file) = Len(ls) + 1 /\ file[Len(file)] = e /\ Len(ls) \in Nat
         /\ SubSeq(file, 1, Len(file) - 1) = ls
<1> DEFINE T == S \union {e}
<1>1. ls \in Seq(T) /\ Len(ls) \in Nat
  BY SeqMonotonic, LenProperties
<1>2. Len(file) = Len(ls) + 1 /\ file[Len(file)] = e
  BY <1>1, AppendProperties
<1>3. SubSeq(file, 1, Len(ls)) = ls
  BY <1>1, AppendProperties, SubSeqProperties, SeqEqual
<1> QED BY <1>1, <1>2, <1>3

LEMMA DoneIsOut ==
  ASSUME NEW o, NEW g, Done(o, g)
  PROVE  Phase(o, g) = "out" /\ o \in observers
BY DEF Done, Phase

LEMMA IInvFiles ==
  ASSUME IInv
  PROVE  FilesComplete /\ FilesTrue
<1> USE DEF IInv
<1>1. ASSUME NEW o \in Loggers, NEW g \in Games, Own(g)
      PROVE  /\ Done(o, g) /\ <<o, g>> \notin stale => Holds(FileOf(o)[fileOf[g]], Lines(o, g))
             /\ \/ CutFrom(FileOf(o)[fileOf[g]], Lines(o, g), g)
                \/ <<o, g>> \in stale /\ TornFrom(FileOf(o)[fileOf[g]], Lines(o, g), g)
  <2>1. FileRight(o, g) /\ Number(g) \in Nat
    BY LenProperties DEF Books, Book, Calls, Number
  <2> DEFINE file == FileOf(o)[fileOf[g]]
             records == Records(o, g, Seen(o, g))
  <2>2. Cut(file, records) \/ (<<o, g>> \in stale /\ Ripped(file, records))
    BY <1>1, <2>1 DEF FileRight
  <2>3. ASSUME NEW ls, Cut(ls, records)
        PROVE  CutFrom(ls, Lines(o, g), g) /\ ls \in Seq(Lines(o, g))
    <3>1. PICK k \in 0..Seen(o, g) : Lists(ls, First(o, g, k))
      BY <2>3 DEF Cut, Records
    <3>2. k \in 0..Number(g)
      BY <2>1, <3>1 DEF Seen
    <3>3. First(o, g, k) \subseteq Lines(o, g)
      BY DEF First, UpTo
    <3>4. ls \in Seq(Lines(o, g))
      BY <3>1, <3>3, SeqMonotonic DEF Lists
    <3> QED BY <3>1, <3>2, <3>4 DEF CutFrom, Lists, First
  <2>4. CutFrom(file, Lines(o, g), g) \/ (<<o, g>> \in stale /\ TornFrom(file, Lines(o, g), g))
    <3>1. CASE Cut(file, records)
      BY <2>3, <3>1
    <3>2. CASE <<o, g>> \in stale /\ Ripped(file, records)
      <4>1. PICK ls : file = Append(ls, Scrap) /\ Cut(ls, records)
        BY <3>2 DEF Ripped
      <4> HIDE DEF file, records
      <4>2. CutFrom(ls, Lines(o, g), g) /\ ls \in Seq(Lines(o, g))
        BY <2>3, <4>1
      <4>3. /\ Len(file) = Len(ls) + 1 /\ file[Len(file)] = Scrap /\ Len(ls) \in Nat
            /\ SubSeq(file, 1, Len(file) - 1) = ls
        BY <4>1, <4>2, AppendIs
      <4>4. Len(file) > 0
        BY <4>3
      <4> QED BY <3>2, <4>2, <4>3, <4>4 DEF TornFrom
    <3> QED BY <2>2, <3>1, <3>2
  <2>5. ASSUME Done(o, g), <<o, g>> \notin stale
        PROVE  Holds(FileOf(o)[fileOf[g]], Lines(o, g))
    <3>1. Phase(o, g) = "out" /\ o \in observers /\ Seen(o, g) = Number(g)
      BY <2>5, DoneIsOut DEF Seen
    <3>2. Lists(FileOf(o)[fileOf[g]], First(o, g, Number(g)))
      BY <1>1, <2>1, <2>5, <3>1 DEF FileRight
    <3> QED BY <3>2, FirstAll DEF Lists
  <2> QED BY <2>4, <2>5
<1>2. ASSUME NEW g \in Games, Own(g)
      PROVE  /\ Done("realtime", g) /\ <<"realtime", g>> \notin stale =>
                  Holds(rtFile[fileOf[g]], Packets(g))
             /\ Scattered(rtFile[fileOf[g]], Packets(g))
             /\ <<"realtime", g>> \in stale \/ CutFrom(rtFile[fileOf[g]], Packets(g), g)
  <2> DEFINE file == rtFile[fileOf[g]]
  <2>1. Appended(g)
    BY DEF Packs, Pack
  <2>2. Sparse(file, First("realtime", g, Sent(g)))
    BY <1>2, <2>1 DEF Appended
  <2>3. First("realtime", g, Sent(g)) \subseteq Packets(g)
    BY LinesAre DEF First, UpTo
  <2>4. Scattered(file, Packets(g))
    <3>1. Sparse(file, Packets(g))
      BY <2>2, <2>3, SparseMore
    <3>2. /\ \A i \in 1..Len(file) : file[i] \in Packets(g) \union {Scrap}
          /\ DOMAIN file = 1..Len(file)
      BY <3>1, ElementOfSeq, LenProperties DEF Sparse
    <3> QED BY <3>1, <3>2 DEF Sparse, Scattered, Range
  <2>6. ASSUME <<"realtime", g>> \notin stale PROVE CutFrom(file, Packets(g), g)
    <3>1. Number(g) \in Nat /\ Lines("realtime", g) = Packets(g)
      BY LenProperties, LinesAre DEF Calls, Number
    <3>2. CASE file = <<>>
      <4>1. First("realtime", g, 0) = {} /\ 0 \in 0..Number(g)
        BY <3>1, FirstZero
      <4> QED BY <3>1, <3>2, <4>1, ListsNothing DEF CutFrom, Lists, First
    <3>3. CASE file # <<>>
      <4>1. "realtime" \in observers /\ RT(g) # "write"
        BY <1>2, <2>1, <3>3 DEF Appended
      <4>2. Lists(file, First("realtime", g, Sent(g)))
        BY <1>2, <2>1, <2>6, <4>1 DEF Appended
      <4>3. Sent(g) \in 0..Number(g)
        <5>1. RT(g) \in {"called", "emit", "append"} => Number(g) # 0
          BY RTFacts
        <5> QED BY <3>1, <5>1 DEF Sent
      <4> QED BY <3>1, <4>2, <4>3 DEF CutFrom, Lists, First
    <3> QED BY <3>2, <3>3
  <2>5. ASSUME Done("realtime", g), <<"realtime", g>> \notin stale PROVE Holds(file, Packets(g))
    <3>1. RT(g) = "out" /\ "realtime" \in observers /\ Sent(g) = Number(g)
      BY <2>5, DoneIsOut DEF RT, Sent
    <3>2. Lists(file, First("realtime", g, Number(g)))
      BY <1>2, <2>1, <2>5, <3>1 DEF Appended
    <3>3. First("realtime", g, Number(g)) = Packets(g)
      BY FirstAll, LinesAre
    <3> QED BY <3>2, <3>3 DEF Lists
  <2> QED BY <2>4, <2>5, <2>6
<1>3. /\ "json" \in Loggers /\ "log" \in Loggers
      /\ FileOf("json") = jsonFile /\ FileOf("log") = logFile
  BY DEF Loggers, FileOf
<1>4. FilesComplete
  BY <1>1, <1>2, <1>3, LinesAre DEF FilesComplete
<1>5. FilesTrue
  BY <1>1, <1>2, <1>3, LinesAre DEF FilesTrue
<1> QED BY <1>4, <1>5

LEMMA IInvTypeOK ==
  ASSUME IInv
  PROVE  TypeOK
<1> USE DEF IInv
<1>1. /\ lasts \in [Games -> 0..MaxEvents] /\ fileOf \in [Games -> FileNames]
      /\ \A g \in Games : told[g] \in Seq(Kinds) /\ Number(g) <= lasts[g]
      /\ observers \subseteq DOMAIN Place /\ todo \in [Games -> SUBSET observers]
  BY NamesAre DEF Calls, Stories
<1>2. \A g \in Games : g \in DOMAIN jsonData \/ g \in DOMAIN logData => told[g] # <<>>
  BY DEF Books, Book, DataRight, DataOf, Loggers
<1>3. \A g \in Games : g \in DOMAIN rtData => told[g] # <<>>
  BY DEF Packs, Pack, Packed
<1>4. \A g \in Games : g \in DOMAIN playlists => told[g] # <<>>
  BY DEF Streams, Stream, PlaylistRight
<1>5. \A g \in Known(jsonData) \union Known(logData) \union Known(rtData) \union Known(playlists) :
        told[g] # <<>>
  BY <1>2, <1>3, <1>4 DEF Known, Books, Packs, Streams
<1>6. closing \subseteq Known(rtData)
  BY DEF Packs, Pack, Known
<1>7. list.games \subseteq Games /\ list.whole \in BOOLEAN
  BY DEF ListSound
<1>8. \A g \in Games : DOMAIN speeches[g] \subseteq 1..Number(g)
  BY DEF Streams, Stream, SpeechesRight
<1> QED BY <1>1, <1>5, <1>6, <1>7, <1>8 DEF TypeOK

\* The files of the loggers and of the broadcaster, json_logger.go, game_logger.go
\* and realtime_broadcaster.go, say what the game has told, and all of it once
\* their observer has returned unless its last write failed.  Writes that fail
\* leave the beginning of a line at most, in a logger's file at its end.
THEOREM RecordsTheorem == Spec => []RecordsFaithful
<1>1. IInv => RecordsFaithful
  BY IInvFiles, IInvTypeOK DEF RecordsFaithful
<1> QED BY <1>1, IInvHolds, PTL

\* games.json, writeGamesListFile, can be parsed and names every game that is on
\* whenever the last write of it met no other and did not fail.
THEOREM ListTheorem == Spec => []ListRecovers
<1>1. IInv => ListRecovers
  <2>1. SUFFICES ASSUME IInv, alone, Listing = {}
                 PROVE  /\ list.whole
                        /\ \A g \in Known(rtData) :
                             Event(g) # "start" \/ Done("realtime", g) => g \in list.games
    BY DEF ListRecovers
  <2>2. Calls /\ Packs /\ ListSound
    BY <2>1 DEF IInv
  <2>3. \A g \in Games : ~InList(g)
    BY <2>1, <2>2, ListingIs
  <2>4. list.whole /\ \A g \in Games : Due(g) => g \in list.games
    BY <2>1, <2>2, <2>3 DEF ListSound
  <2>5. ASSUME NEW g \in Known(rtData), Event(g) # "start" \/ Done("realtime", g) PROVE Due(g) /\ g \in Games
    BY <2>2, <2>5, DoneIsOut DEF Due, RT, Known, Packs
  <2> QED BY <2>4, <2>5
<1> QED BY <1>1, IInvHolds, PTL

\* No speech comes twice in a playlist, and in order without async; a segment that
\* the clean-up has not removed is the speech it was added for; and when nobody
\* holds the mutex the file is the playlist, unless it was removed or its last
\* write failed, tts_broadcaster.go.
THEOREM PlaylistTheorem == Spec => []PlaylistSound
<1>1. IInv => PlaylistSound
  <2>1. SUFFICES ASSUME IInv, NEW g \in Known(playlists)
                 PROVE  /\ \A i, j \in 1..Len(playlists[g]) :
                             i # j => /\ playlists[g][i][1] # playlists[g][j][1]
                                      /\ playlists[g][i][2] # playlists[g][j][2]
                        /\ ~async => \A i, j \in 1..Len(playlists[g]) :
                                       i < j => playlists[g][i][2] < playlists[g][j][2]
                        /\ \A i \in 1..Len(playlists[g]) :
                             \/ playlists[g][i][1] \in taken[g]
                             \/ segments[g][playlists[g][i][1]] = playlists[g][i][2]
                        /\ playlistMu[g] = Unlocked /\ ~At(g, "tts", "create") =>
                             g \in swept \/ <<"tts", g>> \in stale \/ m3u8[g] = playlists[g]
    BY DEF PlaylistSound
  <2>2. g \in Games /\ g \in DOMAIN playlists /\ PlaylistRight(g) /\ FilesRight(g)
    BY <2>1 DEF IInv, Streams, Stream, Known
  <2>3. TT(g) = "create" => At(g, "tts", "create")
    BY DEF TT, Phase, At
  <2>4. /\ \A i \in 1..Len(playlists[g]) :
             \/ playlists[g][i][1] \in taken[g]
             \/ segments[g][playlists[g][i][1]] = playlists[g][i][2]
        /\ playlistMu[g] = Unlocked /\ ~At(g, "tts", "create") =>
             g \in swept \/ <<"tts", g>> \in stale \/ m3u8[g] = playlists[g]
    BY <2>2, <2>3 DEF FilesRight, Keeps
  <2> QED BY <2>2, <2>4 DEF PlaylistRight
<1> QED BY <1>1, IInvHolds, PTL
=============================================================================
