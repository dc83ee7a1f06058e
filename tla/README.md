# A verification of aiwolf-nlp-server

The server plays games of Werewolf between language agents. Agents are clients
on websockets; a game is one goroutine that asks its agents for speeches, votes
and abilities and decides who dies and who wins. This directory holds TLA+
modules translated from the Go source, TLC configurations that check them on
small instances, and proofs, checked by TLAPS, that hold for every instance.
Paths are relative to the root of the repository; doc lines are those of `doc/en`.

Contents: [the system](#1-the-system), [modules and code](#2-modules-and-the-code-they-model),
[runs](#3-what-is-checked), [fairness](#4-fairness), [proofs](#5-what-is-proved),
[disagreements between code and docs](#6-where-code-and-documents-disagree),
[limits](#7-what-is-not-modelled), [plan](#8-plan).

## 1. The system

    client --ws--> transport/server --> orchestrator/GameManager --> matchmaking/WaitingRoom
                        |  (handler goroutine per connection)     \-> matchmaking/MatchOptimizer --> store (JSON file)
                        |                                           
                        \-- API, event streams <--- observer/LiveState <--+
                                                                          |
      logic/Game (a goroutine per game) -- observer.Composite ------------+--> service/* (files, speech)
        |  \-- CommunicationSession: by turns or as a group chat
        \-- model/Agent: SendPacket, a reader goroutine per connection

| component | state | operations | what makes it hard | what makes it correct |
|---|---|---|---|---|
| Game engine (`logic/game.go`, `common.go`, `model/game_status.go`, `util/game_util.go`) | status of every agent by day, current day, winner, error flags | `Start`, `progressDay`, `progressNight`, `executePhase`, `shouldFinish`, `NextDay` | every request may fail; phases come from the configuration; agents are map keys **by value**, error flag included | one status per agent, deaths final and recorded, the winner is that of the final statuses, the game ends |
| Votes and abilities (`vote.go`, `execution.go`, `attack.go`, `divine.go`, `guard.go`) | ballots, round, guard, divination | `collectVotes`, `doExecution`, `doAttack`, `doDivine`, `doGuard` | lists computed before requests that fail; order of guard, execution and attack | no stale voter, a guard that counts saves its target, victims are proper |
| Communication session (`communication_session.go`, `communication.go`) | remaining speeches, characters and skips; transcript | `buildTalk`, `processText`, `processSkipOver` | four limits interact; numbers turn negative; the mention is in none of the counts | agents are told the truth about what is left; nobody exceeds its budget as the code counts it |
| Turn-based talk (`communication_turn.go`) | shuffled order, round | `runTurnBased`, `getTalkWhisperText` | timeouts, lost agents, ending in silence | turns count talks; early end only in silence |
| Group chat (`communication_freeform.go`) | `talkChannel`, context, listener and consumer goroutines | `runFreeform`, `listenForTalks`, `processSubmission`, `sendTalk` | true concurrency: messages, deadline, broken connections | one transcript for all, every goroutine stops |
| Histories in requests (`common.go`) | two last-index maps | `requestToAgent`, `minimize`, `resetLastIdxMaps` | indexes of one day cut lists of another | indexes within lists, no history repeats another, none leaves a talk out |
| Agent link (`model/agent.go`) | `msgChan`, `HasError` | `SendPacket`, reader goroutine | late answers, NAME probe, closing connections | an answer is used for its own request; requests return |
| Waiting room (`matchmaking/waiting_room.go`) | a queue per team | `AddConnection`, `GetConnections*` | used by all handlers at once | nobody lost, dealt twice or overtaken |
| Game manager, server (`orchestrator/game_manager.go`, `transport/server.go`) | registry of games, shutdown flag | `handleConnections`, `TryStartGame`, `BeginShutdown`, `WaitAllFinished` | handlers, games and signal interleave | registry exact, no full group stranded, the process ends |
| Match optimizer (`matchmaking/match_optimizer.go`, `store/file_store.go`) | team numbers, scheduled and ended matches, their file | `GetMatches`, `UpdateTeam`, `SetMatchEnd`, `SetMatchWeight`, `save` | lock, file, restarts; a match can be played twice at once | matches conserved, numbers stable, progress kept |
| Live state (`observer/livestate`, `broadcaster.go`, `transport/api_v1.go`) | packet count, subscribers' bounded channels | `emit`, `Subscribe`, cancel, `OnGameEnd` | drop-oldest under readers; three parties close a channel | ordered and fresh, no panic, the game never waits |
| Realtime broadcaster (`service/realtime_broadcaster*.go`) | a log per game, one list of games | append, last whole write, rewrite of `games.json` from a snapshot | all games write one list, without a lock and emptying it first; writes fail; names of files may coincide | a game's file holds what it told, the list recovers from writes that met |
| TTS broadcaster (`service/tts_broadcaster*.go`) | streams, playlists, segment numbers | `CreateStream`, synthesis in or out of the game's goroutine, `addSegments`, clean-up | goroutines of several speeches and the clean-up share a stream and its directory; the playlist's file may fail to be written; the game may wait for a speech | each speech in its segment, once; the game goes on |
| JSON and game loggers (`service/json_logger*.go`, `game_logger*.go`) | entries per game | pairing of requests and responses, a file created anew at every entry | a stop or a failed write in between | every response beside its request, a file is cut at a line, and torn within one only by a failed write |
| Observer composite (`observer/composite.go`) | the observers in order | one call after the other in the game's goroutine | several games call the same observers | calls return |
| Making of a game (`logic.NewGame`, `util/game_util.go`, `util/dynaic_profile_util.go`) | copies of roles and profiles | `GenerateProfiles`, `CreateAgents*`, `assignRole` | games made at once deal from one setting; an external service fails or repeats a name | every role and every name once per game |
| Authentication, routes, configuration, views, analyzer, test client | none, or data only | | | see [section 7](#7-what-is-not-modelled) |

The machine-readable list of components and of the hazards, each at its line,
is in `PROJECT.json`.

## 2. Modules and the code they model

| module | models | composed with |
|---|---|---|
| `Game` | one game: `Start` down to single requests | sessions appear as one step in which speakers may fail |
| `CommunicationSession` | operators for the accounting of a session | used by `TalkTurns` and `Freeform` |
| `TalkTurns` | `runTurnBased` | refines `Discussion` |
| `Freeform` | `runFreeform` and its goroutines | refines `Discussion` |
| `Discussion` | abstract: what a session promises | |
| `TalkHistory` | what requests carry of the conversation | |
| `AgentLink` | `SendPacket`, reader and client | |
| `WaitingRoom` | operators for the room under its lock | used by the next two and `ScheduledGames` |
| `GameCreation` | `NewGame` in a handler: profiles, roles, agents | extends `WaitingRoom`; used by the next |
| `GameManager` | handlers, registry, games, shutdown; matching by the waiting room | `GameCreation` |
| `MatchOptimizer` | operators for the schedule under its lock | used by the next |
| `ScheduledGames` | handlers, games, schedule, lock, file and restarts | |
| `LiveState` | one game's packets, subscribers and stream handlers | |
| `Composite` | how a game calls its observers, and the files they write | used by the next four |
| `JSONLogger`, `GameLogger`, `RealtimeBroadcaster`, `TTSBroadcaster` | one observer each | |
| `Observers` | all of them, under several games | extends the four |
| `MC...` | the instances for TLC | |
| `GameProofs`, `TalkTurnsProofs`, `FreeformProofs`, `TalkHistoryProofs`, `ChannelsProofs`, `GameManagerProofs`, `ScheduledGamesProofs`, `ObserversProofs` | theorems, see section 5 | each extends its module; `ChannelsProofs` extends both `AgentLink` and `LiveState`, which share nothing, `GameManagerProofs` holds the theorems of `GameCreation` and of the room too, `ObserversProofs` those of all observers |

`PROJECT.json` maps every definition to its lines. How to read the modules:

**Keys by value.** `model.Agent` is a struct used as the key of `StatusMap`, of
the maps of a session and in votes, and `HasError` is one of its fields. `Game`,
`CommunicationSession` and what uses it therefore have keys `<<agent, HasError>>`:
after a failure a lookup misses what was stored before. A missing key reads as
the zero value, as in Go.

**Game.** The program counter `pc` and the indexes `phase` and `action` stand for
the position in the loops of `progressDay`, `progressNight` and `executePhase`;
`poll` for the locals of a vote. A whole session is one action (`DoTalk`,
`DoWhisper`): all it does to the state of `Game` is to make speakers fail.
Requests to several agents are one action in which any of them may fail.
`ErrorLimit` is `int(len(agents) * max_continue_error_ratio)`.

**Sessions.** What a client says is three things, its counted length before the first
mention, whether it has one, and its counted length after it, and so is the talk made
of it: what goes out is `commonText + mention + mentionText`, of the length `SpeechLength`.
The code's limits see the first and the last only, so `LimitTalk` compares their sum and
the mention (`TagLength`, and the blanks around it) comes on top. A text of counted
length zero stands for the empty string; text that is not empty but counts as
nothing (blanks when `count_spaces` is off) is not told apart from it. In
`Freeform`, `validateSubmission` and `buildTalk` are two steps because a listener
may raise `HasError` between them. A client's own `ForceSkip` is not replaced in
group chats and consumes no skip, as in the code. `MaxSent` bounds what a client
sends during a session. The channel of an agent is unbounded.

**TalkHistory.** Lists are their lengths and an index is a number. Four history
variables are what a client really got: `sentTalks` and `sentWhispers` in histories,
`castTalks` and `castWhispers` one by one, when a speech in a group chat is sent to the
agents of the session (`Broadcast`). A broadcast moves no index, and any receiver may be
lost in it.

**AgentLink.** The client is external: it takes its requests in order, answers
each at most once with the request's number, and answers NAME with its name; a
real answer never equals its own name. With `Chatter` it also sends messages
nobody asked for. A late answer meets the NAME probe and fails it, so the agent
is given up: that is what the code does, and what keeps answers matched. `WriteMessage`
has no deadline in the code. The model's write succeeds or fails, and `Returns` takes
for granted that it does either.

**GameManager and ScheduledGames** name a game by the connection whose handler
made it. A handler is split where it takes or releases a lock, waits, or starts a
goroutine. The waiting room never notices that a client has gone, and the
handshake is read without a deadline: `Named` need not happen. `GameManager`
chooses `self_match` once, in `Init`. `ScheduledGames` leaves out the registry
and the signal, which `GameManager` covers, and adds the schedule: each change is
followed by a save under the lock, in two steps because the file is emptied
first, and the process may stop between any two steps. With it goes its memory: after
`Stop` all there is to know is what the file says (`Known`), which is nothing in the middle of a
save. `Teams()` is read at one
moment. `sort.Slice` leaves equal weights in any order. `GenerateMatches` keeps
the best of random draws: any `GameCount` proper matches may come out.

**GameCreation** models a profile as its name. The loop of `CreateAgents` takes a
step per agent, because the handlers of other games may be in theirs; a copy of
the roles and of the profiles is therefore a copy in the state. A map's order,
which decides who gets which role, is not determined. The request to the service
that generates a profile is external: it may give any name, a taken one included,
fail, or never return (`Asks` is under no fairness).

**Observers.** An event is its kind and its number. `told` is what a game has
told, `todo` the observers that event has yet to reach and `step` where the first
of them, in the order of `newObserver`, is in its call. An observer's map of games is
a function on the games in it (`Stored`, `Deleted`). A file is the sequence of its
lines; a line carries the number of its event, so that what a file
has to hold is a set of lines, and it holds it when it has each of them once
and in the order of their events (`Holds`); `os.Create` empties it
in one step and it is written in the next, over whatever another game with the
same file name has put there meanwhile (`Written` of `Composite`, with `Scrap` for
the end of a longer content). A write that fails leaves what was there or the
beginning of what it should have written, cut within a line (`Torn`), and a line appended
after that stands behind the torn one (`Added`). Nothing is read back, so a process that stops is
every state taken as the last one, and the invariants about files are about stops.
`MaxFaults` bounds the writes that fail. `sync.Map.Range` is taken as a snapshot.
In `TTSBroadcaster` a speech is a record that walks through synthesis, conversion,
the playlist and its file, in a goroutine of its own or with the game waiting. Making
the directory, opening the file and writing it may each fail, which is logged (`WriteEmptyPlaylist`,
`AddSegments`, `PlaylistWritten`); the file is then as it was, or empty or torn (`NoPlaylist`).
`Start` is the clean-up of the segment directory, which the router starts in a
goroutine and which may come after the first games. Two history variables say what it did:
`taken`, the segments it removed, and `swept`, the games whose playlist it removed and
nobody has written since. Until a playlist is written the directory is missing, ffmpeg
cannot write into it, and the stream stays silent.

**LiveState** gives a packet its number and splits a send into the three selects
of `emit`, because readers receive without the lock.

Several parts that say one thing together are one property: `CountersTruthful` and
`LimitsHold` of `TalkTurns`, `OneTranscript` and `SessionEnds` of `Freeform`,
`RoomSound` of
`GameManager`, `ScheduleSound`, `RestartsKeep` and `NobodyForgotten` of
`ScheduledGames`, `StreamsFaithful` of `LiveState`, `StatusesSound` of `Game`,
`CastProper` of `GameCreation`, `RecordsFaithful`, `PlaylistSound` and
`ObserversReturn` of `Observers`. Their conjuncts are named, and a
TLC trace ends in a state in which the guilty one can be evaluated.

Definitions marked `variant` are plausible mistakes, never used by a
specification. Each property is known to be violated once such a variant
replaces the definition it belongs to (`mutants` in `PROJECT.json`).

## 3. What is checked

| run | instance | shows |
|---|---|---|
| `game_days` | 4 agents (werewolf, bodyguard, seer, villager), days 0 and 1, `max_day` 1, error limit 2, two rounds of both votes | deaths are final and recorded once, `StatusMap` keeps one entry per agent and the list of voters does not go stale (`StatusesSound`), guards hold, victims are proper, the winner is right, the game ends |
| `talk_session` | 2 agents, 3 speeches each, 4 rounds, 1 skip, all length limits | the counters agents are told follow from the transcript; nobody is asked beyond its budget, and budgets and `per_talk` are kept wherever the code can cut, by the code's count, which leaves the mention out (`LimitsHold`); early end only in silence; refines `Discussion` |
| `talk_cut` (violation) | 2 agents, 1 round | a slice with a negative bound is reached |
| `chat_session` | 2 agents, one may send two messages, `talkChannel` of 1 | one transcript for all, closed before the end is announced; refines `Discussion`; goroutines stop at the deadline, and without it once all said Over |
| `history_default` | 2 werewolves and a villager, 2 days, 3 entries per list, turns and chats | indexes stay within lists, no history repeats another and nobody gets more than it may read (`HistoriesOnce`), the day's talk is complete in the histories at night |
| `history_whispers` (violation) | the same by turns, 2 entries | whispers that never reach a werewolf |
| `link_requests` | 4 requests, 2 unasked messages | answers match requests, an idle link is quiet, agents are lost only for cause, `SendPacket` returns |
| `manager_serve` | 5 clients of 3 teams, games of 2, both values of `self_match`, agents without profiles; or 4 clients of 2 teams, two profiles configured or none, generated in 2 attempts | nobody lost, dealt twice or overtaken; no full group left; roles and names once per game; registry exact; the process ends |
| `schedule_serve` | numbers for 3 teams, 2 matches, `infinite_loop`: 3 clients of 2 teams and 1 stop anywhere, or 2 rivals of a match being played | matches conserved, numbers stable and progress kept by every step but a stop inside a save (`RestartsKeep`), duplicated games recorded once, nobody waits for a match that could be played unless a team got its number while a handler held an older list, handlers return |
| `schedule_append` (violation) | 3 clients, 1 match, `infinite_loop` | the handler that should draw more games waits for itself |
| `live_events` | 2 subscribers, channels of 2, 5 packets | ordered and fresh streams, loss only when full, no panic, no blocking, the end is seen |
| `observers_files` | 2 games, up to 5 events (for the list games of 3 and 2), a write that fails or is cut short; the loggers and the realtime broadcaster together, two games with files of their own or one name, speech in and out of the game's goroutine | files hold what was told, cut at a line wherever the process stops, and torn only where a write failed; `games.json` recovers; playlists name their speeches, and their files are the playlists unless a write failed or the clean-up removed them; calls return |

Why the bounds are enough for what the runs ask:

* `game_days`: two days are needed for `NextDay` and for what differs on day 0,
  four agents for a death that does not end the game, two rounds for a re-vote.
  The phases hold every action, an unknown one, an action that runs twice and
  ones that are skipped, in orders the default files do not have. With one
  werewolf, ties of werewolves' ballots do not occur: for those the theorems
  below, which know no bound, stand in.
* `talk_session`: the texts are shorter than, equal to and longer than each
  limit, before and after a mention; four rounds let skips be used up, reset
  and used up again. The run counts characters, where every cut that is due is made or
  ends in a panic. `TalkTurns_nonspaces.cfg` is the same session counting without spaces, as
  every file in `config/` does, where no cut panics and some are not made: the same
  properties hold with `tlc -config TalkTurns_nonspaces.cfg MCTalkTurns` (408,835 states),
  and the theorems cover every way of counting.
* `chat_session`: a channel of one message is the smallest in which a listener
  blocks; two agents are enough for a broadcast that reaches one of them only;
  three messages let one be taken while another is handed over.
* `history_default` has the order of sessions of the default configurations for 9
  and 13 agents, day 0 included.
* `link_requests`: a late answer needs one later request to do harm; four give it
  three. The theorems drop the bound.
* `manager_serve`: five clients make two games and a remainder, with queues longer
  than one; three of them have entered when it begins and none has been served, so
  that every order of what their handlers do next is still ahead. Two games at once
  are what it takes to deal from a shared list. With profiles, four clients wait
  and the fifth has been refused, which leaves out late arrivals only.
* `schedule_serve`, `schedule_append`: two matches and one more client than teams let
  a match be played twice at once; one stop reaches every state of memory and file,
  the empty one of a stop inside a save included.
  The rivals begin in a state that the run itself could reach, with a game of
  both teams running.
* `live_events`: two more packets than the channel holds, twice over: a channel
  fills, loses packets and fills again.

* `observers_files`: the observers touch each other only through the games and the
  file names, so they are enabled a few at a time. Five events are a start, a
  request, its response, a talk and an end in every legal order; one failed
  write, torn at any line, meets the next good one, and two games meet in every step of
  a list's write, for which a game of three events and one of two are enough.
  Three speeches let two finish in the wrong order around a third.

`CHECK_DEADLOCK FALSE` stands where the system really stops: a game or session is
over, the process has exited, every client has been served.

## 4. Fairness

* `Game`, `TalkTurns`: `WF(Next)`. One goroutine, and each request it waits for has
  a timeout (`AgentLink` checks this: `Returns`).
* `Freeform`: each goroutine runs (`Main`, `Consume`, every listener). The deadline
  is *not* assumed to come: `EndsEarly` does without it, `EndsOnCancel` starts
  from it. Clients need not send.
* `AgentLink`: the two `time.After` fire. Nothing is assumed of the client.
* `GameManager`: handlers past the handshake run, games end (`Game!GameEnds`), the
  goroutine of the signal runs. Clients need not come or give their names, and no
  signal need arrive.
  The service that generates profiles need not answer: its client has no timeout.
* `ScheduledGames`: the process is started again, its goroutines run, games end.
  A lock is granted to a handler that goes on asking only because the others
  return; weak fairness was enough.
* `Observers`: the goroutines of games and speeches run; the requests to the synthesis
  server have a timeout, and ffmpeg is assumed to end, for which the code has none.
  Games need not go on, and the clean-up need not come.
* `LiveState`: the game goes on (`WF(Game)`). That handlers run is a premise of
  `SeesEnd` alone (`HandlersRun`), so that `NeverBlocks` holds with readers that
  never read.

## 5. What is proved

The theorems hold for every value of the constants allowed by the `ASSUME`s of the
modules (types of the settings, and that a model value is no member of a set),
which TLC evaluates on every run.

**`GameProofs`.** Any number of agents, any roles, any phases, any limits, any
failures. Inductive invariant `SafeInv`: `StatusMap` has exactly the keys
`<<a, FALSE>>` (`Shape`); every ballot in hand names an agent that is alive under
that key (`BallotsAlive`); agents still to be asked are alive and healthy
(`VotersStillAlive`); the values kept as guard or victim are keys of the
map (`KeptValuesHealthy`); `GuardHolds` and `VictimsProper`; and there is no poll
outside of one. `OneEntryPerAgent` alone is not inductive: an execution writes the
status of a value taken from a ballot, so the ballot must be known to hold a
value of a healthy agent, and that follows from the target's having been alive when
the vote was cast. Theorems: `OneEntryHolds`, `GuardTheorem`, `VictimsTheorem`,
`VotersTheorem`, `StatusesTheorem` (both of these), `DeathTheorem` (an action property),
`TypeTheorem` (`SafeInv` with the types of the results and of the control),
`FrozenTheorem` and `WinTheorem`. `FrozenTheorem` is a property of behaviours: once an
agent in error is found ALIVE at the start of a phase, `Frozen` holds of it, which adds
that no ballot in hand names its entry, and every step keeps that, because a vote is cast
only for a value that is a key of the map. An agent that fails in the
middle of a vote is exempt until that vote is over, and rightly: its ballots may stand.
`WinTheorem` needs that
the roles leave the game undecided at its start, because a game without phases never
computes it before the first change of day; its invariant `WinInv` says that outside the actions
of a phase the stored winner is that of the map unless errors have reached the
limit, and the limit, once reached, stays reached.

**`TalkTurnsProofs`.** Any agents, any limits, any speeches, any order of a round. A
sum over the transcript is a fold, which cannot be reasoned about by induction over
its length here; `SumIs` states the running totals instead, and the lemmas say
what one more talk does to them. `TurnsInv`: the maps of the session are functions
with numbers under the keys they need (`KeysSound`); who may
still speak has been asked once in every round (`AskedEveryRound`); as long as
nothing but Over was said in a round, the last word of everybody asked in it was Over
(`QuietSoFar`); and the counters are what the transcript says. Theorems:
`CountersTheorem`, `SilenceTheorem`, `LimitsTheorem`, and
`DiscussesTheorem`, that every step is one of `Discussion` or a stutter.
`LimitsTheorem` holds in all three ways of counting. Its parts say what each of them
can keep: `LengthBudget`, that what an agent got through stays within its
budget where `TrimLength` cuts at the limits it is given (`Cuts`: counting without spaces it
does not cut at zero); `AskedWithinBudget`, that in any case only an agent's last speech can go beyond
it; and `PerTalkCut`, that beside its mention a speech is no longer than `per_talk` unless
nothing was left for what follows the mention, and its common part never is when `per_talk` can
be cut to. That the
speech with its mention is no longer is false (section 6).

**`FreeformProofs`.** Any agents, any messages, any capacity of `talkChannel`, any limits.
`FreeInv` adds to the types: an agent is one key of the session's maps until its connection
breaks and another afterwards, under which nothing is left (`Accounts`); the
consumer runs only while the game's goroutine waits for it (`Phases`); an agent whose
speech is being built has one left under the key it was validated by, whatever
has become of its connection since (`SpeaksBy`); what it has said and what it has left
are no more than it was given (`SaidSound`); and only the last talk may be missing from
what an agent has been sent (`Reads`). `SpeaksBy` is what the two steps of a
submission need: a listener may raise `HasError` between `validateSubmission` and
`buildTalk`, and the speech is then charged to a key without an account. Theorems:
`OneTranscriptTheorem`, `ClosesTheorem` (an action property) and `DiscussesTheorem`,
the whole refinement of `Discussion`, whose promises here are all of safety.

**`TalkHistoryProofs`.** Any agents, phases, modes, numbers of talks and days.
`HistoryInv` adds to the types that the sent lists are empty before the morning's
reset (`Fresh`) and that, from the reset on, indexes lie within lists,
all that histories carried lies below its index, and all that was broadcast within its
list (`Within`). The first conjunct carries the
second through the change of day. Theorems: `IndexTheorem`, `HistoriesOnceTheorem`,
`TypeTheorem`, and `TalksTheorem`, that DAILY_FINISH completes the day's talk. The last
one needs `TalksLast`: on no day a whisper or an attack comes after the talk in the
day's phases, and there is no talk at night. The default configurations are so; in others
`minimize` moves the talk index with a request that carries no talk, which is the
mistake `history_whispers` shows for whispers.

**`ChannelsProofs`, of `AgentLink`.** Any number of requests. `LinkInv` describes, as long as the
client has sent nothing unasked, what is in the two channels in every state of
`SendPacket` (`FlowUp`, and `FlowGone` once the connection is gone), from which
`Answers` follows. Theorems: `AnswersMatchTheorem`, `QuietTheorem`. `CauseTheorem` (an
action property) holds with unasked messages too. Its invariant is `Debt`: over a
connection that holds nothing but answers and chatter comes, and while a probe is out,
either something has come or NAME is the last request the client owes an answer to.

**`ChannelsProofs`, of `LiveState`.** Any number of subscribers, sizes of channels and packets.
`ChannelsInv`: a subscriber has come and its channel is open, a packet is only sent to
subscribers, and a closed channel belongs to someone who has come, so that no new
subscription finds its channel closed. Theorem: `NoPanicTheorem`. `FeedInv` adds, for each
subscriber, that what it read and what its channel holds grow (`WellFed`), that
the newest packet sent to it is the last of those (`Newest`), and that between the three
selects of a send the channel was full (`Between`): the last one carries
`LossOnlyWhenFull` through the steps of a send. Theorem: `StreamsTheorem`.

**`GameManagerProofs`.** Any number of clients, teams, agents per game and profiles.
`PlaceInv` is `TypeOK`, `RostersProper` and three facts that carry each other:
queues hold connections of their team, past the room's door, each once and in no
roster (`Queued`); those in a roster have entered and are in no other, and a
handler that has not matched has none (`DealtOnce`); whoever has entered is in a
queue or a roster (`Nowhere` is empty). `InOnePlace`, which counts, is not
inductive: that a step takes a connection once follows from its standing once in
its own team's queue. The lemmas say what `Takes`, `Taken` and `Left` do to a
queue: `TakesFit`, `LeftQueue`, `TakenAre`, and for the size of a group
`FromOneTeam` and `FromManyTeams`, which count by bijections. Theorems: `RoomTheorem`,
`InOrderTheorem` (an action property: what is taken is a prefix of its queue),
`RegistryTheorem` (from `RegistryInv`: no game's goroutine runs before its handler
has returned), `CastTheorem` and `StrandedTheorem`. The last two count.
The roles left to deal are seats, pairs of a role and a number (`Seats`), so that
dealing a role takes one pair away; that the names of a game differ is `NamesInv` (what a game
deals from is injective when the configured names are, generated names always
are, and the agents made so far have the first of them). The games that a
room is enough for are pairs of a team and a number too (`Groups`, `Front`): an arrival
adds at most one game and one handler that is going to look, and a handler that finds no
group proves that there is none.

**`ScheduledGamesProofs`.** Any number of clients, teams, matches and stops. `FileInv`:
while a process runs, a whole file agrees with its memory in numbers and results, and a
file that is empty is being saved, by a handler with the lock or by a start
(`SaveUnderWay`); without a process there is no memory. Because a save empties the file
under the schedule's lock before memory is used again, no state has an old file beside a
newer memory. `RestartsTheorem` needs both: a stop outside of a save leaves a whole file that
knows all that memory knew, and the next process loads just that. A stop inside a save
loses everything, and the theorem excepts that step and no other.
`SoundInv` adds that the draw explains memory and file (`Grounded`: the list scheduled and the
list over have together every match as often as it was drawn, counted as the sets
of places where it occurs, so that taking a match out of one list and putting it
into the other is a step of one place) and that the games over are no more than
those won. `ScheduleTheorem` follows. `NeedInv` is about the waiting. `WaitInv` says that
a team that waits and has no number yet has a handler that will register it. `LookInv`
gives every handler that is still going to look at most one slot, a connection
that it is going to account for: a match is blocked when one of its teams has no more
connections waiting than it has slots, and every scheduled match is blocked. When no
handler is left there are no slots, and each match lacks a team. The argument
needs that a handler's list of matches holds all that are scheduled (`Fresh`),
which fails when a team gets its number after the list was taken, since matches are
listed by the names of their teams; the history
variable `outdated` remembers that, and section 6 shows what happens then.
`ForgottenTheorem` follows. `ScheduleAssumption` has `Roles # {}`: a match without
roles would be playable by nobody, and no game of the code has none.

**`ObserversProofs`.** Any games, any observers enabled, any names of files, any number
of events and of failing writes. Every observer says something about the event its
game is telling, and `Phase` says where that observer is in its call; `IInv` has one part
for each of them, and all refer to that phase:

* `Calls`: an observer is only called for events it hears, and the observers are called
  one by one (`TurnIsOne`), so a step moves one phase of one game (`Moves`).
* `Stories`: a game begins with its start, and there is room for the answer to a request.
* `Books`, of the two loggers: what is kept in memory is exactly what was heard up to the
  step the call is in (`DataRight`); a file that no other game writes holds what was heard
  up to some event, is empty between the creation and the write, and is up to date
  outside of a call unless a write failed, after which it may end in a torn line
  (`FileRight`: `Cut` or, after a failure, `Ripped`); and a request whose
  response is the next event is the one that waits in `requestMap` (`Asked`).
* `Packs`, of the realtime broadcaster: the same for the packets gathered and sent. Its
  file is appended to, so after a failed write it may have gaps and torn lines anywhere
  (`Appended`: the rest is `Sparse`, lines of the game in their order), which the
  last write, of all packets, makes up for.
* `ListSound`: as long as no two writes of the list have met and none has failed since,
  a game that is in a write has a snapshot with every game that is on, and
  otherwise the list is whole and has them.
* `Streams`: segment numbers of speeches that are on their way are below the counter and
  differ from each other and from those in the playlist; the mutex belongs to the
  one speech that is in its write; without `async` all speeches but the newest are over.
  A segment that is in a playlist, or on its way into it, is in its place unless the
  clean-up took it (`Keeps`), a stream without a directory has lost its playlist to the clean-up,
  and outside of the mutex the file is the playlist unless it was lost so or its last
  write failed (`FilesRight`).

`RecordsFaithful` by itself is not inductive: whether a file is complete when its observer
returns depends on the memory it was written from, and the memory of the JSON logger
on the request that was kept one event earlier. The lemmas about records (`ListsAppend`,
`FirstNext`, `FirstAll`) say that the lines of the first *n* events and the line of the next make
the lines of the first *n + 1*. For each observer there is one lemma that its steps keep
its own part (`JSONSteps`, `LogSteps`, `RealtimeSteps`, `TTSteps`, `SpeechSteps`), and
one that a step of any other does (`BooksKept`, `PacksKept`, `ListApart`, `StreamsKept`).
Theorems: `RecordsTheorem`, `ListTheorem`, `PlaylistTheorem`. The last two parts of the
invariant hold whatever the file names are; that of the records is about games with names of
their own, as section 6 says why (`RecordsApart`).

What the provers cannot do stays with TLC: liveness (`GameEnds`, `Returns`, `EndsEarly`,
`EndsOnCancel`, `Exits`, `HandlersReturn`, `NeverBlocks`, `SeesEnd`, `ObserversReturn`, and that a
turn-based session ends, which `Discusses` of `TalkTurns` includes). Every invariant and every
action property that a passing run checks is a theorem. `TypeTheorem` of `Game` and of
`TalkHistory` prove type correctness, which no run repeats for those modules; each `TypeOK`
is at hand for a run of one's own. Every inductive invariant was checked by TLC on
the instances of section 3 before it was proved.

## 6. Where code and documents disagree

Three runs end in a violation:

* **`talk_cut`, `NeverPanics`.** The cost of the part before a mention is that of the
  text as it arrived (`logic/communication_session.go:173`), so the remaining length can
  fall below zero by more than `mention_length`; `TrimLength` then slices with
  a negative bound (`util/game_util.go:198`, `:206`). `logic.md:209` says "Limit
  `mention_after` to `max_length.mention_length` + `remain_length` characters."
* **`history_whispers`, `WhispersComplete`.** `minimize` moves the whisper index with
  requests that carry no whispers (`logic/common.go:140`). `protocol.md:90` says of
  DAILY_FINISH that "The conversation history up until that point is sent."
* **`schedule_append`, `AddsMore`.** `GetMatches` calls `append` under the mutex that
  `append` locks (`matchmaking/match_optimizer.go:142`). `config.md:121`: "Whether to
  add more games after all combinations of matching have been completed."

### Promises the code does not keep

The following definitions state sentences of the documents or of comments that the code does
not keep. No run lists them. Added to the run named (with the
constants given), each is found violated.

| definition | sentence | what the code does | add to |
|---|---|---|---|
| `Game!SurvivorsDecide` | "The number of surviving agents of the Werewolf species is equal to or greater than ..." (`logic.md:72`) | agents in error keep their ALIVE entries and count | `game_days`, `MaxDay` 2 |
| `Game!ErrorsExceedRatio` | "exceeds the maximum allowable error ratio" (`logic.md:74`, `config.md:41`) | ends when the ratio is reached (`>=`) | `game_days` |
| `Game!TieIsRevoted` | "repeated up to `setting.vote.max_count` times" (`logic.md:115`), "maximum number of re-votes" (`config.md:78`) | `max_count` counts all votes, the first included | `game_days` |
| `TalkTurns!OverIsFinal` | "If the speech is over, set the remaining count to 0." (`logic.md:190`) | an Over made of an empty text takes one speech, and its agent is asked again | `talk_session` |
| `TalkTurns!PerDayBoundsTalks` | "The maximum total number of speeches for all agents per day." (`config.md:59`, `protocol.md:230`) | `per_day` bounds the rounds | `talk_session` |
| `TalkTurns!PerTalkBoundsTalks` | "Limit the speech to `max_length.per_talk` characters." (`logic.md:220`) | the speech is "`mention_before`, mention, and `mention_after`" (`logic.md:211`), and so it is sent (`logic/communication_session.go:223`), but only the two parts are counted and cut (lines 206-221); counting without spaces, a limit of zero cuts nothing either | `talk_session` |
| `TalkHistory!NothingTwice` | "The server only sends the differential from the previous agent's request, not the entire history." (`protocol.md:84`) | in a group chat every talk is broadcast when it is said (`logic/communication_freeform.go:102-128`), which moves no index, and DAILY_FINISH sends the day's whole list again (`logic/common.go:111`, `:136-142`) | `history_default` |
| `Freeform!ChannelsClean` | "after the phase ends, discard the unprocessed messages left in the channel" (comment, `logic/communication_freeform.go:76`) | what arrives between the drain and the announcement stays, and is an answer to the next request | `chat_session` |
| `GameManager!DrainsFirst` | "exits after all games in progress have finished" (`architecture.md:54`) | a handler that passed the flag before the signal can start a game after the registry was found empty | `manager_serve` |
| `ScheduledGames!Resumes` | "the schedule resumes even after the process is restarted" (`architecture.md:61`) | a stop within a save leaves an empty file (`store/file_store.go:25` empties it first): every number, match and result is lost, and no start succeeds until somebody removes the file | `schedule_serve` |
| `ScheduledGames!StartsWhenReady` | "adds the connection to the waiting room and, when a match comes about, creates and starts a game" (comment, `orchestrator/game_manager.go:54`) | the handlers of two teams overlap; the second gets its number after the first took its list, and plays the match the first came for; the first does not know the second's match from its list and returns: two teams wait for a match they could play, until someone arrives | its own, `ScheduledGames_late.cfg`, with `tlc -config ScheduledGames_late.cfg MCScheduledGames` |
| `ScheduledGames!PlaysGameCount` | "The total number of games." (`config.md:119`) | a match stays scheduled while it is played and may be played twice at once | `schedule_serve`, `GameCount` 1 |
| `GameCreation!GroupsCast` | "failed to generate the profiles, so the custom profiles are used" (log line, `logic/game.go:35`) | with dynamic profiles only the avatars are counted (`model/setting.go:57`); with too few custom profiles the handler panics and its group has no game | `manager_serve` |
| `Observers!RecordsApart` | "The same content is also recorded to a JSONL file by `realtime_broadcaster`" (`api.md:119`) | under the default name `{timestamp}_{teams}` two games of the same teams that start in one second write one file, and each empties it | `observers_files` |

Met while modelling, and left to the reader: `delay` of the realtime broadcaster
(`config.md:175`) is never read; asynchronous speeches may be played out of order and
those on their way are lost at the end of the process; a late clean-up takes the directory
of a running stream, whose playlist then names segments that are gone, and if no speech is
between its conversion and the playlist the stream stays silent to its end; a write that is
cut short leaves a torn line or half a JSON document until the next write of the whole file, and
among the packets of the realtime broadcaster until the game ends; `games.json` may stay torn or stale
until the next write that meets no other and does not fail (`ListRecovers` says no more: writes that meet
are excepted, and that they do is not repaired by anything but the next one); observers
that write files ignore errors beyond logging them.

## 7. What is not modelled

* Content of profiles, packets and views, information shown to agents: data.
  Which agent sees which information is part of `TalkHistory` only for talks and whispers.
* Authentication and routes: stateless checks. `GameManager` lets the handshake fail.
* Configuration: its values are the constants of the modules.
* Analyzer and reduction (`matchmaking/analyzer.go`): offline tools over log files, with no
  part in the server. `Reduction` removes from the slice it ranges over
  (lines 186-195), so a schedule with the same match twice may panic or keep one too many.
  The test client is external.
* Within modelled components: the bound of 100 on `msgChan` and packets that fail
  to be marshalled (`AgentLink`); writes of the schedule's file that fail
  in a process that goes on (only a stop interrupts them), clients
  without a name apart from digits, how evenly roles are spread, and the making of the
  agents of a scheduled match, whose roles are given (`ScheduledGames`); what a profile
  says besides its name (`GameCreation`); speeches that are split into several
  segments, playlists so long that no segment can be appended, and the fields `isStreaming` and
  `lastSegmentTime`, which nothing reads (`TTSBroadcaster`); several status lines of a
  day as one (`GameLogger`);
  `Snapshot` and the routes that only read (`LiveState`); each subscriber of
  `LiveState` subscribes once, and one game is modelled, since games share only
  the lock.

## 8. Plan

Order so far: what decides a game first (`Game`, then what one request does:
`AgentLink`, and what a session does: `CommunicationSession`, `TalkTurns`, `Freeform`,
`TalkHistory`), then how games come to be (`WaitingRoom`, `GameCreation`,
`GameManager`, `MatchOptimizer`, `ScheduledGames`), then who watches (`LiveState`,
`Observers`). All of these exist.

Worth adding, models:

1. `Game` with sessions opened: a composition of `Game` and `Discussion` in place of
   the single step, if the state space allows.
2. Speeches that are split into several segments in `TTSBroadcaster`, and a segment that
   cannot be appended, which is logged and skipped.
3. Failing writes of the schedule's file.

Worth adding, proofs:

1. That `TalkTurns` ends is a step of `Discussion` that must come: its safety half is proved,
   its fairness half is TLC's.
2. For `ScheduledGames`, that the schedule is played to its end when clients keep coming: the
   safety it rests on (`ScheduleTheorem`, `ForgottenTheorem`) is proved.
