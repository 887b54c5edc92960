# custom-agent: a verification development

TLA+ specifications of the stateful parts of this repository, checked with TLC
on small instances and, where the argument is worth having for every value of
the constants, proved with TLAPS. The reference is the TypeScript source; where
a document and the code disagree the model follows the code (see *Where the
code and its documents disagree*).

    tlc -config EventLog_log.cfg MCEventLog      # any run of PROJECT.json
    tlapm EventLogProofs.tla                     # any *Proofs module

PROJECT.json lists components, runs, the source lines behind every definition,
the hazards of the code and, for every property, a mutant of the code that
breaks it.

## 1. The system

A browser tab (or any HTTP client) talks to the **daemon** by JSON-RPC over
HTTP and server-sent events. The daemon spawns one **acp-server** process per
session and speaks ACP with it over stdio. The process owns a **session
engine**, which drives a model provider turn by turn, calls tools on its
behalf, and writes every event to an append-only **JSONL log** before anyone
sees it. A SQLite **index** can be rebuilt from the logs at any time.

    web client --HTTP/SSE--> server.ts -> session-manager.ts -> child.ts ==stdio==> agent.ts
                                  |            cursor.ts                               |
                                  +--- subscribe ---+                    session-engine.ts -> provider
                                                                          |            \-> router.ts -> tools
                                                              event-log.ts (JSONL) --> session-index.ts

| Component | State it keeps | Operations | What is hard about it |
|---|---|---|---|
| Event log (`packages/storage/src/event-log.ts`) | file, cached tail, promise chain | appendMany, replay | torn writes, stale tail, one failure on a shared chain, readers overtaken by the writer |
| Session engine (`packages/core/src/session-engine.ts`) | session map, next sequence, turn slot | createSession, runTurn (a generator), cancelTurn, commitEvent | sequence read before and advanced after an await; every way out of a generator; cancel between any two steps |
| Tool router, permissions, tools (`packages/tools`, `packages/permissions`) | one dispatch, delta chain, a process | dispatch, requestPermission, execute | output after the call was given up, unhandled rejections, approval racing an abort |
| ACP agent (`apps/acp-server/src/agent.ts`) | session id, one iteration per prompt | newSession, prompt, cancel, loadSession | the wire failing mid-turn, live stream against replay |
| Session manager (`apps/acp-daemon/src/session-manager.ts`) | registry, grace timers | createSession, loadSession, exit listener, terminate(All), subscribe | timers and cleanups keyed by id that outlive their process |
| Child handle (`child.ts`) | pending requests, exited | request, notify, terminate, onStdout | exit event late, frames after exit, writes to a dead process |
| Event cursor (`cursor.ts`) | ring, sequence | push, replay, canResumeFrom, close | eviction boundary, replay-to-live handover |
| HTTP server (`server.ts`, `main.ts`) | connections, shutdown | POST /rpc, GET /events, close | shutdown while sessions are being created |
| Session index (`session-index.ts`) | two tables, one connection | apply, applyMany, rebuild, reset | an await inside a transaction others share |
| Model gateway (`packages/model-gateway/src/providers/anthropic.ts`) | tool blocks of one response | stream, toAnthropicMessages | a response cut, broken or aborted anywhere; calls and results over rounds of tools |
| Web client (`apps/web-client/src`) | session, stream, transcript of a tab | start, load, end, prompt, attachStream, applySessionUpdate | answers and frames that arrive after the user has moved on; overlapping calls |
| CLI, schema, fixtures | see PROJECT.json | | without state |

What makes each part correct, in a sentence:

- *log*: in order whatever fails; what was acknowledged stays; a replay returns it.
- *engine*: no gap, durable then visible, whole turns, a slot that is always free again.
- *tools*: no effect without its audit trail, one end per call, every call returns.
- *agent*: the answer is what the log says; a load repeats the wire; every prompt is answered.
- *manager*: requests go to live processes, one process per session, no orphans, streams end.
- *child*: every request is settled once, behind the notifications before it.
- *cursor*: nothing twice, nothing lost but what was evicted.
- *index*: the count is that of the turns; no transaction is left open; a committed rebuild is the projection of the logs.
- *gateway*: a provider as the engine takes one; every request answers the calls it repeats.
- *web client*: the tab shows its session, all of it and nothing else, put together as it was said.

## 2. Modules

| Module | Models | Rests on |
|---|---|---|
| `EventStore` | the promise of the EventStore port (abstract) | |
| `EventLog` | one log file and its JsonlEventLog | implements `EventStore` |
| `EventLogProofs` | theorems about it | |
| `SessionEngine` | one session, with any provider, consumer and tool handler | takes from the log what `EventStore` promises |
| `SessionEngineProofs` | theorems about it | |
| `ToolTurn` | the engine with the real tool handler | extends `SessionEngine` |
| `ToolTurnProofs` | theorems about it | |
| `AcpAgent` | the agent as the consumer of the engine, and a load in another process | extends `SessionEngine` |
| `ModelTurn` | the engine with the Anthropic adapter and the messages of its rounds | extends `SessionEngine`, implements its port |
| `EnginePortsProofs` | theorems about the agent and the adapter, the two ends of the engine | `SessionEngineProofs` |
| `SessionManager` | registry, timers and shutdown of the daemon | |
| `RpcChannel` | what a ChildHandle promises (abstract) | |
| `ChildHandle` | one process with its pipes and requests | implements `RpcChannel` |
| `DaemonProofs` | theorems about the registry and the handle | |
| `SessionCursor` | ring, subscribe, handleEvents | |
| `SessionCursorProofs` | theorems about it | |
| `SessionIndex` | tables, transactions, rebuilds | |
| `SessionIndexProofs` | theorems about it | |
| `Transcript` | the reducer of the web client, and what a transcript should be | |
| `WebClient` | one tab with its calls and streams, and the daemon it talks to | `Transcript` |
| `WebClientProofs` | theorems about it and about the reducer | |
| `MC*` | instances for TLC | |

Throughout, one action is one JavaScript job together with the microtasks it
runs to completion: between two awaits on something external nothing else can
happen, and what the code awaits is an interleaving point. Where an await only
yields to microtasks that no other actor can enter, the steps are one action.

**EventLog.** A file is a sequence of lines, a line a sequence of fragments of
events: `LandBytes` and `LandNewline` let a payload reach the file at any pace,
so `WriteFails` and `Crash` may cut it anywhere - before the first byte,
within the JSON, or between the JSON and its newline. `AppendMany` is the
synchronous check and the enqueueing, `StartBatch` the promise chain,
`LoadTail` the strict replay of a writer that has no cached tail. The reader is
`OpenReader`, `ReadLine`, `ReadEnd`. `Repair` is the operator the header of the
file speaks of. `acked`, `refused` and `unsure` record what callers were told.

**SessionEngine.** `turn.at` says where the generator stands: at an append
(`commit`), at a yield, in the provider's stream, or in a tool handler.
`Submit` is the part of commitEvent before its await, `StoreKeeps`,
`StoreRefuses` and `StoreFails` the answers, `Answered` the way the awaiting
code goes on. A failed append may have left nothing, a torn line that blocks
the log, or the whole event: that is what `EventLog` allows. `Resume` and
`Abandon` are the consumer's `next()` and `return()`. With `orderly` the tool
handler commits only while it is awaited; without, at any time.

**ToolTurn.** `call` is the dispatch the generator awaits, phase by phase;
`proc` the process behind it, which may outlive the call; `chain` the promise
chain of its deltas; `collected` the array the handler's calls share. Deltas
that fail with nobody awaiting the chain set `crashed` (an unhandled rejection
ends the process). The engine's steps are those of `SessionEngine`.

**ModelTurn.** `stream` is the generator of AnthropicProvider: `OpenStream` and
`OpenFails` the answer of messages.create, the `Raw...` actions the events of
the response with the chunk the adapter makes of each, `StreamDone` its return.
Each of them that yields a chunk conjoins the step of the engine that takes it;
`Elsewhere` says of the others what they do to the generator and the messages.
That the result is a provider as the engine takes one is a theorem.
What `PortRespected` adds to it is the liveness: that the fairness assumed of
the API yields the one SessionEngine assumes of a provider, through aborts,
broken arguments and responses that end within a block. `requested`
and `messages` are the local variables of the tool loop; an assistant's message
remembers the calls it made, which the code drops, so that what is sent can be
compared with them. Calls are told apart by the number of their block. The
request keeps, as the index of each message, the position it was made from.

**AcpAgent.** `prompt[p]` is a session/prompt call: `Forward` the loop body,
`Advance` the request for the next event, `Outcome` its answer. `Load`,
`LoadEvent`, `LoadEnds` and `LoadFails` are loadSession in a second process on
the same log. `metered` decides whether turn.completed carries usage and is
surfaced. `Carries` compares what was sent with what ought to be: the same
events, in the order of the log.

**SessionManager.** `child` are processes in spawn order, each with the call
that spawned it; `state` their SessionState once registered; `entry` the
registry; `grace` the timers. `ChildExits` does all that happens in that job:
the pending request is rejected, the exit listener runs, then the cleanup of
the call. `stray` is history: the ids whose entry was taken by a timer or
cleanup of another process.

**ChildHandle.** `os` is the process, `exited` what the daemon knows of it;
`stdout` the frames under way, which may arrive after the exit event.
`WriteFails` is the asynchronous error of a write.

**SessionCursor.** `ring`, `seq`, `closed` are the cursor, `sub` each client's
connection, `seen` what it holds. handleEvents never awaits between two events,
so a client that is not in `Paced` takes an event in the job that pushes it;
`Paced` clients are consumers of `subscribe` that do pause.

**Transcript.** The operators have the names of transcript.ts. Text is a sequence
of chunks, so that order and origin stay visible. `Faithful` says what the
transcript of a list of updates is without going through the list: which
updates begin a turn, which are part of it, and which chunk of them stands
where in its text (`IsTextOf`).

**WebClient.** `tab` is the UiState, `calls` the POSTs whose answer it awaits,
`streams` every subscription attachStream has opened; `crossed` marks starts
and loads that were in flight together. `daemon` is as much of server.ts,
SessionManager and SessionCursor as a tab can tell: a process per session, what
it pushed, a ring that is only ever asked for all it holds, since the tab never
sends a Last-Event-ID. A session says what `script` says; a prompt surfaces it
without its tools, a load with them, as `AcpAgent` has it. `TakeFrame` is one
pass of the loop of subscribe with handleStreamEvent; calls may be lost
(`CallFails`) and streams break (`StreamBreaks`) at any moment.

**SessionIndex.** A row holds the sequences of the events its columns come
from. `db` is what the connection sees, `saved` what ROLLBACK restores; the
steps of a rebuild are separated by the awaits of the log reader.

## 3. Runs

States are distinct states; times are those of a small machine with two workers.

| Run | Shows | Bounds | Size |
|---|---|---|---|
| `EventLog_log` | order, durability, replay, implementation of `EventStore`, every append settles | 3 events, sequences 1..3, batches of at most 2 | 27k, 6 s |
| `SessionEngine_turns` | no gap, durable then visible, whole turns, cancel, slot released | 2 turns, 2 chunks, 1 failed append, 2 tool events | 389k, 60 s |
| `ToolTurn_calls` | audit before effect, one end per call, output kept apart, every call returns | 1 turn, 2 calls, 1 delta each, 1 failed append | 112k, 22 s |
| `AcpAgent_prompts` | answers, replay against wire, every prompt answered | 2 prompts, 1 chunk, 1 failed append, 1 tool event, 1 load | 497k, 96 s |
| `SessionManager_registry` | routing, streams, one process per id, collection, no orphans | 2 ids, 3 processes | 48k, 11 s |
| `SessionCursor_stream` | nothing twice, nothing lost, cursor_lost, streams end | ring of 3, 6 events, one client of each kind | 19k, 2 s |
| `ChildHandle_calls` | settled once, order, corruption, termination, implementation of `RpcChannel` | 3 requests, 2 notifications, 1 corrupt line | 44k, 10 s |
| `WebClient_tab` | the tab shows its session, all of it, put together right | 2 sessions, 2 clicks, 2 calls in flight, 1 prompt, ring of 4, 5 events | 299k, 95 s |
| `ModelTurn_rounds` | calls and results in each request, implementation of the provider port | 1 turn, 7 events of responses, 6 chunks, 1 failed append, 1 tool event | 132k, 15 s |
| `SessionIndex_rebuild` | the count, transactions end, rebuild is projection | 1 session, 4 events, 2 rebuilds, 2 applies, 1 reset or crash | 575k, 21 s |

Why these bounds are enough for what they ask:

- The log needs two events to disagree about order and a third to follow a
  failure; batches of two to be cut between events.
- The engine needs two turns for a handler of the first to commit during the
  second, and two chunks for a delta and a tool call, or two calls, in a turn.
  `AcpAgent_prompts` has one chunk over both turns; with two (1.8 million
  states, five and a half minutes) it holds as well.
- Two tool calls suffice for output of one to reach the other. With two deltas
  per call `ToolTurn_calls` takes four minutes and holds as well. MaxToolEvents
  = 14 is above what two calls can commit, so it never cuts a dispatch short.
- Three processes let an id be taken, lost and taken again; a second id tells
  what is per id from what is global.
- The ring is outgrown twice over, so that eviction happens before, during and
  after a disconnection.
- Two clicks suffice for a stream to outlive its session and for two calls to
  cross; the saved session has a log of 4 or 5 events, so that the ring of 4
  just holds the history a load replays, or just does not. One script mixes
  the speakers and usage, the other two calls with output behind a chunk.
- Seven events of responses allow two rounds of tools, one of them with two
  calls, so that results follow one another and a second assistant's message.
- Rows of two sessions share only the transaction, so one session suffices for
  the index; two rebuilds are needed for BEGIN inside a transaction.

`CHECK_DEADLOCK FALSE` is set everywhere: every one of these systems may come to
rest (nobody calls, the bound is reached, the process is gone).

**Fairness.** Safety properties assume none. The liveness properties assume
only what the runtime gives: the event loop runs chained promises and fires due
timers, the file system answers, a consumer written as `for await` asks for the
next event, a provider's stream ends or throws (both providers time out or end
with their HTTP response), a killed process dies, a git command ends. Nothing
is assumed of users, of the model's choices, of shell commands - which may run
for ever - or of the child process: it need not answer, nor heed the end of its
stdin. `WebClient` assumes that the daemon answers a subscription and that what
it wrote reaches the tab unless the connection breaks; `ModelTurn` that the API
accepts or rejects a request and that its response ends or breaks. The
assumption that a stream ends after finitely many chunks is the
bound MaxChunks: nothing in the code limits the tool loop.

Liveness properties except `crashed` (the process is gone), the stale timers of
the first finding (`stray`) and, in the manager, the shutdown (`phase # "up"`).

## 4. Where the code and its documents disagree

Two are runs that TLC must find violated.

- `SessionManager_mapping`: SPEC.md 6.1 keeps the mapping until the child exits.
  A grace timer set by an earlier process of the id, whose load failed, removes
  the entry of a later one that is alive.
- `ChildHandle_stdin`: SPEC.md 10 says that other sessions are unaffected by
  the exit of a child. A write before the exit event is handled fails on a
  stdin without an error listener and ends the daemon.

Seen while modelling, without a run of their own:

- The header of event-log.ts (16-19) says that a partial line blocks appends.
  One that lacks only its newline does not: the strict reader takes it for a
  finished line, the next event is glued to it and the log cannot be read past
  that line. `AckedReadable` excepts exactly these lines (`Glued`).
- commitEvent (session-engine.ts:414-418) says that a failed append leaves the
  slot for the next attempt. If the event landed all the same, the store
  refuses that sequence for good and the session can record nothing any more.
- main.ts:31 of the web client says that streamAbort aborts the subscription on
  teardown. Of two starts or loads that overlap only the stream attached last
  is held there: the other one goes on feeding the transcript, past End session
  too. `ShownIsCurrent` excepts exactly these streams (`crossed`).
- SPEC.md 6.2, step 6, lets the client attach after a load and replay what was
  buffered. A history longer than the ring has lost its first event by then:
  the fresh connect gets cursor_lost, the status line says "Reload the
  session", and the reload is refused because the session is alive.
  cursor.ts:74 has a fresh connect always resumable, which it is not after the
  first eviction.
- anthropic.ts:255 repeats earlier calls with the input `{}`, not with the
  arguments the model gave.

And in short: router.ts:226 (a failing
delta sink is "itself a tool failure") does not hold once dispatch has stopped
waiting - the process ends; SPEC.md 5 and 10 promise 410 where
forwardNotification answers 202 and GET /events 200; SPEC.md 10 lets the daemon
force-kill its children, but those of sessions created during terminateAll are
in no list; a failed load leaves the session id set in the agent, and two
overlapping newSession calls both pass its guard; git may exit before it has
read the patch, and the write then fails on a stdin without an error listener;
a connection that breaks counts as aborted in daemon-client.ts:176, so the tab
neither reports it nor reconnects.

## 5. Proofs

Everything below holds for every value of the constants that satisfies the
named assumptions of its module: bounds are naturals (`EngineAssumption`,
`AgentAssumption`, `MaxRawAssumption`, `HandleAssumption`, `IndexAssumption`),
those of the log and the capacity of the ring are positive (`LogAssumption`,
`CursorAssumption`), no session id is 0 (`ManagerAssumption`, where 0 stands for
no process), each tool has a policy and the kinds of its events are those of the
router (`ToolAssumption`). `WebAssumption` has the scripts of the sessions consist of
updates and be no longer than MaxEvents, and that saved sessions are sessions.
No proof assumes fairness.

| Module | Theorems |
|---|---|
| `EventLogProofs` | `LogTypes`, `LogInOrder`, `AckedStaysReadable`, `ReplayIsComplete`, `LogImplementsStore` |
| `SessionEngineProofs` | `EngineTypes`, `LogHasNoGaps`, `ShownIsDurable`, `ReturnedIsWhole`, `CancelIsObeyed` |
| `ToolTurnProofs` | `ToolsImplementHandler`, `ToolLogHasNoGaps`, `ToolTypes`, `ProcessesAreAudited`, `CallsEndOnce`, `ResultsAreOfTheirCall`, `AppendsAreSerial` |
| `EnginePortsProofs` | of the agent `AgentImplementsEngine`, `AgentTypes`, `AnswersTellLog`, `LoadsRepeatWire`; of the adapter `AdapterImplementsProvider`, `AdapterTyped`, `RequestsAnswerCalls` |
| `DaemonProofs` | of the handle `HandleTypes`, `HandleImplementsChannel`, `AnswersComeInTurn`; of the registry `RegistryTypes`, `RoutesLive`, `OneProcess`, `StreamsEnd` |
| `SessionCursorProofs` | `CursorTypes`, `SeenOnce`, `LostIsEvicted` |
| `SessionIndexProofs` | `IndexTypes`, `TransactionsEnd`, `CountsMatchTurns`, `RebuildsProject` |
| `WebClientProofs` | `TabTypes`, `TabShowsItsSession`, `ReducerIsFaithful` |

The proofs build on each other as the code does. The log implements the store
the engine relies on; the tool handler, the agent and the Anthropic adapter
implement the handler, the consumer and the provider the engine allows, so that
the engine's theorems hold under all three (`ToolLogHasNoGaps` is one read off
that way). Hardly a property is inductive as it stands; what had to be added is, in short, why the code is right.

**EventLogProofs.** `LogInv` is about the order of the file. Only batches that
passed the check of appendMany are queued or worked on, and the tail is known
from the check of the sequence to the end of the write (`Shape`); between writes
a known tail is at least every line that decodes, and during a write the rest of
the batch follows all of it (`Ahead`). `LastIsGreatest` is the crux: a strict
replay that succeeds returns the greatest sequence on file, also with an
unterminated remainder, hence the tail may be dropped at every failure.
`AckInv` is about what was promised: a finished line holds only whole events, a
known tail means that the remainder does too - behind a torn one nothing is
written, since no strict replay gets past it to load the tail -, and every
acknowledged event is the end of a finished line. Finished lines never change,
so that stays so. `ReaderInv`: the lines a tolerant replay has read past decode
and were passed on. `LogImplementsStore` takes for the abstract log the events a
replay reaches: `LandNewline` is Keep, or a stutter when the line does not decode
or comes behind one that does not, `WriteResolves` is Acknowledge, and
everything else a stutter.

**SessionEngineProofs.** `SlotInv` is what the types rest on: the slot is free or
holds a turn that was begun, and the generator awaits at most one append, the
only one of its own in flight. `CounterInv` is the numbering: the log ends at
nextSequence - 1, or at nextSequence when a failed append had landed after all,
and no append in flight carries a sequence beyond the counter - so the one the
store keeps can only be the next. `WholeInv` follows a turn from its start: where
the generator stands determines what of the turn is on the log and what of that
was shown, and a turn that returned keeps what it had. It showed that an
uninterrupted part has to be said of neighbours that both exist (`i + 1 < j`).
`CancelledStepHolds` is a property of steps and goes through the actions.

**ToolTurnProofs.** `StepRefines` maps each step of the router to one of the
engine or a stutter, so `EngineInv` and `WholeInv` come for free. `CallInv`
says which processes and chains a call may have in which phase, `FlightInv` that
each append of the handler in flight is the event the dispatch awaits or the one
delta a chain is busy with; `ChainInv` and `CollectedInv` follow the deltas from the process
to the result. `AuditInv` has what is on file in each phase and `TerminalInv`
what may still come once a call has ended. The exceptions - calls given up while
their process ran - are those the properties name, and no others were needed.

**EnginePortsProofs, the agent.** `AgentIsConsumer` is the refinement. `ReportInv` ties what a
turn was shown to what it has on the log besides the events of its tools, and
says that a turn which returned is completed once, by the event shown last, with
a reason mapStopReason knows. `CallInv` then follows a prompt: while it iterates,
it has sent all that was shown but the event it is about to forward, and once it
has been answered its answer and what it sent are those of a closed turn.
`LoadInv` compares a load with the log up to its position (`Repeated`). What is
sent is compared as a set of events in strictly ascending sequence (`Carries`),
which determines the order and needs no recursion over the list.

**EnginePortsProofs, the adapter.** `AdapterIsProvider` maps each step of the
adapter to the one step of the engine's provider it conjoins, or to a stutter;
everything beside it is a step of the engine as it stands. `RoundInv` is what the
tool loop keeps: its messages are the user's and rounds of tools (`Rounds`) - a
message with calls, then their results in the order of the calls -, only the last
round can be incomplete, and what it lacks are the calls still pending
(`Handles`). A stream is begun only when nothing is pending, so each round is
complete in every request. The rest is about toAnthropicMessages: `SentInRounds`
gives the messages of the request by position, which are the user's and, for each
round, its first two; `SentAlternates` says that nothing stands between these.

**DaemonProofs, the registry.** `StreamInv` is the invariant the registry lives by:
except for the ids in `stray`, a process that runs for a session or whose stream
is open is the one in the registry, and no opened session ends unannounced.
`EntryInv` says that an entry is a process of that id, `CallInv` that a call only
awaits a process that has not exited, and `RunningInv` that the session of a
running process is alive. Each timer, exit and cleanup is shown to touch no entry of
another process but for those `stray` records.

**DaemonProofs, the handle.** `HandleInv`: ids not given out yet are new, and nothing
waits after the exit. `ChannelStep` maps Request to Ask, an answer that is waited
for to Answer, the exit to Down and everything else to a stutter, under
`up <- ~exited`. `PipeInv`: the frames on stdout follow each other without a gap
in the notifications, from those passed on to those sent, so the answer at the
head has nothing outstanding before it.

**SessionCursorProofs.** `RingInv`: the ring is the interval that ends at seq.
`ClientInv`: what a subscription still has to deliver ascends and follows what
the client holds. `PromptInv`: a client that does not pause holds the events from
the first on, and while it is connected all of them. A replay is the rest of
that interval (`ReplayIsRest`).

**SessionIndexProofs.** `LogInv` is what the index may rely on, a log as the
engine writes it. `SourceInv`: each column of a row comes from the one event of
the log that sets it, in the database and in what a rollback restores.
`CountInv`: the count is the number of rows, unless a kill tore an apply.
`ProjectionInv`: an open transaction sees the projection of what its rebuild has
read; where apply ran meanwhile, at least its turns.

**WebClientProofs.** Two arguments that meet in the last update shown. For
ShownIsCurrent `CallsInv` says that of two starts or loads in flight each is
marked as crossed, `StreamsInv` that no stream lives but that of the tab and
those so marked - so a reset leaves none unmarked behind -, and `QueueInv` that
the frames under way to the tab go on where the screen stops and end where the
ring does; a new frame is thus the next one, whatever was shut, lost or reset
before it. `DaemonInv` keeps the cursors of processes that are over without
subscribers. For TranscriptIsFaithful the induction over the list of updates
becomes one over the steps: `TranscriptInv` holds the transcript to the updates so
far, together with the positions at which its turns begin (`Starts`), and
`UpdateApplied` shows that applySessionUpdate keeps that for any next update. Its
lemmas say what appending one update does to each part of the definition of a
transcript - beginnings, parts, text, status, usage (`BeginsOn`, `PartsOn`,
`TextOn`, `StatusOn`, `UsageOn`) - and, per branch of the reducer, that it does
the same (`MessageApplied`, `ToolUpdateApplied`, `NoTurnApplied`). The crux is
`Spoken`: each message is of the kind of the turn begun last before it, hence one
that begins no turn finds its turn where the reducer looks for it.

Only model-checked:

- All liveness: EveryAppendSettles, SlotIsReleased, EveryCallReturns,
  PromptIsAnswered, TerminatedIsCollected, NoOrphans, StreamEnds,
  CorruptionEnds, TerminateReturns, EverythingIsShown and the fair refinement
  PortRespected. ENABLED and fairness are out of the prover's reach.
  The safety part of PortRespected is proved (`AdapterImplementsProvider`).

Every safety property the passing runs check is proved.

## 6. What is not modelled

- Text: the JSON of events, prompts, diffs, paths, ignore rules, the shell
  denylist. They are pure functions; path-safety, gitignore and risk-classifier
  have tests of their own.
- HTTP status codes, header checks and the bearer token: functions of one
  request.
- Two sessions in one engine: the agent makes one. Overlapping newSession calls
  would make two and are listed as a hazard.
- Of the web client the HTML, the status line, the inputs and the unload of the
  page; of the gateway token counts, tool schemas and preflightCheck, which is
  a choice of `SessionEngine`. RecordedProvider plays fixtures in tests.
- The CLI and the test fixtures.
- fsync and the loss of acknowledged bytes in a power failure: event-log.ts
  leaves it to a later milestone.

## 7. Plan

Done: `EventLog` with its abstract store; `SessionEngine`; `ToolTurn`;
`SessionManager`; `ChildHandle` with its abstract channel; `SessionCursor`;
`SessionIndex`; `AcpAgent`; `WebClient` with `Transcript`; `ModelTurn`; and the
proofs of section 5.

Next: the cursor across incarnations, `SessionManager` with `SessionCursor`, for
Last-Event-ID values that outlive their ring.

Abstract specifications still worth stating: the daemon as a set of sessions
that are created, alive and gone, implemented by `SessionManager`; and the
event stream as an ever longer sequence of which each client holds a prefix,
implemented by `SessionCursor`.
