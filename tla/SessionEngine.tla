---------------------------- MODULE SessionEngine ----------------------------
(***************************************************************************)
(* One session of the SessionEngine (packages/core/src/session-engine.ts): *)
(* createSession, runTurn as the generator it is, cancelTurn, and the way  *)
(* commitEvent numbers events and hands them to the event store.           *)
(*                                                                         *)
(* session       the session's entry in the map of sessions                *)
(* nextSequence  the sequence the next committed event takes               *)
(* inflight      the appends the store has not answered, in call order     *)
(* log           the events a replay returns                               *)
(* blocked       a torn line makes the store refuse every later append     *)
(* turn          the active turn and where its generator stands            *)
(* tools         the turns whose tool handler has been called              *)
(* orderly       do handlers commit only while their call is awaited?      *)
(*                                                                         *)
(* The provider, the consumer of the generator and the tool handler act    *)
(* nondeterministically; ToolTurn replaces the handler by the real one.    *)
(* The rest is history: what the consumer saw and how each turn ended.     *)
(***************************************************************************)
EXTENDS Naturals, Sequences

CONSTANTS
    MaxTurns,      \* bound: turns run
    MaxChunks,     \* bound: chunks the provider yields, over all turns
    MaxFaults,     \* bound: appends the store fails
    MaxToolEvents, \* bound: events committed by tool handlers
    MaxCalls,      \* bound: calls of tool handlers
    ToolKinds,     \* the kinds of event a tool handler commits
    HasTools       \* is makeToolHandler given?

ASSUME EngineAssumption ==
    /\ MaxTurns \in Nat
    /\ MaxChunks \in Nat
    /\ MaxFaults \in Nat
    /\ MaxToolEvents \in Nat
    /\ MaxCalls \in Nat
    /\ HasTools \in BOOLEAN

VARIABLES session, nextSequence, inflight, log, blocked, turn, tools, orderly,
          turns,     \* number of turns begun
          chunks,    \* number of chunks yielded by the provider
          faults,    \* number of appends the store failed
          toolEvents,\* number of events committed by tool handlers
          shown,     \* the events yielded to the consumer, per turn
          ended,     \* how the generator of each turn ended
          refusals   \* appends of this session that were rejected

store    == <<inflight, log, blocked, faults, refusals>>
handlers == <<tools, orderly>>
counters == <<turns, chunks, toolEvents>>
history  == <<shown, ended>>
vars == <<session, nextSequence, store, turn, handlers, counters, history>>

TurnIds == 1..MaxTurns

EventType == {"session.created", "turn.started", "user.message", "model.delta",
              "tool", "turn.completed"}
StopReason == {"none", "final", "cancelled", "error"}
ErrorCode  == {"none", "context_overflow", "provider_failure", "unknown"}

\* What an event of a tool says: of which call it is, and which kind.
Detail   == [call : 1..MaxCalls, kind : ToolKinds]
NoDetail == [call |-> 0, kind |-> "none"]

NoTurn == [id |-> 0, at |-> "none", step |-> "none", aborted |-> FALSE,
           fsm |-> "idle", pending |-> 0]

LastSequence == IF log = <<>> THEN 0 ELSE log[Len(log)].sequence

Seen(k, e) == shown' = [shown EXCEPT ![k] = Append(@, e)]
-----------------------------------------------------------------------------
(* commitEvent: the sequence is read when the call is made and advanced    *)
(* when the store answers.                                                 *)

\* by: who awaits the answer - createSession, the generator or a tool handler.
Commit(by, k, type, stop, code, detail) ==
    [by |-> by,
     event |-> [sequence |-> nextSequence, turn |-> k, type |-> type,
                stop |-> stop, code |-> code, detail |-> detail]]

Plain(by, k, type) == Commit(by, k, type, "none", "none", NoDetail)
Completed(stop, code) ==
    Commit("turn", turn.id, "turn.completed", stop, code, NoDetail)

Submit(c) ==
    /\ inflight' = Append(inflight, c)
    /\ UNCHANGED <<nextSequence, log, blocked, faults, refusals>>

\* The generator awaits the append of an event and will yield it.
Emit(step, c, t) ==
    /\ Submit(c)
    /\ turn' = [t EXCEPT !.at = "commit", !.step = step]

\* Mutant of EndTurn: the slot is released on a normal return only.
EndTurnOnReturn(how) ==
    /\ turn' = IF how = "returned" THEN NoTurn ELSE [turn EXCEPT !.at = "stuck"]
    /\ ended' = [ended EXCEPT ![turn.id] = how]

\* The generator runs its finally block: the turn slot is free again.
EndTurn(how) ==
    /\ turn' = NoTurn
    /\ ended' = [ended EXCEPT ![turn.id] = how]

StateOf(stop) ==
    CASE stop = "final" -> "completed"
      [] stop = "cancelled" -> "cancelled"
      [] stop = "error" -> "failed"

\* The loop is left: the turn FSM moves on and turn.completed is appended.
Finish(stop, code) ==
    Emit("completed", Completed(stop, code),
         [turn EXCEPT !.fsm = StateOf(stop)])
-----------------------------------------------------------------------------
Init ==
    /\ session = "absent"
    /\ nextSequence = 1
    /\ inflight = <<>>
    /\ log = <<>>
    /\ blocked = FALSE
    /\ turn = NoTurn
    /\ tools = {}
    /\ orderly \in BOOLEAN
    /\ turns = 0
    /\ chunks = 0
    /\ faults = 0
    /\ toolEvents = 0
    /\ shown = [k \in TurnIds |-> <<>>]
    /\ ended = [k \in TurnIds |-> "no"]
    /\ refusals = 0

CreateSession ==
    /\ session = "absent"
    /\ session' = "creating"
    /\ Submit(Plain("create", 0, "session.created"))
    /\ UNCHANGED <<turn, handlers, counters, history>>

\* runTurn takes the slot and appends turn.started before it first yields; the
\* caller's signal may be aborted already.
RunTurn ==
    /\ session = "ready"
    /\ turn.at = "none"
    /\ turns < MaxTurns
    /\ turns' = turns + 1
    /\ \E aborted \in BOOLEAN :
          Emit("started", Plain("turn", turns + 1, "turn.started"),
               [NoTurn EXCEPT !.id = turns + 1, !.fsm = "running", !.aborted = aborted])
    /\ UNCHANGED <<session, handlers, chunks, toolEvents, history>>

\* cancelTurn for a named turn, or for whichever turn is active (named = 0);
\* an abort of the caller's signal has the same effect.
CancelTurn(named) ==
    /\ turn.at # "none"
    /\ named \in {0, turn.id}
    /\ turn' = [turn EXCEPT !.aborted = TRUE]
    /\ UNCHANGED <<session, nextSequence, store, handlers, counters, history>>
-----------------------------------------------------------------------------
(* The store answers the oldest append (its queue is first in, first out). *)

\* Mutant of Answered: a failed append is not noticed by the generator.
AnsweredBlindly(c, ok) ==
    \/ /\ c.by = "create"
       /\ session' = "ready"
       /\ inflight' = Tail(inflight)
       /\ UNCHANGED <<turn, history>>
    \/ /\ c.by = "tool"
       /\ inflight' = Tail(inflight)
       /\ UNCHANGED <<session, turn, history>>
    \/ /\ c.by = "turn"
       /\ turn' = [turn EXCEPT !.at = "yield"]
       /\ Seen(turn.id, c.event)
       /\ inflight' = Tail(inflight)
       /\ UNCHANGED <<session, ended>>

\* The awaiting caller goes on.
Answered(c, ok) ==
    \/ /\ c.by = "create"
       /\ session' = IF ok THEN "ready" ELSE "failed"
       /\ inflight' = Tail(inflight)
       /\ UNCHANGED <<turn, history>>
    \/ /\ c.by = "tool"
       /\ inflight' = Tail(inflight)
       /\ UNCHANGED <<session, turn, history>>
    \/ /\ c.by = "turn"
       /\ ok
       /\ turn' = [turn EXCEPT !.at = "yield"]
       /\ Seen(turn.id, c.event)
       /\ inflight' = Tail(inflight)
       /\ UNCHANGED <<session, ended>>
    \* the EventStoreFailure leaves the generator
    \/ /\ c.by = "turn"
       /\ ~ok
       /\ turn.step # "delta"
       /\ EndTurn("threw")
       /\ inflight' = Tail(inflight)
       /\ UNCHANGED <<session, shown>>
    \* the catch around the stream still tries to complete the turn
    \/ /\ c.by = "turn"
       /\ ~ok
       /\ turn.step = "delta"
       /\ turn' = [turn EXCEPT !.at = "commit", !.step = "storeFailed",
                               !.fsm = StateOf("error")]
       /\ inflight' = Append(Tail(inflight), Completed("error", "none"))
       /\ UNCHANGED <<session, history>>

InOrder(c) == c.event.sequence > LastSequence

\* Mutant of StoreRefuses: the sequence advances although the append failed.
StoreRefusesAndSkips ==
    /\ inflight # <<>>
    /\ blocked \/ ~InOrder(Head(inflight))
    /\ nextSequence' = nextSequence + 1
    /\ refusals' = refusals + 1
    /\ Answered(Head(inflight), FALSE)
    /\ UNCHANGED <<log, blocked, faults, handlers, counters>>

\* appendOrFail resolves.
StoreKeeps ==
    /\ inflight # <<>>
    /\ ~blocked
    /\ InOrder(Head(inflight))
    /\ log' = Append(log, Head(inflight).event)
    /\ nextSequence' = Head(inflight).event.sequence + 1
    /\ Answered(Head(inflight), TRUE)
    /\ UNCHANGED <<blocked, faults, refusals, handlers, counters>>

\* appendOrFail rejects: the log is blocked or holds that sequence already.
StoreRefuses ==
    /\ inflight # <<>>
    /\ blocked \/ ~InOrder(Head(inflight))
    /\ refusals' = refusals + 1
    /\ Answered(Head(inflight), FALSE)
    /\ UNCHANGED <<nextSequence, log, blocked, faults, handlers, counters>>

\* appendOrFail rejects because the write failed: it left nothing, a torn line,
\* or the whole event.
StoreFails ==
    /\ inflight # <<>>
    /\ ~blocked
    /\ InOrder(Head(inflight))
    /\ faults < MaxFaults
    /\ faults' = faults + 1
    /\ \/ UNCHANGED <<log, blocked>>
       \/ blocked' = TRUE /\ UNCHANGED log
       \/ log' = Append(log, Head(inflight).event) /\ UNCHANGED blocked
    /\ Answered(Head(inflight), FALSE)
    /\ UNCHANGED <<nextSequence, refusals, handlers, counters>>
-----------------------------------------------------------------------------
(* The consumer of the generator.                                          *)

\* It asks for the next event.
Resume ==
    /\ turn.at = "yield"
    /\ \/ /\ turn.step = "started"
          /\ Emit("user", Plain("turn", turn.id, "user.message"), turn)
          /\ UNCHANGED history
       \* preflightCheck accepts, and the first stream is opened
       \/ /\ turn.step \in {"user", "delta"}
          /\ turn' = [turn EXCEPT !.at = "stream"]
          /\ UNCHANGED <<nextSequence, store, history>>
       \* preflightCheck refuses
       \/ /\ turn.step = "user"
          /\ Finish("error", "context_overflow")
          /\ UNCHANGED history
       \/ /\ turn.step = "completed"
          /\ EndTurn("returned")
          /\ UNCHANGED <<nextSequence, store, shown>>
       \/ /\ turn.step = "storeFailed"
          /\ EndTurn("threw")
          /\ UNCHANGED <<nextSequence, store, shown>>
    /\ UNCHANGED <<session, handlers, counters>>

\* It stops iterating: return() runs the finally block at the yield.
Abandon ==
    /\ turn.at = "yield"
    /\ EndTurn("abandoned")
    /\ UNCHANGED <<session, nextSequence, store, handlers, counters, shown>>
-----------------------------------------------------------------------------
(* The provider's stream.                                                  *)

\* The next chunk of the stream arrives before the turn is aborted, or after it.
Received ==
    /\ turn.at = "stream"
    /\ chunks < MaxChunks
    /\ chunks' = chunks + 1
    /\ UNCHANGED <<session, handlers, turns, toolEvents, history>>

ChunkAfterAbort == Received /\ turn.aborted /\ Finish("cancelled", "none")

\* Mutant of ChunkDelta: the signal is not checked before a chunk is used.
ChunkDeltaUnchecked ==
    Received /\ Emit("delta", Plain("turn", turn.id, "model.delta"), turn)

\* text_delta
ChunkDelta ==
    /\ Received /\ ~turn.aborted
    /\ Emit("delta", Plain("turn", turn.id, "model.delta"), turn)

\* tool_call_request
ChunkToolCall ==
    /\ Received /\ ~turn.aborted
    /\ turn' = [turn EXCEPT !.pending = @ + 1]
    /\ UNCHANGED <<nextSequence, store>>

\* failed
ChunkFailed == Received /\ ~turn.aborted /\ Finish("error", "provider_failure")

\* completed: only usage is kept
ChunkCompleted == Received /\ ~turn.aborted /\ UNCHANGED <<nextSequence, store, turn>>

Chunk ==
    ChunkAfterAbort \/ ChunkDelta \/ ChunkToolCall \/ ChunkFailed \/ ChunkCompleted

\* The stream throws: an error the provider has classified or any other.
StreamThrowsWith(code) ==
    /\ turn.at = "stream"
    /\ IF turn.aborted THEN Finish("cancelled", "none") ELSE Finish("error", code)
    /\ UNCHANGED <<session, handlers, counters, history>>

StreamThrows == \E code \in ErrorCode \ {"none"} : StreamThrowsWith(code)

StreamEnds ==
    /\ turn.at = "stream"
    /\ \/ turn.aborted /\ Finish("cancelled", "none") /\ UNCHANGED tools
       \/ /\ ~turn.aborted
          /\ turn.pending = 0 \/ ~HasTools
          /\ Finish("final", "none")
          /\ UNCHANGED tools
       \/ /\ ~turn.aborted
          /\ turn.pending > 0 /\ HasTools
          /\ turn' = [turn EXCEPT !.at = "handle"]
          /\ tools' = tools \cup {turn.id}
          /\ UNCHANGED <<nextSequence, store>>
    /\ UNCHANGED <<session, orderly, counters, history>>
-----------------------------------------------------------------------------
(* The tool handler.                                                       *)

FromTools(k) == {i \in DOMAIN inflight :
                    inflight[i].by = "tool" /\ inflight[i].event.turn = k}

\* Mutant of HandlerCommits: the executor is not awaited before handle returns.
HandlerCommitsLate(k, detail) ==
    /\ k \in tools
    /\ toolEvents < MaxToolEvents
    /\ toolEvents' = toolEvents + 1
    /\ Submit(Commit("tool", k, "tool", "none", "none", detail))
    /\ UNCHANGED <<session, turn, handlers, turns, chunks, history>>

\* It commits an event of its turn through the callback it was built with.
HandlerCommits(k, detail) ==
    /\ k \in tools
    /\ orderly => turn.id = k /\ turn.at = "handle"
    /\ toolEvents < MaxToolEvents
    /\ toolEvents' = toolEvents + 1
    /\ Submit(Commit("tool", k, "tool", "none", "none", detail))
    /\ UNCHANGED <<session, turn, handlers, turns, chunks, history>>

\* The result goes into the messages; the next pending call is handled, or
\* the provider is asked again.
HandlerReturns ==
    /\ turn.at = "handle"
    /\ orderly => FromTools(turn.id) = {}
    /\ LET left == [turn EXCEPT !.pending = @ - 1] IN
       \/ /\ left.pending = 0
          /\ turn' = [left EXCEPT !.at = "stream"]
          /\ UNCHANGED <<nextSequence, store>>
       \/ /\ left.pending > 0 /\ ~turn.aborted
          /\ turn' = left
          /\ UNCHANGED <<nextSequence, store>>
       \/ /\ left.pending > 0 /\ turn.aborted
          /\ Finish("cancelled", "none")
    /\ UNCHANGED <<session, handlers, counters, history>>

\* An EventStoreFailure of one of its commits leaves the generator as it is.
HandlerThrows ==
    /\ turn.at = "handle"
    /\ orderly => FromTools(turn.id) = {}
    /\ EndTurn("threw")
    /\ UNCHANGED <<session, nextSequence, store, handlers, counters, shown>>
-----------------------------------------------------------------------------
Store == StoreKeeps \/ StoreRefuses \/ StoreFails
Provider == Chunk \/ StreamThrows \/ StreamEnds

EngineNext ==
    \/ CreateSession
    \/ RunTurn
    \/ \E named \in 0..MaxTurns : CancelTurn(named)
    \/ Resume
    \/ Abandon
    \/ Provider

Next ==
    \/ EngineNext
    \/ Store
    \/ \E k \in TurnIds, detail \in Detail : HandlerCommits(k, detail)
    \/ HandlerReturns
    \/ HandlerThrows

Spec == Init /\ [][Next]_vars

\* The file system answers, the consumer iterates (for await), the provider's
\* stream ends or throws and a tool call returns or throws.
FairSpec ==
    /\ Spec
    /\ WF_vars(Store)
    /\ WF_vars(Resume)
    /\ WF_vars(StreamThrows \/ StreamEnds)
    /\ WF_vars(HandlerReturns \/ HandlerThrows)
-----------------------------------------------------------------------------
(* Properties.                                                             *)

Entry == [sequence : Nat \ {0}, turn : 0..MaxTurns, type : EventType,
          stop : StopReason, code : ErrorCode, detail : Detail \cup {NoDetail}]

\* The types of the engine, its store and its turn.
TypeOK ==
    /\ session \in {"absent", "creating", "ready", "failed"}
    /\ nextSequence \in Nat \ {0}
    /\ inflight \in Seq([by : {"create", "turn", "tool"}, event : Entry])
    /\ log \in Seq(Entry)
    /\ blocked \in BOOLEAN
    /\ turn \in [id : 0..MaxTurns,
                 at : {"none", "commit", "yield", "stream", "handle"},
                 step : {"none", "started", "user", "delta", "completed", "storeFailed"},
                 aborted : BOOLEAN,
                 fsm : {"idle", "running", "completed", "cancelled", "failed"},
                 pending : Nat]
    /\ tools \in SUBSET TurnIds
    /\ orderly \in BOOLEAN
    /\ turns \in 0..MaxTurns
    /\ chunks \in 0..MaxChunks
    /\ faults \in 0..MaxFaults
    /\ toolEvents \in 0..MaxToolEvents
    /\ shown \in [TurnIds -> Seq(Entry)]
    /\ ended \in [TurnIds -> {"no", "returned", "threw", "abandoned"}]
    /\ refusals \in Nat

\* The log numbers its events 1, 2, 3, ... whatever append fails and however
\* the handler's commits overlap the generator's (header of session-engine.ts).
NoGaps == \A i \in DOMAIN log : log[i].sequence = i

\* Durable-then-visible: what the consumer was shown of a turn is on file, in
\* the order it was shown.
DurableThenVisible ==
    \A k \in TurnIds : \A i \in DOMAIN shown[k] :
        /\ \E n \in DOMAIN log : log[n] = shown[k][i]
        /\ \A j \in 1..(i - 1) : shown[k][j].sequence < shown[k][i].sequence

\* A step of a cancelled turn commits no delta it reads from the stream, begins
\* no tool call and does not complete the turn as final.
CancelledStep ==
    turn.aborted /\ turn'.id = turn.id =>
        /\ ~(turn.at = "stream" /\ turn'.at = "commit" /\ turn'.step = "delta")
        /\ ~(turn'.at = "handle" /\ turn' # turn)
        /\ turn'.step = "completed" /\ turn.step # "completed"
              => inflight'[Len(inflight')].event.stop # "final"

\* Once a turn is cancelled no further delta of it is committed, no further
\* tool call of it is begun and it never completes as final, whatever the
\* provider and the handler still answer.
CancelStopsWork == [][CancelledStep]_vars

\* Of the log from i to j the consumer of turn k has been shown the events that
\* no tool made, and nothing else (in which order says DurableThenVisible).
ShownOf(k, i, j) ==
    {shown[k][m] : m \in DOMAIN shown[k]}
        = {log[n] : n \in {m \in i..j : log[m].type # "tool"}}

\* Turn k is one uninterrupted part of the log, from its turn.started to its
\* only turn.completed.
Whole(k) ==
    \E i, j \in DOMAIN log :
        /\ i + 1 < j
        /\ \A n \in DOMAIN log : log[n].turn = k <=> n \in i..j
        /\ log[i].type = "turn.started"
        /\ log[i + 1].type = "user.message"
        /\ \A n \in (i + 2)..(j - 1) : log[n].type \in {"model.delta", "tool"}
        /\ log[j].type = "turn.completed"
        /\ ShownOf(k, i, j)

\* As long as handlers commit only while they are awaited, a turn whose
\* generator returned is whole on the log and was shown without the events of
\* its tools, also after turns that threw or were abandoned.
ReturnedTurnIsWhole ==
    orderly => \A k \in TurnIds : ended[k] = "returned" => Whole(k)

\* However a turn ends - completed, cancelled, failed, thrown or abandoned -
\* the session takes another one afterwards: its slot is always released.
SlotIsReleased == \A k \in TurnIds : turn.id = k ~> turn.id # k
=============================================================================
