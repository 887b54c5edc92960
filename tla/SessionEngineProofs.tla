------------------------ MODULE SessionEngineProofs ------------------------
(***************************************************************************)
(* Proofs about SessionEngine, for every number of turns, chunks, failed   *)
(* appends and tool events, with and without a tool handler, orderly or    *)
(* not: its types, the numbering of the log, that what is shown is on      *)
(* file, and what a cancelled turn may no longer do.                       *)
(***************************************************************************)
EXTENDS SessionEngine, SequenceTheorems, TLAPS

Requested == [by : {"create", "turn", "tool"}, event : Entry]

(***************************************************************************)
(* What TypeOK needs to be inductive: the slot of the turn is either free  *)
(* or holds a turn that was begun, a handler runs for a pending call, and  *)
(* the generator awaits at most one append, which is the only one of its   *)
(* own in flight.                                                          *)
(***************************************************************************)
SlotInv ==
    /\ turn.at = "none" => turn = NoTurn
    /\ turn.at # "none" => turn.id \in TurnIds
    /\ turn.at = "handle" => turn.pending > 0
    /\ \A i \in DOMAIN inflight : inflight[i].by = "turn" => turn.at = "commit"
    /\ \A i, j \in DOMAIN inflight :
          inflight[i].by = "turn" /\ inflight[j].by = "turn" => i = j

TypeInv == TypeOK /\ SlotInv

(***************************************************************************)
(* What NoGaps needs to be inductive: the session's counter is one past    *)
(* the log, or names its last event when a failed write had landed after   *)
(* all; and no append in flight carries a sequence beyond the counter, so  *)
(* the one the store keeps can only be the next one of the log.            *)
(***************************************************************************)
CounterInv ==
    /\ Len(log) \in {nextSequence - 1, nextSequence}
    /\ \A i \in DOMAIN inflight : inflight[i].event.sequence <= nextSequence

LogInv == NoGaps /\ CounterInv /\ DurableThenVisible

EngineInv == TypeInv /\ LogInv
-----------------------------------------------------------------------------
(* The appends the engine hands to the store.                              *)

\* commitEvent builds an event of the current sequence.
LEMMA CommitTyped ==
    ASSUME TypeOK,
           NEW by \in {"create", "turn", "tool"}, NEW k \in 0..MaxTurns,
           NEW type \in EventType, NEW stop \in StopReason, NEW code \in ErrorCode,
           NEW detail \in Detail \cup {NoDetail}
    PROVE  /\ Commit(by, k, type, stop, code, detail) \in Requested
           /\ Commit(by, k, type, stop, code, detail).by = by
           /\ Commit(by, k, type, stop, code, detail).event.sequence = nextSequence
           /\ Commit(by, k, type, stop, code, detail).event.stop = stop
  BY DEF Commit, Requested, Entry, TypeOK

\* The event of a plain commit, which no tool makes.
LEMMA PlainTyped ==
    ASSUME TypeOK, NEW by \in {"create", "turn"}, NEW k \in 0..MaxTurns,
           NEW type \in EventType
    PROVE  /\ Plain(by, k, type) \in Requested
           /\ Plain(by, k, type).by = by
           /\ Plain(by, k, type).event.sequence = nextSequence
  <1>1. "none" \in StopReason /\ "none" \in ErrorCode
    BY DEF StopReason, ErrorCode
  <1> QED
    BY <1>1, CommitTyped DEF Plain

\* The turn.completed of the active turn.
LEMMA CompletedTyped ==
    ASSUME TypeOK, NEW stop \in StopReason, NEW code \in ErrorCode
    PROVE  /\ Completed(stop, code) \in Requested
           /\ Completed(stop, code).by = "turn"
           /\ Completed(stop, code).event.sequence = nextSequence
           /\ Completed(stop, code).event.stop = stop
  <1>1. turn.id \in 0..MaxTurns /\ "turn.completed" \in EventType
    BY DEF TypeOK, EventType
  <1> QED
    BY <1>1, CommitTyped DEF Completed

\* An append joins the end of the queue of the store.
LEMMA AppendToQueue ==
    ASSUME TypeOK, NEW c \in Requested
    PROVE  /\ Append(inflight, c) \in Seq(Requested)
           /\ Len(Append(inflight, c)) = Len(inflight) + 1
           /\ DOMAIN Append(inflight, c) = 1..(Len(inflight) + 1)
           /\ Append(inflight, c)[Len(inflight) + 1] = c
           /\ \A i \in DOMAIN inflight : Append(inflight, c)[i] = inflight[i]
           /\ DOMAIN inflight = 1..Len(inflight)
  BY AppendProperties DEF TypeOK, Requested

\* The store takes appends from the head of its queue.
LEMMA TakeFromQueue ==
    ASSUME TypeOK, inflight # <<>>
    PROVE  /\ Head(inflight) \in Requested
           /\ Head(inflight) = inflight[1]
           /\ Tail(inflight) \in Seq(Requested)
           /\ 1 \in DOMAIN inflight
           /\ DOMAIN Tail(inflight) = 1..(Len(inflight) - 1)
           /\ Len(inflight) \in Nat /\ DOMAIN inflight = 1..Len(inflight)
           /\ \A i \in 1..(Len(inflight) - 1) : Tail(inflight)[i] = inflight[i + 1]
  <1>1. inflight \in Seq(Requested)
    BY DEF TypeOK, Requested
  <1>2. Len(inflight) \in Nat /\ DOMAIN inflight = 1..Len(inflight) /\ Len(inflight) > 0
    BY <1>1
  <1>3. Head(inflight) = inflight[1] /\ inflight[1] \in Requested
    BY <1>1, <1>2
  <1> QED
    BY <1>1, <1>2, <1>3, HeadTailProperties
-----------------------------------------------------------------------------
(* Everything but an answer of the store leaves the log alone, shows       *)
(* nothing and hands the store at most one append, numbered as of now.     *)

NoAnswer ==
    /\ UNCHANGED <<nextSequence, log, shown>>
    /\ \/ UNCHANGED inflight
       \/ \E c \in Requested :
             /\ c.event.sequence = nextSequence
             /\ inflight' = Append(inflight, c)

\* Nothing but the store's answer is a step of the log.
LEMMA OnlyStoreWrites == TypeOK /\ [Next]_vars => Store \/ NoAnswer
  <1> SUFFICES ASSUME TypeOK, [Next]_vars PROVE Store \/ NoAnswer
    OBVIOUS
  <1>1. CASE CreateSession
    <2>1. Plain("create", 0, "session.created") \in Requested
          /\ Plain("create", 0, "session.created").event.sequence = nextSequence
      BY PlainTyped, EngineAssumption DEF EventType
    <2> QED
      BY <1>1, <2>1 DEF CreateSession, Submit, history, NoAnswer
  <1>2. CASE RunTurn
    <2> DEFINE c == Plain("turn", turns + 1, "turn.started")
    <2>1. turns + 1 \in 0..MaxTurns
      BY <1>2, EngineAssumption DEF RunTurn, TypeOK
    <2>2. c \in Requested /\ c.event.sequence = nextSequence
      BY <2>1, PlainTyped DEF EventType
    <2>3. inflight' = Append(inflight, c) /\ UNCHANGED <<nextSequence, log, shown>>
      BY <1>2 DEF RunTurn, Emit, Submit, history
    <2> QED
      BY <2>2, <2>3 DEF NoAnswer
  <1>3. ASSUME NEW named \in 0..MaxTurns, CancelTurn(named) PROVE NoAnswer
    BY <1>3 DEF CancelTurn, store, history, NoAnswer
  <1>4. CASE Resume
    <2>1. CASE turn.step = "started" /\ Emit("user", Plain("turn", turn.id, "user.message"), turn)
                                    /\ UNCHANGED history
      <3>1. Plain("turn", turn.id, "user.message") \in Requested
            /\ Plain("turn", turn.id, "user.message").event.sequence = nextSequence
        BY PlainTyped DEF EventType, TypeOK
      <3> QED
        BY <2>1, <3>1 DEF Emit, Submit, history, NoAnswer
    <2>2. CASE Finish("error", "context_overflow") /\ UNCHANGED history
      <3>1. Completed("error", "context_overflow") \in Requested
            /\ Completed("error", "context_overflow").event.sequence = nextSequence
        BY CompletedTyped DEF StopReason, ErrorCode
      <3> QED
        BY <2>2, <3>1 DEF Finish, Emit, Submit, history, NoAnswer
    <2>3. CASE UNCHANGED <<nextSequence, store, shown>>
      BY <2>3 DEF store, NoAnswer
    <2> QED
      BY <1>4, <2>1, <2>2, <2>3 DEF Resume, history
  <1>5. CASE Abandon
    BY <1>5 DEF Abandon, store, NoAnswer
  <1>6. ASSUME NEW stop \in StopReason, NEW code \in ErrorCode,
               Finish(stop, code), UNCHANGED shown
        PROVE  NoAnswer
    <2>1. Completed(stop, code) \in Requested
          /\ Completed(stop, code).event.sequence = nextSequence
      BY CompletedTyped
    <2> QED
      BY <1>6, <2>1 DEF Finish, Emit, Submit, NoAnswer
  <1>7. CASE Provider
    <2>1. UNCHANGED shown
      BY <1>7 DEF Provider, Chunk, ChunkAfterAbort, ChunkDelta, ChunkToolCall, ChunkFailed,
                  ChunkCompleted, Received, StreamThrows, StreamThrowsWith, StreamEnds,
                  counters, history
    <2>2. CASE ChunkDelta
      <3>1. Plain("turn", turn.id, "model.delta") \in Requested
            /\ Plain("turn", turn.id, "model.delta").event.sequence = nextSequence
        BY PlainTyped DEF EventType, TypeOK
      <3> QED
        BY <2>1, <2>2, <3>1 DEF ChunkDelta, Emit, Submit, NoAnswer
    <2>3. CASE ChunkToolCall \/ ChunkCompleted
      BY <2>1, <2>3 DEF ChunkToolCall, ChunkCompleted, store, NoAnswer
    <2>4. CASE ChunkAfterAbort \/ ChunkFailed
      BY <2>1, <2>4, <1>6 DEF ChunkAfterAbort, ChunkFailed, StopReason, ErrorCode
    <2>5. CASE StreamThrows
      BY <2>1, <2>5, <1>6 DEF StreamThrows, StreamThrowsWith, StopReason, ErrorCode
    <2>6. CASE StreamEnds
      <3>1. \/ Finish("cancelled", "none")
            \/ Finish("final", "none")
            \/ UNCHANGED <<nextSequence, store>>
        BY <2>6 DEF StreamEnds
      <3>2. CASE UNCHANGED <<nextSequence, store>>
        BY <2>1, <3>2 DEF store, NoAnswer
      <3> QED
        BY <2>1, <3>1, <3>2, <1>6 DEF StopReason, ErrorCode
    <2> QED
      BY <1>7, <2>2, <2>3, <2>4, <2>5, <2>6 DEF Provider, Chunk
  <1>8. ASSUME NEW k \in TurnIds, NEW detail \in Detail, HandlerCommits(k, detail)
        PROVE  NoAnswer
    <2> DEFINE c == Commit("tool", k, "tool", "none", "none", detail)
    <2>1. c \in Requested /\ c.event.sequence = nextSequence
      BY CommitTyped, EngineAssumption DEF TurnIds, EventType, StopReason, ErrorCode
    <2>2. inflight' = Append(inflight, c) /\ UNCHANGED <<nextSequence, log, shown>>
      BY <1>8 DEF HandlerCommits, Submit, history
    <2> QED
      BY <2>1, <2>2 DEF NoAnswer
  <1>9. CASE HandlerReturns
    <2>1. UNCHANGED shown /\ (Finish("cancelled", "none") \/ UNCHANGED <<nextSequence, store>>)
      BY <1>9 DEF HandlerReturns, history
    <2>2. CASE UNCHANGED <<nextSequence, store>>
      BY <2>1, <2>2 DEF store, NoAnswer
    <2> QED
      BY <2>1, <2>2, <1>6 DEF StopReason, ErrorCode
  <1>10. CASE HandlerThrows
    BY <1>10 DEF HandlerThrows, store, NoAnswer
  <1>11. CASE UNCHANGED vars
    BY <1>11 DEF vars, store, history, NoAnswer
  <1> QED
    BY <1>1, <1>2, <1>3, <1>4, <1>5, <1>7, <1>8, <1>9, <1>10, <1>11 DEF Next, EngineNext
-----------------------------------------------------------------------------
(* What an answer of the store does to the queue and to the consumer.      *)

\* The answered append leaves the queue; a failed delta puts one more into it.
LEMMA AnsweredQueue ==
    ASSUME TypeOK, inflight # <<>>, NEW ok \in BOOLEAN, Answered(Head(inflight), ok)
    PROVE  \/ inflight' = Tail(inflight)
           \/ /\ Head(inflight).by = "turn" /\ ~ok
              /\ turn' = [turn EXCEPT !.at = "commit", !.step = "storeFailed",
                                      !.fsm = StateOf("error")]
              /\ \E c \in Requested : /\ c.by = "turn"
                                      /\ c.event.sequence = nextSequence
                                      /\ inflight' = Append(Tail(inflight), c)
  <1>1. /\ Completed("error", "none") \in Requested
        /\ Completed("error", "none").by = "turn"
        /\ Completed("error", "none").event.sequence = nextSequence
    BY CompletedTyped DEF StopReason, ErrorCode
  <1> QED
    BY <1>1 DEF Answered

\* The consumer is shown the event of the answered append, and only a kept one.
LEMMA AnsweredShown ==
    ASSUME TypeInv, inflight # <<>>, NEW ok \in BOOLEAN, Answered(Head(inflight), ok)
    PROVE  \/ UNCHANGED shown
           \/ /\ ok
              /\ turn.id \in TurnIds
              /\ shown' = [shown EXCEPT ![turn.id] = Append(@, Head(inflight).event)]
  <1>1. Head(inflight).by = "turn" => turn.id \in TurnIds
    BY TakeFromQueue DEF TypeInv, SlotInv
  <1> QED
    BY <1>1 DEF Answered, history, Seen
-----------------------------------------------------------------------------
(* The types of the engine.                                                *)

\* The types of a turn.
TurnType == [id : 0..MaxTurns,
             at : {"none", "commit", "yield", "stream", "handle"},
             step : {"none", "started", "user", "delta", "completed", "storeFailed"},
             aborted : BOOLEAN,
             fsm : {"idle", "running", "completed", "cancelled", "failed"},
             pending : Nat]

\* They hold at first.
LEMMA TypeInvInit == Init => TypeInv
  <1> SUFFICES ASSUME Init PROVE TypeInv
    OBVIOUS
  <1> USE EngineAssumption DEF Init
  <1>1. inflight \in Seq([by : {"create", "turn", "tool"}, event : Entry]) /\ log \in Seq(Entry)
    OBVIOUS
  <1>2. shown \in [TurnIds -> Seq(Entry)] /\ ended \in [TurnIds -> {"no", "returned", "threw", "abandoned"}]
    OBVIOUS
  <1>3. turn \in TurnType
    BY DEF NoTurn, TurnType
  <1>4. session \in {"absent", "creating", "ready", "failed"} /\ nextSequence \in Nat \ {0}
    OBVIOUS
  <1>5. tools \in SUBSET TurnIds /\ turns \in 0..MaxTurns /\ chunks \in 0..MaxChunks
        /\ faults \in 0..MaxFaults /\ toolEvents \in 0..MaxToolEvents /\ refusals \in Nat
    OBVIOUS
  <1>6. TypeOK
    BY <1>1, <1>2, <1>3, <1>4, <1>5 DEF TypeOK, TurnType
  <1>7. SlotInv
    BY DEF SlotInv, NoTurn
  <1> QED
    BY <1>6, <1>7 DEF TypeInv

\* What a step that hands over no append has to keep.
LEMMA QuietTypes ==
    ASSUME TypeInv, UNCHANGED <<nextSequence, store, shown>>,
           turn' \in TurnType,
           turn'.at = "none" => turn' = NoTurn,
           turn'.at # "none" => turn'.id \in TurnIds,
           turn'.at = "handle" => turn'.pending > 0,
           turn.at = "commit" => turn'.at = "commit",
           session' \in {"absent", "creating", "ready", "failed"},
           tools' \in SUBSET TurnIds, orderly' \in BOOLEAN, turns' \in 0..MaxTurns,
           chunks' \in 0..MaxChunks, toolEvents' \in 0..MaxToolEvents,
           ended' \in [TurnIds -> {"no", "returned", "threw", "abandoned"}]
    PROVE  TypeInv'
  BY DEF TypeInv, TypeOK, SlotInv, store, TurnType

\* What a step has to keep that hands the store an append of the generator.
LEMMA EmitTypes ==
    ASSUME TypeInv, turn.at # "commit", UNCHANGED shown,
           NEW c \in Requested, c.by = "turn", Submit(c),
           turn' \in TurnType, turn'.at = "commit", turn'.id \in TurnIds,
           session' = session,
           tools' \in SUBSET TurnIds, orderly' \in BOOLEAN, turns' \in 0..MaxTurns,
           chunks' \in 0..MaxChunks, toolEvents' \in 0..MaxToolEvents, ended' = ended
    PROVE  TypeInv'
  <1> USE DEF TypeInv
  <1>1. inflight' \in Seq(Requested)
    BY AppendToQueue DEF Submit
  <1>2. TypeOK'
    BY <1>1 DEF TypeOK, TurnType, Submit, Requested
  <1>3. \A i \in DOMAIN inflight : inflight[i].by # "turn"
    BY DEF SlotInv
  <1>4. \A i \in DOMAIN inflight' : inflight'[i].by = "turn" => i = Len(inflight) + 1
    BY <1>3, AppendToQueue DEF Submit
  <1> QED
    BY <1>2, <1>4 DEF SlotInv

\* The same for an append of createSession or of a tool handler.
LEMMA SideTypes ==
    ASSUME TypeInv, UNCHANGED <<turn, shown, ended, tools, orderly, turns, chunks>>,
           NEW c \in Requested, c.by # "turn", Submit(c),
           session' \in {"absent", "creating", "ready", "failed"},
           toolEvents' \in 0..MaxToolEvents
    PROVE  TypeInv'
  <1> USE DEF TypeInv
  <1>1. inflight' \in Seq(Requested)
    BY AppendToQueue DEF Submit
  <1>2. TypeOK'
    BY <1>1 DEF TypeOK, Submit, Requested
  <1>3. \A i \in DOMAIN inflight' :
           inflight'[i].by = "turn" => i \in DOMAIN inflight /\ inflight'[i] = inflight[i]
    BY AppendToQueue DEF Submit
  <1> QED
    BY <1>2, <1>3 DEF SlotInv
-----------------------------------------------------------------------------
\* A free slot holds no turn.
LEMMA NoTurnTyped == NoTurn \in TurnType /\ NoTurn.at = "none"
  BY EngineAssumption DEF NoTurn, TurnType

\* The active turn is one of the turns.
LEMMA SlotTyped ==
    ASSUME TypeInv
    PROVE  /\ turn \in TurnType
           /\ turn.at # "none" => turn.id \in TurnIds
           /\ tools \in SUBSET TurnIds /\ orderly \in BOOLEAN /\ turns \in 0..MaxTurns
           /\ chunks \in 0..MaxChunks /\ toolEvents \in 0..MaxToolEvents
           /\ session \in {"absent", "creating", "ready", "failed"}
           /\ ended \in [TurnIds -> {"no", "returned", "threw", "abandoned"}]
  BY DEF TypeInv, TypeOK, SlotInv, TurnType

\* The generator completes its turn.
LEMMA FinishTypes ==
    ASSUME TypeInv, turn.at \notin {"commit", "none"}, UNCHANGED <<session, tools, orderly, turns, toolEvents, history>>,
           chunks' \in 0..MaxChunks,
           NEW stop \in {"final", "cancelled", "error"}, NEW code \in ErrorCode, Finish(stop, code)
    PROVE  TypeInv'
  <1>1. /\ Completed(stop, code) \in Requested /\ Completed(stop, code).by = "turn"
    BY CompletedTyped DEF StopReason, TypeInv
  <1>2. StateOf(stop) \in {"completed", "cancelled", "failed"}
    BY DEF StateOf
  <1>3. Submit(Completed(stop, code))
        /\ turn' = [[turn EXCEPT !.fsm = StateOf(stop)] EXCEPT !.at = "commit", !.step = "completed"]
    BY DEF Finish, Emit
  <1>4. turn' \in TurnType /\ turn'.at = "commit" /\ turn'.id = turn.id
    BY <1>2, <1>3, SlotTyped DEF TurnType
  <1> QED
    BY <1>1, <1>3, <1>4, EmitTypes, SlotTyped DEF history

\* The generator appends an event of another type in its turn.
LEMMA PlainEmitTypes ==
    ASSUME TypeInv, turn.at \notin {"commit", "none"}, UNCHANGED <<session, tools, orderly, turns, toolEvents, history>>,
           chunks' \in 0..MaxChunks,
           NEW type \in EventType, NEW step \in {"user", "delta"},
           Emit(step, Plain("turn", turn.id, type), turn)
    PROVE  TypeInv'
  <1>1. Plain("turn", turn.id, type) \in Requested /\ Plain("turn", turn.id, type).by = "turn"
    BY PlainTyped, SlotTyped DEF TypeInv, TurnType
  <1>2. turn' \in TurnType /\ turn'.at = "commit" /\ turn'.id = turn.id
    BY SlotTyped DEF TurnType, Emit
  <1> QED
    BY <1>1, <1>2, EmitTypes, SlotTyped DEF history, Emit

\* The generator ends.
LEMMA EndTypes ==
    ASSUME TypeInv, turn.at \notin {"commit", "none"},
           UNCHANGED <<session, nextSequence, store, handlers, counters, shown>>,
           NEW how \in {"returned", "threw", "abandoned"}, EndTurn(how)
    PROVE  TypeInv'
  <1>1. ended' \in [TurnIds -> {"no", "returned", "threw", "abandoned"}]
    BY SlotTyped DEF EndTurn
  <1>2. NoTurn \in TurnType /\ NoTurn.at = "none"
    BY NoTurnTyped
  <1> QED
    BY <1>1, <1>2, QuietTypes, SlotTyped DEF EndTurn, handlers, counters

\* The store answers.
LEMMA AnswerTypes ==
    ASSUME TypeInv, inflight # <<>>, NEW ok \in BOOLEAN, Answered(Head(inflight), ok),
           nextSequence' \in Nat \ {0}, log' \in Seq(Entry), blocked' \in BOOLEAN,
           faults' \in 0..MaxFaults, refusals' \in Nat,
           UNCHANGED <<handlers, counters>>
    PROVE  TypeInv'
  <1> USE DEF TypeInv
  <1> DEFINE c == Head(inflight)
  <1>1. c \in Requested /\ c = inflight[1] /\ Tail(inflight) \in Seq(Requested)
    BY TakeFromQueue
  <1>2. inflight' \in Seq(Requested)
    <2>1. CASE inflight' = Tail(inflight)
      BY <2>1, <1>1
    <2>2. ASSUME NEW d \in Requested, inflight' = Append(Tail(inflight), d)
          PROVE  inflight' \in Seq(Requested)
      BY <2>2, <1>1
    <2> QED
      BY <2>1, <2>2, AnsweredQueue
  <1>3. shown' \in [TurnIds -> Seq(Entry)]
    <2>1. c.event \in Entry
      BY <1>1 DEF Requested
    <2>2. \A k \in TurnIds : Append(shown[k], c.event) \in Seq(Entry)
      BY <2>1 DEF TypeOK
    <2>3. \/ UNCHANGED shown
          \/ /\ turn.id \in TurnIds
             /\ shown' = [shown EXCEPT ![turn.id] = Append(@, c.event)]
      BY AnsweredShown
    <2>4. shown \in [TurnIds -> Seq(Entry)]
      BY DEF TypeOK
    <2> HIDE DEF c
    <2>5. CASE turn.id \in TurnIds /\ shown' = [shown EXCEPT ![turn.id] = Append(@, c.event)]
      <3> DEFINE k == turn.id
      <3>1. k \in TurnIds /\ shown' = [shown EXCEPT ![k] = Append(shown[k], c.event)]
        BY <2>5
      <3> HIDE DEF k
      <3> QED
        BY <3>1, <2>2, <2>4
    <2> QED
      BY <2>3, <2>4, <2>5
  <1>4. /\ session' \in {"absent", "creating", "ready", "failed"}
        /\ ended' \in [TurnIds -> {"no", "returned", "threw", "abandoned"}]
    BY SlotTyped DEF Answered, history, EndTurn
  <1>5. \/ c.by # "turn" /\ UNCHANGED turn
        \/ c.by = "turn" /\ turn' = NoTurn
        \/ c.by = "turn" /\ turn' = [turn EXCEPT !.at = "yield"]
        \/ c.by = "turn" /\ turn' = [turn EXCEPT !.at = "commit", !.step = "storeFailed",
                                                !.fsm = "failed"]
    BY <1>1 DEF Answered, EndTurn, StateOf
  <1>6. c.by = "turn" => turn.at = "commit" /\ turn.id \in TurnIds
    BY <1>1, TakeFromQueue DEF SlotInv
  <1>7. /\ turn' \in TurnType
        /\ turn'.at = "none" => turn' = NoTurn
        /\ turn'.at # "none" => turn'.id \in TurnIds
        /\ turn'.at = "handle" => turn'.pending > 0
        /\ c.by # "turn" => turn' = turn
    <2>1. CASE c.by # "turn" /\ UNCHANGED turn
      BY <2>1, SlotTyped DEF SlotInv
    <2>2. CASE turn' = NoTurn /\ c.by = "turn"
      BY <2>2, NoTurnTyped
    <2>3. CASE c.by = "turn" /\ turn' = [turn EXCEPT !.at = "yield"]
      BY <1>6, <2>3, SlotTyped DEF TurnType
    <2>4. CASE c.by = "turn" /\ turn' = [turn EXCEPT !.at = "commit", !.step = "storeFailed",
                                                    !.fsm = "failed"]
      BY <1>6, <2>4, SlotTyped DEF TurnType
    <2> QED
      BY <1>5, <2>1, <2>2, <2>3, <2>4
  <1>8. TypeOK'
    BY <1>2, <1>3, <1>4, <1>7 DEF TypeOK, TurnType, Requested, handlers, counters
  <1>9. \A i \in DOMAIN Tail(inflight) :
           /\ i + 1 \in DOMAIN inflight /\ Tail(inflight)[i] = inflight[i + 1]
           /\ Tail(inflight)[i].by = "turn" => c.by # "turn" /\ turn.at = "commit"
    BY <1>1, TakeFromQueue DEF SlotInv
  <1>10. CASE inflight' = Tail(inflight)
    <2>1. \A i \in DOMAIN inflight' : inflight'[i].by = "turn" => turn'.at = "commit"
      BY <1>7, <1>9, <1>10
    <2>2. \A i, j \in DOMAIN inflight' :
             inflight'[i].by = "turn" /\ inflight'[j].by = "turn" => i = j
      BY <1>9, <1>10, TakeFromQueue DEF SlotInv
    <2> QED
      BY <1>8, <1>7, <2>1, <2>2 DEF SlotInv
  <1>11. ASSUME c.by = "turn", turn'.at = "commit",
                NEW d \in Requested, inflight' = Append(Tail(inflight), d)
         PROVE  TypeInv'
    <2>1. /\ DOMAIN inflight' = 1..Len(inflight)
          /\ \A i \in 1..(Len(inflight) - 1) : inflight'[i] = Tail(inflight)[i]
      BY <1>1, <1>11, TakeFromQueue, AppendProperties
    <2>2. \A i \in DOMAIN inflight' : inflight'[i].by = "turn" => i = Len(inflight)
      BY <2>1, <1>9, <1>11, TakeFromQueue
    <2> QED
      BY <1>8, <1>7, <1>11, <2>2 DEF SlotInv
  <1> QED
    BY <1>10, <1>11, SlotTyped, AnsweredQueue DEF TurnType
-----------------------------------------------------------------------------
\* Every step keeps them.
LEMMA TypeInvStep == TypeInv /\ [Next]_vars => TypeInv'
  <1> SUFFICES ASSUME TypeInv, [Next]_vars PROVE TypeInv'
    OBVIOUS
  <1> USE EngineAssumption
  <1>1. CASE CreateSession
    <2> DEFINE c == Plain("create", 0, "session.created")
    <2>1. c \in Requested /\ c.by = "create"
      BY PlainTyped DEF EventType, TypeInv
    <2> HIDE DEF c
    <2>2. Submit(c) /\ session' = "creating" /\ UNCHANGED <<turn, handlers, counters, history>>
      BY <1>1 DEF CreateSession, c
    <2> QED
      BY <2>1, <2>2, SideTypes, SlotTyped DEF handlers, counters, history
  <1>2. CASE RunTurn
    <2> DEFINE c == Plain("turn", turns + 1, "turn.started")
    <2>1. turns + 1 \in TurnIds /\ turns + 1 \in 0..MaxTurns
      BY <1>2, SlotTyped DEF RunTurn, TurnIds
    <2>2. c \in Requested /\ c.by = "turn"
      BY <2>1, PlainTyped DEF EventType, TypeInv
    <2> HIDE DEF c
    <2>3. PICK aborted \in BOOLEAN :
             Emit("started", c,
                  [NoTurn EXCEPT !.id = turns + 1, !.fsm = "running", !.aborted = aborted])
      BY <1>2 DEF RunTurn, c
    <2>4. turn' \in TurnType /\ turn'.at = "commit" /\ turn'.id = turns + 1
      BY <2>1, <2>3 DEF Emit, NoTurn, TurnType
    <2> QED
      BY <1>2, <2>1, <2>2, <2>3, <2>4, EmitTypes, SlotTyped DEF RunTurn, Emit, handlers, history
  <1>3. ASSUME NEW named \in 0..MaxTurns, CancelTurn(named) PROVE TypeInv'
    <2>1. turn' \in TurnType /\ turn'.at = turn.at /\ turn'.id = turn.id /\ turn'.pending = turn.pending
      BY <1>3, SlotTyped DEF CancelTurn, TurnType
    <2> QED
      BY <1>3, <2>1, QuietTypes, SlotTyped
      DEF CancelTurn, TypeInv, SlotInv, handlers, counters, history
  <1>4. CASE Resume
    <2> USE DEF Resume
    <2>1. CASE Emit("user", Plain("turn", turn.id, "user.message"), turn) /\ UNCHANGED history
      BY <1>4, <2>1, PlainEmitTypes, SlotTyped DEF EventType, handlers, counters
    <2>2. CASE turn' = [turn EXCEPT !.at = "stream"] /\ UNCHANGED <<nextSequence, store, history>>
      <3>1. turn' \in TurnType /\ turn'.at = "stream" /\ turn'.id = turn.id
        BY <2>2, SlotTyped DEF TurnType
      <3> QED
        BY <1>4, <2>2, <3>1, QuietTypes, SlotTyped DEF handlers, counters, history
    <2>3. CASE Finish("error", "context_overflow") /\ UNCHANGED history
      BY <1>4, <2>3, FinishTypes, SlotTyped DEF ErrorCode, handlers, counters
    <2>4. CASE (EndTurn("returned") \/ EndTurn("threw")) /\ UNCHANGED <<nextSequence, store, shown>>
      BY <1>4, <2>4, EndTypes
    <2> QED
      BY <1>4, <2>1, <2>2, <2>3, <2>4
  <1>5. CASE Abandon
    BY <1>5, EndTypes DEF Abandon
  <1>6. ASSUME turn.at = "stream", UNCHANGED <<session, tools, orderly, turns, toolEvents, history>>,
               chunks' \in 0..MaxChunks,
               NEW stop \in {"final", "cancelled", "error"}, NEW code \in ErrorCode,
               Finish(stop, code)
        PROVE  TypeInv'
    BY <1>6, FinishTypes
  <1>7. CASE Chunk
    <2>1. /\ turn.at = "stream" /\ chunks' \in 0..MaxChunks
          /\ UNCHANGED <<session, tools, orderly, turns, toolEvents, history>>
      BY <1>7, SlotTyped DEF Chunk, ChunkAfterAbort, ChunkDelta, ChunkToolCall, ChunkFailed,
                             ChunkCompleted, Received, handlers
    <2>2. CASE ChunkDelta
      BY <2>1, <2>2, PlainEmitTypes DEF ChunkDelta, EventType
    <2>3. CASE ChunkToolCall
      <3>1. turn' \in TurnType /\ turn'.at = "stream" /\ turn'.id = turn.id
        BY <2>1, <2>3, SlotTyped DEF ChunkToolCall, TurnType
      <3> QED
        BY <2>1, <2>3, <3>1, QuietTypes, SlotTyped DEF ChunkToolCall, history
    <2>4. CASE ChunkCompleted
      BY <2>1, <2>4, QuietTypes, SlotTyped DEF ChunkCompleted, history
    <2>5. CASE ChunkAfterAbort \/ ChunkFailed
      BY <2>1, <2>5, <1>6 DEF ChunkAfterAbort, ChunkFailed, ErrorCode
    <2> QED
      BY <1>7, <2>2, <2>3, <2>4, <2>5 DEF Chunk
  <1>8. CASE StreamThrows
    <2>1. PICK code \in ErrorCode \ {"none"} : StreamThrowsWith(code)
      BY <1>8 DEF StreamThrows
    <2> QED
      BY <2>1, <1>6, SlotTyped DEF StreamThrowsWith, ErrorCode, handlers, counters
  <1>9. CASE StreamEnds
    <2>1. turn.at = "stream" /\ UNCHANGED <<session, orderly, counters, history>>
      BY <1>9 DEF StreamEnds
    <2>2. CASE (Finish("cancelled", "none") \/ Finish("final", "none")) /\ UNCHANGED tools
      BY <2>1, <2>2, <1>6, SlotTyped DEF ErrorCode, counters
    <2>3. CASE /\ turn.pending > 0
               /\ turn' = [turn EXCEPT !.at = "handle"]
               /\ tools' = tools \cup {turn.id}
               /\ UNCHANGED <<nextSequence, store>>
      <3>1. /\ turn' \in TurnType /\ turn'.at = "handle" /\ turn'.id = turn.id
            /\ turn'.pending > 0 /\ tools' \in SUBSET TurnIds
        BY <2>1, <2>3, SlotTyped DEF TurnType
      <3> QED
        BY <2>1, <2>3, <3>1, QuietTypes, SlotTyped DEF counters, history
    <2> QED
      BY <1>9, <2>2, <2>3 DEF StreamEnds
  <1>10. ASSUME NEW k \in TurnIds, NEW detail \in Detail, HandlerCommits(k, detail)
         PROVE  TypeInv'
    <2> DEFINE c == Commit("tool", k, "tool", "none", "none", detail)
    <2>1. c \in Requested /\ c.by = "tool"
      BY CommitTyped DEF TypeInv, TurnIds, EventType, StopReason, ErrorCode
    <2>2. toolEvents' \in 0..MaxToolEvents
      BY <1>10, SlotTyped DEF HandlerCommits
    <2>3. Submit(c)
      BY <1>10 DEF HandlerCommits
    <2> HIDE DEF c
    <2> QED
      BY <1>10, <2>1, <2>2, <2>3, SideTypes, SlotTyped DEF HandlerCommits, handlers, history
  <1>11. CASE HandlerReturns
    <2> DEFINE left == [turn EXCEPT !.pending = @ - 1]
    <2>1. turn.at = "handle" /\ UNCHANGED <<session, handlers, counters, history>>
      BY <1>11 DEF HandlerReturns
    <2>2. left \in TurnType /\ left.id = turn.id /\ left.at = "handle" /\ left.pending \in Nat
      BY <2>1, SlotTyped DEF TurnType, TypeInv, SlotInv
    <2>3. \/ turn' = [left EXCEPT !.at = "stream"] /\ UNCHANGED <<nextSequence, store>>
          \/ left.pending > 0 /\ turn' = left /\ UNCHANGED <<nextSequence, store>>
          \/ Finish("cancelled", "none")
      BY <1>11 DEF HandlerReturns
    <2> HIDE DEF left
    <2>4. CASE turn' = [left EXCEPT !.at = "stream"] /\ UNCHANGED <<nextSequence, store>>
      <3>1. turn' \in TurnType /\ turn'.at = "stream" /\ turn'.id = turn.id
        BY <2>2, <2>4 DEF TurnType
      <3> QED
        BY <2>1, <2>4, <3>1, QuietTypes, SlotTyped DEF handlers, counters, history
    <2>5. CASE left.pending > 0 /\ turn' = left /\ UNCHANGED <<nextSequence, store>>
      BY <2>1, <2>2, <2>5, QuietTypes, SlotTyped DEF handlers, counters, history
    <2>6. CASE Finish("cancelled", "none")
      BY <2>1, <2>6, FinishTypes, SlotTyped DEF ErrorCode, handlers, counters
    <2> QED
      BY <2>3, <2>4, <2>5, <2>6
  <1>12. CASE HandlerThrows
    BY <1>12, EndTypes DEF HandlerThrows
  <1>13. CASE Store
    <2>1. PICK ok \in BOOLEAN : Answered(Head(inflight), ok)
      BY <1>13 DEF Store, StoreKeeps, StoreRefuses, StoreFails
    <2>2. inflight # <<>> /\ UNCHANGED <<handlers, counters>>
      BY <1>13 DEF Store, StoreKeeps, StoreRefuses, StoreFails
    <2>3. Head(inflight).event \in Entry /\ Head(inflight).event.sequence \in Nat \ {0}
      BY <2>2, TakeFromQueue DEF TypeInv, Requested, Entry
    <2>4. /\ log \in Seq(Entry) /\ Append(log, Head(inflight).event) \in Seq(Entry)
          /\ nextSequence \in Nat \ {0} /\ blocked \in BOOLEAN
          /\ faults \in 0..MaxFaults /\ refusals \in Nat
      BY <2>3 DEF TypeInv, TypeOK
    <2> DEFINE Kept == /\ log' \in Seq(Entry) /\ nextSequence' \in Nat \ {0}
                       /\ blocked' \in BOOLEAN
                       /\ faults' \in 0..MaxFaults /\ refusals' \in Nat
    <2>5. ASSUME StoreKeeps PROVE Kept
      <3>1. /\ log' = Append(log, Head(inflight).event)
            /\ nextSequence' = Head(inflight).event.sequence + 1
            /\ UNCHANGED <<blocked, faults, refusals>>
        BY <2>5 DEF StoreKeeps
      <3> QED
        BY <2>3, <2>4, <3>1
    <2>6. ASSUME StoreRefuses PROVE Kept
      <3>1. refusals' = refusals + 1 /\ UNCHANGED <<nextSequence, log, blocked, faults>>
        BY <2>6 DEF StoreRefuses
      <3> QED
        BY <2>4, <3>1
    <2>7. ASSUME StoreFails PROVE Kept
      <3>1. /\ faults < MaxFaults /\ faults' = faults + 1
            /\ log' = log \/ log' = Append(log, Head(inflight).event)
            /\ blocked' = blocked \/ blocked' = TRUE
            /\ UNCHANGED <<nextSequence, refusals>>
        BY <2>7 DEF StoreFails
      <3>2. blocked' \in BOOLEAN
        BY <2>4, <3>1, Zenon
      <3>3. log' \in Seq(Entry)
        BY <2>4, <3>1
      <3>4. faults' \in 0..MaxFaults
        BY <2>4, <3>1
      <3> QED
        BY <2>4, <3>1, <3>2, <3>3, <3>4
    <2> QED
      BY <1>13, <2>1, <2>2, <2>5, <2>6, <2>7, AnswerTypes DEF Store
  <1>14. CASE UNCHANGED vars
    BY <1>14, QuietTypes, SlotTyped DEF vars, handlers, counters, history, TypeInv, SlotInv
  <1> QED
    BY <1>1, <1>2, <1>3, <1>4, <1>5, <1>7, <1>8, <1>9, <1>10, <1>11, <1>12, <1>13, <1>14
    DEF Next, EngineNext, Provider
-----------------------------------------------------------------------------
(* The log.                                                                *)

\* Without gaps the last sequence is the length of the log.
LEMMA LastIsLength ==
    ASSUME TypeOK, NoGaps
    PROVE  /\ LastSequence = Len(log)
           /\ DOMAIN log = 1..Len(log) /\ Len(log) \in Nat
           /\ log = <<>> <=> Len(log) = 0
  <1>1. log \in Seq(Entry) /\ DOMAIN log = 1..Len(log) /\ Len(log) \in Nat
    BY DEF TypeOK
  <1>2. CASE log = <<>>
    BY <1>1, <1>2 DEF LastSequence
  <1>3. CASE log # <<>>
    <2>1. Len(log) \in DOMAIN log
      BY <1>1, <1>3
    <2> QED
      BY <1>1, <1>3, <2>1 DEF LastSequence, NoGaps
  <1> QED
    BY <1>2, <1>3, <1>1

\* An append in order carries the sequence after the last one, and finds the
\* counter there: not one failed write of this sequence has landed.
LEMMA NextInOrder ==
    ASSUME TypeOK, NoGaps, CounterInv, inflight # <<>>, InOrder(Head(inflight))
    PROVE  /\ Head(inflight).event \in Entry
           /\ Head(inflight).event.sequence = Len(log) + 1
           /\ nextSequence = Len(log) + 1
  <1>1. Head(inflight) = inflight[1] /\ 1 \in DOMAIN inflight /\ Head(inflight) \in Requested
    BY TakeFromQueue
  <1>2. Head(inflight).event \in Entry /\ Head(inflight).event.sequence \in Nat
    BY <1>1 DEF Requested, Entry
  <1>3. Head(inflight).event.sequence <= nextSequence
    BY <1>1 DEF CounterInv
  <1>4. Head(inflight).event.sequence > Len(log)
    BY LastIsLength DEF InOrder
  <1>5. nextSequence \in Nat /\ Len(log) \in Nat
    BY DEF TypeOK
  <1> QED
    BY <1>2, <1>3, <1>4, <1>5 DEF CounterInv

\* Every append in flight keeps a sequence the counter has reached.
LEMMA QueueBelowCounter ==
    ASSUME TypeInv, CounterInv, inflight # <<>>, NEW ok \in BOOLEAN,
           Answered(Head(inflight), ok),
           nextSequence' \in Nat, nextSequence' >= nextSequence
    PROVE  \A i \in DOMAIN inflight' : inflight'[i].event.sequence <= nextSequence'
  <1>1. /\ Tail(inflight) \in Seq(Requested)
        /\ \A i \in DOMAIN Tail(inflight) :
              i + 1 \in DOMAIN inflight /\ Tail(inflight)[i] = inflight[i + 1]
    BY TakeFromQueue DEF TypeInv
  <1>2. \A i \in DOMAIN Tail(inflight) : Tail(inflight)[i].event.sequence <= nextSequence'
    <2> TAKE i \in DOMAIN Tail(inflight)
    <2>1. inflight \in Seq(Requested) /\ nextSequence \in Nat
      BY DEF TypeInv, TypeOK, Requested
    <2>2. inflight[i + 1] \in Requested
      BY <1>1, <2>1
    <2>3. inflight[i + 1].event.sequence \in Nat
      BY <2>2 DEF Requested, Entry
    <2> QED
      BY <1>1, <2>1, <2>3 DEF CounterInv
  <1>3. ASSUME NEW d \in Requested, d.event.sequence = nextSequence,
               inflight' = Append(Tail(inflight), d)
        PROVE  \A i \in DOMAIN inflight' : inflight'[i].event.sequence <= nextSequence'
    <2>1. DOMAIN inflight' = 1..(Len(Tail(inflight)) + 1) /\ Len(Tail(inflight)) \in Nat
      BY <1>1, <1>3
    <2>2. \A i \in 1..Len(Tail(inflight)) : inflight'[i] = Tail(inflight)[i]
      BY <1>1, <1>3
    <2>3. inflight'[Len(Tail(inflight)) + 1] = d
      BY <1>1, <1>3
    <2>4. DOMAIN Tail(inflight) = 1..Len(Tail(inflight))
      BY <1>1
    <2> QED
      BY <1>2, <1>3, <2>1, <2>2, <2>3, <2>4
  <1> QED
    BY <1>2, <1>3, AnsweredQueue DEF TypeInv

\* Whatever is on the log stays on it, and what was shown stays shown: an
\* event is shown after it was put at the end of the log.
LEMMA GrowsVisibly ==
    ASSUME TypeInv, TypeInv', LogInv, NoGaps',
           UNCHANGED log \/ \E e \in Entry : log' = Append(log, e),
           \/ UNCHANGED shown
           \/ \E k \in TurnIds, e \in Entry :
                 /\ log' = Append(log, e)
                 /\ shown' = [shown EXCEPT ![k] = Append(@, e)]
    PROVE  DurableThenVisible'
  <1> USE DEF LogInv
  <1>0. log \in Seq(Entry) /\ shown \in [TurnIds -> Seq(Entry)]
    BY DEF TypeInv, TypeOK
  <1>1. Len(log) \in Nat /\ DOMAIN log = 1..Len(log)
    BY <1>0
  <1>2. \A n \in DOMAIN log : n \in DOMAIN log' /\ log'[n] = log[n]
    BY <1>0, <1>1
  <1>3. CASE UNCHANGED shown
    BY <1>2, <1>3 DEF DurableThenVisible
  <1>4. ASSUME NEW k \in TurnIds, NEW e \in Entry, log' = Append(log, e),
               shown' = [shown EXCEPT ![k] = Append(@, e)]
        PROVE  DurableThenVisible'
    <2>1. /\ \A q \in TurnIds \ {k} : shown'[q] = shown[q]
          /\ shown[k] \in Seq(Entry) /\ shown'[k] = Append(shown[k], e)
      BY <1>0, <1>4
    <2>2. /\ Len(shown[k]) \in Nat /\ DOMAIN shown[k] = 1..Len(shown[k])
          /\ DOMAIN shown'[k] = 1..(Len(shown[k]) + 1)
          /\ \A i \in DOMAIN shown[k] : shown'[k][i] = shown[k][i]
          /\ shown'[k][Len(shown[k]) + 1] = e
      BY <2>1
    <2>3. Len(log) + 1 \in DOMAIN log' /\ log'[Len(log) + 1] = e
      <3>1. Len(log') = Len(log) + 1 /\ log'[Len(log) + 1] = e /\ log' \in Seq(Entry)
        BY <1>0, <1>4
      <3> QED
        BY <1>1, <3>1
    <2>4. e.sequence = Len(log) + 1
      BY <2>3 DEF NoGaps
    <2>5. \A i \in DOMAIN shown[k] : shown[k][i].sequence < e.sequence
      <3> TAKE i \in DOMAIN shown[k]
      <3>1. PICK n \in DOMAIN log : log[n] = shown[k][i]
        BY DEF DurableThenVisible
      <3> QED
        BY <1>1, <2>4, <3>1 DEF NoGaps
    <2>6. ASSUME NEW i \in DOMAIN shown'[k]
          PROVE  /\ \E n \in DOMAIN log' : log'[n] = shown'[k][i]
                 /\ \A j \in 1..(i - 1) : shown'[k][j].sequence < shown'[k][i].sequence
      <3>1. CASE i \in DOMAIN shown[k]
        <4>1. \A j \in 1..(i - 1) : j \in DOMAIN shown[k]
          BY <2>2, <3>1
        <4>2. /\ \E n \in DOMAIN log : log[n] = shown[k][i]
              /\ \A j \in 1..(i - 1) : shown[k][j].sequence < shown[k][i].sequence
          BY <3>1 DEF DurableThenVisible
        <4>3. shown'[k][i] = shown[k][i] /\ \A j \in 1..(i - 1) : shown'[k][j] = shown[k][j]
          BY <2>2, <3>1, <4>1
        <4> QED
          BY <1>2, <4>2, <4>3
      <3>2. CASE i = Len(shown[k]) + 1
        <4>1. \A j \in 1..(i - 1) : j \in DOMAIN shown[k]
          BY <2>2, <3>2
        <4> QED
          BY <2>2, <2>3, <2>5, <3>2, <4>1
      <3> QED
        BY <2>2, <3>1, <3>2
    <2>7. ASSUME NEW q \in TurnIds \ {k}, NEW i \in DOMAIN shown'[q]
          PROVE  /\ \E n \in DOMAIN log' : log'[n] = shown'[q][i]
                 /\ \A j \in 1..(i - 1) : shown'[q][j].sequence < shown'[q][i].sequence
      <3>1. shown'[q] = shown[q] /\ i \in DOMAIN shown[q]
        BY <2>1
      <3> QED
        BY <1>2, <3>1 DEF DurableThenVisible
    <2> QED
      BY <2>6, <2>7 DEF DurableThenVisible
  <1> QED
    BY <1>3, <1>4
-----------------------------------------------------------------------------
\* The invariant of the log holds at first.
LEMMA LogInvInit == Init => LogInv
  BY DEF Init, LogInv, NoGaps, CounterInv, DurableThenVisible

\* A step of anyone but the store leaves the log and the consumer alone.
LEMMA AskingKeepsLog ==
    ASSUME TypeInv, LogInv, NoAnswer
    PROVE  LogInv'
  <1> USE DEF LogInv
  <1>1. NoGaps' /\ DurableThenVisible'
    BY DEF NoAnswer, NoGaps, DurableThenVisible
  <1>2. nextSequence \in Nat
    BY DEF TypeInv, TypeOK
  <1>3. ASSUME NEW c \in Requested, c.event.sequence = nextSequence,
               inflight' = Append(inflight, c)
        PROVE  \A i \in DOMAIN inflight' : inflight'[i].event.sequence <= nextSequence
    <2>1. \A i \in DOMAIN inflight' :
             \/ i \in DOMAIN inflight /\ inflight'[i] = inflight[i]
             \/ inflight'[i] = c
      BY <1>3, AppendToQueue DEF TypeInv
    <2> QED
      BY <1>2, <1>3, <2>1 DEF CounterInv
  <1>4. CounterInv'
    BY <1>3 DEF NoAnswer, CounterInv
  <1> QED
    BY <1>1, <1>4

\* An answer of the store keeps it: an append is only put on the log in order.
LEMMA StoreKeepsLog ==
    ASSUME TypeInv, TypeInv', LogInv, Store
    PROVE  LogInv'
  <1> USE DEF LogInv
  <1> DEFINE e == Head(inflight).event
  <1>0. inflight # <<>>
    BY DEF Store, StoreKeeps, StoreRefuses, StoreFails
  <1>1. inflight # <<>> /\ nextSequence \in Nat /\ log \in Seq(Entry) /\ Len(log) \in Nat
    BY <1>0 DEF TypeInv, TypeOK
  <1>2. InOrder(Head(inflight)) => e \in Entry /\ e.sequence = Len(log) + 1 /\ nextSequence = Len(log) + 1
    BY <1>1, NextInOrder DEF TypeInv
  <1>3. ASSUME NEW ok \in BOOLEAN, Answered(Head(inflight), ok)
        PROVE  UNCHANGED shown \/ /\ ok /\ turn.id \in TurnIds
                                  /\ shown' = [shown EXCEPT ![turn.id] = Append(@, e)]
    BY <1>1, <1>3, AnsweredShown
  <1> HIDE DEF e
  \* Putting the event in order on the log leaves no gap.
  <1>4. ASSUME e \in Entry, e.sequence = Len(log) + 1, log' = Append(log, e)
        PROVE  NoGaps' /\ Len(log') = Len(log) + 1
    <2>1. /\ DOMAIN log = 1..Len(log)
          /\ DOMAIN log' = 1..(Len(log) + 1) /\ Len(log') = Len(log) + 1
          /\ log'[Len(log) + 1] = e
          /\ \A i \in 1..Len(log) : log'[i] = log[i]
      BY <1>1, <1>4, AppendProperties
    <2> QED
      BY <1>1, <1>4, <2>1 DEF NoGaps
  <1>5. CASE StoreKeeps
    <2>1. /\ InOrder(Head(inflight)) /\ Answered(Head(inflight), TRUE)
          /\ log' = Append(log, e) /\ nextSequence' = e.sequence + 1
      BY <1>5 DEF StoreKeeps, e
    <2>2. NoGaps' /\ Len(log') = Len(log) + 1
      BY <1>2, <1>4, <2>1
    <2>3. DurableThenVisible'
      BY <1>2, <1>3, <2>1, <2>2, GrowsVisibly
    <2>4. nextSequence' \in Nat /\ nextSequence' >= nextSequence /\ nextSequence' = Len(log') + 1
      BY <1>1, <1>2, <2>1, <2>2
    <2>5. \A i \in DOMAIN inflight' : inflight'[i].event.sequence <= nextSequence'
      BY <1>1, <2>1, <2>4, QueueBelowCounter
    <2>6. CounterInv'
      BY <1>1, <2>2, <2>4, <2>5 DEF CounterInv
    <2> QED
      BY <2>2, <2>3, <2>6
  <1>6. CASE StoreRefuses
    <2>1. Answered(Head(inflight), FALSE) /\ UNCHANGED <<nextSequence, log>>
      BY <1>6 DEF StoreRefuses
    <2>2. NoGaps' /\ UNCHANGED shown
      BY <1>3, <2>1 DEF NoGaps
    <2>3. DurableThenVisible'
      BY <2>1, <2>2 DEF DurableThenVisible
    <2>4. nextSequence' \in Nat /\ nextSequence' >= nextSequence
      BY <1>1, <2>1
    <2>5. \A i \in DOMAIN inflight' : inflight'[i].event.sequence <= nextSequence'
      BY <1>1, <2>1, <2>4, QueueBelowCounter
    <2>6. CounterInv'
      BY <2>1, <2>5 DEF CounterInv
    <2> QED
      BY <2>2, <2>3, <2>6
  <1>7. CASE StoreFails
    <2>1. /\ InOrder(Head(inflight)) /\ Answered(Head(inflight), FALSE)
          /\ log' = log \/ log' = Append(log, e)
          /\ nextSequence' = nextSequence
      BY <1>7 DEF StoreFails, e
    <2>2. NoGaps' /\ UNCHANGED shown /\ (Len(log') = Len(log) \/ Len(log') = Len(log) + 1)
      BY <1>2, <1>3, <1>4, <2>1 DEF NoGaps
    <2>3. DurableThenVisible'
      BY <1>2, <2>1, <2>2, GrowsVisibly
    <2>4. nextSequence' \in Nat /\ nextSequence' >= nextSequence
      BY <1>1, <2>1
    <2>5. \A i \in DOMAIN inflight' : inflight'[i].event.sequence <= nextSequence'
      BY <1>1, <2>1, <2>4, QueueBelowCounter
    <2>6. CounterInv'
      BY <1>1, <1>2, <2>1, <2>2, <2>5 DEF CounterInv
    <2> QED
      BY <2>2, <2>3, <2>6
  <1> QED
    BY <1>5, <1>6, <1>7 DEF Store

\* The invariant is inductive.
LEMMA EngineInvStep == EngineInv /\ [Next]_vars => EngineInv'
  <1> SUFFICES ASSUME EngineInv, [Next]_vars PROVE EngineInv'
    OBVIOUS
  <1>1. TypeInv'
    BY TypeInvStep DEF EngineInv
  <1>2. Store \/ NoAnswer
    BY OnlyStoreWrites DEF EngineInv, TypeInv
  <1> QED
    BY <1>1, <1>2, StoreKeepsLog, AskingKeepsLog DEF EngineInv
-----------------------------------------------------------------------------
(* The theorems.                                                           *)

\* Every reachable state satisfies the invariant.
LEMMA EngineInvariant == Spec => []EngineInv
  <1>1. Init => EngineInv
    BY TypeInvInit, LogInvInit DEF EngineInv
  <1> QED
    BY <1>1, EngineInvStep, PTL DEF Spec

\* The session, its store and its turn have their types, so the generator is
\* never resumed by the answer to an append it does not await.
THEOREM EngineTypes == Spec => []TypeOK
  <1>1. EngineInv => TypeOK
    BY DEF EngineInv, TypeInv
  <1> QED
    BY <1>1, EngineInvariant, PTL

\* commitEvent numbers the events of the log 1, 2, 3, ... whichever appends
\* fail, are refused or land although they were reported as failed, and however
\* the commits of tool handlers overlap those of the generator.
THEOREM LogHasNoGaps == Spec => []NoGaps
  <1>1. EngineInv => NoGaps
    BY DEF EngineInv, LogInv
  <1> QED
    BY <1>1, EngineInvariant, PTL

\* What runTurn yielded to its consumer is on file, in the order of its yield.
THEOREM ShownIsDurable == Spec => []DurableThenVisible
  <1>1. EngineInv => DurableThenVisible
    BY DEF EngineInv, LogInv
  <1> QED
    BY <1>1, EngineInvariant, PTL
-----------------------------------------------------------------------------
(* Cancellation.                                                           *)

\* An end of the turn that is not final is appended as such.
LEMMA NotFinal ==
    ASSUME TypeInv, NEW stop \in {"cancelled", "error"}, NEW code \in ErrorCode,
           Finish(stop, code)
    PROVE  CancelledStep
  <1> DEFINE c == Completed(stop, code)
  <1>1. c \in Requested /\ c.event.stop # "final"
    BY CompletedTyped DEF TypeInv, StopReason
  <1>2. inflight' = Append(inflight, c)
        /\ turn' = [[turn EXCEPT !.fsm = StateOf(stop)] EXCEPT !.at = "commit", !.step = "completed"]
    BY DEF Finish, Emit, Submit
  <1> HIDE DEF c
  <1>3. inflight'[Len(inflight')] = c
    BY <1>1, <1>2, AppendToQueue DEF TypeInv
  <1>4. turn'.at = "commit" /\ turn'.step = "completed"
    BY <1>2, SlotTyped DEF TurnType
  <1> QED
    BY <1>1, <1>3, <1>4 DEF CancelledStep

\* A step of a cancelled turn that gives it no call to handle and does not
\* complete it is no work.
LEMMA NoWork ==
    ASSUME TypeInv,
           \/ turn' = turn
           \/ turn'.at # "handle" /\ turn'.step \notin {"delta", "completed"}
           \/ turn'.at \in {"yield", "stream"} /\ turn'.step = turn.step
    PROVE  CancelledStep
  BY SlotTyped DEF CancelledStep, TurnType

\* No step of the engine does work for a turn that is cancelled.
LEMMA CancelledStepHolds == TypeInv /\ [Next]_vars => CancelledStep
  <1> SUFFICES ASSUME TypeInv, [Next]_vars, turn.aborted PROVE CancelledStep
    BY DEF CancelledStep
  <1>1. turn \in TurnType
    BY SlotTyped
  <1>2. ASSUME turn' = NoTurn PROVE CancelledStep
    BY <1>2, NoWork DEF NoTurn
  <1>3. CASE CreateSession \/ UNCHANGED vars
    BY <1>3, NoWork DEF CreateSession, vars
  <1>4. CASE RunTurn
    <2>1. turn = NoTurn
      BY <1>4 DEF RunTurn, TypeInv, SlotInv
    <2> QED
      BY <2>1 DEF NoTurn
  <1>5. ASSUME NEW named \in 0..MaxTurns, CancelTurn(named) PROVE CancelledStep
    <2>1. turn' = [turn EXCEPT !.aborted = TRUE]
      BY <1>5 DEF CancelTurn
    <2>2. turn' = turn
      BY <1>1, <2>1 DEF TurnType
    <2> QED
      BY <2>2, NoWork
  <1>6. CASE Resume
    <2>1. CASE Emit("user", Plain("turn", turn.id, "user.message"), turn)
      BY <1>1, <2>1, NoWork DEF Emit, TurnType
    <2>2. CASE turn' = [turn EXCEPT !.at = "stream"]
      BY <1>1, <2>2, NoWork DEF TurnType
    <2>3. CASE Finish("error", "context_overflow")
      BY <2>3, NotFinal DEF ErrorCode
    <2>4. CASE EndTurn("returned") \/ EndTurn("threw")
      BY <1>2, <2>4 DEF EndTurn
    <2> QED
      BY <1>6, <2>1, <2>2, <2>3, <2>4 DEF Resume
  <1>7. CASE Abandon \/ HandlerThrows
    BY <1>2, <1>7 DEF Abandon, HandlerThrows, EndTurn
  \* The signal is checked before a chunk is used.
  <1>8. CASE Chunk
    <2>1. ChunkAfterAbort
      BY <1>8 DEF Chunk, ChunkDelta, ChunkToolCall, ChunkFailed, ChunkCompleted
    <2> QED
      BY <2>1, NotFinal DEF ChunkAfterAbort, ErrorCode
  <1>9. CASE StreamThrows
    BY <1>9, NotFinal DEF StreamThrows, StreamThrowsWith, ErrorCode
  <1>10. CASE StreamEnds
    BY <1>10, NotFinal DEF StreamEnds, ErrorCode
  <1>11. ASSUME NEW k \in TurnIds, NEW detail \in Detail, HandlerCommits(k, detail)
         PROVE  CancelledStep
    BY <1>11, NoWork DEF HandlerCommits
  \* Before the next pending call is handled the signal is checked again.
  <1>12. CASE HandlerReturns
    <2>1. \/ turn' = [[turn EXCEPT !.pending = @ - 1] EXCEPT !.at = "stream"]
          \/ Finish("cancelled", "none")
      BY <1>12 DEF HandlerReturns
    <2>2. CASE turn' = [[turn EXCEPT !.pending = @ - 1] EXCEPT !.at = "stream"]
      BY <1>1, <2>2, NoWork DEF TurnType
    <2> QED
      BY <2>1, <2>2, NotFinal DEF ErrorCode
  <1>13. CASE Store
    <2>1. PICK ok \in BOOLEAN : Answered(Head(inflight), ok)
      BY <1>13 DEF Store, StoreKeeps, StoreRefuses, StoreFails
    <2>2. \/ turn' = turn
          \/ turn' = NoTurn
          \/ turn' = [turn EXCEPT !.at = "yield"]
          \/ turn' = [turn EXCEPT !.at = "commit", !.step = "storeFailed", !.fsm = StateOf("error")]
      BY <2>1 DEF Answered, EndTurn
    <2>3. CASE turn' = [turn EXCEPT !.at = "yield"]
      BY <1>1, <2>3, NoWork DEF TurnType
    <2>4. CASE turn' = [turn EXCEPT !.at = "commit", !.step = "storeFailed", !.fsm = StateOf("error")]
      BY <1>1, <2>4, NoWork DEF TurnType
    <2> QED
      BY <1>2, <2>2, <2>3, <2>4, NoWork
  <1> QED
    BY <1>3, <1>4, <1>5, <1>6, <1>7, <1>8, <1>9, <1>10, <1>11, <1>12, <1>13
    DEF Next, EngineNext, Provider

\* cancelTurn: from the step after it, whatever the provider streams and the
\* tool handler returns, the turn commits no more deltas, begins no more calls
\* and cannot complete as final.
THEOREM CancelIsObeyed == Spec => CancelStopsWork
  <1>1. EngineInv /\ [Next]_vars => [CancelledStep]_vars
    BY CancelledStepHolds DEF EngineInv
  <1> QED
    BY <1>1, EngineInvariant, PTL DEF Spec, CancelStopsWork
-----------------------------------------------------------------------------
(* Turns as parts of the log.                                              *)

(***************************************************************************)
(* What ReturnedTurnIsWhole needs to be inductive.  Of the session, turns  *)
(* are numbered as they begin, and the events of one are committed while   *)
(* it has the slot - those of an orderly handler while it is awaited; of   *)
(* the active turn, where its generator stands says which part of it is on *)
(* the log, up to the log's end.                                           *)
(***************************************************************************)
TypeAt == [started |-> "turn.started", user |-> "user.message", delta |-> "model.delta",
           completed |-> "turn.completed", storeFailed |-> "turn.completed"]

\* The turns that have begun, and the appends in flight of the one that has the slot.
Standing ==
    /\ turn.at # "none" => session = "ready" /\ turn.id = turns /\ ended[turn.id] = "no"
    /\ \A k \in TurnIds : k > turns => ended[k] = "no" /\ shown[k] = <<>>
    /\ \A n \in DOMAIN log : log[n].turn <= turns
    /\ \A k \in tools : k <= turns
    /\ \A i \in DOMAIN inflight :
          /\ inflight[i].event.turn <= turns
          /\ inflight[i].by = "create" => session = "creating" /\ inflight[i].event.turn = 0
          /\ inflight[i].by = "turn" => /\ inflight[i].event.turn = turn.id
                                        /\ inflight[i].event.type = TypeAt[turn.step]
          /\ inflight[i].by = "tool" =>
                /\ inflight[i].event.type = "tool"
                /\ orderly => turn.at = "handle" /\ inflight[i].event.turn = turn.id
    /\ \A i, j \in DOMAIN inflight :
          inflight[i].by = "create" /\ inflight[j].by = "create" => i = j

Untouched(k) == shown[k] = <<>> /\ \A n \in DOMAIN log : log[n].turn # k

Begun(k) ==
    /\ Len(log) > 0
    /\ \A n \in DOMAIN log : log[n].turn = k <=> n = Len(log)
    /\ log[Len(log)].type = "turn.started"
    /\ ShownOf(k, Len(log), Len(log))

Open(k) ==
    \E i \in DOMAIN log :
        /\ i < Len(log)
        /\ \A n \in DOMAIN log : log[n].turn = k <=> n \in i..Len(log)
        /\ log[i].type = "turn.started"
        /\ log[i + 1].type = "user.message"
        /\ \A n \in (i + 2)..Len(log) : log[n].type \in {"model.delta", "tool"}
        /\ ShownOf(k, i, Len(log))

\* The generator has begun turn t, or it is past the message of the user and
\* has not completed the turn.
AtStart(t) == \/ t.at = "yield" /\ t.step = "started"
              \/ t.at = "commit" /\ t.step = "user"
AtBody(t) == \/ t.at \in {"stream", "handle"}
             \/ t.at = "yield" /\ t.step \in {"user", "delta"}
             \/ t.at = "commit" /\ t.step \in {"delta", "completed"}

\* The active turn's part of the log.
Phase ==
    /\ turn.at = "commit" /\ turn.step = "started" => Untouched(turn.id)
    /\ AtStart(turn) => Begun(turn.id)
    /\ AtBody(turn) => Open(turn.id)
    /\ turn.at = "yield" /\ turn.step = "completed" => Whole(turn.id)

WholeInv == Standing /\ (orderly => Phase) /\ ReturnedTurnIsWhole

\* As long as neither the log nor what was shown changes, no part changes.
LEMMA SameParts ==
    ASSUME UNCHANGED <<log, shown>>, NEW k
    PROVE  /\ Untouched(k)' <=> Untouched(k)
           /\ Begun(k)' <=> Begun(k)
           /\ Open(k)' <=> Open(k)
           /\ Whole(k)' <=> Whole(k)
  BY DEF Untouched, Begun, Open, Whole, ShownOf

\* What an append does to the log.
LEMMA LogGrows ==
    ASSUME TypeOK, NEW e \in Entry, log' = Append(log, e)
    PROVE  /\ Len(log) \in Nat /\ DOMAIN log = 1..Len(log)
           /\ Len(log') = Len(log) + 1 /\ DOMAIN log' = 1..(Len(log) + 1)
           /\ log'[Len(log) + 1] = e
           /\ \A n \in 1..Len(log) : log'[n] = log[n]
  <1>1. log \in Seq(Entry)
    BY DEF TypeOK
  <1> QED
    BY <1>1, AppendProperties

\* The consumer is shown the event.
Shows(k, e) == shown' = [shown EXCEPT ![k] = Append(@, e)]

\* What a yield does to what was shown of turn k.
LEMMA ShownGrows ==
    ASSUME TypeOK, NEW k \in TurnIds, NEW e \in Entry, Shows(k, e)
    PROVE  /\ {shown'[k][m] : m \in DOMAIN shown'[k]}
                 = {shown[k][m] : m \in DOMAIN shown[k]} \cup {e}
           /\ \A q \in TurnIds \ {k} : shown'[q] = shown[q]
  <1>1. shown \in [TurnIds -> Seq(Entry)]
    BY DEF TypeOK
  <1>2. shown'[k] = Append(shown[k], e) /\ shown[k] \in Seq(Entry)
    BY <1>1 DEF Shows
  <1>3. /\ DOMAIN shown'[k] = 1..(Len(shown[k]) + 1) /\ DOMAIN shown[k] = 1..Len(shown[k])
        /\ Len(shown[k]) \in Nat
        /\ shown'[k][Len(shown[k]) + 1] = e
        /\ \A m \in 1..Len(shown[k]) : shown'[k][m] = shown[k][m]
    BY <1>2, AppendProperties
  <1> QED
    BY <1>1, <1>3 DEF Shows

\* Of a part at the end of the log the consumer has been shown all but the
\* events of tools; so it has of the part one event longer that it is shown.
LEMMA ShownExtends ==
    ASSUME TypeOK, NEW k \in TurnIds, NEW e \in Entry, log' = Append(log, e),
           NEW i \in DOMAIN log, ShownOf(k, i, Len(log)),
           \/ e.type # "tool" /\ Shows(k, e)
           \/ e.type = "tool" /\ UNCHANGED shown
    PROVE  ShownOf(k, i, Len(log))'
  <1> DEFINE Kept(l, j) == {l[n] : n \in {m \in i..j : l[m].type # "tool"}}
  <1>1. /\ Len(log) \in Nat /\ i \in Nat /\ i >= 1 /\ i <= Len(log)
        /\ Len(log') = Len(log) + 1
        /\ log'[Len(log) + 1] = e
        /\ \A n \in i..Len(log) : log'[n] = log[n]
    BY LogGrows
  <1>2. {m \in i..(Len(log) + 1) : log'[m].type # "tool"}
           = {m \in i..Len(log) : log[m].type # "tool"}
                \cup (IF e.type # "tool" THEN {Len(log) + 1} ELSE {})
    BY <1>1
  <1>3. Kept(log', Len(log) + 1) = Kept(log, Len(log)) \cup (IF e.type # "tool" THEN {e} ELSE {})
    <2> DEFINE M == {m \in i..Len(log) : log[m].type # "tool"}
    <2>1. {log'[n] : n \in M} = {log[n] : n \in M}
      BY <1>1
    <2> QED
      BY <1>1, <1>2, <2>1
  <1>4. {shown[k][m] : m \in DOMAIN shown[k]} = Kept(log, Len(log))
    BY DEF ShownOf
  <1> DEFINE Told == {shown[k][m] : m \in DOMAIN shown[k]}
             Tells == {shown'[k][m] : m \in DOMAIN shown'[k]}
  <1>5. Tells = Told \cup (IF e.type # "tool" THEN {e} ELSE {})
    <2>1. CASE e.type # "tool" /\ Shows(k, e)
      BY <2>1, ShownGrows
    <2>2. CASE e.type = "tool" /\ UNCHANGED shown
      BY <2>2
    <2> QED
      BY <2>1, <2>2
  <1>6. Tells = Kept(log', Len(log) + 1)
    <2> HIDE DEF Tells, Told, Kept
    <2> QED
      BY <1>3, <1>4, <1>5 DEF Told
  <1> QED
    BY <1>1, <1>6 DEF ShownOf

\* A part that is not at the end of the log is not touched by an append.
LEMMA ShownStays ==
    ASSUME TypeOK, NEW k \in TurnIds, NEW e \in Entry, log' = Append(log, e),
           shown'[k] = shown[k], NEW i \in DOMAIN log, NEW j \in DOMAIN log,
           ShownOf(k, i, j)
    PROVE  ShownOf(k, i, j)'
  <1>1. \A n \in i..j : log'[n] = log[n]
    BY LogGrows
  <1> QED
    BY <1>1 DEF ShownOf
-----------------------------------------------------------------------------
(* How the parts of the log grow.                                          *)

\* An append of another turn leaves a turn whole.
LEMMA StaysWhole ==
    ASSUME TypeOK, NEW k \in TurnIds, NEW e \in Entry, log' = Append(log, e),
           e.turn # k, shown'[k] = shown[k], Whole(k)
    PROVE  Whole(k)'
  <1>1. PICK i \in DOMAIN log, j \in DOMAIN log :
          /\ i + 1 < j
          /\ \A n \in DOMAIN log : log[n].turn = k <=> n \in i..j
          /\ log[i].type = "turn.started"
          /\ log[i + 1].type = "user.message"
          /\ \A n \in (i + 2)..(j - 1) : log[n].type \in {"model.delta", "tool"}
          /\ log[j].type = "turn.completed"
          /\ ShownOf(k, i, j)
    BY DEF Whole
  <1>2. ShownOf(k, i, j)'
    BY <1>1, ShownStays
  <1>3. i \in DOMAIN log' /\ j \in DOMAIN log' /\ i \in Nat /\ j \in Nat /\ j <= Len(log)
    BY LogGrows
  <1>4. \A n \in DOMAIN log' : log'[n].turn = k <=> n \in i..j
    BY <1>1, <1>3, LogGrows
  <1>5. \A n \in i..j : log'[n] = log[n]
    BY <1>3, LogGrows
  <1>6. /\ i \in i..j /\ i + 1 \in i..j /\ j \in i..j
        /\ \A n \in (i + 2)..(j - 1) : n \in i..j
    BY <1>1, <1>3
  <1>7. /\ log'[i].type = "turn.started"
        /\ log'[i + 1].type = "user.message"
        /\ \A n \in (i + 2)..(j - 1) : log'[n].type \in {"model.delta", "tool"}
        /\ log'[j].type = "turn.completed"
    BY <1>1, <1>5, <1>6
  <1> QED
    BY <1>1, <1>2, <1>3, <1>4, <1>7 DEF Whole

\* turn.started begins the part of a turn at the end of the log.
LEMMA Begins ==
    ASSUME TypeOK, NEW k \in TurnIds, NEW e \in Entry, log' = Append(log, e),
           e.turn = k, e.type = "turn.started", Shows(k, e), Untouched(k)
    PROVE  Begun(k)'
  <1>1. {shown'[k][m] : m \in DOMAIN shown'[k]} = {e}
    BY ShownGrows DEF Untouched
  <1>2. {m \in Len(log')..Len(log') : log'[m].type # "tool"} = {Len(log')}
    BY LogGrows
  <1>3. {log'[n] : n \in {m \in Len(log')..Len(log') : log'[m].type # "tool"}} = {e}
    BY <1>2, LogGrows
  <1>4. ShownOf(k, Len(log), Len(log))'
    BY <1>1, <1>3 DEF ShownOf
  <1>5. \A n \in DOMAIN log' : log'[n].turn = k <=> n = Len(log')
    BY LogGrows DEF Untouched
  <1> QED
    BY <1>4, <1>5, LogGrows DEF Begun

\* user.message opens it.
LEMMA Opens ==
    ASSUME TypeOK, NEW k \in TurnIds, NEW e \in Entry, log' = Append(log, e),
           e.turn = k, e.type = "user.message", Shows(k, e), Begun(k)
    PROVE  Open(k)'
  <1>0. PICK i \in Nat : i = Len(log)
    BY LogGrows
  <1>1. i \in DOMAIN log /\ i \in DOMAIN log' /\ i < Len(log') /\ Len(log') = i + 1
    BY <1>0, LogGrows DEF Begun
  <1>2. log'[i].type = "turn.started" /\ log'[i + 1].type = "user.message"
    BY <1>0, <1>1, LogGrows DEF Begun
  <1>3. \A n \in DOMAIN log' : log'[n].turn = k <=> n \in i..Len(log')
    BY <1>0, <1>1, LogGrows DEF Begun
  <1>4. \A n \in (i + 2)..Len(log') : log'[n].type \in {"model.delta", "tool"}
    BY <1>1
  <1>5. ShownOf(k, i, Len(log))
    BY <1>0 DEF Begun
  <1>6. ShownOf(k, i, Len(log))'
    BY <1>1, <1>5, ShownExtends
  <1> QED
    BY <1>1, <1>2, <1>3, <1>4, <1>6 DEF Open

\* A delta, shown, or an event of a tool, not shown, prolongs it.
LEMMA Prolongs ==
    ASSUME TypeOK, NEW k \in TurnIds, NEW e \in Entry, log' = Append(log, e),
           e.turn = k, Open(k),
           \/ e.type = "model.delta" /\ Shows(k, e)
           \/ e.type = "tool" /\ UNCHANGED shown
    PROVE  Open(k)'
  <1>1. PICK i \in DOMAIN log :
          /\ i < Len(log)
          /\ \A n \in DOMAIN log : log[n].turn = k <=> n \in i..Len(log)
          /\ log[i].type = "turn.started"
          /\ log[i + 1].type = "user.message"
          /\ \A n \in (i + 2)..Len(log) : log[n].type \in {"model.delta", "tool"}
          /\ ShownOf(k, i, Len(log))
    BY DEF Open
  <1>2. /\ i \in DOMAIN log' /\ i < Len(log') /\ i + 1 \in DOMAIN log
        /\ \A n \in (i + 2)..Len(log) : n \in DOMAIN log
    BY <1>1, LogGrows
  <1>3. log'[i].type = "turn.started" /\ log'[i + 1].type = "user.message"
    BY <1>1, <1>2, LogGrows
  <1>4. \A n \in DOMAIN log' : log'[n].turn = k <=> n \in i..Len(log')
    BY <1>1, LogGrows
  <1>5. \A n \in (i + 2)..Len(log') : log'[n].type \in {"model.delta", "tool"}
    BY <1>1, <1>2, LogGrows
  <1>6. ShownOf(k, i, Len(log))'
    BY <1>1, ShownExtends
  <1> QED
    BY <1>2, <1>3, <1>4, <1>5, <1>6 DEF Open

\* turn.completed closes it.
LEMMA Closes ==
    ASSUME TypeOK, NEW k \in TurnIds, NEW e \in Entry, log' = Append(log, e),
           e.turn = k, e.type = "turn.completed", Shows(k, e), Open(k)
    PROVE  Whole(k)'
  <1>1. PICK i \in DOMAIN log :
          /\ i < Len(log)
          /\ \A n \in DOMAIN log : log[n].turn = k <=> n \in i..Len(log)
          /\ log[i].type = "turn.started"
          /\ log[i + 1].type = "user.message"
          /\ \A n \in (i + 2)..Len(log) : log[n].type \in {"model.delta", "tool"}
          /\ ShownOf(k, i, Len(log))
    BY DEF Open
  <1>2. PICK j \in DOMAIN log' : j = Len(log')
    BY LogGrows
  <1>3. /\ i \in DOMAIN log' /\ i + 1 < j /\ i + 1 \in DOMAIN log
        /\ \A n \in (i + 2)..(j - 1) : n \in DOMAIN log /\ n \in (i + 2)..Len(log)
    BY <1>1, <1>2, LogGrows
  <1>4. log'[i].type = "turn.started" /\ log'[i + 1].type = "user.message"
    BY <1>1, <1>3, LogGrows
  <1>5. \A n \in DOMAIN log' : log'[n].turn = k <=> n \in i..j
    BY <1>1, <1>2, LogGrows
  <1>6. \A n \in (i + 2)..(j - 1) : log'[n].type \in {"model.delta", "tool"}
    BY <1>1, <1>3, LogGrows
  <1>7. log'[j].type = "turn.completed"
    BY <1>2, LogGrows
  <1>8. ShownOf(k, i, Len(log))'
    BY <1>1, ShownExtends
  <1>9. ShownOf(k, i, j)'
    BY <1>2, <1>8
  <1> QED
    BY <1>3, <1>4, <1>5, <1>6, <1>7, <1>9 DEF Whole
-----------------------------------------------------------------------------
(* Who has appends in flight, step by step.                                *)

NoneOf(by) == \A i \in DOMAIN inflight : inflight[i].by # by

\* The invariant holds at first.
LEMMA WholeInvInit == Init => WholeInv
  <1> SUFFICES ASSUME Init PROVE WholeInv
    OBVIOUS
  <1>1. Standing
    BY EngineAssumption DEF Init, Standing, NoTurn, TurnIds
  <1>2. Phase
    BY DEF Init, Phase, AtStart, AtBody, NoTurn
  <1>3. ReturnedTurnIsWhole
    BY DEF Init, ReturnedTurnIsWhole
  <1> QED
    BY <1>1, <1>2, <1>3 DEF WholeInv

\* A step of the active turn that hands over nothing.
LEMMA StandingQuiet ==
    ASSUME TypeInv, Standing, turn.at # "none",
           UNCHANGED <<session, inflight, log, shown, turns, orderly>>,
           tools' \in {tools, tools \cup {turn.id}},
           \/ turn' = NoTurn /\ \E how : ended' = [ended EXCEPT ![turn.id] = how]
           \/ turn'.at # "none" /\ turn'.id = turn.id /\ ended' = ended,
           turn.at = "commit" => turn'.at # "none" /\ turn'.step = turn.step,
           orderly => turn'.at = "handle" \/ NoneOf("tool")
    PROVE  Standing'
  <1>1. /\ session = "ready" /\ turn.id = turns /\ ended[turn.id] = "no" /\ turn.id \in TurnIds
        /\ NoTurn.at = "none"
    BY SlotTyped, NoTurnTyped DEF Standing
  <1>2. turn'.at # "none" => turn'.id = turns /\ ended'[turn'.id] = "no"
    BY <1>1
  <1>3. ASSUME NEW k \in TurnIds, k > turns PROVE ended'[k] = "no" /\ shown'[k] = <<>>
    <2>1. ended[k] = "no" /\ shown[k] = <<>>
      BY <1>3 DEF Standing
    <2>2. k # turn.id /\ ended \in [TurnIds -> {"no", "returned", "threw", "abandoned"}]
      BY <1>1, <1>3, SlotTyped DEF TurnIds
    <2>3. ended' = ended \/ \E how : ended' = [ended EXCEPT ![turn.id] = how]
      OBVIOUS
    <2>4. ended'[k] = ended[k]
      BY <2>2, <2>3
    <2> QED
      BY <2>1, <2>4
  <1>4. \A k \in tools' : k <= turns
    BY <1>1, SlotTyped DEF Standing, TurnIds
  <1>5. ASSUME NEW i \in DOMAIN inflight, inflight[i].by = "turn"
        PROVE  inflight[i].event.turn = turn'.id /\ inflight[i].event.type = TypeAt[turn'.step]
    <2>1. turn.at = "commit"
      BY <1>5 DEF TypeInv, SlotInv
    <2> QED
      BY <1>1, <1>5, <2>1 DEF Standing
  <1>6. ASSUME NEW i \in DOMAIN inflight, inflight[i].by = "tool", orderly
        PROVE  turn'.at = "handle" /\ inflight[i].event.turn = turn'.id
    <2>1. turn'.at = "handle"
      BY <1>6 DEF NoneOf
    <2> QED
      BY <1>1, <1>6, <2>1 DEF Standing
  <1> QED
    BY <1>1, <1>2, <1>3, <1>4, <1>5, <1>6 DEF Standing

\* A step of a turn that awaits nothing and hands over an append of its own.
LEMMA StandingEmit ==
    ASSUME TypeInv, Standing, turn.at # "commit",
           UNCHANGED <<session, log, shown, ended, tools, orderly>>,
           session = "ready", turns' \in {turns, turns + 1},
           turn'.at = "commit", turn'.id = turns', ended[turn'.id] = "no",
           orderly => NoneOf("tool"),
           NEW c \in Requested, inflight' = Append(inflight, c),
           c.by = "turn", c.event.turn = turn'.id, c.event.type = TypeAt[turn'.step]
    PROVE  Standing'
  <1>1. turns \in Nat /\ turns' \in Nat /\ turns <= turns'
    BY SlotTyped
  <1>2. \A k \in TurnIds : k > turns' => ended'[k] = "no" /\ shown'[k] = <<>>
    BY <1>1 DEF Standing, TurnIds
  <1>3. log \in Seq(Entry)
    BY DEF TypeInv, TypeOK
  <1>4. (\A n \in DOMAIN log' : log'[n].turn <= turns') /\ (\A k \in tools' : k <= turns')
    <2>1. ASSUME NEW n \in DOMAIN log PROVE log[n].turn \in Nat
      <3>1. log[n] \in Entry
        BY <1>3
      <3> QED
        BY <3>1, EngineAssumption DEF Entry
    <2> QED
      BY <1>1, <2>1, SlotTyped DEF Standing, TurnIds
  <1>5. \A i \in DOMAIN inflight' :
           \/ i \in DOMAIN inflight /\ inflight'[i] = inflight[i]
           \/ inflight'[i] = c
    BY AppendToQueue DEF TypeInv
  <1>6. \A i \in DOMAIN inflight : inflight[i].by # "turn" /\ inflight[i].by # "create"
    BY DEF TypeInv, SlotInv, Standing
  <1>7. \A i \in DOMAIN inflight : inflight[i].event.turn <= turns'
    <2> TAKE i \in DOMAIN inflight
    <2>1. inflight \in Seq(Requested)
      BY DEF TypeInv, TypeOK, Requested
    <2>2. inflight[i] \in Requested
      BY <2>1
    <2>3. inflight[i].event.turn \in Nat
      BY <2>2, EngineAssumption DEF Requested, Entry
    <2> QED
      BY <1>1, <2>3 DEF Standing
  <1>8. ASSUME NEW i \in DOMAIN inflight'
        PROVE  /\ inflight'[i].event.turn <= turns'
               /\ inflight'[i].by # "create"
               /\ inflight'[i].by = "turn" => /\ inflight'[i].event.turn = turn'.id
                                              /\ inflight'[i].event.type = TypeAt[turn'.step]
               /\ inflight'[i].by = "tool" => inflight'[i].event.type = "tool" /\ ~orderly'
    <2>1. CASE i \in DOMAIN inflight /\ inflight'[i] = inflight[i]
      BY <1>6, <1>7, <2>1 DEF Standing, NoneOf
    <2>2. CASE inflight'[i] = c
      BY <1>1, <2>2
    <2> QED
      BY <1>5, <2>1, <2>2
  <1> QED
    BY <1>2, <1>4, <1>8 DEF Standing

\* A step that hands over an append of createSession or of a tool handler.
LEMMA StandingSide ==
    ASSUME TypeInv, Standing, UNCHANGED <<turn, log, shown, ended, tools, turns, orderly>>,
           NEW c \in Requested, inflight' = Append(inflight, c), c.event.turn <= turns,
           \/ /\ c.by = "create" /\ session = "absent" /\ session' = "creating"
              /\ c.event.turn = 0
           \/ /\ c.by = "tool" /\ UNCHANGED session /\ c.event.type = "tool"
              /\ orderly => turn.at = "handle" /\ c.event.turn = turn.id
    PROVE  Standing'
  <1>1. \A i \in DOMAIN inflight' :
           \/ i \in DOMAIN inflight /\ inflight'[i] = inflight[i]
           \/ i = Len(inflight) + 1 /\ inflight'[i] = c
    BY AppendToQueue DEF TypeInv
  <1>2. c.by = "create" => NoneOf("create") /\ turn.at = "none"
    BY DEF Standing, NoneOf
  <1>3. ASSUME NEW i \in DOMAIN inflight'
        PROVE  /\ inflight'[i].event.turn <= turns'
               /\ inflight'[i].by = "create" => session' = "creating" /\ inflight'[i].event.turn = 0
               /\ inflight'[i].by = "turn" => /\ inflight'[i].event.turn = turn'.id
                                              /\ inflight'[i].event.type = TypeAt[turn'.step]
               /\ inflight'[i].by = "tool" =>
                     /\ inflight'[i].event.type = "tool"
                     /\ orderly' => turn'.at = "handle" /\ inflight'[i].event.turn = turn'.id
    <2>1. CASE i \in DOMAIN inflight /\ inflight'[i] = inflight[i]
      BY <1>2, <2>1 DEF Standing, NoneOf
    <2>2. CASE inflight'[i] = c
      BY <2>2
    <2> QED
      BY <1>1, <2>1, <2>2
  <1>4. \A i, j \in DOMAIN inflight' :
          inflight'[i].by = "create" /\ inflight'[j].by = "create" => i = j
    BY <1>1, <1>2 DEF Standing, NoneOf
  <1>5. turn'.at # "none" => session' = "ready"
    BY <1>2 DEF Standing
  <1>6. /\ turn'.at # "none" => turn'.id = turns' /\ ended'[turn'.id] = "no"
        /\ \A k \in TurnIds : k > turns' => ended'[k] = "no" /\ shown'[k] = <<>>
        /\ \A n \in DOMAIN log' : log'[n].turn <= turns'
        /\ \A k \in tools' : k <= turns'
    BY DEF Standing
  <1> QED
    BY <1>3, <1>4, <1>5, <1>6 DEF Standing
-----------------------------------------------------------------------------
(* How the active turn goes on.                                            *)

\* Without a change of the log, the generator goes on within the same part of
\* it, and returns only from a whole one.
LEMMA QuietWhole ==
    ASSUME TypeInv, WholeInv, Standing', UNCHANGED <<log, shown, orderly>>,
           \/ turn' = NoTurn
           \/ /\ turn'.id = turn.id
              /\ \/ turn'.at = turn.at /\ turn'.step = turn.step
                 \/ AtStart(turn) /\ AtStart(turn') /\ turn'.at = "commit"
                 \/ AtBody(turn) /\ AtBody(turn'),
           \/ UNCHANGED ended
           \/ ended' = [ended EXCEPT ![turn.id] = "returned"]
                 /\ turn.at = "yield" /\ turn.step = "completed"
           \/ \E how : how # "returned" /\ ended' = [ended EXCEPT ![turn.id] = how]
    PROVE  WholeInv'
  <1>1. orderly' => Phase'
    <2> SUFFICES ASSUME orderly, Phase PROVE Phase'
      BY DEF WholeInv
    <2>1. \A k : /\ (Untouched(k)' <=> Untouched(k)) /\ (Begun(k)' <=> Begun(k))
                 /\ (Open(k)' <=> Open(k)) /\ (Whole(k)' <=> Whole(k))
      BY SameParts
    <2>2. CASE turn' = NoTurn
      BY <2>2 DEF Phase, AtStart, AtBody, NoTurn
    <2>3. CASE turn'.id = turn.id /\ turn'.at = turn.at /\ turn'.step = turn.step
      BY <2>1, <2>3 DEF Phase, AtStart, AtBody
    <2>4. CASE turn'.id = turn.id /\ AtStart(turn) /\ AtStart(turn') /\ turn'.at = "commit"
      BY <2>1, <2>4 DEF Phase, AtStart, AtBody
    <2>5. CASE turn'.id = turn.id /\ AtBody(turn) /\ AtBody(turn')
      BY <2>1, <2>5 DEF Phase, AtStart, AtBody
    <2> QED
      BY <2>2, <2>3, <2>4, <2>5
  <1>2. ReturnedTurnIsWhole'
    <2> SUFFICES ASSUME orderly, Phase, NEW k \in TurnIds, ended'[k] = "returned"
                 PROVE  Whole(k)
      BY SameParts DEF WholeInv, ReturnedTurnIsWhole
    <2>1. ended[k] = "returned" \/ (k = turn.id /\ turn.at = "yield" /\ turn.step = "completed")
      BY SlotTyped
    <2> QED
      BY <2>1 DEF WholeInv, ReturnedTurnIsWhole, Phase
  <1> QED
    BY <1>1, <1>2 DEF WholeInv

\* The generator completes its turn: its body is on the log.
LEMMA FinishWhole ==
    ASSUME TypeInv, WholeInv, turn.at \notin {"commit", "none"}, AtBody(turn),
           orderly => NoneOf("tool"),
           UNCHANGED <<session, log, shown, ended, tools, orderly, turns>>,
           NEW stop \in {"final", "cancelled", "error"}, NEW code \in ErrorCode, Finish(stop, code)
    PROVE  WholeInv'
  <1> DEFINE c == Completed(stop, code)
  <1>1. c \in Requested /\ c.by = "turn"
    BY CompletedTyped DEF StopReason, TypeInv
  <1>2. c.event.turn = turn.id /\ c.event.type = "turn.completed"
    BY DEF Completed, Commit
  <1>3. inflight' = Append(inflight, c)
        /\ turn' = [[turn EXCEPT !.fsm = StateOf(stop)] EXCEPT !.at = "commit", !.step = "completed"]
    BY DEF Finish, Emit, Submit
  <1> HIDE DEF c
  <1>4. turn'.at = "commit" /\ turn'.step = "completed" /\ turn'.id = turn.id
    BY <1>3, SlotTyped DEF TurnType
  <1>5. c.event.type = TypeAt[turn'.step]
    BY <1>2, <1>4 DEF TypeAt
  <1>6. /\ session = "ready" /\ turns' \in {turns, turns + 1} /\ turn'.id = turns'
        /\ ended[turn'.id] = "no" /\ turn.at # "commit" /\ c.event.turn = turn'.id
    BY <1>2, <1>4 DEF WholeInv, Standing
  <1>7. Standing'
    BY <1>1, <1>3, <1>4, <1>5, <1>6, StandingEmit DEF WholeInv
  <1>8. AtBody(turn')
    BY <1>4 DEF AtBody
  <1> QED
    BY <1>4, <1>7, <1>8, QuietWhole

\* It appends the message of the user or a delta.
LEMMA PlainWhole ==
    ASSUME TypeInv, WholeInv, turn.at \notin {"commit", "none"},
           orderly => NoneOf("tool"),
           UNCHANGED <<session, log, shown, ended, tools, orderly, turns>>,
           NEW step \in {"user", "delta"},
           step = "user" => AtStart(turn), step = "delta" => AtBody(turn),
           Emit(step, Plain("turn", turn.id, TypeAt[step]), turn)
    PROVE  WholeInv'
  <1> DEFINE c == Plain("turn", turn.id, TypeAt[step])
  <1>1. turn.id \in 0..MaxTurns /\ TypeAt[step] \in EventType
    BY SlotTyped DEF TurnType, TypeAt, EventType
  <1>2. c \in Requested /\ c.by = "turn"
    BY <1>1, PlainTyped DEF TypeInv
  <1>3. c.event.turn = turn.id /\ c.event.type = TypeAt[step]
    BY DEF Plain, Commit
  <1>4. inflight' = Append(inflight, c) /\ turn' = [turn EXCEPT !.at = "commit", !.step = step]
    BY DEF Emit, Submit
  <1> HIDE DEF c
  <1>5. turn'.at = "commit" /\ turn'.step = step /\ turn'.id = turn.id
    BY <1>4, SlotTyped DEF TurnType
  <1>6. /\ session = "ready" /\ turns' \in {turns, turns + 1} /\ turn'.id = turns'
        /\ ended[turn'.id] = "no" /\ turn.at # "commit" /\ c.event.turn = turn'.id
        /\ c.event.type = TypeAt[turn'.step]
    BY <1>3, <1>5 DEF WholeInv, Standing
  <1>7. Standing'
    BY <1>2, <1>4, <1>5, <1>6, StandingEmit DEF WholeInv
  <1>8. CASE step = "user"
    <2>1. AtStart(turn') /\ AtStart(turn)
      BY <1>5, <1>8 DEF AtStart
    <2> QED
      BY <1>5, <1>7, <2>1, QuietWhole
  <1>9. CASE step = "delta"
    <2>1. AtBody(turn') /\ AtBody(turn)
      BY <1>5, <1>9 DEF AtBody
    <2> QED
      BY <1>5, <1>7, <2>1, QuietWhole
  <1> QED
    BY <1>8, <1>9

\* It ends.
LEMMA EndWhole ==
    ASSUME TypeInv, WholeInv, turn.at \notin {"commit", "none"}, orderly => NoneOf("tool"),
           UNCHANGED <<session, inflight, log, shown, tools, orderly, turns>>,
           NEW how \in {"returned", "threw", "abandoned"}, EndTurn(how),
           how = "returned" => turn.at = "yield" /\ turn.step = "completed"
    PROVE  WholeInv'
  <1>1. Standing'
    BY StandingQuiet DEF WholeInv, EndTurn
  <1> QED
    BY <1>1, QuietWhole DEF EndTurn

\* It moves on within its turn and appends nothing.
LEMMA MoveWhole ==
    ASSUME TypeInv, WholeInv, turn.at \notin {"commit", "none"},
           orderly => turn'.at = "handle" \/ NoneOf("tool"),
           UNCHANGED <<session, inflight, log, shown, ended, orderly, turns>>,
           tools' \in {tools, tools \cup {turn.id}},
           turn'.at # "none", turn'.id = turn.id, AtBody(turn), AtBody(turn')
    PROVE  WholeInv'
  <1>1. Standing'
    BY StandingQuiet DEF WholeInv
  <1> QED
    BY <1>1, QuietWhole

\* An orderly handler has commits in flight only while it is awaited.
LEMMA OnlyWhileHandled ==
    ASSUME WholeInv
    PROVE  /\ orderly /\ turn.at # "handle" => NoneOf("tool")
           /\ orderly /\ FromTools(turn.id) = {} => NoneOf("tool")
  BY DEF WholeInv, Standing, NoneOf, FromTools

\* Every step but the answers of the store keeps the invariant.
LEMMA AskingKeepsWhole ==
    ASSUME TypeInv, WholeInv, [Next]_vars, ~Store
    PROVE  WholeInv'
  <1> USE EngineAssumption
  <1>1. CASE CreateSession
    <2> DEFINE c == Plain("create", 0, "session.created")
    <2>1. c \in Requested /\ c.by = "create"
      BY PlainTyped DEF EventType, TypeInv
    <2>2. c.event.turn = 0 /\ turns \in Nat
      BY SlotTyped DEF Plain, Commit
    <2>3. inflight' = Append(inflight, c) /\ session = "absent" /\ session' = "creating"
          /\ UNCHANGED <<turn, log, shown, ended, tools, turns, orderly>>
      BY <1>1 DEF CreateSession, Submit, handlers, counters, history
    <2> HIDE DEF c
    <2>4. c.event.turn <= turns
      BY <2>2
    <2>5. Standing'
      BY <2>1, <2>2, <2>3, <2>4, StandingSide DEF WholeInv
    <2> QED
      BY <2>3, <2>5, QuietWhole
  <1>2. CASE RunTurn
    <2> DEFINE c == Plain("turn", turns + 1, "turn.started")
    <2>1. /\ turns + 1 \in TurnIds /\ turns + 1 \in 0..MaxTurns /\ turns \in Nat
          /\ session = "ready" /\ turn.at = "none" /\ turns' = turns + 1
          /\ UNCHANGED <<session, log, shown, ended, tools, orderly>>
      BY <1>2, SlotTyped DEF RunTurn, TurnIds, Emit, Submit, handlers, history
    <2>2. c \in Requested /\ c.by = "turn" /\ c.event.turn = turns + 1 /\ c.event.type = "turn.started"
      BY <2>1, PlainTyped DEF EventType, TypeInv, Plain, Commit
    <2> HIDE DEF c
    <2>3. PICK aborted \in BOOLEAN :
             Emit("started", c,
                  [NoTurn EXCEPT !.id = turns + 1, !.fsm = "running", !.aborted = aborted])
      BY <1>2 DEF RunTurn, c
    <2>4. /\ turn'.at = "commit" /\ turn'.step = "started" /\ turn'.id = turns + 1
          /\ inflight' = Append(inflight, c)
      BY <2>1, <2>3 DEF Emit, Submit, NoTurn
    <2>5. ended[turns + 1] = "no" /\ shown[turns + 1] = <<>> /\ (orderly => NoneOf("tool"))
      BY <2>1, OnlyWhileHandled DEF WholeInv, Standing
    <2>6. c.event.type = TypeAt[turn'.step]
      BY <2>2, <2>4 DEF TypeAt
    <2>7. Standing'
      BY <2>1, <2>2, <2>4, <2>5, <2>6, StandingEmit DEF WholeInv
    <2>8. \A n \in DOMAIN log : log[n].turn # turns + 1
      <3>1. \A n \in DOMAIN log : log[n].turn <= turns
        BY DEF WholeInv, Standing
      <3> QED
        BY <2>1, <3>1
    <2>9. Untouched(turns + 1)
      BY <2>5, <2>8 DEF Untouched
    <2>10. Phase'
      BY <2>1, <2>4, <2>9 DEF Phase, AtStart, AtBody, Untouched
    <2>11. ReturnedTurnIsWhole'
      BY <2>1, SameParts DEF WholeInv, ReturnedTurnIsWhole
    <2> QED
      BY <2>7, <2>10, <2>11 DEF WholeInv
  <1>3. ASSUME NEW named \in 0..MaxTurns, CancelTurn(named) PROVE WholeInv'
    <2>1. /\ turn.at # "none" /\ turn' = [turn EXCEPT !.aborted = TRUE]
          /\ UNCHANGED <<session, inflight, log, shown, ended, tools, orderly, turns>>
      BY <1>3 DEF CancelTurn, store, handlers, counters, history
    <2>2. turn'.at = turn.at /\ turn'.id = turn.id /\ turn'.step = turn.step
      BY <2>1, SlotTyped DEF TurnType
    <2>3. Standing'
      BY <2>1, <2>2, OnlyWhileHandled, StandingQuiet DEF WholeInv
    <2> QED
      BY <2>1, <2>2, <2>3, QuietWhole
  <1>4. CASE Resume
    <2>1. /\ turn.at = "yield" /\ UNCHANGED <<session, tools, orderly, turns>>
          /\ orderly => NoneOf("tool")
      BY <1>4, OnlyWhileHandled DEF Resume, handlers, counters
    <2>2. CASE /\ turn.step = "started" /\ UNCHANGED history
               /\ Emit("user", Plain("turn", turn.id, "user.message"), turn)
      <3>1. AtStart(turn) /\ TypeAt["user"] = "user.message"
        BY <2>1, <2>2 DEF AtStart, TypeAt
      <3>2. UNCHANGED <<log, shown, ended>>
        BY <2>2 DEF Emit, Submit, history
      <3> QED
        BY <2>1, <2>2, <3>1, <3>2, PlainWhole
    <2>3. CASE /\ turn.step \in {"user", "delta"} /\ turn' = [turn EXCEPT !.at = "stream"]
               /\ UNCHANGED <<nextSequence, store, history>>
      <3>1. turn'.at = "stream" /\ turn'.id = turn.id
        BY <2>3, SlotTyped DEF TurnType
      <3>2. AtBody(turn) /\ AtBody(turn')
        BY <2>1, <2>3, <3>1 DEF AtBody
      <3> QED
        BY <2>1, <2>3, <3>1, <3>2, MoveWhole DEF store, history
    <2>4. CASE turn.step = "user" /\ Finish("error", "context_overflow") /\ UNCHANGED history
      <3>1. AtBody(turn) /\ UNCHANGED <<log, shown, ended>>
        BY <2>1, <2>4 DEF AtBody, Finish, Emit, Submit, history
      <3> QED
        BY <2>1, <2>4, <3>1, FinishWhole DEF ErrorCode
    <2>5. CASE /\ turn.step = "completed" /\ EndTurn("returned")
               /\ UNCHANGED <<nextSequence, store, shown>>
      BY <2>1, <2>5, EndWhole DEF store
    <2>6. CASE EndTurn("threw") /\ UNCHANGED <<nextSequence, store, shown>>
      BY <2>1, <2>6, EndWhole DEF store
    <2> QED
      BY <1>4, <2>2, <2>3, <2>4, <2>5, <2>6 DEF Resume
  <1>5. CASE Abandon
    BY <1>5, EndWhole, OnlyWhileHandled DEF Abandon, store, handlers, counters
  <1>6. ASSUME turn.at = "stream", UNCHANGED <<session, tools, orderly, turns, history>>,
               NEW stop \in {"final", "cancelled", "error"}, NEW code \in ErrorCode,
               Finish(stop, code)
        PROVE  WholeInv'
    <2>1. AtBody(turn) /\ UNCHANGED <<log, shown, ended>>
      BY <1>6 DEF AtBody, Finish, Emit, Submit, history
    <2> QED
      BY <1>6, <2>1, FinishWhole, OnlyWhileHandled
  <1>7. CASE Chunk
    <2>1. /\ turn.at = "stream" /\ AtBody(turn)
          /\ orderly => NoneOf("tool")
          /\ UNCHANGED <<session, tools, orderly, turns, history>>
      BY <1>7, OnlyWhileHandled
      DEF Chunk, ChunkAfterAbort, ChunkDelta, ChunkToolCall, ChunkFailed, ChunkCompleted, Received,
          handlers, AtBody
    <2>2. CASE ChunkDelta
      <3>1. TypeAt["delta"] = "model.delta"
        BY DEF TypeAt
      <3>2. UNCHANGED <<log, shown, ended>>
        BY <2>1, <2>2 DEF ChunkDelta, Emit, Submit, history
      <3> QED
        BY <2>1, <2>2, <3>1, <3>2, PlainWhole DEF ChunkDelta
    <2>3. CASE ChunkToolCall \/ ChunkCompleted
      <3>1. turn'.at = "stream" /\ turn'.id = turn.id /\ UNCHANGED <<inflight, log>>
        BY <2>1, <2>3, SlotTyped DEF ChunkToolCall, ChunkCompleted, TurnType, store
      <3>2. AtBody(turn')
        BY <3>1 DEF AtBody
      <3> QED
        BY <2>1, <3>1, <3>2, MoveWhole DEF history
    <2>4. CASE ChunkAfterAbort \/ ChunkFailed
      BY <2>1, <2>4, <1>6 DEF ChunkAfterAbort, ChunkFailed, ErrorCode
    <2> QED
      BY <1>7, <2>2, <2>3, <2>4 DEF Chunk
  <1>8. CASE StreamThrows
    <2>1. PICK code \in ErrorCode \ {"none"} : StreamThrowsWith(code)
      BY <1>8 DEF StreamThrows
    <2> QED
      BY <2>1, <1>6 DEF StreamThrowsWith, ErrorCode, handlers, counters
  <1>9. CASE StreamEnds
    <2>1. turn.at = "stream" /\ UNCHANGED <<session, orderly, turns, history>>
      BY <1>9 DEF StreamEnds, counters
    <2>2. CASE (Finish("cancelled", "none") \/ Finish("final", "none")) /\ UNCHANGED tools
      BY <2>1, <2>2, <1>6 DEF ErrorCode
    <2>3. CASE /\ turn' = [turn EXCEPT !.at = "handle"]
               /\ tools' = tools \cup {turn.id}
               /\ UNCHANGED <<nextSequence, store>>
      <3>1. turn'.at = "handle" /\ turn'.id = turn.id
        BY <2>3, SlotTyped DEF TurnType
      <3>2. AtBody(turn) /\ AtBody(turn')
        BY <2>1, <3>1 DEF AtBody
      <3> QED
        BY <2>1, <2>3, <3>1, <3>2, MoveWhole DEF store, history
    <2> QED
      BY <1>9, <2>2, <2>3 DEF StreamEnds
  <1>10. ASSUME NEW k \in TurnIds, NEW detail \in Detail, HandlerCommits(k, detail)
         PROVE  WholeInv'
    <2> DEFINE c == Commit("tool", k, "tool", "none", "none", detail)
    <2>1. c \in Requested /\ c.by = "tool"
      BY CommitTyped DEF TypeInv, TurnIds, EventType, StopReason, ErrorCode
    <2>2. c.event.turn = k /\ c.event.type = "tool"
      BY DEF Commit
    <2>3. /\ inflight' = Append(inflight, c)
          /\ UNCHANGED <<session, turn, log, shown, ended, tools, turns, orderly>>
          /\ k \in tools
          /\ orderly => turn.id = k /\ turn.at = "handle"
      BY <1>10 DEF HandlerCommits, Submit, handlers, history
    <2>4. k <= turns
      BY <2>3 DEF WholeInv, Standing
    <2> HIDE DEF c
    <2>5. Standing'
      BY <2>1, <2>2, <2>3, <2>4, StandingSide DEF WholeInv
    <2> QED
      BY <2>3, <2>5, QuietWhole
  <1>11. CASE HandlerReturns
    <2> DEFINE left == [turn EXCEPT !.pending = @ - 1]
    <2>1. /\ turn.at = "handle" /\ UNCHANGED <<session, tools, orderly, turns, shown, ended>>
          /\ orderly => NoneOf("tool")
      BY <1>11, OnlyWhileHandled DEF HandlerReturns, handlers, counters, history
    <2>2. left.id = turn.id /\ left.at = "handle" /\ AtBody(turn)
      BY <2>1, SlotTyped DEF TurnType, AtBody
    <2>3. \/ turn' = [left EXCEPT !.at = "stream"] /\ UNCHANGED <<inflight, log>>
          \/ turn' = left /\ UNCHANGED <<inflight, log>>
          \/ Finish("cancelled", "none")
      BY <1>11 DEF HandlerReturns, store
    <2>4. CASE turn' \in {left, [left EXCEPT !.at = "stream"]} /\ UNCHANGED <<inflight, log>>
      <3>1. turn'.at \in {"handle", "stream"} /\ turn'.id = turn.id
        BY <2>1, <2>4, SlotTyped DEF TurnType
      <3>2. AtBody(turn')
        BY <3>1 DEF AtBody
      <3> QED
        BY <2>1, <2>2, <2>4, <3>1, <3>2, MoveWhole
    <2>5. CASE Finish("cancelled", "none")
      <3>1. UNCHANGED log
        BY <2>5 DEF Finish, Emit, Submit
      <3> QED
        BY <2>1, <2>2, <2>5, <3>1, FinishWhole DEF ErrorCode
    <2> QED
      BY <2>3, <2>4, <2>5
  <1>12. CASE HandlerThrows
    BY <1>12, EndWhole, OnlyWhileHandled DEF HandlerThrows, store, handlers, counters
  <1>13. CASE UNCHANGED vars
    <2>1. Standing'
      BY <1>13 DEF WholeInv, Standing, vars, store, handlers, counters, history
    <2> QED
      BY <1>13, <2>1, QuietWhole DEF vars, store, handlers, history
  <1> QED
    BY <1>1, <1>2, <1>3, <1>4, <1>5, <1>7, <1>8, <1>9, <1>10, <1>11, <1>12, <1>13
    DEF Next, EngineNext, Provider
-----------------------------------------------------------------------------
(* The answers of the store.                                               *)

\* Whose append the store answers.
LEMMA HeadOwner ==
    ASSUME TypeInv, Standing, inflight # <<>>
    PROVE  /\ Head(inflight) \in Requested /\ Head(inflight).event \in Entry
           /\ Head(inflight).by \in {"create", "turn", "tool"}
           /\ Head(inflight).event.turn <= turns
           /\ Head(inflight).by = "create" => turn.at = "none" /\ Head(inflight).event.turn = 0
           /\ Head(inflight).by = "turn" =>
                 /\ turn.at = "commit" /\ turn.id \in TurnIds /\ ended[turn.id] = "no"
                 /\ Head(inflight).event.turn = turn.id
                 /\ Head(inflight).event.type = TypeAt[turn.step]
           /\ Head(inflight).by = "tool" =>
                 /\ Head(inflight).event.type = "tool"
                 /\ orderly => /\ turn.at = "handle" /\ turn.id \in TurnIds /\ ended[turn.id] = "no"
                               /\ Head(inflight).event.turn = turn.id
  <1> DEFINE c == Head(inflight)
  <1>1. c \in Requested /\ c = inflight[1] /\ 1 \in DOMAIN inflight
    BY TakeFromQueue DEF TypeInv
  <1>2. c.event \in Entry /\ c.by \in {"create", "turn", "tool"}
    BY <1>1 DEF Requested
  <1>3. c.by = "turn" => turn.at = "commit"
    BY <1>1 DEF TypeInv, SlotInv
  <1>4. /\ c.event.turn <= turns
        /\ c.by = "create" => turn.at = "none" /\ c.event.turn = 0
        /\ c.by = "turn" => c.event.turn = turn.id /\ c.event.type = TypeAt[turn.step]
        /\ c.by = "tool" => /\ c.event.type = "tool"
                            /\ orderly => turn.at = "handle" /\ c.event.turn = turn.id
    BY <1>1 DEF Standing
  <1>5. turn.at # "none" => turn.id \in TurnIds /\ ended[turn.id] = "no"
    BY SlotTyped DEF Standing
  <1> QED
    BY <1>1, <1>2, <1>3, <1>4, <1>5

\* What the answer does to whoever awaits it.
LEMMA AnsweredOwner ==
    ASSUME TypeInv, Standing, inflight # <<>>, NEW ok \in BOOLEAN, Answered(Head(inflight), ok)
    PROVE  /\ Head(inflight).by = "create" => UNCHANGED <<turn, shown, ended>>
           /\ Head(inflight).by = "tool" => UNCHANGED <<session, turn, shown, ended>>
           /\ Head(inflight).by = "turn" =>
                /\ UNCHANGED session
                /\ \/ /\ ok /\ UNCHANGED ended
                      /\ turn'.at = "yield" /\ turn'.step = turn.step /\ turn'.id = turn.id
                      /\ Shows(turn.id, Head(inflight).event)
                   \/ /\ ~ok /\ UNCHANGED shown
                      /\ turn' = NoTurn /\ ended' = [ended EXCEPT ![turn.id] = "threw"]
                   \/ /\ ~ok /\ UNCHANGED <<shown, ended>>
                      /\ turn'.at = "commit" /\ turn'.step = "storeFailed" /\ turn'.id = turn.id
           /\ \/ inflight' = Tail(inflight)
              \/ \E d \in Requested :
                    /\ inflight' = Append(Tail(inflight), d)
                    /\ Head(inflight).by = "turn" /\ d.by = "turn"
                    /\ turn'.at = "commit" /\ turn'.step = "storeFailed" /\ turn'.id = turn.id
                    /\ d.event.turn = turn.id /\ d.event.type = "turn.completed"
  <1> DEFINE c == Head(inflight)
             d == Completed("error", "none")
  <1>1. d \in Requested /\ d.by = "turn"
    BY CompletedTyped DEF StopReason, ErrorCode, TypeInv
  <1>2. d.event.turn = turn.id /\ d.event.type = "turn.completed"
    BY DEF Completed, Commit
  <1> HIDE DEF d
  <1>3. CASE c.by = "create" \/ c.by = "tool"
    BY <1>3 DEF Answered, history
  <1>4. CASE c.by = "turn" /\ ok
    <2>1. turn' = [turn EXCEPT !.at = "yield"] /\ Seen(turn.id, c.event)
          /\ inflight' = Tail(inflight) /\ UNCHANGED <<session, ended>>
      BY <1>4 DEF Answered
    <2>2. turn'.at = "yield" /\ turn'.step = turn.step /\ turn'.id = turn.id
      BY <2>1, SlotTyped DEF TurnType
    <2> QED
      BY <1>4, <2>1, <2>2 DEF Seen, Shows
  <1>5. CASE c.by = "turn" /\ ~ok /\ turn.step # "delta"
    BY <1>5 DEF Answered, EndTurn
  <1>6. CASE c.by = "turn" /\ ~ok /\ turn.step = "delta"
    <2>1. /\ turn' = [turn EXCEPT !.at = "commit", !.step = "storeFailed", !.fsm = StateOf("error")]
          /\ inflight' = Append(Tail(inflight), d) /\ UNCHANGED <<session, shown, ended>>
      BY <1>6 DEF Answered, history, d
    <2>2. turn'.at = "commit" /\ turn'.step = "storeFailed" /\ turn'.id = turn.id
      BY <2>1, SlotTyped DEF TurnType
    <2> QED
      BY <1>1, <1>2, <1>6, <2>1, <2>2
  <1>7. c.by \in {"create", "turn", "tool"}
    BY HeadOwner
  <1> QED
    BY <1>3, <1>4, <1>5, <1>6, <1>7

\* Who has appends in flight after the answer.
LEMMA StandingAnswer ==
    ASSUME TypeInv, Standing, inflight # <<>>, NEW ok \in BOOLEAN, Answered(Head(inflight), ok),
           log' = log \/ log' = Append(log, Head(inflight).event),
           UNCHANGED <<tools, orderly, turns>>
    PROVE  Standing'
  <1> DEFINE c == Head(inflight)
             e == Head(inflight).event
  <1>1. /\ c \in Requested /\ c = inflight[1] /\ 1 \in DOMAIN inflight /\ e \in Entry
        /\ e.turn <= turns /\ c.by \in {"create", "turn", "tool"}
    BY TakeFromQueue, HeadOwner DEF TypeInv
  <1>2. c.by = "turn" => turn.at = "commit" /\ session = "ready" /\ turn.id = turns /\ ended[turn.id] = "no"
    BY HeadOwner DEF Standing
  <1>3. NoTurn.at = "none"
    BY NoTurnTyped
  <1>4. turn'.at # "none" => session' = "ready" /\ turn'.id = turns /\ ended'[turn'.id] = "no"
    BY <1>1, <1>2, <1>3, AnsweredOwner, HeadOwner DEF Standing
  <1>5. ASSUME NEW k \in TurnIds, k > turns PROVE ended'[k] = "no" /\ shown'[k] = <<>>
    <2>1. ended[k] = "no" /\ shown[k] = <<>>
      BY <1>5 DEF Standing
    <2>2. c.by = "turn" => k # turn.id
      BY <1>2, <1>5, SlotTyped DEF TurnIds
    <2>3. shown \in [TurnIds -> Seq(Entry)] /\ ended \in [TurnIds -> {"no", "returned", "threw", "abandoned"}]
      BY DEF TypeInv, TypeOK
    <2>4. \/ UNCHANGED shown
          \/ c.by = "turn" /\ shown' = [shown EXCEPT ![turn.id] = Append(@, e)]
      BY <1>1, AnsweredOwner DEF Shows
    <2>5. \/ UNCHANGED ended
          \/ c.by = "turn" /\ ended' = [ended EXCEPT ![turn.id] = "threw"]
      BY <1>1, AnsweredOwner
    <2> HIDE DEF c, e
    <2> QED
      BY <2>1, <2>2, <2>3, <2>4, <2>5
  <1>6. \A n \in DOMAIN log' : log'[n].turn <= turns
    <2>1. CASE log' = log
      BY <2>1 DEF Standing
    <2>2. CASE log' = Append(log, e)
      BY <1>1, <2>2, LogGrows DEF Standing, TypeInv
    <2> QED
      BY <2>1, <2>2
  \* What is left of the queue were appends in flight before.
  <1>7. \A i \in DOMAIN Tail(inflight) :
          /\ i + 1 \in DOMAIN inflight /\ Tail(inflight)[i] = inflight[i + 1]
          /\ i \in Nat
    BY TakeFromQueue DEF TypeInv
  <1> DEFINE Holds(x) ==
               /\ x.event.turn <= turns
               /\ x.by = "create" => session' = "creating" /\ x.event.turn = 0
               /\ x.by = "turn" => /\ x.event.turn = turn'.id
                                   /\ x.event.type = TypeAt[turn'.step]
               /\ x.by = "tool" => /\ x.event.type = "tool"
                                   /\ orderly => turn'.at = "handle" /\ x.event.turn = turn'.id
  <1>8. ASSUME NEW i \in DOMAIN Tail(inflight) PROVE Holds(Tail(inflight)[i])
    <2> DEFINE x == inflight[i + 1]
    <2>1. i + 1 \in DOMAIN inflight /\ i + 1 # 1 /\ Tail(inflight)[i] = x
      BY <1>7
    <2>2. /\ x.event.turn <= turns
          /\ x.by = "create" => session = "creating" /\ x.event.turn = 0 /\ c.by # "create"
          /\ x.by = "turn" => /\ x.event.turn = turn.id /\ x.event.type = TypeAt[turn.step]
                              /\ c.by # "turn"
          /\ x.by = "tool" => /\ x.event.type = "tool"
                              /\ orderly => turn.at = "handle" /\ x.event.turn = turn.id
      BY <1>1, <2>1 DEF Standing, TypeInv, SlotInv
    <2> HIDE DEF x
    <2>3. CASE c.by = "create"
      <3>1. turn' = turn /\ turn.at = "none"
        BY <2>3, AnsweredOwner, HeadOwner
      <3> QED
        BY <2>1, <2>2, <2>3, <3>1
    <2>4. CASE c.by = "tool"
      <3>1. turn' = turn /\ session' = session
        BY <2>4, AnsweredOwner
      <3> QED
        BY <2>1, <2>2, <2>4, <3>1
    <2>5. CASE c.by = "turn"
      BY <1>2, <2>1, <2>2, <2>5
    <2> QED
      BY <1>1, <2>3, <2>4, <2>5
  <1>9. \A i, j \in DOMAIN Tail(inflight) :
          Tail(inflight)[i].by = "create" /\ Tail(inflight)[j].by = "create" => i = j
    BY <1>7 DEF Standing
  <1>10. CASE inflight' = Tail(inflight)
    BY <1>4, <1>5, <1>6, <1>8, <1>9, <1>10, SlotTyped DEF Standing
  <1>11. ASSUME NEW d \in Requested, inflight' = Append(Tail(inflight), d),
                d.by = "turn", turn'.at = "commit", turn'.step = "storeFailed", turn'.id = turn.id,
                d.event.turn = turn.id, d.event.type = "turn.completed", c.by = "turn"
         PROVE  Standing'
    <2>1. \A i \in DOMAIN inflight' :
             \/ i \in DOMAIN Tail(inflight) /\ inflight'[i] = Tail(inflight)[i]
             \/ inflight'[i] = d
      BY <1>11, TakeFromQueue, AppendProperties DEF TypeInv
    <2>2. Holds(d)
      BY <1>2, <1>11, SlotTyped DEF TypeAt
    <2>3. \A i \in DOMAIN inflight' : Holds(inflight'[i])
      BY <1>8, <2>1, <2>2
    <2>4. \A i, j \in DOMAIN inflight' :
            inflight'[i].by = "create" /\ inflight'[j].by = "create" => i = j
      BY <1>9, <1>11, <2>1
    <2> QED
      BY <1>4, <1>5, <1>6, <2>3, <2>4 DEF Standing
  <1> QED
    BY <1>10, <1>11, AnsweredOwner

\* The part of the log the active turn has after the answer.
LEMMA PhaseAnswer ==
    ASSUME TypeInv, Standing, orderly, Phase, inflight # <<>>, NEW ok \in BOOLEAN,
           Answered(Head(inflight), ok),
           \/ log' = Append(log, Head(inflight).event)
           \/ ~ok /\ log' = log
    PROVE  Phase'
  <1> USE DEF TypeInv
  <1> DEFINE e == Head(inflight).event
  <1>1. e \in Entry /\ Head(inflight).by \in {"create", "turn", "tool"}
    BY HeadOwner
  <1>2. PICK k : k = turn.id
    OBVIOUS
  <1>3. CASE Head(inflight).by = "create"
    <2>1. turn' = turn /\ turn.at = "none"
      BY <1>3, AnsweredOwner, HeadOwner
    <2> QED
      BY <2>1 DEF Phase, AtStart, AtBody
  <1>4. CASE Head(inflight).by = "tool"
    <2>1. /\ UNCHANGED <<turn, shown>> /\ turn.at = "handle" /\ k \in TurnIds
          /\ e.turn = k /\ e.type = "tool"
      BY <1>2, <1>4, AnsweredOwner, HeadOwner
    <2> HIDE DEF e
    <2>2. Open(k)
      BY <1>2, <2>1 DEF Phase, AtBody
    <2>3. CASE log' = Append(log, e)
      <3>1. Open(k)'
        BY <1>1, <2>1, <2>2, <2>3, Prolongs
      <3> QED
        BY <1>2, <2>1, <3>1 DEF Phase, AtStart, AtBody
    <2>4. CASE log' = log
      <3>1. Open(k)'
        BY <2>1, <2>2, <2>4, SameParts
      <3> QED
        BY <1>2, <2>1, <3>1 DEF Phase, AtStart, AtBody
    <2> QED
      BY <2>3, <2>4 DEF e
  <1>5. CASE Head(inflight).by = "turn" /\ ~ok
    <2>1. turn' = NoTurn \/ (turn'.at = "commit" /\ turn'.step = "storeFailed")
      BY <1>5, AnsweredOwner
    <2> QED
      BY <2>1, NoTurnTyped DEF Phase, AtStart, AtBody
  <1>6. CASE Head(inflight).by = "turn" /\ ok
    <2>1. /\ turn.at = "commit" /\ k \in TurnIds /\ e.turn = k /\ e.type = TypeAt[turn.step]
          /\ log' = Append(log, e)
      BY <1>2, <1>6, HeadOwner
    <2>2. turn'.at = "yield" /\ turn'.step = turn.step /\ turn'.id = k /\ Shows(k, e)
      BY <1>2, <1>6, AnsweredOwner
    <2>3. turn.step \in {"none", "started", "user", "delta", "completed", "storeFailed"}
      BY SlotTyped DEF TurnType
    <2> HIDE DEF e
    <2>4. CASE turn.step = "started"
      <3>1. Untouched(k) /\ e.type = "turn.started"
        BY <1>2, <2>1, <2>4 DEF Phase, TypeAt
      <3>2. Begun(k)'
        BY <1>1, <2>1, <2>2, <3>1, Begins
      <3> QED
        BY <2>2, <2>4, <3>2 DEF Phase, AtStart, AtBody
    <2>5. CASE turn.step = "user"
      <3>1. Begun(k) /\ e.type = "user.message"
        BY <1>2, <2>1, <2>5 DEF Phase, AtStart, TypeAt
      <3>2. Open(k)'
        BY <1>1, <2>1, <2>2, <3>1, Opens
      <3> QED
        BY <2>2, <2>5, <3>2 DEF Phase, AtStart, AtBody
    <2>6. CASE turn.step = "delta"
      <3>1. Open(k) /\ e.type = "model.delta"
        BY <1>2, <2>1, <2>6 DEF Phase, AtBody, TypeAt
      <3>2. Open(k)'
        BY <1>1, <2>1, <2>2, <3>1, Prolongs
      <3> QED
        BY <2>2, <2>6, <3>2 DEF Phase, AtStart, AtBody
    <2>7. CASE turn.step = "completed"
      <3>1. Open(k) /\ e.type = "turn.completed"
        BY <1>2, <2>1, <2>7 DEF Phase, AtBody, TypeAt
      <3>2. Whole(k)'
        BY <1>1, <2>1, <2>2, <3>1, Closes
      <3> QED
        BY <2>2, <2>7, <3>2 DEF Phase, AtStart, AtBody
    <2>8. CASE turn.step \in {"none", "storeFailed"}
      BY <2>2, <2>8 DEF Phase, AtStart, AtBody
    <2> QED
      BY <2>3, <2>4, <2>5, <2>6, <2>7, <2>8
  <1> QED
    BY <1>1, <1>3, <1>4, <1>5, <1>6

\* The answer does not touch a turn that has returned.
LEMMA ReturnedAnswer ==
    ASSUME TypeInv, Standing, ReturnedTurnIsWhole, inflight # <<>>, NEW ok \in BOOLEAN,
           Answered(Head(inflight), ok), UNCHANGED orderly,
           log' = log \/ log' = Append(log, Head(inflight).event)
    PROVE  ReturnedTurnIsWhole'
  <1> USE DEF TypeInv
  <1> SUFFICES ASSUME orderly, NEW k \in TurnIds, ended'[k] = "returned"
               PROVE  Whole(k)'
    BY DEF ReturnedTurnIsWhole
  <1> DEFINE e == Head(inflight).event
  <1>1. e \in Entry /\ Head(inflight).by \in {"create", "turn", "tool"}
    BY HeadOwner
  <1>2. /\ ended \in [TurnIds -> {"no", "returned", "threw", "abandoned"}]
        /\ shown \in [TurnIds -> Seq(Entry)]
    BY DEF TypeOK
  <1>3. UNCHANGED ended \/ ended' = [ended EXCEPT ![turn.id] = "threw"]
    BY <1>1, AnsweredOwner
  <1>4. ended[k] = "returned"
    BY <1>2, <1>3
  <1>5. e.turn # k
    BY <1>1, <1>4, HeadOwner DEF TurnIds
  <1>6. shown'[k] = shown[k]
    <2>1. CASE UNCHANGED shown
      BY <2>1
    <2>2. CASE Head(inflight).by = "turn" /\ Shows(turn.id, e)
      <3>1. turn.id # k
        BY <1>4, <2>2, HeadOwner
      <3> QED
        BY <1>2, <2>2, <3>1 DEF Shows
    <2> QED
      BY <1>1, <2>1, <2>2, AnsweredOwner
  <1>7. Whole(k)
    BY <1>4 DEF ReturnedTurnIsWhole
  <1> HIDE DEF e
  <1>8. CASE log' = Append(log, e)
    BY <1>1, <1>5, <1>6, <1>7, <1>8, StaysWhole
  <1>9. CASE log' = log
    <2>1. {shown'[k][m] : m \in DOMAIN shown'[k]} = {shown[k][m] : m \in DOMAIN shown[k]}
      BY <1>6
    <2>2. \A i, j : ShownOf(k, i, j)' <=> ShownOf(k, i, j)
      BY <1>9, <2>1 DEF ShownOf
    <2> QED
      BY <1>7, <1>9, <2>2 DEF Whole
  <1> QED
    BY <1>8, <1>9 DEF e

\* An answer of the store keeps the invariant.
LEMMA StoreKeepsWhole ==
    ASSUME TypeInv, WholeInv, Store
    PROVE  WholeInv'
  <1>1. PICK ok \in BOOLEAN :
          /\ inflight # <<>> /\ Answered(Head(inflight), ok)
          /\ \/ log' = Append(log, Head(inflight).event)
             \/ ~ok /\ log' = log
          /\ UNCHANGED <<handlers, counters>>
    BY DEF Store, StoreKeeps, StoreRefuses, StoreFails
  <1>2. UNCHANGED <<tools, orderly, turns>>
    BY <1>1 DEF handlers, counters
  <1>3. Standing'
    BY <1>1, <1>2, StandingAnswer DEF WholeInv
  <1>4. orderly' => Phase'
    BY <1>1, <1>2, PhaseAnswer DEF WholeInv
  <1>5. ReturnedTurnIsWhole'
    BY <1>1, <1>2, ReturnedAnswer DEF WholeInv
  <1> QED
    BY <1>3, <1>4, <1>5 DEF WholeInv

\* runTurn: when handlers commit only while they are awaited, a turn whose
\* generator returned is one part of the log, from turn.started to its only
\* turn.completed, and was shown but for the events of its tools - however many
\* turns before it threw, were abandoned or cancelled, and whatever the store
\* refused, failed or kept in spite of a failure.
THEOREM ReturnedIsWhole == Spec => []ReturnedTurnIsWhole
  <1>1. Init => WholeInv
    BY WholeInvInit
  <1>2. EngineInv /\ WholeInv /\ [Next]_vars => WholeInv'
    BY StoreKeepsWhole, AskingKeepsWhole DEF EngineInv
  <1>3. WholeInv => ReturnedTurnIsWhole
    BY DEF WholeInv
  <1> QED
    BY <1>1, <1>2, <1>3, EngineInvariant, PTL DEF Spec
=============================================================================
