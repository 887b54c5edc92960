--------------------------- MODULE ToolTurnProofs ---------------------------
(***************************************************************************)
(* Proofs about ToolTurn, for every number of turns, calls, chunks of      *)
(* output and failed appends and for every policy: its steps are steps of  *)
(* SessionEngine, so all that is proved of the engine holds of it; what is *)
(* on file before a process runs; how a call ends on file; whose output    *)
(* goes into a result; and when two appends may be in flight.              *)
(***************************************************************************)
EXTENDS ToolTurn, SessionEngineProofs

\* The phases of a dispatch that await an event of its own, those before its
\* executor runs, and those in which its deltas are awaited.
Reporting == {"requesting", "resolving", "starting", "ending"}
Before    == {"requesting", "requested", "asking", "resolving", "resolved",
              "starting", "started"}
Awaited   == {"executing", "draining"}

Fresh(c) == proc[c].state = "none" /\ chain[c] = NoChain /\ c \notin abandoned

(***************************************************************************)
(* The call in hand is the latest, the handler runs for it, and until its  *)
(* executor runs it has neither a process nor deltas; nor has any call to  *)
(* come.                                                                   *)
(***************************************************************************)
CallInv ==
    /\ call.phase = "idle" => call = NoCall
    /\ call.phase # "idle" => call.id = calls /\ call.id \in Calls /\ turn.at = "handle"
    /\ call.phase \in Before => Fresh(call.id)
    /\ call.phase \in {"resolving", "resolved"} => call.outcome \in {"allowed", "denied"}
    /\ call.phase = "executing" => call.id \notin abandoned
    /\ call.phase \in {"draining", "ending"} /\ call.outcome = "ok" => call.id \notin abandoned
    /\ \A c \in Calls : c > calls => Fresh(c)

\* The kinds of the event the dispatch awaits.
Reported ==
    CASE call.phase = "requesting" -> {"requested"}
      [] call.phase = "resolving"  -> {call.outcome}
      [] call.phase = "starting"   -> {"started"}
      [] call.phase = "ending"     -> IF call.id \in abandoned THEN {"failed"}
                                      ELSE {"completed", "failed"}

IsDelta(x) == x.event.detail.kind = "delta"

\* An append of the handler in flight is the delta that the chain of its call is
\* busy with, or the event the dispatch awaits.
Expected(x) ==
    /\ x.event.detail.call \in Calls
    /\ IsDelta(x) => chain[x.event.detail.call].busy
    /\ ~IsDelta(x) => /\ call.phase \in Reporting
                      /\ x.event.detail.call = call.id
                      /\ x.event.detail.kind \in Reported

Twins(x, y) ==
    /\ x.by = "tool" /\ y.by = "tool"
    /\ IsDelta(x) <=> IsDelta(y)
    /\ x.event.detail.call = y.event.detail.call

FlightInv ==
    /\ \A i \in DOMAIN inflight : inflight[i].by # "tool" => inflight[i].event.type # "tool"
    /\ \A i \in DOMAIN inflight : inflight[i].by = "tool" => Expected(inflight[i])
    /\ \A i, j \in DOMAIN inflight : Twins(inflight[i], inflight[j]) => i = j

(***************************************************************************)
(* Deltas still come of the call whose executor or chain is awaited and of *)
(* calls that were given up, and of no other; and a chain that is awaited  *)
(* is awaited to its end, unless its process was given up.                 *)
(***************************************************************************)
Coming(c) == chain[c].queued > 0 \/ chain[c].busy

ChainInv ==
    /\ \A c \in Calls : Emitted(c) <= MaxDeltas
    /\ \A c \in Calls : chain[c].failed => ~Coming(c)
    /\ \A c \in Calls : Coming(c) => c \in abandoned \/ (c = call.id /\ call.phase \in Awaited)
    /\ \A c \in Calls : proc[c].state \in {"running", "killed"} =>
          c \in abandoned \/ (c = call.id /\ call.phase = "executing")
    /\ call.phase = "draining" /\ call.id \notin abandoned /\ ~chain[call.id].failed =>
          call.target = Emitted(call.id)

\* While a call is in hand, its turn has collected its output and that of calls
\* that were given up.
CollectedInv ==
    /\ call.phase # "idle" =>
          \A i \in DOMAIN collected[turn.id] :
             collected[turn.id][i] = call.id \/ collected[turn.id][i] \in abandoned
    /\ ResultsMixOnlyAbandoned

Allowed(c) == \E i \in DOMAIN log : IsTool(i, c, "allowed")
Audited(c) ==
    \E i, j \in DOMAIN log : i < j /\ IsTool(i, c, "allowed") /\ IsTool(j, c, "started")

\* What is on file of the call before its process runs.
AuditInv ==
    /\ call.phase = "resolved" /\ call.outcome = "allowed" => Allowed(call.id)
    /\ call.phase = "starting" => Allowed(call.id)
    /\ call.phase \in {"started", "executing"} => Audited(call.id)
    /\ AuditBeforeEffect

\* A terminal event is on file only of calls that are over, or whose append of
\* it failed; and no call that was given up has completed.
TerminalInv ==
    /\ \A n \in DOMAIN log, c \in Calls :
          OfCall(n, c) /\ log[n].detail.kind \in {"completed", "failed"} =>
             /\ c <= calls
             /\ c = call.id => call.phase \in {"done", "threw"}
             /\ log[n].detail.kind = "completed" => c \notin abandoned
    /\ OneTerminalEvent

ToolInv ==
    ToolTypeOK /\ CallInv /\ FlightInv /\ ChainInv /\ CollectedInv /\ AuditInv /\ TerminalInv

\* What the engine promises its handler.
EngineBase == TypeInv /\ Standing
-----------------------------------------------------------------------------
(* Every step is one of the engine.                                        *)

\* An event of a call is one a handler may commit.
LEMMA DetailTyped ==
    ASSUME NEW c \in Calls,
           NEW kind \in {"requested", "allowed", "denied", "started", "delta",
                         "completed", "failed"}
    PROVE  [call |-> c, kind |-> kind] \in Detail
  BY ToolAssumption DEF Detail, Calls

\* What a handler's commit hands to the store.
LEMMA HandlerSubmits ==
    ASSUME TypeOK, NEW k, NEW detail \in Detail, HandlerCommits(k, detail)
    PROVE  /\ k \in TurnIds /\ k \in tools
           /\ UNCHANGED <<log, turn, session>>
           /\ \E e \in Requested :
                 /\ inflight' = Append(inflight, e)
                 /\ e.by = "tool" /\ e.event.detail = detail
  <1> DEFINE e == Commit("tool", k, "tool", "none", "none", detail)
  <1>1. k \in TurnIds /\ k \in tools
    BY DEF HandlerCommits, TypeOK
  <1>2. e \in Requested /\ e.by = "tool"
    BY <1>1, CommitTyped, EngineAssumption DEF TurnIds, EventType, StopReason, ErrorCode
  <1>3. e.event.detail = detail
    BY DEF Commit
  <1>4. inflight' = Append(inflight, e) /\ UNCHANGED <<log, turn, session>>
    BY DEF HandlerCommits, Submit
  <1> HIDE DEF e
  <1> QED
    BY <1>1, <1>2, <1>3, <1>4

\* The fields of the call in hand, of each process and of each chain.
LEMMA ToolFields ==
    ASSUME ToolTypeOK
    PROVE  /\ call.id \in 0..MaxCalls /\ call.tool \in Tools /\ call.target \in 0..MaxDeltas
           /\ call.outcome \in {"none", "allowed", "denied", "ok", "failed"}
           /\ \A c \in Calls :
                 /\ chain[c].queued \in 0..MaxDeltas /\ chain[c].done \in 0..MaxDeltas
                 /\ chain[c].busy \in BOOLEAN /\ chain[c].failed \in BOOLEAN
                 /\ Emitted(c) \in Nat
  <1>1. \A c \in Calls : chain[c] \in [queued : 0..MaxDeltas, busy : BOOLEAN,
                                       done : 0..MaxDeltas, failed : BOOLEAN]
    BY DEF ToolTypeOK
  <1>2. ASSUME NEW c \in Calls
        PROVE  /\ chain[c].queued \in 0..MaxDeltas /\ chain[c].done \in 0..MaxDeltas
               /\ chain[c].busy \in BOOLEAN /\ chain[c].failed \in BOOLEAN
    BY <1>1
  <1>3. ASSUME NEW c \in Calls PROVE Emitted(c) \in Nat
    BY <1>2, ToolAssumption DEF Emitted
  <1>4. /\ call.id \in 0..MaxCalls /\ call.tool \in Tools /\ call.target \in 0..MaxDeltas
        /\ call.outcome \in {"none", "allowed", "denied", "ok", "failed"}
    BY DEF ToolTypeOK
  <1> QED
    BY <1>2, <1>3, <1>4

\* Each step of the tools, as a step of the engine or none.
LEMMA StepRefines ==
    ASSUME TypeOK, ToolTypeOK, CallInv, [ToolNext]_allVars
    PROVE  [Next]_vars
  <1> USE DEF Report
  <1>1. ASSUME NEW k, NEW c \in Calls, HandlerCommits(k, [call |-> c, kind |-> "delta"])
        PROVE  Next
    BY <1>1, DetailTyped, HandlerSubmits DEF Next
  <1>2. ASSUME NEW c \in Calls,
               NEW kind \in {"requested", "allowed", "denied", "started", "completed", "failed"},
               HandlerCommits(turn.id, [call |-> c, kind |-> kind])
        PROVE  Next
    BY <1>2, DetailTyped, HandlerSubmits DEF Next
  <1>3. call.phase # "idle" => call.id \in Calls
    BY DEF CallInv
  <1>4. CASE EngineStep
    BY <1>4 DEF EngineStep, Next, EngineNext
  <1>5. CASE StoreAnswers
    BY <1>5 DEF StoreAnswers, Next, Store
  <1>6. ASSUME NEW named \in 0..MaxTurns, CancelWithTools(named) PROVE Next
    BY <1>6 DEF CancelWithTools, Next, EngineNext
  <1>7. CASE BeginCall
    <2>1. calls + 1 \in Calls
      BY <1>7, ToolAssumption, EngineAssumption DEF BeginCall, ToolTypeOK, Calls
    <2> QED
      BY <1>2, <1>7, <2>1 DEF BeginCall
  <1>8. CASE Decide
    BY <1>2, <1>3, <1>8 DEF Decide
  <1>9. CASE Gate
    BY <1>2, <1>3, <1>9 DEF Gate
  <1>10. CASE Spawn \/ ExecuteAtOnce \/ Timeout
    BY <1>10 DEF Spawn, ExecuteAtOnce, Timeout
  <1>11. ASSUME NEW c \in Calls, ChainEmits(c) PROVE Next
    BY <1>1, <1>11 DEF ChainEmits
  <1>12. CASE Drained
    BY <1>2, <1>3, <1>12 DEF Drained
  <1>13. CASE ReturnResult
    BY <1>13 DEF ReturnResult, Next
  <1>14. CASE ThrowFailure
    BY <1>14 DEF ThrowFailure, Next
  <1>15. CASE Approve
    BY <1>2, <1>3, <1>15 DEF Approve
  <1>16. ASSUME NEW c \in Calls, ProcessWrites(c) \/ ProcessCloses(c) PROVE UNCHANGED vars
    BY <1>16 DEF ProcessWrites, ProcessCloses
  <1>17. CASE UNCHANGED allVars
    BY <1>17 DEF allVars
  <1> QED
    BY <1>4, <1>5, <1>6, <1>7, <1>8, <1>9, <1>10, <1>11, <1>12, <1>13, <1>14, <1>15, <1>16,
       <1>17 DEF ToolNext, Dispatch
-----------------------------------------------------------------------------
(* What the steps do to the queue of the store, to the log and to the turn. *)

\* An append that is not the handler's joins the queue, or none does.
OthersAppend ==
    \/ inflight' = inflight
    \/ \E e \in Requested : /\ e.by # "tool" /\ e.event.type # "tool"
                            /\ inflight' = Append(inflight, e)

\* A turn.completed is the generator's.
LEMMA FinishAppends ==
    ASSUME TypeOK, NEW stop \in StopReason, NEW code \in ErrorCode, Finish(stop, code)
    PROVE  UNCHANGED log /\ OthersAppend
  <1>1. Completed(stop, code) \in Requested /\ Completed(stop, code).by = "turn"
    BY CompletedTyped
  <1>2. Completed(stop, code).event.type = "turn.completed"
    BY DEF Completed, Commit
  <1> QED
    BY <1>1, <1>2 DEF Finish, Emit, Submit, OthersAppend

\* The generator's own steps come between calls of the handler.
LEMMA EngineShape ==
    ASSUME EngineBase, CallInv, EngineStep
    PROVE  /\ call.phase = "idle" /\ UNCHANGED toolVars
           /\ UNCHANGED log /\ OthersAppend
  <1> USE DEF EngineBase, TypeInv
  <1>1. TypeOK /\ turn.id \in 0..MaxTurns
    BY DEF TypeOK
  <1>2. turn.at # "handle" => call.phase = "idle"
    BY DEF CallInv
  <1>3. CASE CreateSession
    <2>1. turn.at = "none"
      BY <1>3 DEF CreateSession, Standing
    <2>2. Plain("create", 0, "session.created") \in Requested
          /\ Plain("create", 0, "session.created").by = "create"
      BY <1>1, PlainTyped, EngineAssumption DEF EventType
    <2>3. Plain("create", 0, "session.created").event.type # "tool"
      BY DEF Plain, Commit
    <2> QED
      BY <1>2, <1>3, <2>1, <2>2, <2>3 DEF EngineStep, CreateSession, Submit, OthersAppend
  <1>4. ASSUME NEW k \in 0..MaxTurns, NEW type \in EventType \ {"tool"}, NEW step, NEW t,
               Emit(step, Plain("turn", k, type), t)
        PROVE  UNCHANGED log /\ OthersAppend
    <2>1. Plain("turn", k, type) \in Requested /\ Plain("turn", k, type).by = "turn"
      BY <1>1, PlainTyped
    <2>2. Plain("turn", k, type).event.type = type
      BY DEF Plain, Commit
    <2> QED
      BY <1>4, <2>1, <2>2 DEF Emit, Submit, OthersAppend
  <1>5. UNCHANGED <<nextSequence, store>> => UNCHANGED log /\ OthersAppend
    BY DEF store, OthersAppend
  <1>6. {"turn.started", "user.message", "model.delta"} \in SUBSET (EventType \ {"tool"})
        /\ {"error", "cancelled", "final"} \in SUBSET StopReason
        /\ {"none", "context_overflow", "provider_failure"} \in SUBSET ErrorCode
    BY DEF EventType, StopReason, ErrorCode
  <1>7. CASE RunTurn
    <2>1. turns + 1 \in 0..MaxTurns
      BY <1>1, <1>7, EngineAssumption DEF RunTurn, TypeOK
    <2> QED
      BY <1>2, <1>4, <1>6, <1>7, <2>1 DEF EngineStep, RunTurn
  <1>8. CASE Resume
    <2>1. turn.at = "yield"
      BY <1>8 DEF Resume
    <2>2. \/ Emit("user", Plain("turn", turn.id, "user.message"), turn)
          \/ Finish("error", "context_overflow")
          \/ UNCHANGED <<nextSequence, store>>
      BY <1>8 DEF Resume
    <2>3. UNCHANGED log /\ OthersAppend
      BY <1>1, <1>4, <1>5, <1>6, <2>2, FinishAppends
    <2> QED
      BY <1>2, <2>1, <2>3 DEF EngineStep
  <1>9. CASE Abandon
    BY <1>2, <1>5, <1>9 DEF EngineStep, Abandon
  <1>10. CASE Provider
    <2>1. turn.at = "stream"
      BY <1>10 DEF Provider, Chunk, ChunkAfterAbort, ChunkDelta, ChunkToolCall, ChunkFailed,
                   ChunkCompleted, Received, StreamThrows, StreamThrowsWith, StreamEnds
    <2>2. \/ Emit("delta", Plain("turn", turn.id, "model.delta"), turn)
          \/ \E stop \in {"error", "cancelled", "final"}, code \in ErrorCode : Finish(stop, code)
          \/ UNCHANGED <<nextSequence, store>>
      BY <1>6, <1>10 DEF Provider, Chunk, ChunkAfterAbort, ChunkDelta, ChunkToolCall,
                  ChunkFailed, ChunkCompleted, StreamThrows, StreamThrowsWith, StreamEnds
    <2>3. UNCHANGED log /\ OthersAppend
      BY <1>1, <1>4, <1>5, <1>6, <2>2, FinishAppends
    <2> QED
      BY <1>2, <2>1, <2>3 DEF EngineStep
  <1> QED
    BY <1>3, <1>7, <1>8, <1>9, <1>10 DEF EngineStep

\* handle comes back to the generator with a result or throws.
LEMMA HandleEnds ==
    ASSUME TypeOK, HandlerReturns \/ HandlerThrows
    PROVE  UNCHANGED log /\ OthersAppend
  <1>1. Finish("cancelled", "none") \/ UNCHANGED <<nextSequence, store>>
    BY DEF HandlerReturns, HandlerThrows
  <1> QED
    BY <1>1, FinishAppends DEF store, OthersAppend, StopReason, ErrorCode

\* The store answers the append at the head of its queue.
LEMMA StoreShape ==
    ASSUME EngineBase, FlightInv, StoreAnswers
    PROVE  \E ok \in BOOLEAN :
              /\ inflight # <<>> /\ Head(inflight) \in Requested
              /\ ToolAnswered(ok)
              /\ log' = Append(log, Head(inflight).event) \/ (~ok /\ log' = log)
              /\ Head(inflight).by = "tool" =>
                    /\ UNCHANGED turn /\ inflight' = Tail(inflight)
                    /\ Head(inflight).event.type = "tool"
              /\ Head(inflight).by # "tool" =>
                    /\ turn.at # "handle"
                    /\ Head(inflight).event.type # "tool"
                    /\ \/ inflight' = Tail(inflight)
                       \/ \E e \in Requested : /\ e.by # "tool" /\ e.event.type # "tool"
                                               /\ inflight' = Append(Tail(inflight), e)
  <1>1. PICK ok \in BOOLEAN :
          /\ inflight # <<>> /\ Answered(Head(inflight), ok) /\ ToolAnswered(ok)
          /\ log' = Append(log, Head(inflight).event) \/ (~ok /\ log' = log)
    BY DEF StoreAnswers, StoreKeeps, StoreRefuses, StoreFails
  <1>2. TypeInv /\ Standing
    BY DEF EngineBase
  <1>3. Head(inflight).by # "tool" => Head(inflight).event.type # "tool"
    BY <1>1, <1>2, TakeFromQueue DEF TypeInv, FlightInv
  <1> QED
    BY <1>1, <1>2, <1>3, HeadOwner, AnsweredOwner
-----------------------------------------------------------------------------
(* The types.                                                              *)

Phases   == {"idle", "requesting", "requested", "asking", "resolving", "resolved",
             "starting", "started", "executing", "draining", "ending", "done", "threw"}
Outcomes == {"none", "allowed", "denied", "ok", "failed"}

CallType  == [id : 0..MaxCalls, tool : Tools, phase : Phases, outcome : Outcomes,
              target : 0..MaxDeltas]
ProcType  == [state : {"none", "running", "killed", "closed"}, listens : BOOLEAN,
              turn : 0..MaxTurns]
ChainType == [queued : 0..MaxDeltas, busy : BOOLEAN, done : 0..MaxDeltas, failed : BOOLEAN]

Given == {c \in Calls : proc[c].state \in {"killed", "closed"}}

\* The parts of ToolTypeOK, by those names.
LEMMA ToolTypeParts ==
    /\ ToolTypeOK <=>
          /\ call \in CallType /\ proc \in [Calls -> ProcType] /\ chain \in [Calls -> ChainType]
          /\ collected \in [TurnIds -> Seq(Calls)] /\ crashed \in BOOLEAN
          /\ calls \in 0..MaxCalls /\ results \in [Calls -> Seq(Calls)]
          /\ abandoned \in SUBSET Given
    /\ ToolTypeOK' <=>
          /\ call' \in CallType /\ proc' \in [Calls -> ProcType] /\ chain' \in [Calls -> ChainType]
          /\ collected' \in [TurnIds -> Seq(Calls)] /\ crashed' \in BOOLEAN
          /\ calls' \in 0..MaxCalls /\ results' \in [Calls -> Seq(Calls)]
          /\ abandoned' \in SUBSET Given'
  BY DEF ToolTypeOK, CallType, ProcType, ChainType, Phases, Outcomes, Given

\* Initially nothing is in hand.
LEMMA ToolTypeInit == ToolInit => ToolTypeOK
  <1> SUFFICES ASSUME ToolInit PROVE ToolTypeOK
    OBVIOUS
  <1> USE ToolAssumption, EngineAssumption DEF ToolInit
  <1>1. NoCall \in CallType
    BY DEF NoCall, CallType, Phases, Outcomes, Tools
  <1>2. NoProc \in ProcType /\ NoChain \in ChainType
    BY DEF NoProc, NoChain, ProcType, ChainType
  <1>3. collected \in [TurnIds -> Seq(Calls)] /\ results \in [Calls -> Seq(Calls)]
    OBVIOUS
  <1>4. proc \in [Calls -> ProcType] /\ chain \in [Calls -> ChainType] /\ abandoned \in SUBSET Given
    BY <1>2
  <1>5. call \in CallType
    BY <1>1
  <1>6. calls \in 0..MaxCalls
    OBVIOUS
  <1>7. crashed \in BOOLEAN
    BY Zenon
  <1> HIDE DEF ToolInit
  <1> QED
    BY <1>3, <1>4, <1>5, <1>6, <1>7, ToolTypeParts

\* A step that moves only the call in hand.
LEMMA CallTypes ==
    ASSUME ToolTypeOK, Quiet, call' \in CallType
    PROVE  ToolTypeOK'
  BY ToolTypeParts DEF Quiet, Given

\* A step of the chains.
LEMMA ChainTypes ==
    ASSUME ToolTypeOK, UNCHANGED <<proc, calls, results, abandoned>>,
           call' \in CallType, chain' \in [Calls -> ChainType], crashed' \in BOOLEAN,
           collected' \in [TurnIds -> Seq(Calls)]
    PROVE  ToolTypeOK'
  BY ToolTypeParts DEF Given

\* A step of a process: what has been given up stays so.
LEMMA ProcTypes ==
    ASSUME ToolTypeOK, UNCHANGED <<chain, collected, crashed, calls, results>>,
           call' \in CallType, NEW c \in Calls, NEW p \in ProcType,
           proc' = [proc EXCEPT ![c] = p],
           abandoned' \in {abandoned, abandoned \cup {c}},
           c \in abandoned' => p.state \in {"killed", "closed"}
    PROVE  ToolTypeOK'
  <1>1. proc \in [Calls -> ProcType] /\ abandoned \in SUBSET Given
    BY ToolTypeParts
  <1>2. proc' \in [Calls -> ProcType]
    BY <1>1
  <1>3. ASSUME NEW d \in abandoned' PROVE d \in Given'
    <2>1. CASE d = c
      BY <2>1, <1>1, <1>3 DEF Given
    <2>2. CASE d # c
      BY <2>2, <1>1, <1>3 DEF Given
    <2> QED
      BY <2>1, <2>2
  <1> QED
    BY <1>2, <1>3, ToolTypeParts

\* The steps of the call in hand, by phase and outcome.
LEMMA CallMoves ==
    ASSUME ToolTypeOK, NEW phase \in Phases, NEW outcome \in Outcomes
    PROVE  /\ [call EXCEPT !.phase = phase] \in CallType
           /\ [call EXCEPT !.phase = phase, !.outcome = outcome] \in CallType
           /\ \A target \in 0..MaxDeltas :
                 [call EXCEPT !.phase = phase, !.outcome = outcome, !.target = target] \in CallType
  BY ToolTypeParts DEF CallType
-----------------------------------------------------------------------------
(* What the steps do to a chain of deltas.                                 *)

\* A step of the chain of call c, after which it has these fields.
ChainMoves(c, queued, busy, done, failed) ==
    /\ chain' \in [Calls -> ChainType]
    /\ \A d \in Calls \ {c} : chain'[d] = chain[d]
    /\ chain'[c] = [queued |-> queued, busy |-> busy, done |-> done, failed |-> failed]

\* An update of one chain with values of the right types.
LEMMA ChainUpdate ==
    ASSUME ToolTypeOK, NEW c \in Calls, NEW r \in ChainType,
           chain' = [chain EXCEPT ![c] = r]
    PROVE  ChainMoves(c, r.queued, r.busy, r.done, r.failed)
  <1>1. chain \in [Calls -> ChainType]
    BY ToolTypeParts
  <1>2. chain' \in [Calls -> ChainType] /\ chain'[c] = r
        /\ \A d \in Calls \ {c} : chain'[d] = chain[d]
    BY <1>1
  <1>3. r = [queued |-> r.queued, busy |-> r.busy, done |-> r.done, failed |-> r.failed]
    BY DEF ChainType
  <1> QED
    BY <1>2, <1>3 DEF ChainMoves

\* A chunk of output is put on the chain.
LEMMA ChainGrows ==
    ASSUME ToolTypeOK, NEW c \in Calls, Emitted(c) < MaxDeltas,
           chain' = [chain EXCEPT ![c].queued = @ + 1]
    PROVE  ChainMoves(c, chain[c].queued + 1, chain[c].busy, chain[c].done, chain[c].failed)
  <1> DEFINE r == [chain[c] EXCEPT !.queued = chain[c].queued + 1]
  <1>1. chain[c] \in ChainType
    BY ToolTypeParts
  <1>2. chain[c].queued + 1 \in 0..MaxDeltas
    BY ToolFields, ToolAssumption DEF Emitted
  <1>3. /\ r \in ChainType
        /\ r.queued = chain[c].queued + 1 /\ r.busy = chain[c].busy
        /\ r.done = chain[c].done /\ r.failed = chain[c].failed
    BY <1>1, <1>2 DEF ChainType
  <1>4. chain' = [chain EXCEPT ![c] = r]
    OBVIOUS
  <1> HIDE DEF r
  <1> QED
    BY <1>3, <1>4, ChainUpdate

\* More output leaves the rest of every chain as it is.
LEMMA GrowthKeepsBusy ==
    ASSUME ToolTypeOK, NEW c \in Calls,
           chain' = chain \/ chain' = [chain EXCEPT ![c].queued = @ + 1]
    PROVE  /\ \A d \in Calls \ {c} : chain'[d] = chain[d]
           /\ \A d \in Calls : /\ chain'[d].busy = chain[d].busy
                               /\ chain'[d].done = chain[d].done
                               /\ chain'[d].failed = chain[d].failed
  <1>1. chain \in [Calls -> ChainType]
    BY ToolTypeParts
  <1>2. CASE chain' = [chain EXCEPT ![c].queued = @ + 1]
    <2>1. chain'[c] = [chain[c] EXCEPT !.queued = chain[c].queued + 1]
          /\ \A d \in Calls \ {c} : chain'[d] = chain[d]
      BY <1>1, <1>2
    <2>2. chain[c] \in ChainType
      BY <1>1
    <2>3. /\ chain'[c].busy = chain[c].busy /\ chain'[c].done = chain[c].done
          /\ chain'[c].failed = chain[c].failed
      BY <2>1, <2>2 DEF ChainType
    <2> QED
      BY <2>1, <2>3
  <1> QED
    BY <1>2

\* The chain commits its next delta.
LEMMA ChainCommits ==
    ASSUME ToolTypeOK, NEW c \in Calls, ChainEmits(c)
    PROVE  /\ chain[c].queued > 0 /\ ~chain[c].busy /\ ~chain[c].failed
           /\ ChainMoves(c, chain[c].queued - 1, TRUE, chain[c].done, chain[c].failed)
  <1> DEFINE r == [chain[c] EXCEPT !.queued = chain[c].queued - 1, !.busy = TRUE]
  <1>1. chain[c] \in ChainType
    BY ToolTypeParts
  <1>2. chain[c].queued > 0 /\ chain[c].queued - 1 \in 0..MaxDeltas
    BY ToolFields, ToolAssumption DEF ChainEmits
  <1>3. /\ r \in ChainType
        /\ r.queued = chain[c].queued - 1 /\ r.busy = TRUE
        /\ r.done = chain[c].done /\ r.failed = chain[c].failed
    BY <1>1, <1>2 DEF ChainType
  <1>4. chain' = [chain EXCEPT ![c] = r]
    BY DEF ChainEmits
  <1> HIDE DEF r
  <1> QED
    BY <1>2, <1>3, <1>4, ChainUpdate DEF ChainEmits

\* The store answers the delta the chain is busy with.
LEMMA ChainAnswered ==
    ASSUME ToolTypeOK, NEW c \in Calls, NEW ok \in BOOLEAN, DeltaAnswered(c, ok),
           Emitted(c) <= MaxDeltas, chain[c].busy
    PROVE  \/ ok /\ ChainMoves(c, chain[c].queued, FALSE, chain[c].done + 1, FALSE)
           \/ ~ok /\ ChainMoves(c, 0, FALSE, chain[c].done, TRUE)
  <1>1. chain[c] \in ChainType
    BY ToolTypeParts
  <1>2. chain[c].done + 1 \in 0..MaxDeltas /\ 0 \in 0..MaxDeltas
    BY ToolFields, ToolAssumption DEF Emitted
  <1>3. CASE ok
    <2> DEFINE r == [chain[c] EXCEPT !.busy = FALSE, !.done = chain[c].done + 1,
                                     !.queued = chain[c].queued, !.failed = FALSE]
    <2>1. /\ r \in ChainType
          /\ r.queued = chain[c].queued /\ r.busy = FALSE
          /\ r.done = chain[c].done + 1 /\ r.failed = FALSE
      BY <1>1, <1>2 DEF ChainType
    <2>2. chain' = [chain EXCEPT ![c] = r]
      BY <1>3 DEF DeltaAnswered
    <2> HIDE DEF r
    <2> QED
      BY <1>3, <2>1, <2>2, ChainUpdate
  <1>4. CASE ~ok
    <2> DEFINE r == [chain[c] EXCEPT !.busy = FALSE, !.done = chain[c].done,
                                     !.queued = 0, !.failed = TRUE]
    <2>1. /\ r \in ChainType
          /\ r.queued = 0 /\ r.busy = FALSE
          /\ r.done = chain[c].done /\ r.failed = TRUE
      BY <1>1, <1>2 DEF ChainType
    <2>2. chain' = [chain EXCEPT ![c] = r]
      BY <1>4 DEF DeltaAnswered
    <2> HIDE DEF r
    <2> QED
      BY <1>4, <2>1, <2>2, ChainUpdate
  <1> QED
    BY <1>3, <1>4
-----------------------------------------------------------------------------
\* The store's answer keeps the types.
LEMMA ToolTypesAnswer ==
    ASSUME EngineBase, ToolTypeOK, FlightInv, ChainInv, StoreAnswers
    PROVE  ToolTypeOK'
  <1> DEFINE c == Head(inflight)
             d == c.event.detail.call
  <1>1. PICK ok \in BOOLEAN : inflight # <<>> /\ ToolAnswered(ok)
    BY StoreShape
  <1>2. c = inflight[1] /\ 1 \in DOMAIN inflight
    BY <1>1, TakeFromQueue DEF EngineBase, TypeInv
  <1>3. CASE UNCHANGED toolVars
    BY <1>3, CallMoves, ToolTypeParts DEF toolVars, CallTypes, Given
  <1>4. CASE c.by = "tool" /\ c.event.detail.kind = "delta" /\ DeltaAnswered(d, ok)
    <2>1. d \in Calls /\ chain[d].busy /\ Emitted(d) <= MaxDeltas
      BY <1>2, <1>4 DEF FlightInv, Expected, IsDelta, ChainInv
    <2>2. chain' \in [Calls -> ChainType]
      BY <1>4, <2>1, ChainAnswered DEF ChainMoves
    <2>3. crashed' \in BOOLEAN
      BY <1>4, Zenon DEF DeltaAnswered
    <2> QED
      BY <1>4, <2>2, <2>3, ChainTypes, ToolTypeParts DEF DeltaAnswered
  <1>5. CASE CallAnswered(ok) /\ c.by = "tool" /\ ~IsDelta(c)
    <2>1. call.phase \in Reporting
      BY <1>2, <1>5 DEF FlightInv, Expected
    <2>2. AfterOk[call.phase] \in Phases /\ "threw" \in Phases
      BY <2>1 DEF AfterOk, Reporting, Phases
    <2>3. call' \in CallType
      BY <1>5, <2>2, ToolTypeParts DEF CallAnswered, CallType
    <2> QED
      BY <1>5, <2>3, CallTypes DEF CallAnswered
  <1> QED
    BY <1>1, <1>3, <1>4, <1>5 DEF ToolAnswered, IsDelta

\* A process that is given up.
LEMMA GiveUpTypes ==
    ASSUME ToolTypeOK, ChainInv, NEW c \in Calls, GiveUp(c)
    PROVE  ToolTypeOK'
  <1> DEFINE p == [proc[c] EXCEPT !.state = "killed"]
  <1>1. p \in ProcType /\ p.state = "killed" /\ proc' = [proc EXCEPT ![c] = p]
    BY ToolTypeParts DEF ProcType, GiveUp
  <1>2. Emitted(c) \in 0..MaxDeltas
    BY ToolFields, ToolAssumption DEF ChainInv
  <1>3. call' \in CallType
    BY <1>2, CallMoves DEF GiveUp, Settled, Phases, Outcomes
  <1> HIDE DEF p
  <1> QED
    BY <1>1, <1>3, ProcTypes DEF GiveUp

\* Every step keeps the types.
LEMMA ToolTypesStep ==
    ASSUME EngineBase, ToolTypeOK, CallInv, FlightInv, ChainInv, [ToolNext]_allVars
    PROVE  ToolTypeOK'
  <1> USE ToolAssumption, EngineAssumption
  <1>1. TypeOK /\ turn.id \in 0..MaxTurns /\ call.phase \in Phases /\ call.outcome \in Outcomes
        /\ call \in CallType
    BY ToolTypeParts DEF EngineBase, TypeInv, TypeOK, CallType
  <1>2. call.phase # "idle" => call.id \in Calls
    BY DEF CallInv
  <1>3. UNCHANGED toolVars => ToolTypeOK'
    BY ToolTypeParts DEF toolVars, Given
  <1>4. CASE EngineStep \/ UNCHANGED allVars
    BY <1>3, <1>4 DEF EngineStep, allVars
  <1>5. CASE StoreAnswers
    BY <1>5, ToolTypesAnswer
  <1>6. ASSUME NEW named \in 0..MaxTurns, CancelWithTools(named) PROVE ToolTypeOK'
    BY <1>2, <1>3, <1>6, GiveUpTypes DEF CancelWithTools
  <1>7. CASE BeginCall
    <2>1. PICK tool \in Tools :
            /\ call' = [NoCall EXCEPT !.id = calls + 1, !.tool = tool,
                          !.phase = IF tool = "unknown" THEN "ending" ELSE "requesting",
                          !.outcome = "failed"]
            /\ Report(calls + 1, IF tool = "unknown" THEN "failed" ELSE "requested")
      BY <1>7 DEF BeginCall
    <2>2. calls + 1 \in Calls /\ calls' = calls + 1 /\ calls' \in 0..MaxCalls
      <3>1. calls \in 0..MaxCalls /\ calls < MaxCalls /\ calls' = calls + 1
        BY <1>7, ToolTypeParts DEF BeginCall
      <3> QED
        BY <3>1 DEF Calls
    <2>3. call' \in CallType
      <3>1. PICK phase \in {"ending", "requesting"} :
              call' = [NoCall EXCEPT !.id = calls + 1, !.tool = tool, !.phase = phase,
                                     !.outcome = "failed"]
        BY <2>1
      <3>2. call' = [id |-> calls + 1, tool |-> tool, phase |-> phase, outcome |-> "failed",
                     target |-> 0]
        BY <3>1 DEF NoCall
      <3>3. calls + 1 \in 0..MaxCalls /\ phase \in Phases /\ "failed" \in Outcomes
            /\ 0 \in 0..MaxDeltas
        BY <2>2 DEF Calls, Phases, Outcomes
      <3> QED
        BY <3>2, <3>3 DEF CallType
    <2>4. collected' \in [TurnIds -> Seq(Calls)]
      <3>1. <<>> \in Seq(Calls) /\ collected \in [TurnIds -> Seq(Calls)]
            /\ collected' = [collected EXCEPT ![turn.id] = <<>>]
        BY <1>7, ToolTypeParts DEF BeginCall
      <3> QED
        BY <3>1
    <2> QED
      BY <1>7, <2>2, <2>3, <2>4, ToolTypeParts DEF BeginCall, Given
  <1>8. CASE Decide \/ Approve \/ Gate
    <2>1. call' \in CallType
      BY <1>1, <1>8, CallMoves DEF Decide, Approve, Gate, Phases, Outcomes
    <2> QED
      BY <1>8, <2>1, CallTypes DEF Decide, Approve, Gate
  <1>9. CASE Spawn
    <2> DEFINE p == [state |-> "running", listens |-> ~turn.aborted, turn |-> turn.id]
    <2>1. call' \in CallType /\ call.id \in Calls /\ call.id \notin abandoned
      BY <1>1, <1>2, <1>9, CallMoves DEF Spawn, Phases, CallInv, Before, Fresh
    <2>2. p \in ProcType /\ p.state = "running"
      BY <1>1 DEF ProcType
    <2>3. proc' = [proc EXCEPT ![call.id] = p]
      BY <1>9 DEF Spawn
    <2> HIDE DEF p
    <2> QED
      BY <1>9, <2>1, <2>2, <2>3, ProcTypes DEF Spawn
  <1>10. CASE ExecuteAtOnce
    <2> DEFINE p == [proc[call.id] EXCEPT !.turn = turn.id]
    <2>1. call.id \in Calls /\ call.id \notin abandoned /\ Emitted(call.id) = 0
      <3>1. call.id \in Calls /\ Fresh(call.id)
        BY <1>2, <1>10 DEF ExecuteAtOnce, CallInv, Before
      <3> QED
        BY <3>1 DEF Fresh, NoChain, Emitted
    <2>2. call' \in CallType
      <3>1. "draining" \in Phases /\ {"ok", "failed"} \in SUBSET Outcomes
        BY DEF Phases, Outcomes
      <3>2. PICK outcome \in Outcomes, target \in {0, 1} :
              (target = 1 => MaxDeltas > 0) /\ Settled(outcome, target)
        BY <1>10, <3>1 DEF ExecuteAtOnce
      <3>3. target \in 0..MaxDeltas
        BY <3>2
      <3> QED
        BY <3>1, <3>2, <3>3, CallMoves DEF Settled
    <2>3. p \in ProcType
      <3>1. proc[call.id] \in ProcType
        BY <2>1, ToolTypeParts
      <3> QED
        BY <1>1, <3>1 DEF ProcType
    <2>4. proc' \in [Calls -> ProcType]
      BY <1>10, <2>3, ToolTypeParts DEF ExecuteAtOnce
    <2>5. \A c \in Calls : c # call.id => proc'[c] = proc[c]
      BY <1>10, <2>1, ToolTypeParts DEF ExecuteAtOnce
    <2>6. abandoned' \in SUBSET Given'
      BY <1>10, <2>1, <2>5, ToolTypeParts DEF ExecuteAtOnce, Given
    <2>7. chain' \in [Calls -> ChainType]
      BY <1>10, <2>1, ChainGrows, ToolTypeParts DEF ExecuteAtOnce, ChainMoves
    <2> QED
      BY <1>10, <2>2, <2>4, <2>6, <2>7, ToolTypeParts DEF ExecuteAtOnce
  <1>11. ASSUME NEW c \in Calls, ChainEmits(c) PROVE ToolTypeOK'
    <2>1. proc[c].turn \in TurnIds
      BY <1>1, <1>11, DetailTyped, HandlerSubmits DEF ChainEmits
    <2>2. collected' \in [TurnIds -> Seq(Calls)]
      BY <1>11, <2>1, ToolTypeParts DEF ChainEmits
    <2> QED
      BY <1>11, <2>2, ChainCommits, ChainTypes, ToolTypeParts DEF ChainEmits, ChainMoves
  <1>12. CASE Drained
    BY <1>1, <1>12, CallMoves, CallTypes DEF Drained, Phases
  <1>13. NoCall \in CallType
    BY DEF NoCall, CallType, Phases, Outcomes, Tools
  <1>14. CASE ReturnResult
    <2>1. turn.id \in TurnIds /\ call.id \in Calls
      BY <1>2, <1>14, SlotTyped DEF ReturnResult, HandlerReturns, EngineBase
    <2>2. results' \in [Calls -> Seq(Calls)]
      BY <1>14, <2>1, ToolTypeParts DEF ReturnResult
    <2> QED
      BY <1>13, <1>14, <2>2, ToolTypeParts DEF ReturnResult, Given
  <1>15. CASE ThrowFailure
    BY <1>13, <1>15, CallTypes DEF ThrowFailure
  <1>16. ASSUME NEW c \in Calls, ProcessWrites(c) PROVE ToolTypeOK'
    <2>1. crashed' \in BOOLEAN
      BY <1>16, ToolTypeParts, Zenon DEF ProcessWrites
    <2>2. chain' \in [Calls -> ChainType]
      BY <1>16, ChainGrows, ToolTypeParts DEF ProcessWrites, ChainMoves
    <2> QED
      BY <1>1, <1>16, <2>1, <2>2, ChainTypes, ToolTypeParts DEF ProcessWrites
  <1>17. ASSUME NEW c \in Calls, ProcessCloses(c) PROVE ToolTypeOK'
    <2> DEFINE p == [proc[c] EXCEPT !.state = "closed", !.listens = FALSE]
    <2>1. p \in ProcType /\ p.state = "closed"
      BY ToolTypeParts DEF ProcType
    <2>2. proc' = [proc EXCEPT ![c] = p]
      BY <1>17 DEF ProcessCloses
    <2>3. Emitted(c) \in 0..MaxDeltas
      BY ToolFields DEF ChainInv
    <2>4. call' \in CallType
      <3>1. "draining" \in Phases /\ {"ok", "failed"} \in SUBSET Outcomes
        BY DEF Phases, Outcomes
      <3>2. call' = call \/ \E outcome \in Outcomes : Settled(outcome, Emitted(c))
        BY <1>17, <3>1 DEF ProcessCloses
      <3>3. ASSUME NEW outcome \in Outcomes, NEW target \in 0..MaxDeltas,
                   Settled(outcome, target)
            PROVE  call' \in CallType
        BY <3>1, <3>3, CallMoves DEF Settled
      <3> QED
        BY <1>1, <2>3, <3>2, <3>3
    <2> HIDE DEF p
    <2> QED
      BY <1>17, <2>1, <2>2, <2>4, ProcTypes DEF ProcessCloses
  <1>18. CASE Timeout
    BY <1>2, <1>18, GiveUpTypes DEF Timeout
  <1> QED
    BY <1>4, <1>5, <1>6, <1>7, <1>8, <1>9, <1>10, <1>11, <1>12, <1>14, <1>15, <1>16, <1>17,
       <1>18 DEF ToolNext, Dispatch
-----------------------------------------------------------------------------
(* The call in hand.                                                       *)

\* A step of the call in hand that touches no process and no chain.
LEMMA CallGoesOn ==
    ASSUME ToolTypeOK, CallInv, UNCHANGED <<turn, proc, chain, calls, abandoned>>,
           call.phase # "idle", call'.id = call.id, call'.phase # "idle",
           call'.phase \in Before => call.phase \in Before,
           call'.phase \in {"resolving", "resolved"} => call'.outcome \in {"allowed", "denied"},
           call'.phase = "executing" => call.id \notin abandoned,
           call'.phase \in {"draining", "ending"} /\ call'.outcome = "ok" =>
              call.id \notin abandoned
    PROVE  CallInv'
  BY DEF CallInv, Fresh

\* A step of processes and chains, of calls begun whose executor has run.
LEMMA OutputGoesOn ==
    ASSUME ToolTypeOK, CallInv, UNCHANGED <<turn, calls>>, NEW d \in Calls, ~Fresh(d),
           \A c \in Calls \ {d} : proc'[c] = proc[c] /\ chain'[c] = chain[c],
           abandoned' \in {abandoned, abandoned \cup {d}},
           \/ call' = call /\ abandoned' = abandoned
           \/ /\ call'.id = call.id /\ call.id = d /\ call'.phase = "draining"
              /\ call.phase = "executing"
              /\ call'.outcome = "ok" => abandoned' = abandoned
    PROVE  CallInv'
  <1>1. \A c \in Calls : Fresh(c) => c # d /\ Fresh(c)'
    BY DEF Fresh
  <1>2. d <= calls
    BY <1>1, ToolTypeParts DEF CallInv, Calls
  <1> HIDE DEF Fresh
  <1>3. CASE call' = call /\ abandoned' = abandoned
    BY <1>1, <1>3 DEF CallInv, Before
  <1>4. CASE /\ call'.id = call.id /\ call.id = d /\ call'.phase = "draining"
             /\ call.phase = "executing"
             /\ call'.outcome = "ok" => abandoned' = abandoned
    BY <1>1, <1>4 DEF CallInv, Before
  <1> QED
    BY <1>3, <1>4

\* A process that runs, or a chain that has deltas, is not that of a fresh call.
LEMMA NotFresh ==
    ASSUME NEW c \in Calls, Fresh(c)
    PROVE  proc[c].state = "none" /\ ~Coming(c) /\ c \notin abandoned /\ ~chain[c].failed
  BY DEF Fresh, NoChain, Coming

\* The store's answer keeps the invariant of the call.
LEMMA CallInvAnswer ==
    ASSUME EngineBase, ToolTypeOK, CallInv, FlightInv, ChainInv, StoreAnswers
    PROVE  CallInv'
  <1> DEFINE c == Head(inflight)
             d == c.event.detail.call
  <1>1. PICK ok \in BOOLEAN : /\ inflight # <<>> /\ ToolAnswered(ok)
                              /\ c.by = "tool" => UNCHANGED turn
                              /\ c.by # "tool" => turn.at # "handle"
    BY StoreShape
  <1>2. c = inflight[1] /\ 1 \in DOMAIN inflight
    BY <1>1, TakeFromQueue DEF EngineBase, TypeInv
  <1>3. CASE c.by # "tool" /\ UNCHANGED toolVars
    BY <1>1, <1>3 DEF CallInv, toolVars, Fresh
  <1>4. CASE c.by = "tool" /\ c.event.detail.kind = "delta" /\ DeltaAnswered(d, ok)
    <2>1. d \in Calls /\ chain[d].busy /\ Emitted(d) <= MaxDeltas
      BY <1>2, <1>4 DEF FlightInv, Expected, IsDelta, ChainInv
    <2>2. \A e \in Calls \ {d} : chain'[e] = chain[e]
      BY <1>4, <2>1, ChainAnswered DEF ChainMoves
    <2>3. ~Fresh(d)
      BY <2>1, NotFresh DEF Coming
    <2> QED
      BY <1>1, <1>4, <2>1, <2>2, <2>3, OutputGoesOn DEF DeltaAnswered
  <1>5. CASE CallAnswered(ok) /\ c.by = "tool" /\ ~IsDelta(c)
    <2>1. call.phase \in Reporting
      BY <1>2, <1>5 DEF FlightInv, Expected
    <2>2. /\ call'.id = call.id /\ call'.outcome = call.outcome
          /\ call'.phase \in {AfterOk[call.phase], "threw"}
      BY <1>5, ToolTypeParts DEF CallAnswered, CallType
    <2>3. /\ call'.phase \notin {"idle", "executing", "draining", "ending"}
          /\ call'.phase \in Before => call.phase \in Before
          /\ call'.phase \in {"resolving", "resolved"} => call.phase = "resolving"
      BY <2>1, <2>2 DEF AfterOk, Reporting, Before
    <2>4. call.phase # "idle"
      BY <2>1 DEF Reporting
    <2>5. call.phase = "resolving" => call.outcome \in {"allowed", "denied"}
      BY DEF CallInv
    <2> QED
      BY <1>1, <1>5, <2>2, <2>3, <2>4, <2>5, CallGoesOn DEF CallAnswered, Quiet
  <1> QED
    BY <1>1, <1>3, <1>4, <1>5 DEF ToolAnswered, IsDelta

\* Every step keeps the invariant of the call.
LEMMA CallInvStep ==
    ASSUME EngineBase, ToolTypeOK, CallInv, FlightInv, ChainInv, [ToolNext]_allVars
    PROVE  CallInv'
  <1> USE ToolAssumption, EngineAssumption
  <1>1. TypeOK /\ turn \in TurnType /\ call \in CallType
    BY ToolTypeParts, SlotTyped DEF EngineBase, TypeInv
  <1>2. call.phase # "idle" => call.id \in Calls
    BY DEF CallInv
  <1>3. UNCHANGED toolVars /\ turn'.at = turn.at => CallInv'
    BY DEF toolVars, CallInv, Fresh
  <1>4. CASE EngineStep \/ UNCHANGED allVars
    <2>1. CASE UNCHANGED allVars
      BY <1>3, <2>1 DEF allVars, vars
    <2>2. CASE EngineStep
      <3>1. call.phase = "idle" /\ UNCHANGED toolVars
        BY <2>2, EngineShape
      <3> QED
        BY <3>1 DEF toolVars, CallInv, Fresh, Before
    <2> QED
      BY <1>4, <2>1, <2>2
  <1>5. CASE StoreAnswers
    BY <1>5, CallInvAnswer
  \* the process of the call in hand is given up
  <1>6. ASSUME GiveUp(call.id), call.phase = "executing", turn'.at = turn.at
        PROVE  CallInv'
    <2>1. /\ call'.id = call.id /\ call'.phase = "draining" /\ call'.outcome = "failed"
      BY <1>1, <1>6 DEF GiveUp, Settled, CallType
    <2>2. \A c \in Calls : Fresh(c) /\ c > calls => Fresh(c)'
      <3>1. call.id = calls /\ call.id \in Calls
        BY <1>6 DEF CallInv
      <3>2. \A c \in Calls \ {call.id} : proc'[c] = proc[c]
        BY <1>6, <3>1, ToolTypeParts DEF GiveUp
      <3>3. chain' = chain /\ abandoned' = abandoned \cup {call.id}
        BY <1>6 DEF GiveUp
      <3>4. \A c \in Calls : c > calls => c # call.id
        BY <3>1, ToolTypeParts DEF Calls
      <3> QED
        BY <3>2, <3>3, <3>4 DEF Fresh
    <2>3. calls' = calls
      BY <1>6 DEF GiveUp
    <2> QED
      BY <1>6, <2>1, <2>2, <2>3 DEF CallInv, Before
  <1>7. ASSUME NEW named \in 0..MaxTurns, CancelWithTools(named) PROVE CallInv'
    <2>1. turn'.at = turn.at
      BY <1>1, <1>7 DEF CancelWithTools, CancelTurn, TurnType
    <2> QED
      BY <1>3, <1>6, <1>7, <2>1 DEF CancelWithTools
  <1>8. CASE BeginCall
    <2>1. PICK tool \in Tools :
            /\ call' = [NoCall EXCEPT !.id = calls + 1, !.tool = tool,
                          !.phase = IF tool = "unknown" THEN "ending" ELSE "requesting",
                          !.outcome = "failed"]
            /\ Report(calls + 1, IF tool = "unknown" THEN "failed" ELSE "requested")
      BY <1>8 DEF BeginCall
    <2>2. PICK phase \in {"ending", "requesting"} :
            call' = [NoCall EXCEPT !.id = calls + 1, !.tool = tool, !.phase = phase,
                                   !.outcome = "failed"]
      BY <2>1
    <2>3. call'.id = calls + 1 /\ call'.phase = phase /\ call'.outcome = "failed"
      BY <2>2 DEF NoCall
    <2>4. calls + 1 \in Calls /\ calls' = calls + 1 /\ turn.at = "handle" /\ calls \in Nat
      <3>1. calls \in 0..MaxCalls /\ calls < MaxCalls /\ calls' = calls + 1 /\ turn.at = "handle"
        BY <1>8, ToolTypeParts DEF BeginCall
      <3> QED
        BY <3>1 DEF Calls
    <2>5. UNCHANGED <<turn, proc, chain, abandoned>>
      BY <1>8, <2>1 DEF BeginCall, Report, HandlerCommits
    <2>6. \A c \in Calls : c > calls => Fresh(c)
      BY DEF CallInv
    <2>7. \A c \in Calls : Fresh(c)' <=> Fresh(c)
      BY <2>5 DEF Fresh
    <2>8. \A c \in Calls : c >= calls' => Fresh(c)'
      BY <2>4, <2>6, <2>7 DEF Calls
    <2>9. \A c \in Calls : c = call'.id => Fresh(c)'
      BY <2>3, <2>4, <2>8
    <2> HIDE DEF Fresh
    <2>10. call'.id \in Calls /\ call'.id = calls' /\ turn'.at = "handle"
           /\ call'.phase \in {"ending", "requesting"} /\ call'.outcome = "failed"
      BY <2>3, <2>4, <2>5
    <2>11. Fresh(call.id)'
      BY <2>9, <2>10 DEF Fresh
    <2>12. \A c \in Calls : c > calls' => Fresh(c)'
      BY <2>4, <2>8 DEF Calls
    <2> QED
      BY <2>10, <2>11, <2>12 DEF CallInv
  <1>9. CASE Decide \/ Approve \/ Gate \/ Drained
    <2>1. /\ UNCHANGED turn
          /\ UNCHANGED <<proc, chain, calls, abandoned>>
      BY <1>9 DEF Decide, Approve, Gate, Drained, Quiet, Report, HandlerCommits, vars
    <2>2. /\ call'.id = call.id /\ call.phase \notin {"idle", "executing"}
          /\ \/ /\ call.phase \in {"requested", "asking"} /\ call'.phase = "resolving"
                /\ call'.outcome \in {"allowed", "denied"}
             \/ call.phase = "requested" /\ call'.phase = "asking"
             \/ call.phase = "resolved" /\ call'.phase = "ending" /\ call'.outcome = "denied"
             \/ call.phase = "resolved" /\ call'.phase = "starting"
             \/ call.phase = "draining" /\ call'.phase = "ending" /\ call'.outcome = call.outcome
      BY <1>1, <1>9 DEF Decide, Approve, Gate, Drained, CallType
    <2>3. call.phase = "draining" /\ call.outcome = "ok" => call.id \notin abandoned
      BY DEF CallInv
    <2> QED
      BY <2>1, <2>2, <2>3, CallGoesOn DEF Before
  <1>10. CASE Spawn \/ ExecuteAtOnce
    <2>1. /\ call.phase = "started" /\ UNCHANGED <<turn, calls, abandoned>>
          /\ call'.id = call.id /\ call'.phase \in {"executing", "draining"}
      BY <1>1, <1>10 DEF Spawn, ExecuteAtOnce, Settled, CallType, vars
    <2>2. call.id \in Calls /\ call.id = calls /\ call.id \notin abandoned /\ turn.at = "handle"
      BY <2>1 DEF CallInv, Before, Fresh
    <2>3. \A c \in Calls \ {call.id} : proc'[c] = proc[c] /\ chain'[c] = chain[c]
      BY <1>10, <2>2, ToolTypeParts DEF Spawn, ExecuteAtOnce
    <2>4. \A c \in Calls : c > calls => Fresh(c)'
      <3>1. \A c \in Calls : c > calls => c # call.id /\ Fresh(c)
        BY <2>2, ToolTypeParts DEF CallInv, Calls
      <3> QED
        BY <2>1, <2>3, <3>1 DEF Fresh
    <2> QED
      BY <2>1, <2>2, <2>4 DEF CallInv, Before
  <1>11. ASSUME NEW c \in Calls, ChainEmits(c) PROVE CallInv'
    <2>1. UNCHANGED <<turn, calls, call, abandoned, proc>>
      BY <1>11 DEF ChainEmits, HandlerCommits
    <2>2. ~Fresh(c) /\ \A d \in Calls \ {c} : chain'[d] = chain[d]
      BY <1>11, ChainCommits, NotFresh DEF Coming, ChainMoves
    <2> QED
      BY <2>1, <2>2, OutputGoesOn
  <1>12. CASE ReturnResult \/ ThrowFailure
    <2>1. call' = NoCall /\ UNCHANGED <<proc, chain, calls, abandoned>>
      BY <1>12 DEF ReturnResult, ThrowFailure, Quiet
    <2>2. call'.phase = "idle"
      BY <2>1 DEF NoCall
    <2> QED
      BY <2>1, <2>2 DEF CallInv, Fresh, Before
  <1>13. ASSUME NEW c \in Calls, ProcessWrites(c) \/ ProcessCloses(c) PROVE CallInv'
    <2>1. UNCHANGED <<turn, calls, abandoned>>
      BY <1>13 DEF ProcessWrites, ProcessCloses, vars
    <2>2. ~Fresh(c)
      BY <1>13, NotFresh DEF ProcessWrites, ProcessCloses
    <2>3. \A d \in Calls \ {c} : proc'[d] = proc[d] /\ chain'[d] = chain[d]
      BY <1>13, ToolTypeParts DEF ProcessWrites, ProcessCloses
    <2>4. \/ call' = call
          \/ /\ call'.id = call.id /\ call.id = c /\ call'.phase = "draining"
             /\ call.phase = "executing"
      BY <1>1, <1>13 DEF ProcessWrites, ProcessCloses, Settled, Executing, CallType
    <2> QED
      BY <2>1, <2>2, <2>3, <2>4, OutputGoesOn
  <1>14. CASE Timeout
    BY <1>6, <1>14 DEF Timeout, vars
  <1> QED
    BY <1>4, <1>5, <1>7, <1>8, <1>9, <1>10, <1>11, <1>12, <1>13, <1>14 DEF ToolNext, Dispatch
-----------------------------------------------------------------------------
(* The appends of the handler in flight.                                   *)

\* While the dispatch awaits no event of its own, only deltas are in flight, and
\* they stay expected as long as their chains are busy.
LEMMA DeltasExpected ==
    ASSUME call.phase \notin Reporting,
           \A c \in Calls : chain[c].busy => chain'[c].busy
    PROVE  \A x : Expected(x) => IsDelta(x) /\ Expected(x)'
  BY DEF Expected, IsDelta

\* What is expected stays so while the call in hand does not move.
LEMMA StayExpected ==
    ASSUME UNCHANGED <<call, abandoned>>, \A c \in Calls : chain[c].busy => chain'[c].busy
    PROVE  \A x : Expected(x) => Expected(x)'
  BY DEF Expected, IsDelta, Reported

\* Neither an append nor an answer.
LEMMA FlightSame ==
    ASSUME FlightInv, UNCHANGED inflight, \A x : Expected(x) => Expected(x)'
    PROVE  FlightInv'
  BY DEF FlightInv, Twins, IsDelta

\* One more append.
LEMMA FlightGrows ==
    ASSUME TypeOK, FlightInv, NEW e \in Requested, inflight' = Append(inflight, e),
           \A x : Expected(x) => Expected(x)',
           e.by # "tool" => e.event.type # "tool",
           e.by = "tool" => Expected(e)',
           \A i \in DOMAIN inflight : ~Twins(inflight[i], e)
    PROVE  FlightInv'
  <1>1. /\ DOMAIN inflight' = DOMAIN inflight \cup {Len(inflight) + 1}
        /\ inflight'[Len(inflight) + 1] = e
        /\ \A i \in DOMAIN inflight : inflight'[i] = inflight[i]
    BY AppendToQueue
  <1>2. \A i \in DOMAIN inflight' : inflight'[i].by # "tool" => inflight'[i].event.type # "tool"
    BY <1>1 DEF FlightInv
  <1>3. \A i \in DOMAIN inflight' : inflight'[i].by = "tool" => Expected(inflight[i])'
    <2>1. ASSUME NEW i \in DOMAIN inflight, inflight[i].by = "tool" PROVE Expected(inflight[i])
      BY <2>1 DEF FlightInv
    <2>2. ASSUME NEW i \in DOMAIN inflight', inflight'[i].by = "tool"
          PROVE  \E x : x = inflight'[i] /\ Expected(x)'
      BY <1>1, <2>1, <2>2
    <2>3. ASSUME NEW i \in DOMAIN inflight', NEW x, x = inflight'[i], Expected(x)'
          PROVE  Expected(inflight[i])'
      BY <2>3 DEF Expected, IsDelta
    <2> QED
      BY <2>2, <2>3
  <1>4. \A x, y : Twins(x, y) <=> Twins(y, x)
    BY DEF Twins
  <1>5. ASSUME NEW i \in DOMAIN inflight', NEW j \in DOMAIN inflight', Twins(inflight'[i], inflight'[j])
        PROVE  i = j
    BY <1>1, <1>4, <1>5 DEF FlightInv
  <1>6. \A i, j \in DOMAIN inflight' : Twins(inflight[i], inflight[j])' => i = j
    BY <1>5 DEF Twins, IsDelta
  <1> QED
    BY <1>2, <1>3, <1>6 DEF FlightInv

\* The handler appends one more, of a kind that none in flight has of its call.
LEMMA FlightReports ==
    ASSUME TypeOK, FlightInv, NEW e \in Requested, inflight' = Append(inflight, e),
           e.by = "tool", ~IsDelta(e), call.phase \notin Reporting,
           call'.phase \in Reporting, call'.id \in Calls,
           e.event.detail.call = call'.id, e.event.detail.kind \in Reported',
           \A c \in Calls : chain[c].busy => chain'[c].busy
    PROVE  FlightInv'
  <1>1. \A x : Expected(x) => IsDelta(x) /\ Expected(x)'
    BY DeltasExpected
  <1>2. \A i \in DOMAIN inflight : ~Twins(inflight[i], e)
    BY <1>1 DEF FlightInv, Twins
  <1>3. Expected(e)'
    BY DEF Expected, IsDelta
  <1> QED
    BY <1>1, <1>2, <1>3, FlightGrows

\* The generator's or createSession's append.
LEMMA FlightOthers ==
    ASSUME TypeOK, FlightInv, OthersAppend, \A x : Expected(x) => Expected(x)'
    PROVE  FlightInv'
  <1>1. ASSUME NEW e \in Requested, e.by # "tool", e.event.type # "tool",
               inflight' = Append(inflight, e)
        PROVE  FlightInv'
    BY <1>1, FlightGrows DEF Twins
  <1> QED
    BY <1>1, FlightSame DEF OthersAppend

\* The store has answered the oldest append.
LEMMA FlightShrinks ==
    ASSUME TypeOK, FlightInv, inflight # <<>>,
           \/ inflight' = Tail(inflight)
           \/ \E e \in Requested : /\ e.by # "tool" /\ e.event.type # "tool"
                                   /\ inflight' = Append(Tail(inflight), e),
           \A x : Expected(x) /\ x.by = "tool" /\ ~Twins(x, Head(inflight)) => Expected(x)'
    PROVE  FlightInv'
  <1>1. /\ Head(inflight) = inflight[1] /\ 1 \in DOMAIN inflight
        /\ Len(inflight) \in Nat /\ DOMAIN inflight = 1..Len(inflight)
        /\ Tail(inflight) \in Seq(Requested)
        /\ DOMAIN Tail(inflight) = 1..(Len(inflight) - 1)
        /\ \A i \in 1..(Len(inflight) - 1) : Tail(inflight)[i] = inflight[i + 1]
    BY TakeFromQueue
  \* every append in flight is an older one, moved up, or not the handler's
  <1>2. ASSUME NEW i \in DOMAIN inflight'
        PROVE  \/ /\ i \in 1..(Len(inflight) - 1) /\ inflight'[i] = inflight[i + 1]
                  /\ i + 1 \in DOMAIN inflight /\ i + 1 # 1
               \/ inflight'[i].by # "tool" /\ inflight'[i].event.type # "tool"
    <2>1. CASE inflight' = Tail(inflight)
      BY <1>1, <2>1
    <2>2. ASSUME NEW e \in Requested, e.by # "tool", e.event.type # "tool",
                 inflight' = Append(Tail(inflight), e)
          PROVE  \/ i \in 1..(Len(inflight) - 1) /\ inflight'[i] = inflight[i + 1]
                 \/ inflight'[i].by # "tool" /\ inflight'[i].event.type # "tool"
      <3>1. PICK q \in Seq(Requested) : q = Tail(inflight)
        BY <1>1
      <3>2. Len(q) = Len(inflight) - 1
        BY <1>1, <3>1, HeadTailProperties DEF TypeOK, Requested
      <3>3. inflight' = Append(q, e) /\ \A n \in 1..Len(q) : q[n] = inflight[n + 1]
        BY <1>1, <2>2, <3>1, <3>2
      <3>4. /\ DOMAIN inflight' = 1..(Len(q) + 1) /\ inflight'[Len(q) + 1] = e
            /\ \A n \in 1..Len(q) : inflight'[n] = q[n]
        BY <2>2, <3>1, <3>3, AppendProperties
      <3>5. i \in 1..Len(q) \/ i = Len(q) + 1
        <4>1. Len(q) \in Nat
          BY <3>1
        <4> QED
          BY <1>2, <3>4, <4>1
      <3> QED
        BY <2>2, <3>2, <3>3, <3>4, <3>5
    <2> QED
      BY <1>1, <2>1, <2>2
  <1>3. \A i \in DOMAIN inflight' : inflight'[i].by # "tool" => inflight'[i].event.type # "tool"
    BY <1>2 DEF FlightInv
  <1>4. ASSUME NEW i \in DOMAIN inflight', inflight'[i].by = "tool" PROVE Expected(inflight[i])'
    <2>1. inflight'[i] = inflight[i + 1] /\ i + 1 \in DOMAIN inflight /\ i + 1 # 1
      BY <1>2, <1>4
    <2>2. PICK x : x = inflight[i + 1]
      OBVIOUS
    <2>3. Expected(x) /\ x.by = "tool" /\ ~Twins(x, Head(inflight))
      BY <1>1, <1>4, <2>1, <2>2 DEF FlightInv
    <2>4. Expected(x)' /\ x = inflight'[i]
      BY <2>1, <2>2, <2>3
    <2> QED
      BY <2>4 DEF Expected, IsDelta
  <1>5. ASSUME NEW i \in DOMAIN inflight', NEW j \in DOMAIN inflight', Twins(inflight'[i], inflight'[j])
        PROVE  i = j
    <2>1. inflight'[i].by = "tool" /\ inflight'[j].by = "tool"
      BY <1>5 DEF Twins
    <2>2. /\ inflight'[i] = inflight[i + 1] /\ i + 1 \in DOMAIN inflight
          /\ inflight'[j] = inflight[j + 1] /\ j + 1 \in DOMAIN inflight
          /\ i \in 1..(Len(inflight) - 1) /\ j \in 1..(Len(inflight) - 1)
      BY <1>2, <2>1
    <2>3. i + 1 = j + 1
      BY <1>5, <2>2 DEF FlightInv
    <2> QED
      BY <1>1, <2>2, <2>3
  <1>6. \A i, j \in DOMAIN inflight' : Twins(inflight[i], inflight[j])' => i = j
    BY <1>5 DEF Twins, IsDelta
  <1> QED
    BY <1>3, <1>4, <1>6 DEF FlightInv

\* The store's answer keeps what is expected of the appends in flight.
LEMMA FlightInvAnswer ==
    ASSUME EngineBase, ToolTypeOK, FlightInv, ChainInv, StoreAnswers
    PROVE  FlightInv'
  <1> DEFINE c == Head(inflight)
             d == c.event.detail.call
  <1>1. PICK ok \in BOOLEAN :
          /\ inflight # <<>> /\ ToolAnswered(ok)
          /\ \/ inflight' = Tail(inflight)
             \/ \E e \in Requested : /\ e.by # "tool" /\ e.event.type # "tool"
                                     /\ inflight' = Append(Tail(inflight), e)
    BY StoreShape
  <1>2. c = inflight[1] /\ 1 \in DOMAIN inflight /\ TypeOK
    BY <1>1, TakeFromQueue DEF EngineBase, TypeInv
  <1>3. CASE UNCHANGED toolVars
    <2>1. \A x : Expected(x) => Expected(x)'
      BY <1>3, StayExpected DEF toolVars
    <2> QED
      BY <1>1, <1>2, <2>1, FlightShrinks
  <1>4. CASE c.by = "tool" /\ c.event.detail.kind = "delta" /\ DeltaAnswered(d, ok)
    <2>1. d \in Calls /\ chain[d].busy /\ Emitted(d) <= MaxDeltas
      BY <1>2, <1>4 DEF FlightInv, Expected, IsDelta, ChainInv
    <2>2. \A e \in Calls \ {d} : chain'[e] = chain[e]
      BY <1>4, <2>1, ChainAnswered DEF ChainMoves
    <2>3. UNCHANGED <<call, abandoned>>
      BY <1>4 DEF DeltaAnswered
    <2>4. ASSUME NEW x, Expected(x), x.by = "tool", ~Twins(x, c) PROVE Expected(x)'
      <3>1. IsDelta(x) => x.event.detail.call # d
        BY <1>4, <2>4 DEF Twins, IsDelta
      <3> QED
        BY <2>2, <2>3, <2>4, <3>1 DEF Expected, IsDelta, Reported
    <2> QED
      BY <1>1, <1>2, <2>4, FlightShrinks
  <1>5. CASE CallAnswered(ok) /\ c.by = "tool" /\ ~IsDelta(c)
    <2>1. d = call.id /\ chain' = chain
      BY <1>2, <1>5 DEF FlightInv, Expected, CallAnswered, Quiet
    <2>2. ASSUME NEW x, Expected(x), x.by = "tool", ~Twins(x, c) PROVE Expected(x)'
      <3>1. IsDelta(x)
        BY <1>5, <2>1, <2>2 DEF Expected, Twins
      <3> QED
        BY <2>1, <2>2, <3>1 DEF Expected, IsDelta
    <2> QED
      BY <1>1, <1>2, <2>2, FlightShrinks
  <1> QED
    BY <1>1, <1>3, <1>4, <1>5 DEF ToolAnswered, IsDelta

\* The dispatch commits an event of its call.
LEMMA ReportKeepsFlight ==
    ASSUME TypeOK, FlightInv, NEW c \in Calls,
           NEW kind \in {"requested", "allowed", "denied", "started", "completed", "failed"},
           Report(c, kind), call.phase \notin Reporting, call'.phase \in Reporting,
           call'.id = c, kind \in Reported', UNCHANGED chain
    PROVE  FlightInv'
  <1> DEFINE detail == [call |-> c, kind |-> kind]
  <1>1. detail \in Detail /\ detail.call = c /\ detail.kind = kind /\ kind # "delta"
    BY DetailTyped
  <1>2. HandlerCommits(turn.id, detail)
    BY DEF Report
  <1> HIDE DEF detail
  <1>3. PICK e \in Requested :
          inflight' = Append(inflight, e) /\ e.by = "tool" /\ e.event.detail = detail
    BY <1>1, <1>2, HandlerSubmits
  <1>4. ~IsDelta(e) /\ e.event.detail.call = call'.id /\ e.event.detail.kind \in Reported'
    BY <1>1, <1>3 DEF IsDelta
  <1> QED
    BY <1>3, <1>4, FlightReports

\* Every step keeps what is expected of the appends in flight.
LEMMA FlightInvStep ==
    ASSUME EngineBase, ToolTypeOK, CallInv, FlightInv, ChainInv, [ToolNext]_allVars
    PROVE  FlightInv'
  <1> USE ToolAssumption, EngineAssumption
  <1>1. TypeOK /\ call \in CallType
    BY ToolTypeParts DEF EngineBase, TypeInv
  <1>2. call.phase # "idle" => call.id \in Calls
    BY DEF CallInv
  <1>3. ASSUME call.phase \notin Reporting, UNCHANGED inflight,
               \A c \in Calls : chain[c].busy => chain'[c].busy
        PROVE  FlightInv'
    BY <1>3, DeltasExpected, FlightSame
  <1>4. CASE UNCHANGED allVars
    <2>1. UNCHANGED <<inflight, call, abandoned, chain>>
      BY <1>4 DEF allVars, vars, store, toolVars
    <2> QED
      BY <2>1, StayExpected, FlightSame
  <1>5. CASE EngineStep
    <2>1. OthersAppend /\ UNCHANGED <<call, abandoned, chain>>
      BY <1>5, EngineShape DEF toolVars
    <2> QED
      BY <1>1, <2>1, StayExpected, FlightOthers
  <1>6. CASE StoreAnswers
    BY <1>6, FlightInvAnswer
  <1>7. ASSUME NEW named \in 0..MaxTurns, CancelWithTools(named) PROVE FlightInv'
    <2>1. UNCHANGED inflight
      BY <1>7 DEF CancelWithTools, CancelTurn, store
    <2>2. CASE call.phase = "executing" /\ GiveUp(call.id)
      BY <1>3, <2>1, <2>2 DEF Reporting, GiveUp
    <2>3. CASE UNCHANGED toolVars
      BY <2>1, <2>3, StayExpected, FlightSame DEF toolVars
    <2> QED
      BY <1>7, <2>2, <2>3 DEF CancelWithTools
  <1>8. CASE BeginCall
    <2>1. PICK tool \in Tools, phase \in {"ending", "requesting"}, kind \in {"failed", "requested"} :
            /\ call' = [NoCall EXCEPT !.id = calls + 1, !.tool = tool, !.phase = phase,
                                      !.outcome = "failed"]
            /\ Report(calls + 1, kind)
            /\ phase = "ending" <=> kind = "failed"
      BY <1>8 DEF BeginCall
    <2>2. call'.id = calls + 1 /\ call'.phase = phase
      BY <2>1 DEF NoCall
    <2>3. call.phase = "idle" /\ UNCHANGED chain /\ calls + 1 \in Calls
      <3>1. calls \in 0..MaxCalls /\ calls < MaxCalls /\ call.phase = "idle" /\ UNCHANGED chain
        BY <1>8, ToolTypeParts DEF BeginCall
      <3> QED
        BY <3>1 DEF Calls
    <2>4. kind \in Reported'
      BY <2>1, <2>2 DEF Reported
    <2> QED
      BY <1>1, <2>1, <2>2, <2>3, <2>4, ReportKeepsFlight DEF Reporting
  <1>9. CASE Decide \/ Approve
    <2>1. UNCHANGED chain /\ call'.id = call.id /\ call.phase \in {"requested", "asking"}
      BY <1>1, <1>9 DEF Decide, Approve, Quiet, CallType
    <2>2. ASSUME NEW outcome \in {"allowed", "denied"}, Report(call.id, outcome),
                 call' = [call EXCEPT !.phase = "resolving", !.outcome = outcome]
          PROVE  FlightInv'
      <3>1. call'.phase = "resolving" /\ call'.outcome = outcome
        BY <1>1, <2>2 DEF CallType
      <3>2. outcome \in Reported'
        BY <3>1 DEF Reported
      <3> QED
        BY <1>1, <1>2, <2>1, <2>2, <3>1, <3>2, ReportKeepsFlight DEF Reporting
    <2>3. CASE UNCHANGED vars
      BY <1>3, <2>1, <2>3 DEF Reporting, vars, store
    <2> QED
      BY <1>9, <2>2, <2>3 DEF Decide, Approve
  <1>10. CASE Gate
    <2>1. UNCHANGED chain /\ call.phase = "resolved"
      BY <1>10 DEF Gate, Quiet
    <2>2. PICK phase \in {"ending", "starting"}, kind \in {"failed", "started"} :
            /\ call' = [call EXCEPT !.phase = phase] /\ Report(call.id, kind)
            /\ phase = "ending" <=> kind = "failed"
      BY <1>10 DEF Gate
    <2>3. call'.phase = phase /\ call'.id = call.id
      BY <1>1, <2>2 DEF CallType
    <2>4. kind \in Reported'
      BY <2>2, <2>3 DEF Reported
    <2> QED
      BY <1>1, <1>2, <2>1, <2>2, <2>3, <2>4, ReportKeepsFlight DEF Reporting
  <1>11. CASE Drained
    <2>1. UNCHANGED <<chain, abandoned>> /\ call.phase = "draining"
      BY <1>11 DEF Drained, Quiet
    <2>2. PICK kind \in {"completed", "failed"} :
            /\ call' = [call EXCEPT !.phase = "ending"] /\ Report(call.id, kind)
            /\ kind = "completed" => call.outcome = "ok"
      BY <1>11 DEF Drained
    <2>3. call'.phase = "ending" /\ call'.id = call.id
      BY <1>1, <2>2 DEF CallType
    <2>4. kind = "completed" => call.id \notin abandoned
      BY <2>1, <2>2 DEF CallInv
    <2>5. kind \in Reported'
      BY <2>1, <2>3, <2>4 DEF Reported
    <2> QED
      BY <1>1, <1>2, <2>1, <2>2, <2>3, <2>5, ReportKeepsFlight DEF Reporting
  <1>12. CASE Spawn \/ ExecuteAtOnce
    <2>1. call.phase = "started" /\ UNCHANGED inflight
      BY <1>12 DEF Spawn, ExecuteAtOnce, vars, store
    <2>2. \A c \in Calls : chain'[c].busy = chain[c].busy
      BY <1>2, <1>12, <2>1, GrowthKeepsBusy DEF Spawn, ExecuteAtOnce
    <2> QED
      BY <1>3, <2>1, <2>2 DEF Reporting
  <1>13. ASSUME NEW c \in Calls, ChainEmits(c) PROVE FlightInv'
    <2> DEFINE detail == [call |-> c, kind |-> "delta"]
    <2>1. detail \in Detail /\ detail.call = c /\ detail.kind = "delta"
      BY DetailTyped
    <2>2. HandlerCommits(proc[c].turn, detail) /\ UNCHANGED <<call, abandoned>>
      BY <1>13 DEF ChainEmits
    <2> HIDE DEF detail
    <2>3. PICK e \in Requested :
            inflight' = Append(inflight, e) /\ e.by = "tool" /\ e.event.detail = detail
      BY <1>1, <2>1, <2>2, HandlerSubmits
    <2>4. ~chain[c].busy /\ chain'[c].busy /\ \A d \in Calls \ {c} : chain'[d] = chain[d]
      <3>1. ~chain[c].busy /\ ChainMoves(c, chain[c].queued - 1, TRUE, chain[c].done, chain[c].failed)
        BY <1>13, ChainCommits
      <3> QED
        BY <3>1 DEF ChainMoves
    <2>5. \A x : Expected(x) => Expected(x)'
      BY <2>2, <2>4, StayExpected
    <2>6. Expected(e)'
      BY <2>1, <2>3, <2>4 DEF Expected, IsDelta
    <2>7. \A i \in DOMAIN inflight : ~Twins(inflight[i], e)
      BY <2>1, <2>3, <2>4 DEF FlightInv, Twins, Expected, IsDelta
    <2> QED
      BY <1>1, <2>3, <2>5, <2>6, <2>7, FlightGrows
  <1>14. CASE ReturnResult \/ ThrowFailure
    <2>1. call.phase \notin Reporting /\ UNCHANGED chain /\ OthersAppend
      BY <1>1, <1>14, HandleEnds DEF ReturnResult, ThrowFailure, Quiet, Reporting
    <2> QED
      BY <1>1, <2>1, DeltasExpected, FlightOthers
  <1>15. ASSUME NEW c \in Calls, ProcessWrites(c) \/ ProcessCloses(c) PROVE FlightInv'
    <2>1. UNCHANGED <<inflight, abandoned>> /\ \A d \in Calls : chain'[d].busy = chain[d].busy
      BY <1>15, GrowthKeepsBusy DEF ProcessWrites, ProcessCloses, vars, store
    <2>2. CASE call' = call
      BY <2>1, <2>2, StayExpected, FlightSame
    <2>3. CASE call.phase = "executing"
      BY <1>3, <2>1, <2>3 DEF Reporting
    <2> QED
      BY <1>15, <2>2, <2>3 DEF ProcessWrites, ProcessCloses, Executing
  <1>16. CASE Timeout
    BY <1>3, <1>16 DEF Timeout, GiveUp, Reporting, vars, store
  <1> QED
    BY <1>4, <1>5, <1>6, <1>7, <1>8, <1>9, <1>10, <1>11, <1>12, <1>13, <1>14, <1>15,
       <1>16 DEF ToolNext, Dispatch
-----------------------------------------------------------------------------
(* The chains of deltas.                                                   *)

\* What a chain holds after it has moved.
LEMMA MovedChain ==
    ASSUME ToolTypeOK, NEW c \in Calls, NEW queued \in Nat, NEW busy \in BOOLEAN, NEW done \in Nat,
           NEW failed \in BOOLEAN, ChainMoves(c, queued, busy, done, failed)
    PROVE  /\ Emitted(c)' = queued + done + (IF busy THEN 1 ELSE 0)
           /\ Coming(c)' <=> queued > 0 \/ busy
           /\ chain'[c].failed <=> failed
           /\ \A d \in Calls \ {c} : /\ Emitted(d)' = Emitted(d) /\ (Coming(d)' <=> Coming(d))
                                     /\ chain'[d].failed = chain[d].failed
  <1>1. /\ chain'[c].queued = queued /\ chain'[c].busy = busy
        /\ chain'[c].done = done /\ chain'[c].failed = failed
    BY DEF ChainMoves
  <1>2. \A d \in Calls \ {c} : chain'[d] = chain[d]
    BY DEF ChainMoves
  <1>3. Emitted(c)' = queued + done + (IF busy THEN 1 ELSE 0)
    BY <1>1 DEF Emitted
  <1>4. Coming(c)' <=> queued > 0 \/ busy
    BY <1>1 DEF Coming
  <1>5. \A d \in Calls \ {c} : /\ Emitted(d)' = Emitted(d) /\ (Coming(d)' <=> Coming(d))
                               /\ chain'[d].failed = chain[d].failed
    BY <1>2 DEF Emitted, Coming
  <1> QED
    BY <1>1, <1>3, <1>4, <1>5

\* A step between the executions of calls.
LEMMA ChainsRest ==
    ASSUME ChainInv, UNCHANGED <<chain, proc, abandoned>>,
           call' = call \/ (call.phase \notin Awaited /\ call'.phase \notin Awaited)
    PROVE  ChainInv'
  <1>1. \A c \in Calls : Emitted(c)' = Emitted(c) /\ (Coming(c)' <=> Coming(c))
    BY DEF Emitted, Coming
  <1>2. CASE call' = call
    BY <1>2 DEF ChainInv, Emitted, Coming, Awaited
  <1>3. CASE call.phase \notin Awaited /\ call'.phase \notin Awaited
    BY <1>1, <1>3 DEF ChainInv, Awaited
  <1> QED
    BY <1>2, <1>3

\* A step of one chain that leaves what it emitted, or that fails it.
LEMMA ChainGoesOn ==
    ASSUME ToolTypeOK, CallInv, ChainInv, UNCHANGED <<call, proc, abandoned>>, NEW c \in Calls,
           NEW queued \in Nat, NEW busy \in BOOLEAN, NEW done \in Nat, NEW failed \in BOOLEAN,
           ChainMoves(c, queued, busy, done, failed), Coming(c),
           queued + done + (IF busy THEN 1 ELSE 0) <= MaxDeltas,
           failed => queued = 0 /\ ~busy,
           ~failed => queued + done + (IF busy THEN 1 ELSE 0) = Emitted(c) /\ ~chain[c].failed
    PROVE  ChainInv'
  <1>1. /\ Emitted(c)' = queued + done + (IF busy THEN 1 ELSE 0)
        /\ Coming(c)' <=> queued > 0 \/ busy
        /\ chain'[c].failed <=> failed
        /\ \A d \in Calls \ {c} : /\ Emitted(d)' = Emitted(d) /\ (Coming(d)' <=> Coming(d))
                                  /\ chain'[d].failed = chain[d].failed
    BY MovedChain
  <1>2. \A d \in Calls : Emitted(d)' <= MaxDeltas
    BY <1>1 DEF ChainInv
  <1>3. \A d \in Calls : chain'[d].failed => ~Coming(d)'
    BY <1>1 DEF ChainInv
  <1>4. \A d \in Calls : Coming(d)' => d \in abandoned \/ (d = call.id /\ call.phase \in Awaited)
    BY <1>1 DEF ChainInv
  <1>5. ASSUME call.phase = "draining", call.id \notin abandoned, ~chain'[call.id].failed
        PROVE  call.target = Emitted(call.id)'
    <2>1. PICK d \in Calls : d = call.id
      BY <1>5 DEF CallInv
    <2>2. call.target = Emitted(d)'
      BY <1>1, <1>5, <2>1 DEF ChainInv
    <2> QED
      BY <2>1, <2>2 DEF Emitted
  <1>6. \A d \in Calls : proc[d].state \in {"running", "killed"} =>
           d \in abandoned \/ (d = call.id /\ call.phase = "executing")
    BY DEF ChainInv
  <1> QED
    BY <1>2, <1>3, <1>4, <1>5, <1>6 DEF ChainInv

\* The process of the call in hand is given up: its deltas may still come.
LEMMA GiveUpKeepsChains ==
    ASSUME ToolTypeOK, CallInv, ChainInv, call.phase = "executing", GiveUp(call.id)
    PROVE  ChainInv'
  <1>1. call.id \in Calls /\ call \in CallType /\ proc \in [Calls -> ProcType]
    BY ToolTypeParts DEF CallInv
  <1>2. /\ call'.id = call.id /\ call'.phase = "draining"
        /\ UNCHANGED chain /\ abandoned' = abandoned \cup {call.id}
    BY <1>1 DEF GiveUp, Settled, CallType
  <1>3. \A c \in Calls : Emitted(c)' = Emitted(c) /\ (Coming(c)' <=> Coming(c))
    BY <1>2 DEF Emitted, Coming
  <1>4. \A c \in Calls \ {call.id} : proc'[c] = proc[c]
    BY <1>1 DEF GiveUp
  <1>5. \A c \in Calls : proc'[c].state \in {"running", "killed"} => c \in abandoned'
    BY <1>2, <1>4 DEF ChainInv
  <1>6. \A c \in Calls : Coming(c)' => c \in abandoned'
    BY <1>2, <1>3 DEF ChainInv
  <1>7. \A c \in Calls : Emitted(c)' <= MaxDeltas /\ (chain'[c].failed => ~Coming(c)')
    BY <1>2, <1>3 DEF ChainInv
  <1> QED
    BY <1>2, <1>5, <1>6, <1>7 DEF ChainInv

\* Output of a process that has not closed.
LEMMA WritesKeepChains ==
    ASSUME ToolTypeOK, CallInv, ChainInv, NEW c \in Calls, ProcessWrites(c)
    PROVE  ChainInv'
  <1>1. /\ c \in abandoned \/ (c = call.id /\ call.phase = "executing")
        /\ UNCHANGED <<call, proc, abandoned>>
    BY DEF ProcessWrites, ChainInv
  <1>2. CASE UNCHANGED chain
    BY <1>1, <1>2, ChainsRest
  <1>3. CASE ~chain[c].failed /\ chain' = [chain EXCEPT ![c].queued = @ + 1]
    <2>1. Emitted(c) < MaxDeltas /\ MaxDeltas \in Nat
      BY ToolAssumption DEF ProcessWrites
    <2>2. ChainMoves(c, chain[c].queued + 1, chain[c].busy, chain[c].done, chain[c].failed)
      BY <1>3, <2>1, ChainGrows
    <2>3. chain[c].queued + 1 \in Nat /\ chain[c].done \in Nat /\ chain[c].busy \in BOOLEAN
          /\ chain[c].failed \in BOOLEAN /\ chain[c].queued \in Nat
      BY ToolFields
    <2>4. /\ Emitted(c)' = chain[c].queued + 1 + chain[c].done + (IF chain[c].busy THEN 1 ELSE 0)
          /\ ~chain'[c].failed
          /\ \A d \in Calls \ {c} : /\ Emitted(d)' = Emitted(d) /\ (Coming(d)' <=> Coming(d))
                                    /\ chain'[d].failed = chain[d].failed
      BY <1>3, <2>2, <2>3, MovedChain
    <2>5. Emitted(c)' <= MaxDeltas
      BY <2>1, <2>3, <2>4 DEF Emitted
    <2>6. \A d \in Calls : Emitted(d)' <= MaxDeltas /\ (chain'[d].failed => ~Coming(d)')
      BY <2>4, <2>5 DEF ChainInv
    <2>7. \A d \in Calls : Coming(d)' => d \in abandoned \/ (d = call.id /\ call.phase \in Awaited)
      BY <1>1, <2>4 DEF ChainInv, Awaited
    <2>8. ASSUME call.phase = "draining", call.id \notin abandoned, ~chain'[call.id].failed
          PROVE  call.target = Emitted(call.id)'
      <3>1. PICK d \in Calls : d = call.id
        BY <2>8 DEF CallInv
      <3>2. d # c
        BY <1>1, <2>8, <3>1
      <3>3. call.target = Emitted(d)'
        BY <2>4, <2>8, <3>1, <3>2 DEF ChainInv
      <3> QED
        BY <1>1, <3>1, <3>3 DEF Emitted
    <2>9. \A d \in Calls : proc[d].state \in {"running", "killed"} =>
             d \in abandoned \/ (d = call.id /\ call.phase = "executing")
      BY DEF ChainInv
    <2> QED
      BY <1>1, <2>6, <2>7, <2>8, <2>9 DEF ChainInv
  <1> QED
    BY <1>2, <1>3 DEF ProcessWrites

\* The process closes, and its call is settled unless it has been.
LEMMA CloseKeepsChains ==
    ASSUME ToolTypeOK, CallInv, ChainInv, NEW c \in Calls, ProcessCloses(c)
    PROVE  ChainInv'
  <1>1. call \in CallType /\ proc \in [Calls -> ProcType] /\ UNCHANGED <<chain, abandoned>>
    BY ToolTypeParts DEF ProcessCloses
  <1>2. proc'[c].state = "closed" /\ \A d \in Calls \ {c} : proc'[d] = proc[d]
    <2>1. proc' = [proc EXCEPT ![c] = [proc[c] EXCEPT !.state = "closed", !.listens = FALSE]]
      BY DEF ProcessCloses
    <2>2. proc[c] \in ProcType
      BY <1>1
    <2>3. [proc[c] EXCEPT !.state = "closed", !.listens = FALSE].state = "closed"
      BY <2>2 DEF ProcType
    <2> QED
      BY <1>1, <2>1, <2>3
  <1>3. \A d \in Calls : Emitted(d)' = Emitted(d) /\ (Coming(d)' <=> Coming(d))
    BY <1>1 DEF Emitted, Coming
  <1>4. CASE call' = call /\ ~Executing(c)
    <2>1. \A d \in Calls : proc'[d].state \in {"running", "killed"} =>
             d \in abandoned \/ (d = call.id /\ call.phase = "executing")
      BY <1>2 DEF ChainInv
    <2>2. call.phase = "draining" /\ call.id \notin abandoned /\ ~chain[call.id].failed =>
             call.target = Emitted(call.id)'
      BY <1>1, <1>4 DEF ChainInv, Emitted
    <2> QED
      BY <1>1, <1>3, <1>4, <2>1, <2>2 DEF ChainInv
  <1>5. CASE Executing(c) /\ \E outcome \in {"ok", "failed"} : Settled(outcome, Emitted(c))
    <2>1. call.id = c /\ call.phase = "executing"
      BY <1>5 DEF Executing
    <2>2. call'.id = c /\ call'.phase = "draining" /\ call'.target = Emitted(c)
      BY <1>1, <1>5, <2>1 DEF Settled, CallType
    <2>3. \A d \in Calls : proc'[d].state \in {"running", "killed"} => d \in abandoned
      BY <1>2, <2>1 DEF ChainInv
    <2>4. call'.target = Emitted(call.id)'
      BY <1>1, <2>2 DEF Emitted
    <2>5. \A d \in Calls : Coming(d)' => d \in abandoned \/ d = c
      BY <1>3, <2>1 DEF ChainInv
    <2> QED
      BY <1>1, <1>3, <2>2, <2>3, <2>4, <2>5 DEF ChainInv, Awaited
  <1> QED
    BY <1>4, <1>5 DEF ProcessCloses

\* The executor of the call in hand starts a process, or is done at once.
LEMMA ExecutionKeepsChains ==
    ASSUME ToolTypeOK, CallInv, ChainInv, Spawn \/ ExecuteAtOnce
    PROVE  ChainInv'
  <1>1. call \in CallType /\ call.phase = "started" /\ call.id \in Calls /\ Fresh(call.id)
        /\ UNCHANGED abandoned /\ MaxDeltas \in Nat
    BY ToolTypeParts, ToolAssumption DEF Spawn, ExecuteAtOnce, CallInv, Before
  <1>2. PICK c \in Calls : c = call.id
    BY <1>1
  <1>3. Emitted(c) = 0 /\ ~chain[c].failed /\ chain[c].queued = 0 /\ ~chain[c].busy /\ chain[c].done = 0
    BY <1>1, <1>2 DEF Fresh, NoChain, Emitted
  <1>4. \A d \in Calls \ {c} : proc'[d] = proc[d] /\ chain'[d] = chain[d]
    BY <1>2, ToolTypeParts DEF Spawn, ExecuteAtOnce
  <1>5. \A d \in Calls \ {c} : /\ Emitted(d)' = Emitted(d) /\ (Coming(d)' <=> Coming(d))
                               /\ chain'[d].failed = chain[d].failed
    BY <1>4 DEF Emitted, Coming
  <1>6. \A d \in Calls \ {c} :
           /\ Coming(d)' => d \in abandoned
           /\ proc'[d].state \in {"running", "killed"} => d \in abandoned
           /\ Emitted(d)' <= MaxDeltas /\ (chain'[d].failed => ~Coming(d)')
    BY <1>1, <1>4, <1>5 DEF ChainInv, Awaited
  <1>7. CASE Spawn
    <2>1. call'.id = c /\ call'.phase = "executing" /\ UNCHANGED chain
      BY <1>1, <1>2, <1>7 DEF Spawn, CallType
    <2>2. Emitted(c)' = 0 /\ ~chain'[c].failed
      BY <1>3, <2>1 DEF Emitted
    <2> QED
      BY <1>1, <1>6, <2>1, <2>2 DEF ChainInv, Awaited
  <1>8. CASE ExecuteAtOnce
    <2>1. call'.id = c /\ call'.phase = "draining"
      BY <1>1, <1>2, <1>8 DEF ExecuteAtOnce, Settled, CallType
    <2>2. proc'[c].state = "none"
      <3>1. proc[c] \in ProcType /\ proc[c].state = "none" /\ proc \in [Calls -> ProcType]
        BY <1>1, <1>2, ToolTypeParts DEF Fresh
      <3>2. proc'[c] = [proc[c] EXCEPT !.turn = turn.id]
        BY <1>2, <1>8, <3>1 DEF ExecuteAtOnce
      <3> QED
        BY <3>1, <3>2 DEF ProcType
    <2>3. CASE UNCHANGED chain /\ call'.target = 0
      <3>1. Emitted(c)' = 0 /\ ~chain'[c].failed
        BY <1>3, <2>3 DEF Emitted
      <3>2. Emitted(call.id)' = 0
        BY <2>1, <3>1 DEF Emitted
      <3> QED
        BY <1>1, <1>6, <2>1, <2>2, <2>3, <3>1, <3>2 DEF ChainInv, Awaited
    <2>4. CASE /\ MaxDeltas > 0 /\ chain' = [chain EXCEPT ![c].queued = @ + 1]
               /\ call'.target = 1
      <3>1. ChainMoves(c, chain[c].queued + 1, chain[c].busy, chain[c].done, chain[c].failed)
        BY <1>1, <1>3, <2>4, ChainGrows
      <3>2. /\ chain[c].queued + 1 \in Nat /\ chain[c].done \in Nat
            /\ chain[c].busy \in BOOLEAN /\ chain[c].failed \in BOOLEAN
        BY ToolFields
      <3>3. Emitted(c)' = 1 /\ ~chain'[c].failed
        <4>1. /\ Emitted(c)' = chain[c].queued + 1 + chain[c].done + (IF chain[c].busy THEN 1 ELSE 0)
              /\ chain'[c].failed <=> chain[c].failed
          BY <3>1, <3>2, MovedChain
        <4> QED
          BY <1>3, <4>1
      <3>4. Emitted(call.id)' = 1
        BY <2>1, <3>3 DEF Emitted
      <3> QED
        BY <1>1, <1>6, <2>1, <2>2, <2>4, <3>3, <3>4 DEF ChainInv, Awaited
    <2> QED
      BY <1>1, <1>2, <1>8, <2>3, <2>4 DEF ExecuteAtOnce, Settled, CallType
  <1> QED
    BY <1>7, <1>8

\* Every step keeps the invariant of the chains.
LEMMA ChainInvStep ==
    ASSUME EngineBase, ToolTypeOK, CallInv, FlightInv, ChainInv, [ToolNext]_allVars
    PROVE  ChainInv'
  <1>1. TypeOK /\ call \in CallType
    BY ToolTypeParts DEF EngineBase, TypeInv
  <1>2. UNCHANGED toolVars => ChainInv'
    BY ChainsRest DEF toolVars
  <1>3. CASE EngineStep \/ UNCHANGED allVars
    BY <1>2, <1>3 DEF EngineStep, allVars
  <1>4. CASE StoreAnswers
    <2> DEFINE e == Head(inflight)
               d == e.event.detail.call
    <2>1. PICK ok \in BOOLEAN : inflight # <<>> /\ ToolAnswered(ok)
      BY <1>4, StoreShape
    <2>2. e = inflight[1] /\ 1 \in DOMAIN inflight
      BY <1>1, <2>1, TakeFromQueue
    <2>3. CASE e.by = "tool" /\ e.event.detail.kind = "delta" /\ DeltaAnswered(d, ok)
      <3>1. d \in Calls /\ chain[d].busy /\ Emitted(d) <= MaxDeltas /\ ~chain[d].failed /\ Coming(d)
        BY <2>2, <2>3 DEF FlightInv, Expected, IsDelta, ChainInv, Coming
      <3>2. /\ chain[d].queued \in Nat /\ chain[d].done \in Nat
            /\ Emitted(d) = chain[d].queued + chain[d].done + 1
        BY <3>1, ToolFields, ToolAssumption DEF Emitted
      <3>3. UNCHANGED <<call, proc, abandoned>> /\ MaxDeltas \in Nat
        BY <2>3, ToolAssumption DEF DeltaAnswered
      <3> HIDE DEF d
      <3>4. CASE ChainMoves(d, chain[d].queued, FALSE, chain[d].done + 1, FALSE)
        <4>1. /\ chain[d].done + 1 \in Nat /\ FALSE \in BOOLEAN
              /\ chain[d].queued + (chain[d].done + 1) + (IF FALSE THEN 1 ELSE 0) <= MaxDeltas
              /\ chain[d].queued + (chain[d].done + 1) + (IF FALSE THEN 1 ELSE 0) = Emitted(d)
          BY <3>1, <3>2, <3>3
        <4> QED
          BY <3>1, <3>2, <3>3, <3>4, <4>1, ChainGoesOn, Zenon
      <3>5. CASE ChainMoves(d, 0, FALSE, chain[d].done, TRUE)
        <4>1. /\ 0 \in Nat /\ FALSE \in BOOLEAN /\ TRUE \in BOOLEAN
              /\ 0 + chain[d].done + (IF FALSE THEN 1 ELSE 0) <= MaxDeltas
          BY <3>1, <3>2, <3>3
        <4> QED
          BY <3>1, <3>2, <3>3, <3>5, <4>1, ChainGoesOn, Zenon
      <3> QED
        BY <2>3, <3>1, <3>4, <3>5, ChainAnswered DEF d
    <2>4. CASE CallAnswered(ok) /\ e.by = "tool" /\ ~IsDelta(e)
      <3>1. call.phase \in Reporting
        BY <2>2, <2>4 DEF FlightInv, Expected
      <3>2. call'.phase \in {AfterOk[call.phase], "threw"}
        BY <1>1, <2>4 DEF CallAnswered, CallType
      <3>3. call.phase \notin Awaited /\ call'.phase \notin Awaited
        BY <3>1, <3>2 DEF AfterOk, Reporting, Awaited
      <3> QED
        BY <2>4, <3>3, ChainsRest DEF CallAnswered, Quiet
    <2> QED
      BY <1>2, <2>1, <2>3, <2>4 DEF ToolAnswered, IsDelta
  <1>5. ASSUME NEW named \in 0..MaxTurns, CancelWithTools(named) PROVE ChainInv'
    BY <1>2, <1>5, GiveUpKeepsChains DEF CancelWithTools
  <1>6. CASE BeginCall
    <2>1. PICK tool \in Tools, phase \in {"ending", "requesting"} :
            call' = [NoCall EXCEPT !.id = calls + 1, !.tool = tool, !.phase = phase,
                                   !.outcome = "failed"]
      BY <1>6 DEF BeginCall
    <2>2. call'.phase = phase /\ call.phase = "idle" /\ UNCHANGED <<chain, proc, abandoned>>
      BY <1>6, <2>1 DEF BeginCall, NoCall
    <2> QED
      BY <2>2, ChainsRest DEF Awaited
  <1>7. CASE Decide \/ Approve \/ Gate
    <2>1. /\ call.phase \in {"requested", "asking", "resolved"}
          /\ call'.phase \in {"asking", "resolving", "ending", "starting"}
          /\ UNCHANGED <<chain, proc, abandoned>>
      BY <1>1, <1>7 DEF Decide, Approve, Gate, Quiet, CallType
    <2> QED
      BY <2>1, ChainsRest DEF Awaited
  <1>8. CASE Spawn \/ ExecuteAtOnce
    BY <1>8, ExecutionKeepsChains
  <1>9. ASSUME NEW c \in Calls, ChainEmits(c) PROVE ChainInv'
    <2>1. /\ chain[c].queued > 0 /\ ~chain[c].busy /\ ~chain[c].failed
          /\ ChainMoves(c, chain[c].queued - 1, TRUE, chain[c].done, chain[c].failed)
      BY <1>9, ChainCommits
    <2>2. /\ chain[c].queued - 1 \in Nat /\ chain[c].done \in Nat /\ chain[c].failed \in BOOLEAN
          /\ Emitted(c) = chain[c].queued - 1 + chain[c].done + 1
          /\ Emitted(c) <= MaxDeltas /\ Coming(c)
      BY <2>1, ToolFields DEF Emitted, ChainInv, Coming
    <2>3. UNCHANGED <<call, proc, abandoned>>
      BY <1>9 DEF ChainEmits
    <2> QED
      BY <2>1, <2>2, <2>3, ChainGoesOn
  \* the chain is awaited to its end, so nothing more comes of it
  <1>10. CASE Drained
    <2>1. /\ call.phase = "draining" /\ call'.phase = "ending" /\ call'.id = call.id
          /\ UNCHANGED <<chain, proc, abandoned>>
          /\ chain[call.id].failed \/ chain[call.id].done >= call.target
      BY <1>1, <1>10 DEF Drained, Quiet, CallType
    <2>2. call.id \in Calls
      BY <2>1 DEF CallInv
    <2>3. call.id \in abandoned \/ ~Coming(call.id)
      <3>1. CASE chain[call.id].failed
        BY <2>2, <3>1 DEF ChainInv
      <3>2. CASE /\ call.id \notin abandoned /\ ~chain[call.id].failed
                 /\ chain[call.id].done >= Emitted(call.id)
        BY <2>2, <3>2, ToolFields DEF Emitted, Coming
      <3> QED
        BY <2>1, <3>1, <3>2 DEF ChainInv
    <2>4. \A c \in Calls : Emitted(c)' = Emitted(c) /\ (Coming(c)' <=> Coming(c))
      BY <2>1 DEF Emitted, Coming
    <2>5. \A c \in Calls : Coming(c) => c \in abandoned
      BY <2>3 DEF ChainInv
    <2> QED
      BY <2>1, <2>4, <2>5 DEF ChainInv
  <1>11. CASE ReturnResult \/ ThrowFailure
    <2>1. /\ call.phase \in {"done", "threw"} /\ call'.phase = "idle"
          /\ UNCHANGED <<chain, proc, abandoned>>
      BY <1>11 DEF ReturnResult, ThrowFailure, Quiet, NoCall
    <2> QED
      BY <2>1, ChainsRest DEF Awaited
  <1>12. ASSUME NEW c \in Calls, ProcessWrites(c) \/ ProcessCloses(c) PROVE ChainInv'
    BY <1>12, WritesKeepChains, CloseKeepsChains
  <1>13. CASE Timeout
    BY <1>13, GiveUpKeepsChains DEF Timeout
  <1> QED
    BY <1>3, <1>4, <1>5, <1>6, <1>7, <1>8, <1>9, <1>10, <1>11, <1>12, <1>13
       DEF ToolNext, Dispatch
-----------------------------------------------------------------------------
(* What goes into a result.                                                *)

\* A step that collects nothing and returns nothing.
LEMMA CollectedRest ==
    ASSUME CollectedInv, UNCHANGED <<collected, results>>, abandoned \subseteq abandoned',
           call'.phase # "idle" =>
              call.phase # "idle" /\ call'.id = call.id /\ turn'.id = turn.id
    PROVE  CollectedInv'
  BY DEF CollectedInv, ResultsMixOnlyAbandoned

\* A delta that is collected is one that was still to come.
LEMMA CollectedGrows ==
    ASSUME EngineBase, ToolTypeOK, CallInv, ChainInv, CollectedInv, NEW c \in Calls, ChainEmits(c)
    PROVE  CollectedInv'
  <1>1. TypeOK /\ turn.at = "handle" => turn.id \in TurnIds
    BY SlotTyped DEF EngineBase, TypeInv
  <1>2. PICK k \in TurnIds : k = proc[c].turn
    BY DetailTyped, HandlerSubmits DEF ChainEmits, EngineBase, TypeInv
  <1>3. collected' = [collected EXCEPT ![k] = Append(@, c)]
        /\ UNCHANGED <<call, turn, results, abandoned>>
    BY <1>2 DEF ChainEmits, HandlerCommits
  <1>4. c \in abandoned \/ c = call.id
    BY ChainCommits DEF Coming, ChainInv
  <1>5. collected \in [TurnIds -> Seq(Calls)]
    BY ToolTypeParts
  <1>6. ASSUME call.phase # "idle", NEW i \in DOMAIN collected'[turn.id]
        PROVE  collected'[turn.id][i] = call.id \/ collected'[turn.id][i] \in abandoned
    <2>1. turn.id \in TurnIds
      BY <1>6, SlotTyped DEF CallInv, EngineBase
    <2>2. PICK q \in Seq(Calls) : q = collected[turn.id]
      BY <1>5, <2>1
    <2>3. \A n \in DOMAIN q : q[n] = call.id \/ q[n] \in abandoned
      BY <1>6, <2>2 DEF CollectedInv
    <2>4. CASE k # turn.id
      BY <1>3, <1>5, <1>6, <2>1, <2>2, <2>3, <2>4
    <2>5. CASE k = turn.id
      <3>1. collected'[turn.id] = Append(q, c)
        BY <1>3, <1>5, <2>1, <2>2, <2>5
      <3>2. DOMAIN Append(q, c) = DOMAIN q \cup {Len(q) + 1} /\ Append(q, c)[Len(q) + 1] = c
            /\ \A n \in DOMAIN q : Append(q, c)[n] = q[n]
        BY AppendProperties
      <3> QED
        BY <1>4, <1>6, <2>3, <3>1, <3>2
    <2> QED
      BY <2>4, <2>5
  <1> QED
    BY <1>3, <1>6 DEF CollectedInv, ResultsMixOnlyAbandoned

\* Every step keeps what a turn has collected and what it gave to the model.
LEMMA CollectedInvStep ==
    ASSUME EngineBase, ToolTypeOK, CallInv, FlightInv, ChainInv, CollectedInv,
           [ToolNext]_allVars
    PROVE  CollectedInv'
  <1>1. TypeOK /\ call \in CallType /\ turn \in TurnType
    BY ToolTypeParts, SlotTyped DEF EngineBase, TypeInv
  <1>2. CASE UNCHANGED allVars
    BY <1>2, CollectedRest DEF allVars, vars, toolVars
  <1>3. CASE EngineStep
    BY <1>3, EngineShape, CollectedRest DEF toolVars
  <1>4. CASE StoreAnswers
    <2>1. PICK ok \in BOOLEAN :
            /\ ToolAnswered(ok)
            /\ Head(inflight).by = "tool" => UNCHANGED turn
            /\ Head(inflight).by # "tool" => turn.at # "handle"
            /\ inflight # <<>>
      BY <1>4, StoreShape
    <2>2. CASE Head(inflight).by # "tool"
      <3>1. call.phase = "idle" /\ UNCHANGED toolVars
        BY <2>1, <2>2 DEF CallInv, ToolAnswered
      <3> QED
        BY <3>1, CollectedRest DEF toolVars
    <2>3. CASE Head(inflight).by = "tool" /\ IsDelta(Head(inflight))
      BY <2>1, <2>3, CollectedRest DEF ToolAnswered, IsDelta, DeltaAnswered
    <2>4. CASE Head(inflight).by = "tool" /\ ~IsDelta(Head(inflight))
      <3>1. CallAnswered(ok) /\ UNCHANGED turn
        BY <2>1, <2>4 DEF ToolAnswered, IsDelta
      <3>2. Head(inflight) = inflight[1] /\ 1 \in DOMAIN inflight
        BY <1>1, <2>1, TakeFromQueue
      <3>3. call.phase \in Reporting
        BY <2>4, <3>2 DEF FlightInv, Expected
      <3>4. call'.id = call.id /\ call.phase # "idle"
        BY <1>1, <3>1, <3>3 DEF CallAnswered, CallType, Reporting
      <3> QED
        BY <3>1, <3>4, CollectedRest DEF CallAnswered, Quiet
    <2> QED
      BY <2>2, <2>3, <2>4
  <1>5. ASSUME GiveUp(call.id), call.phase = "executing", turn'.id = turn.id
        PROVE  CollectedInv'
    <2>1. call'.id = call.id
      BY <1>1, <1>5 DEF GiveUp, Settled, CallType
    <2> QED
      BY <1>5, <2>1, CollectedRest DEF GiveUp
  <1>6. ASSUME NEW named \in 0..MaxTurns, CancelWithTools(named) PROVE CollectedInv'
    <2>1. turn'.id = turn.id
      BY <1>1, <1>6 DEF CancelWithTools, CancelTurn, TurnType
    <2>2. CASE UNCHANGED toolVars
      BY <2>1, <2>2, CollectedRest DEF toolVars
    <2> QED
      BY <1>5, <1>6, <2>1, <2>2 DEF CancelWithTools
  <1>7. CASE BeginCall
    <2>1. /\ collected' = [collected EXCEPT ![turn.id] = <<>>] /\ turn.at = "handle"
          /\ UNCHANGED <<results, abandoned, turn>>
      BY <1>7 DEF BeginCall, Report, HandlerCommits
    <2>2. turn.id \in TurnIds /\ collected \in [TurnIds -> Seq(Calls)]
      BY <2>1, SlotTyped, ToolTypeParts DEF EngineBase
    <2>3. collected'[turn'.id] = <<>>
      BY <2>1, <2>2
    <2> QED
      BY <2>1, <2>3 DEF CollectedInv, ResultsMixOnlyAbandoned
  <1>8. CASE Decide \/ Approve \/ Gate \/ Drained
    <2>1. /\ UNCHANGED <<turn, collected, results, abandoned>> /\ call.phase # "idle"
          /\ call'.id = call.id
      BY <1>1, <1>8 DEF Decide, Approve, Gate, Drained, Quiet, Report, HandlerCommits, vars, CallType
    <2> QED
      BY <2>1, CollectedRest
  <1>9. CASE Spawn \/ ExecuteAtOnce
    <2>1. /\ UNCHANGED <<turn, collected, results, abandoned>> /\ call.phase # "idle"
          /\ call'.id = call.id
      BY <1>1, <1>9 DEF Spawn, ExecuteAtOnce, Settled, vars, CallType
    <2> QED
      BY <2>1, CollectedRest
  <1>10. ASSUME NEW c \in Calls, ChainEmits(c) PROVE CollectedInv'
    BY <1>10, CollectedGrows
  <1>11. CASE ReturnResult
    <2>1. /\ results' = [results EXCEPT ![call.id] = collected[turn.id]]
          /\ call'.phase = "idle" /\ call.phase = "done" /\ UNCHANGED abandoned
      BY <1>11 DEF ReturnResult, NoCall
    <2>2. PICK c \in Calls : c = call.id
      BY <2>1 DEF CallInv
    <2>3. results'[c] = collected[turn.id] /\ \A d \in Calls \ {c} : results'[d] = results[d]
      BY <2>1, <2>2, ToolTypeParts
    <2>4. \A i \in DOMAIN collected[turn.id] :
             collected[turn.id][i] = c \/ collected[turn.id][i] \in abandoned
      BY <2>1, <2>2 DEF CollectedInv
    <2> QED
      BY <2>1, <2>3, <2>4 DEF CollectedInv, ResultsMixOnlyAbandoned
  <1>12. CASE ThrowFailure
    <2>1. call'.phase = "idle" /\ UNCHANGED <<collected, results, abandoned>>
      BY <1>12 DEF ThrowFailure, NoCall, Quiet
    <2> QED
      BY <2>1, CollectedRest
  <1>13. ASSUME NEW c \in Calls, ProcessWrites(c) \/ ProcessCloses(c) PROVE CollectedInv'
    <2>1. UNCHANGED <<turn, collected, results, abandoned>>
      BY <1>13 DEF ProcessWrites, ProcessCloses, vars
    <2>2. call' = call \/ (call'.id = call.id /\ call.phase # "idle")
      BY <1>1, <1>13 DEF ProcessWrites, ProcessCloses, Settled, Executing, CallType
    <2> QED
      BY <2>1, <2>2, CollectedRest
  <1>14. CASE Timeout
    BY <1>5, <1>14 DEF Timeout, vars
  <1> QED
    BY <1>2, <1>3, <1>4, <1>6, <1>7, <1>8, <1>9, <1>10, <1>11, <1>12, <1>13, <1>14
       DEF ToolNext, Dispatch
-----------------------------------------------------------------------------
(* What is on file before a process runs.                                  *)

\* Nothing but an answer of the store writes the log.
LEMMA OnlyAnswersWrite ==
    ASSUME EngineBase, ToolTypeOK, CallInv, [ToolNext]_allVars
    PROVE  StoreAnswers \/ UNCHANGED log
  <1>1. TypeOK
    BY DEF EngineBase, TypeInv
  <1>2. CASE EngineStep
    BY <1>2, EngineShape
  <1>3. ASSUME NEW named \in 0..MaxTurns, CancelWithTools(named) PROVE UNCHANGED log
    BY <1>3 DEF CancelWithTools, CancelTurn, store
  <1>4. CASE BeginCall \/ Decide \/ Approve \/ Gate \/ Drained
    BY <1>4 DEF BeginCall, Decide, Approve, Gate, Drained, Report, HandlerCommits, Submit, vars, store
  <1>5. CASE Spawn \/ ExecuteAtOnce \/ Timeout \/ UNCHANGED allVars
    BY <1>5 DEF Spawn, ExecuteAtOnce, Timeout, allVars, vars, store
  <1>6. ASSUME NEW c \in Calls, ChainEmits(c) \/ ProcessWrites(c) \/ ProcessCloses(c)
        PROVE  UNCHANGED log
    BY <1>6 DEF ChainEmits, HandlerCommits, Submit, ProcessWrites, ProcessCloses, vars, store
  <1>7. CASE ReturnResult \/ ThrowFailure
    BY <1>1, <1>7, HandleEnds DEF ReturnResult, ThrowFailure
  <1> QED
    BY <1>2, <1>3, <1>4, <1>5, <1>6, <1>7 DEF ToolNext, Dispatch

\* The handler's append that the store answers is an expected event of its call.
LEMMA HeadOfTool ==
    ASSUME EngineBase, FlightInv, inflight # <<>>, Head(inflight).by = "tool"
    PROVE  /\ Expected(Head(inflight)) /\ Head(inflight).event \in Entry
           /\ Head(inflight).event.detail.call \in Calls
           /\ Head(inflight).event.detail = [call |-> Head(inflight).event.detail.call,
                                             kind |-> Head(inflight).event.detail.kind]
  <1>1. Head(inflight) = inflight[1] /\ 1 \in DOMAIN inflight /\ Head(inflight) \in Requested
    BY TakeFromQueue DEF EngineBase, TypeInv
  <1>2. Expected(Head(inflight))
    BY <1>1 DEF FlightInv
  <1>3. Head(inflight).event \in Entry
    BY <1>1 DEF Requested
  <1>4. Head(inflight).event.detail \in Detail \cup {NoDetail}
    BY <1>3 DEF Entry
  <1>5. Head(inflight).event.detail.call \in Calls
    BY <1>2 DEF Expected
  <1> QED
    BY <1>2, <1>3, <1>4, <1>5 DEF Detail, NoDetail, Calls

\* What is on file stays there.
LEMMA FileGrows ==
    ASSUME TypeOK, NEW e \in Entry, log' = log \/ log' = Append(log, e), NEW c
    PROVE  /\ Allowed(c) => Allowed(c)'
           /\ Audited(c) => Audited(c)'
           /\ log' = Append(log, e) /\ e.type = "tool"
                 /\ e.detail = [call |-> c, kind |-> "allowed"] => Allowed(c)'
           /\ log' = Append(log, e) /\ e.type = "tool"
                 /\ e.detail = [call |-> c, kind |-> "started"] /\ Allowed(c) => Audited(c)'
  <1>1. CASE log' = log
    <2>1. Len(log) \in Nat /\ DOMAIN log = 1..Len(log)
      BY DEF TypeOK
    <2>2. log' # Append(log, e)
      <3>1. ASSUME log' = Append(log, e) PROVE FALSE
        BY <1>1, <2>1, <3>1, LogGrows
      <3> QED
        BY <3>1
    <2> QED
      BY <1>1, <2>2 DEF Allowed, Audited, IsTool
  <1>2. CASE log' = Append(log, e)
    <2>1. /\ Len(log) \in Nat /\ DOMAIN log = 1..Len(log)
          /\ DOMAIN log' = 1..(Len(log) + 1) /\ log'[Len(log) + 1] = e
          /\ \A n \in 1..Len(log) : log'[n] = log[n]
      BY <1>2, LogGrows
    <2>2. PICK top \in DOMAIN log' : top = Len(log) + 1
      BY <2>1
    <2>3. /\ log'[top] = e
          /\ \A n \in DOMAIN log : n \in DOMAIN log' /\ n < top /\ log'[n] = log[n]
      BY <2>1, <2>2
    <2>4. \A n \in DOMAIN log, kind \in {"allowed", "started"} :
             IsTool(n, c, kind) => IsTool(n, c, kind)'
      BY <2>3 DEF IsTool
    <2>5. \A kind : e.type = "tool" /\ e.detail = [call |-> c, kind |-> kind] => IsTool(top, c, kind)'
      BY <2>3 DEF IsTool
    <2>6. Allowed(c) => \E n \in DOMAIN log : IsTool(n, c, "allowed")
      BY DEF Allowed
    <2>7. Allowed(c)' <=> \E n \in DOMAIN log' : IsTool(n, c, "allowed")'
      BY DEF Allowed
    <2>8. Audited(c)' <=> \E i, j \in DOMAIN log' :
                             i < j /\ IsTool(i, c, "allowed")' /\ IsTool(j, c, "started")'
      BY DEF Audited
    <2>9. Audited(c) => \E i, j \in DOMAIN log :
                           i < j /\ IsTool(i, c, "allowed") /\ IsTool(j, c, "started")
      BY DEF Audited
    <2> HIDE DEF IsTool, Allowed, Audited
    <2>10. Allowed(c) => Allowed(c)'
      BY <2>3, <2>4, <2>6, <2>7
    <2>11. Audited(c) => Audited(c)'
      BY <2>3, <2>4, <2>8, <2>9
    <2>12. IsTool(top, c, "allowed")' => Allowed(c)'
      BY <2>2, <2>7
    <2>13. IsTool(top, c, "started")' /\ Allowed(c) => Audited(c)'
      BY <2>2, <2>3, <2>4, <2>6, <2>8
    <2> QED
      BY <2>5, <2>10, <2>11, <2>12, <2>13
  <1> QED
    BY <1>1, <1>2

\* The store's answer puts on file what the next phase of the dispatch needs.
LEMMA AuditInvAnswer ==
    ASSUME EngineBase, ToolTypeOK, CallInv, FlightInv, AuditInv, StoreAnswers
    PROVE  AuditInv'
  <1> DEFINE h == Head(inflight)
             e == h.event
  <1>1. TypeOK /\ call \in CallType
    BY ToolTypeParts DEF EngineBase, TypeInv
  <1>2. PICK ok \in BOOLEAN :
          /\ inflight # <<>> /\ h \in Requested /\ ToolAnswered(ok)
          /\ log' = Append(log, e) \/ (~ok /\ log' = log)
          /\ h.by = "tool" => e.type = "tool"
    BY StoreShape
  <1>3. e \in Entry
    BY <1>2 DEF Requested
  <1> HIDE DEF e
  <1>4. log' = log \/ log' = Append(log, e)
    BY <1>2
  <1>5. \A c : (Allowed(c) => Allowed(c)') /\ (Audited(c) => Audited(c)')
    BY <1>1, <1>3, <1>4, FileGrows
  <1>6. ASSUME UNCHANGED <<call, proc>> PROVE AuditInv'
    <2>1. AuditBeforeEffect'
      BY <1>5, <1>6 DEF AuditInv, AuditBeforeEffect, Audited
    <2>2. \A c : c = call.id => (Allowed(c)' <=> Allowed(call.id)') /\ (Audited(c)' <=> Audited(call.id)')
      BY <1>6 DEF Allowed, Audited, IsTool
    <2> QED
      BY <1>5, <1>6, <2>1, <2>2 DEF AuditInv
  <1>7. CASE h.by # "tool" \/ IsDelta(h)
    BY <1>2, <1>6, <1>7 DEF ToolAnswered, IsDelta, toolVars, DeltaAnswered
  <1>8. CASE h.by = "tool" /\ ~IsDelta(h)
    <2>1. CallAnswered(ok) /\ e.type = "tool" /\ UNCHANGED proc
      BY <1>2, <1>8 DEF ToolAnswered, IsDelta, CallAnswered, Quiet
    <2>2. /\ call.phase \in Reporting /\ e.detail = [call |-> call.id, kind |-> e.detail.kind]
          /\ e.detail.kind \in Reported
      BY <1>2, <1>8, HeadOfTool DEF Expected, e
    <2>3. /\ call'.phase = IF ok THEN AfterOk[call.phase] ELSE "threw"
          /\ call'.id = call.id /\ call'.outcome = call.outcome
      BY <1>1, <2>1 DEF CallAnswered, CallType
    <2>4. PICK c : c = call.id
      OBVIOUS
    <2>5. (Allowed(c)' => Allowed(call.id)') /\ (Audited(c)' => Audited(call.id)')
      BY <2>3, <2>4 DEF Allowed, Audited, IsTool
    <2>6. ASSUME call'.phase = "resolved", call'.outcome = "allowed" PROVE Allowed(c)'
      <3>1. ok /\ call.phase = "resolving" /\ call.outcome = "allowed"
        BY <2>2, <2>3, <2>6 DEF AfterOk, Reporting
      <3>2. e.detail.kind = "allowed"
        BY <2>2, <3>1 DEF Reported
      <3> QED
        BY <1>1, <1>2, <1>3, <1>4, <2>1, <2>2, <2>4, <3>1, <3>2, FileGrows
    <2>7. ASSUME call'.phase = "started" PROVE Audited(c)'
      <3>1. ok /\ call.phase = "starting"
        BY <2>2, <2>3, <2>7 DEF AfterOk, Reporting
      <3>2. e.detail.kind = "started" /\ Allowed(c)
        BY <2>2, <2>4, <3>1 DEF Reported, AuditInv
      <3> QED
        BY <1>1, <1>2, <1>3, <1>4, <2>1, <2>2, <2>4, <3>1, <3>2, FileGrows
    <2>8. call'.phase \notin {"starting", "executing"}
      BY <2>2, <2>3 DEF AfterOk, Reporting
    <2>9. AuditBeforeEffect'
      BY <1>5, <2>1 DEF AuditInv, AuditBeforeEffect, Audited
    <2> QED
      BY <2>5, <2>6, <2>7, <2>8, <2>9 DEF AuditInv
  <1> QED
    BY <1>7, <1>8

\* Every step keeps what has to be on file of the call in hand.
LEMMA AuditInvStep ==
    ASSUME EngineBase, ToolTypeOK, CallInv, FlightInv, AuditInv, [ToolNext]_allVars
    PROVE  AuditInv'
  <1>1. call \in CallType /\ proc \in [Calls -> ProcType]
    BY ToolTypeParts
  <1>2. CASE StoreAnswers
    BY <1>2, AuditInvAnswer
  \* a step after which no more has to be on file than before
  <1>3. ASSUME UNCHANGED log,
               \A c \in Calls : proc'[c].state # "none" => proc[c].state # "none" \/ Audited(c),
               \/ call' = call
               \/ call'.phase \notin {"resolved", "starting", "started", "executing"}
               \/ /\ call'.phase = "starting" /\ call'.id = call.id
                  /\ call.phase = "resolved" /\ call.outcome = "allowed"
               \/ call'.phase = "executing" /\ call'.id = call.id /\ call.phase = "started"
        PROVE  AuditInv'
    <2>1. \A c : (Allowed(c)' <=> Allowed(c)) /\ (Audited(c)' <=> Audited(c))
      BY <1>3 DEF Allowed, Audited, IsTool
    <2>2. \A c \in Calls : proc'[c].state # "none" => Audited(c)'
      BY <1>3, <2>1 DEF AuditInv, AuditBeforeEffect, Audited
    <2>3. AuditBeforeEffect'
      BY <2>2 DEF AuditBeforeEffect, Audited
    <2>4. \A c : c = call'.id => (Allowed(c)' => Allowed(call.id)') /\ (Audited(c)' => Audited(call.id)')
      BY DEF Allowed, Audited, IsTool
    <2> QED
      BY <1>3, <2>1, <2>3, <2>4 DEF AuditInv
  <1>4. ASSUME UNCHANGED <<log, proc>>,
               call' = call \/ call'.phase \notin {"resolved", "starting", "started", "executing"}
        PROVE  AuditInv'
    BY <1>3, <1>4
  <1>5. ASSUME UNCHANGED log, call.phase = "executing", GiveUp(call.id)
        PROVE  AuditInv'
    <2>1. call'.phase = "draining"
      BY <1>1, <1>5 DEF GiveUp, Settled, CallType
    <2>2. \A c \in Calls : c # call.id => proc'[c] = proc[c]
      BY <1>1, <1>5 DEF GiveUp
    <2>3. Audited(call.id)
      BY <1>5 DEF AuditInv
    <2> QED
      BY <1>3, <1>5, <2>1, <2>2, <2>3
  <1>6. CASE UNCHANGED log /\ (EngineStep \/ UNCHANGED allVars)
    BY <1>4, <1>6 DEF EngineStep, allVars, toolVars
  <1>7. ASSUME UNCHANGED log, NEW named \in 0..MaxTurns, CancelWithTools(named) PROVE AuditInv'
    BY <1>4, <1>5, <1>7 DEF CancelWithTools, toolVars
  <1>8. CASE UNCHANGED log /\ BeginCall
    <2>1. PICK tool \in Tools, phase \in {"ending", "requesting"} :
            call' = [NoCall EXCEPT !.id = calls + 1, !.tool = tool, !.phase = phase,
                                   !.outcome = "failed"]
      BY <1>8 DEF BeginCall
    <2>2. call'.phase = phase /\ UNCHANGED proc
      BY <1>8, <2>1 DEF BeginCall, NoCall
    <2> QED
      BY <1>4, <1>8, <2>2
  <1>9. CASE UNCHANGED log /\ (Decide \/ Approve \/ Drained)
    <2>1. UNCHANGED proc /\ call'.phase \in {"resolving", "asking", "ending"}
      BY <1>1, <1>9 DEF Decide, Approve, Drained, Quiet, CallType
    <2> QED
      BY <1>4, <1>9, <2>1
  <1>10. CASE UNCHANGED log /\ Gate
    <2>1. /\ UNCHANGED proc /\ call.phase = "resolved" /\ call'.id = call.id
          /\ call'.phase = "ending" \/ (call'.phase = "starting" /\ call.outcome = "allowed")
      BY <1>1, <1>10 DEF Gate, Quiet, CallType
    <2> QED
      BY <1>3, <1>10, <2>1
  <1>11. CASE UNCHANGED log /\ (Spawn \/ ExecuteAtOnce)
    <2>1. /\ call.phase = "started" /\ call'.id = call.id
          /\ call'.phase \in {"executing", "draining"}
      BY <1>1, <1>11 DEF Spawn, ExecuteAtOnce, Settled, CallType
    <2>2. \A c \in Calls : c # call.id => proc'[c] = proc[c]
      BY <1>1, <1>11 DEF Spawn, ExecuteAtOnce
    <2>3. Audited(call.id)
      BY <2>1 DEF AuditInv
    <2> QED
      BY <1>3, <1>11, <2>1, <2>2, <2>3
  <1>12. ASSUME UNCHANGED log, NEW c \in Calls, ChainEmits(c) \/ ProcessWrites(c)
         PROVE  AuditInv'
    BY <1>4, <1>12 DEF ChainEmits, ProcessWrites
  <1>13. ASSUME UNCHANGED log, NEW c \in Calls, ProcessCloses(c) PROVE AuditInv'
    <2>1. call' = call \/ call'.phase = "draining"
      BY <1>1, <1>13 DEF ProcessCloses, Settled, CallType
    <2>2. proc[c].state # "none" /\ \A d \in Calls \ {c} : proc'[d] = proc[d]
      BY <1>1, <1>13 DEF ProcessCloses
    <2> QED
      BY <1>3, <1>13, <2>1, <2>2
  <1>14. CASE UNCHANGED log /\ (ReturnResult \/ ThrowFailure)
    <2>1. UNCHANGED proc /\ call'.phase = "idle"
      BY <1>14 DEF ReturnResult, ThrowFailure, Quiet, NoCall
    <2> QED
      BY <1>4, <1>14, <2>1
  <1>15. CASE UNCHANGED log /\ Timeout
    BY <1>5, <1>15 DEF Timeout
  <1> QED
    BY <1>2, <1>6, <1>7, <1>8, <1>9, <1>10, <1>11, <1>12, <1>13, <1>14, <1>15,
       OnlyAnswersWrite DEF ToolNext, Dispatch
-----------------------------------------------------------------------------
(* How a call ends on file.                                                *)

\* A step that writes no log and goes on with the call in hand, ends it or
\* begins a new one.
LEMMA TerminalRest ==
    ASSUME ToolTypeOK, TerminalInv, UNCHANGED log, calls' \in {calls, calls + 1},
           \/ call'.id = call.id /\ (call.phase \in {"done", "threw"} => call'.phase = call.phase)
           \/ call'.id \in {0, calls + 1},
           \/ abandoned' = abandoned
           \/ abandoned' = abandoned \cup {call.id} /\ call.phase = "executing"
    PROVE  TerminalInv'
  <1>1. calls \in Nat
    BY ToolTypeParts
  <1>2. ASSUME NEW n \in DOMAIN log, NEW c \in Calls, OfCall(n, c),
               log[n].detail.kind \in {"completed", "failed"}
        PROVE  /\ c <= calls'
               /\ c = call'.id => call'.phase \in {"done", "threw"}
               /\ log[n].detail.kind = "completed" => c \notin abandoned'
    <2>1. /\ c <= calls /\ c \in Nat \ {0}
          /\ c = call.id => call.phase \in {"done", "threw"}
          /\ log[n].detail.kind = "completed" => c \notin abandoned
      BY <1>2 DEF TerminalInv, Calls
    <2> QED
      BY <1>1, <2>1
  <1>3. \A n, c : OfCall(n, c)' <=> OfCall(n, c)
    BY DEF OfCall
  <1>4. OneTerminalEvent'
    BY <1>3 DEF TerminalInv, OneTerminalEvent
  <1> QED
    BY <1>2, <1>3, <1>4 DEF TerminalInv

\* A step of the store that appends e to the log, if it appends anything.
LEMMA TerminalGrows ==
    ASSUME TypeOK, ToolTypeOK, TerminalInv, NEW e \in Entry, log' = log \/ log' = Append(log, e),
           UNCHANGED <<calls, abandoned>>,
           call'.id = call.id, call.phase \in {"done", "threw"} => call'.phase = call.phase,
           \* what e says of its call, and what was on file of it
           \A c \in Calls : e.type = "tool" /\ e.detail.call = c =>
              /\ e.detail.kind \in {"completed", "failed"} =>
                    /\ c <= calls
                    /\ c = call.id => call'.phase \in {"done", "threw"}
                    /\ e.detail.kind = "completed" => c \notin abandoned
              /\ \A n \in DOMAIN log :
                    OfCall(n, c) /\ log[n].detail.kind \in {"completed", "failed"} =>
                       log[n].detail.kind = "failed" /\ e.detail.kind = "delta" /\ c \in abandoned
    PROVE  TerminalInv'
  <1>1. CASE log' = log
    BY <1>1, TerminalRest
  <1>2. CASE log' = Append(log, e)
    <2>1. /\ Len(log) \in Nat /\ DOMAIN log = 1..Len(log)
          /\ DOMAIN log' = 1..(Len(log) + 1) /\ log'[Len(log) + 1] = e
          /\ \A n \in 1..Len(log) : log'[n] = log[n]
      BY <1>2, LogGrows
    <2>2. PICK top \in DOMAIN log' : top = Len(log) + 1
      BY <2>1
    <2>3. /\ log'[top] = e
          /\ \A n \in DOMAIN log' : n = top \/ (n \in DOMAIN log /\ n < top /\ log'[n] = log[n])
      BY <2>1, <2>2
    <2>4. \A c : \A n \in DOMAIN log : OfCall(n, c)' <=> OfCall(n, c)
      BY <2>1 DEF OfCall
    <2>5. \A c : OfCall(top, c)' <=> e.type = "tool" /\ e.detail.call = c
      BY <2>3 DEF OfCall
    <2>6. ASSUME NEW n \in DOMAIN log', NEW c \in Calls, OfCall(n, c)',
                 log'[n].detail.kind \in {"completed", "failed"}
          PROVE  /\ c <= calls
                 /\ c = call.id => call'.phase \in {"done", "threw"}
                 /\ log'[n].detail.kind = "completed" => c \notin abandoned
      <3>1. CASE n = top
        BY <2>3, <2>5, <2>6, <3>1
      <3>2. CASE n \in DOMAIN log
        BY <2>1, <2>4, <2>6, <3>2 DEF TerminalInv
      <3> QED
        BY <2>3, <3>1, <3>2
    <2>7. ASSUME NEW c \in Calls, NEW i \in DOMAIN log', NEW j \in DOMAIN log',
                 i < j, OfCall(i, c)', OfCall(j, c)'
          PROVE  /\ log'[i].detail.kind # "completed"
                 /\ log'[i].detail.kind = "failed" =>
                       log'[j].detail.kind = "delta" /\ c \in abandoned
      <3>1. i \in DOMAIN log /\ log'[i] = log[i] /\ OfCall(i, c)
        BY <2>1, <2>2, <2>3, <2>4, <2>7
      <3>2. CASE j = top
        BY <2>3, <2>5, <2>7, <3>1, <3>2
      <3>3. CASE j \in DOMAIN log
        BY <2>1, <2>4, <2>7, <3>1, <3>3 DEF TerminalInv, OneTerminalEvent
      <3> QED
        BY <2>3, <3>2, <3>3
    <2> QED
      BY <2>6, <2>7 DEF TerminalInv, OneTerminalEvent
  <1> QED
    BY <1>1, <1>2

\* The store's answer keeps what is on file of ended calls.
LEMMA TerminalInvAnswer ==
    ASSUME EngineBase, ToolTypeOK, CallInv, FlightInv, ChainInv, TerminalInv, StoreAnswers
    PROVE  TerminalInv'
  <1> DEFINE h == Head(inflight)
             e == h.event
             d == e.detail.call
  <1>1. TypeOK /\ call \in CallType
    BY ToolTypeParts DEF EngineBase, TypeInv
  <1>2. PICK ok \in BOOLEAN :
          /\ inflight # <<>> /\ h \in Requested /\ ToolAnswered(ok)
          /\ log' = Append(log, e) \/ (~ok /\ log' = log)
          /\ h.by = "tool" => e.type = "tool"
          /\ h.by # "tool" => e.type # "tool"
    BY StoreShape
  <1>3. e \in Entry /\ (log' = log \/ log' = Append(log, e))
    BY <1>2 DEF Requested
  <1>4. CASE h.by # "tool"
    <2>1. UNCHANGED <<calls, abandoned, call>> /\ e.type # "tool"
      BY <1>2, <1>4 DEF ToolAnswered, toolVars
    <2> HIDE DEF e
    <2> QED
      BY <1>1, <1>3, <2>1, TerminalGrows
  \* a delta still comes only of a call in hand or of one that was given up
  <1>5. CASE h.by = "tool" /\ IsDelta(h)
    <2>1. UNCHANGED <<calls, abandoned, call>> /\ e.detail.kind = "delta"
      BY <1>2, <1>5 DEF ToolAnswered, IsDelta, DeltaAnswered
    <2>2. d \in Calls /\ Coming(d)
      BY <1>2, <1>5, HeadOfTool DEF Expected, Coming
    <2>3. d \in abandoned \/ (d = call.id /\ call.phase \in Awaited)
      BY <2>2 DEF ChainInv
    <2>4. ASSUME NEW n \in DOMAIN log, OfCall(n, d), log[n].detail.kind \in {"completed", "failed"}
          PROVE  log[n].detail.kind = "failed" /\ d \in abandoned
      BY <2>2, <2>3, <2>4 DEF TerminalInv, Awaited
    <2> HIDE DEF e
    <2> QED
      BY <1>1, <1>3, <2>1, <2>4, TerminalGrows
  \* the dispatch ends a call of which nothing terminal is on file
  <1>6. CASE h.by = "tool" /\ ~IsDelta(h)
    <2>1. CallAnswered(ok)
      BY <1>2, <1>6 DEF ToolAnswered, IsDelta
    <2>2. call.phase \in Reporting /\ d = call.id /\ e.detail.kind \in Reported /\ d \in Calls
      BY <1>2, <1>6, HeadOfTool DEF Expected
    <2>3. /\ call'.phase = IF ok THEN AfterOk[call.phase] ELSE "threw"
          /\ call'.id = call.id /\ UNCHANGED <<calls, abandoned>>
      BY <1>1, <2>1 DEF CallAnswered, CallType, Quiet
    <2>4. ASSUME e.detail.kind \in {"completed", "failed"}
          PROVE  /\ call'.phase \in {"done", "threw"} /\ call.id = calls
                 /\ e.detail.kind = "completed" => call.id \notin abandoned
      <3>1. call.phase = "resolving" => call.outcome \in {"allowed", "denied"}
        BY DEF CallInv
      <3>2. call.phase = "ending"
        BY <2>2, <2>4, <3>1 DEF Reported, Reporting
      <3>3. call'.phase \in {"done", "threw"}
        BY <2>3, <3>2 DEF AfterOk
      <3>4. e.detail.kind = "completed" => call.id \notin abandoned
        BY <2>2, <3>2 DEF Reported
      <3> QED
        BY <3>2, <3>3, <3>4 DEF CallInv
    <2>5. ASSUME NEW n \in DOMAIN log, OfCall(n, call.id), log[n].detail.kind \in {"completed", "failed"}
          PROVE  FALSE
      BY <2>2, <2>5 DEF TerminalInv, Reporting
    <2>6. call.phase \notin {"done", "threw"} /\ call.id <= call.id
      BY <2>2, ToolTypeParts DEF Reporting, Calls
    <2> HIDE DEF e
    <2> QED
      BY <1>1, <1>3, <2>2, <2>3, <2>4, <2>5, <2>6, TerminalGrows
  <1> QED
    BY <1>4, <1>5, <1>6

\* Every step keeps what is on file of ended calls.
LEMMA TerminalInvStep ==
    ASSUME EngineBase, ToolTypeOK, CallInv, FlightInv, ChainInv, TerminalInv,
           [ToolNext]_allVars
    PROVE  TerminalInv'
  <1>1. call \in CallType
    BY ToolTypeParts
  <1>2. CASE StoreAnswers
    BY <1>2, TerminalInvAnswer
  <1>3. ASSUME UNCHANGED log, UNCHANGED <<call, calls, abandoned>> PROVE TerminalInv'
    BY <1>3, TerminalRest
  <1>4. CASE UNCHANGED log /\ (EngineStep \/ UNCHANGED allVars)
    BY <1>3, <1>4 DEF EngineStep, allVars, toolVars
  <1>5. ASSUME UNCHANGED log, call.phase = "executing", GiveUp(call.id) PROVE TerminalInv'
    <2>1. call'.id = call.id /\ calls' = calls /\ abandoned' = abandoned \cup {call.id}
      BY <1>1, <1>5 DEF GiveUp, Settled, CallType
    <2> QED
      BY <1>5, <2>1, TerminalRest
  <1>6. ASSUME UNCHANGED log, NEW named \in 0..MaxTurns, CancelWithTools(named)
        PROVE  TerminalInv'
    BY <1>3, <1>5, <1>6 DEF CancelWithTools, toolVars
  <1>7. CASE UNCHANGED log /\ BeginCall
    <2>1. PICK tool \in Tools, phase \in {"ending", "requesting"} :
            call' = [NoCall EXCEPT !.id = calls + 1, !.tool = tool, !.phase = phase,
                                   !.outcome = "failed"]
      BY <1>7 DEF BeginCall
    <2>2. call'.id = calls + 1 /\ calls' = calls + 1 /\ UNCHANGED abandoned
      BY <1>7, <2>1 DEF BeginCall, NoCall
    <2> QED
      BY <1>7, <2>2, TerminalRest
  <1>8. CASE UNCHANGED log /\ (Decide \/ Approve \/ Gate \/ Drained \/ Spawn \/ ExecuteAtOnce)
    <2>1. /\ UNCHANGED <<calls, abandoned>> /\ call'.id = call.id
          /\ call.phase \notin {"done", "threw"}
      BY <1>1, <1>8 DEF Decide, Approve, Gate, Drained, Spawn, ExecuteAtOnce, Settled, Quiet,
                        CallType
    <2> QED
      BY <1>8, <2>1, TerminalRest
  <1>9. ASSUME UNCHANGED log, NEW c \in Calls, ChainEmits(c) \/ ProcessWrites(c)
        PROVE  TerminalInv'
    BY <1>3, <1>9 DEF ChainEmits, ProcessWrites
  <1>10. ASSUME UNCHANGED log, NEW c \in Calls, ProcessCloses(c) PROVE TerminalInv'
    <2>1. UNCHANGED <<calls, abandoned>>
      BY <1>10 DEF ProcessCloses
    <2>2. call' = call \/ (call'.id = call.id /\ call.phase = "executing")
      BY <1>1, <1>10 DEF ProcessCloses, Settled, Executing, CallType
    <2> QED
      BY <1>10, <2>1, <2>2, TerminalRest
  <1>11. CASE UNCHANGED log /\ (ReturnResult \/ ThrowFailure)
    <2>1. call'.id = 0 /\ UNCHANGED <<calls, abandoned>>
      BY <1>11 DEF ReturnResult, ThrowFailure, Quiet, NoCall
    <2> QED
      BY <1>11, <2>1, TerminalRest
  <1>12. CASE UNCHANGED log /\ Timeout
    BY <1>5, <1>12 DEF Timeout
  <1> QED
    BY <1>2, <1>4, <1>6, <1>7, <1>8, <1>9, <1>10, <1>11, <1>12, OnlyAnswersWrite
       DEF ToolNext, Dispatch
-----------------------------------------------------------------------------
(* The theorems.                                                           *)

\* The invariant holds at first.
LEMMA ToolInvInit == ToolInit => ToolInv
  <1> SUFFICES ASSUME ToolInit PROVE ToolInv
    OBVIOUS
  <1>1. ToolTypeOK
    BY ToolTypeInit
  <1>2. /\ call = NoCall /\ inflight = <<>> /\ log = <<>> /\ abandoned = {}
        /\ \A c \in Calls : proc[c] = NoProc /\ chain[c] = NoChain /\ results[c] = <<>>
    BY DEF ToolInit, Init
  <1>3. call.phase = "idle"
    BY <1>2 DEF NoCall
  <1>4. CallInv
    BY <1>2, <1>3 DEF CallInv, Fresh, NoProc, Before
  <1>5. FlightInv
    BY <1>2 DEF FlightInv
  <1>6. \A c \in Calls : Emitted(c) = 0 /\ ~Coming(c)
    BY <1>2 DEF Emitted, Coming, NoChain
  <1>7. ChainInv
    BY <1>2, <1>3, <1>6, ToolAssumption DEF ChainInv, NoProc
  <1>8. CollectedInv
    BY <1>2, <1>3 DEF CollectedInv, ResultsMixOnlyAbandoned
  <1>9. AuditInv
    BY <1>2, <1>3 DEF AuditInv, AuditBeforeEffect, NoProc
  <1>10. TerminalInv
    BY <1>2 DEF TerminalInv, OneTerminalEvent
  <1> QED
    BY <1>1, <1>4, <1>5, <1>7, <1>8, <1>9, <1>10 DEF ToolInv

\* The invariants of the engine and of its tools, of which each needs the other.
ComposedInv == EngineInv /\ WholeInv /\ ToolInv

LEMMA ComposedInvariant == ToolSpec => []ComposedInv
  <1>1. ToolInit => ComposedInv
    BY ToolInvInit, TypeInvInit, LogInvInit, WholeInvInit DEF ToolInit, ComposedInv, EngineInv
  <1>2. ASSUME ComposedInv, [ToolNext]_allVars PROVE ComposedInv'
    <2>1. EngineBase /\ TypeOK
      BY <1>2 DEF ComposedInv, EngineInv, WholeInv, EngineBase, TypeInv
    <2>2. /\ ToolTypeOK /\ CallInv /\ FlightInv /\ ChainInv /\ CollectedInv /\ AuditInv
          /\ TerminalInv
      BY <1>2 DEF ComposedInv, ToolInv
    <2>3. [Next]_vars
      BY <1>2, <2>1, <2>2, StepRefines
    <2>4. EngineInv' /\ WholeInv'
      BY <1>2, <2>3, EngineInvStep, StoreKeepsWhole, AskingKeepsWhole DEF ComposedInv, EngineInv
    <2> QED
      BY <1>2, <2>1, <2>2, <2>4, ToolTypesStep, CallInvStep, FlightInvStep, ChainInvStep,
         CollectedInvStep, AuditInvStep, TerminalInvStep DEF ComposedInv, ToolInv
  <1> QED
    BY <1>1, <1>2, PTL DEF ToolSpec

\* The engine with its tools is the engine: whatever the router, the permission
\* engine, the processes and the delta chains do is what SessionEngine lets a
\* tool handler do, so what is proved of SessionEngine holds with them too.
THEOREM ToolsImplementHandler == ToolSpec => Spec
  <1>1. ToolInit => Init
    BY DEF ToolInit
  <1>2. ComposedInv /\ [ToolNext]_allVars => [Next]_vars
    BY StepRefines DEF ComposedInv, EngineInv, TypeInv, ToolInv
  <1> QED
    BY <1>1, <1>2, ComposedInvariant, PTL DEF ToolSpec, Spec

\* In particular the log stays without gaps however many deltas of processes that
\* were given up are appended while the generator appends as well.
COROLLARY ToolLogHasNoGaps == ToolSpec => [](NoGaps /\ DurableThenVisible)
  BY ToolsImplementHandler, LogHasNoGaps, ShownIsDurable, PTL

\* The call in hand, the processes, the chains and the results have their types.
THEOREM ToolTypes == ToolSpec => []ToolTypeOK
  <1>1. ComposedInv => ToolTypeOK
    BY DEF ComposedInv, ToolInv
  <1> QED
    BY <1>1, ComposedInvariant, PTL

\* A tool's process runs only for a call of which the permission's allowed and,
\* after it, tool.started are on file, whatever the store loses or refuses.
THEOREM ProcessesAreAudited == ToolSpec => []AuditBeforeEffect
  <1>1. ComposedInv => AuditBeforeEffect
    BY DEF ComposedInv, ToolInv, AuditInv
  <1> QED
    BY <1>1, ComposedInvariant, PTL

\* A call has at most one terminal event on file, and after it nothing but deltas
\* of a process that was given up.
THEOREM CallsEndOnce == ToolSpec => []OneTerminalEvent
  <1>1. ComposedInv => OneTerminalEvent
    BY DEF ComposedInv, ToolInv, TerminalInv
  <1> QED
    BY <1>1, ComposedInvariant, PTL

\* A result is made of output of its own call and of calls that were given up.
THEOREM ResultsAreOfTheirCall == ToolSpec => []ResultsMixOnlyAbandoned
  <1>1. ComposedInv => ResultsMixOnlyAbandoned
    BY DEF ComposedInv, ToolInv, CollectedInv
  <1> QED
    BY <1>1, ComposedInvariant, PTL

\* Unless a process was given up, one append is in flight at a time: the
\* generator's only while no handler runs, createSession's only before any turn,
\* and of the handler either the event the dispatch awaits or one delta.
THEOREM AppendsAreSerial == ToolSpec => []SerializedUnlessAbandoned
  <1>1. ASSUME ComposedInv, abandoned = {} PROVE Len(inflight) <= 1
    <2>1. TypeInv /\ Standing /\ FlightInv /\ ChainInv /\ CallInv /\ TypeOK
      BY <1>1 DEF ComposedInv, EngineInv, WholeInv, ToolInv, TypeInv
    <2>2. ASSUME NEW i \in DOMAIN inflight, inflight[i].by = "tool"
          PROVE  /\ turn.at = "handle" /\ inflight[i].event.detail.call = call.id
                 /\ IsDelta(inflight[i]) => call.phase \in Awaited
                 /\ ~IsDelta(inflight[i]) => call.phase \in Reporting
      <3>1. Expected(inflight[i])
        BY <2>1, <2>2 DEF FlightInv
      <3>2. IsDelta(inflight[i]) =>
               inflight[i].event.detail.call = call.id /\ call.phase \in Awaited
        BY <1>1, <2>1, <3>1 DEF Expected, ChainInv, Coming
      <3>3. ~IsDelta(inflight[i]) =>
               inflight[i].event.detail.call = call.id /\ call.phase \in Reporting
        BY <3>1 DEF Expected
      <3> QED
        BY <2>1, <3>2, <3>3 DEF CallInv, Awaited, Reporting
    <2>3. ASSUME NEW i \in DOMAIN inflight, NEW j \in DOMAIN inflight PROVE i = j
      <3>1. inflight[i].by \in {"create", "turn", "tool"} /\ inflight[j].by \in {"create", "turn", "tool"}
        <4>1. inflight \in Seq(Requested)
          BY <2>1 DEF TypeOK, Requested
        <4>2. inflight[i] \in Requested /\ inflight[j] \in Requested
          BY <2>3, <4>1
        <4> QED
          BY <4>2 DEF Requested
      <3>2. CASE inflight[i].by = "tool" /\ inflight[j].by = "tool"
        <4>1. Twins(inflight[i], inflight[j])
          BY <2>2, <3>2 DEF Twins, Awaited, Reporting
        <4> QED
          BY <2>1, <4>1 DEF FlightInv
      <3>3. \A n \in DOMAIN inflight :
               /\ inflight[n].by = "turn" => turn.at = "commit"
               /\ inflight[n].by = "create" => turn.at = "none"
        BY <2>1 DEF TypeInv, SlotInv, Standing
      <3>4. CASE inflight[i].by # "tool" \/ inflight[j].by # "tool"
        <4>1. inflight[i].by = inflight[j].by
          BY <2>2, <3>1, <3>3, <3>4
        <4> QED
          BY <2>1, <3>1, <3>4, <4>1 DEF TypeInv, SlotInv, Standing
      <3> QED
        BY <3>2, <3>4
    <2>4. Len(inflight) \in Nat /\ DOMAIN inflight = 1..Len(inflight)
      BY <2>1 DEF TypeOK
    <2> QED
      BY <2>3, <2>4
  <1>2. ComposedInv => SerializedUnlessAbandoned
    BY <1>1 DEF SerializedUnlessAbandoned
  <1> QED
    BY <1>2, ComposedInvariant, PTL
=============================================================================
