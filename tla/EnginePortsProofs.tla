-------------------------- MODULE EnginePortsProofs --------------------------
(***************************************************************************)
(* Proofs about the two ends of the engine, its consumer (AcpAgent) and    *)
(* its provider (ModelTurn), for every number of prompts, turns, rounds of *)
(* tools, chunks and failures: each is one as the engine takes it, so that *)
(* what is proved of the engine is true of it there; the answer of a       *)
(* prompt is what the log says, and a load repeats the wire; a request to  *)
(* the API has a result for each call.                                     *)
(***************************************************************************)
EXTENDS AcpAgent, ModelTurn, SessionEngineProofs

-----------------------------------------------------------------------------
(***************************************************************************)
(* What the properties of the agent need of the engine: how far the turn   *)
(* that has the slot is on the log and shown, and that of a turn which     *)
(* returned both stay as they are.                                         *)
(***************************************************************************)

\* What turn k has on the log besides the events of its tools.
LogOf(k) == {log[n] : n \in {m \in DOMAIN log : log[m].turn = k /\ log[m].type # "tool"}}

CompletedAt(k) == {n \in DOMAIN log : log[n].turn = k /\ log[n].type = "turn.completed"}

LastShown(k) == shown[k][Len(shown[k])]

\* The turn is completed once, by the event its consumer was shown last.
Closed(k) ==
    /\ shown[k] # <<>>
    /\ \E n \in DOMAIN log : CompletedAt(k) = {n} /\ log[n] = LastShown(k)

\* The generator has not completed its turn.
Midway(t) == /\ t.at # "none" /\ t.step # "storeFailed"
             /\ t.step = "completed" => t.at = "commit"

\* An event that completes a turn says how.
SaysHow(e) == e.type = "turn.completed" => e.stop \in DOMAIN mapStopReason

ReportInv ==
    /\ turn.at # "none" => turn.step # "none"
    /\ turn.at \in {"stream", "handle"} => Midway(turn)
    /\ Midway(turn) => CompletedAt(turn.id) = {}
    /\ turn.at # "none" /\ turn.step # "storeFailed" => EventsOf(shown[turn.id]) = LogOf(turn.id)
    /\ turn.at = "yield" => shown[turn.id] # <<>>
    /\ turn.at = "yield" /\ turn.step = "completed" => Closed(turn.id)
    /\ \A k \in TurnIds : ended[k] = "returned" =>
          EventsOf(shown[k]) = LogOf(k) /\ Closed(k)
    /\ \A n \in DOMAIN log : SaysHow(log[n])
    /\ \A i \in DOMAIN inflight : SaysHow(inflight[i].event)

\* What has been sent of the turn a call iterates: all that was yielded, but for
\* the event it is about to forward.
Owing(p) == IF turn.at = "yield" /\ ~prompt[p].forwarded THEN {LastShown(turn.id)} ELSE {}

Serves(p) ==
    /\ turn.at # "none" /\ prompt[p].turn = turn.id
    /\ prompt[p].forwarded => turn.at = "yield"
    /\ Carries(sent[p], {e \in EventsOf(shown[turn.id]) \ Owing(p) : Surfaced(e)})
    /\ prompt[p].forwarded /\ turn.step = "completed" => prompt[p].stop = LastShown(turn.id).stop
    /\ \A q \in Prompts : Iterates(q) => p = q

IteratingInv == \A p \in Prompts : Iterates(p) => Serves(p)

\* What a call answered with a stop reason has told.
Told(p) == prompt[p].phase = "answered" /\ prompt[p].answer # "error"

Answers(p) ==
    LET k == prompt[p].turn IN
    /\ k \in TurnIds /\ ended[k] = "returned"
    /\ prompt[p].answer = mapStopReason[LastShown(k).stop]
    /\ Carries(sent[p], {e \in EventsOf(shown[k]) : Surfaced(e)})

AnsweredInv ==
    \A p \in Prompts :
       /\ prompt[p].phase = "none" => prompt[p] = NoPrompt /\ sent[p] = <<>>
       /\ Told(p) => Answers(p)

\* What a load is to have sent of the turn of a call answered before it began.
Repeated(k) ==
    {e \in LogOf(k) : (e.sequence <= load.pos \/ load.phase = "loaded") /\ Surfaced(e)}

LoadInv ==
    /\ load.pos <= Len(log)
    /\ Carries(load.sent, EventsOf(load.sent))
    /\ \A e \in EventsOf(load.sent) : e.sequence <= load.pos
    /\ \A p \in load.owed : prompt[p].phase = "answered"
    /\ load.phase = "none" => load = NoLoad
    /\ load.phase \in {"replaying", "loaded"} => \A p \in load.owed : Told(p) =>
          {e \in EventsOf(load.sent) : e.turn = prompt[p].turn /\ e.type # "tool"}
              = Repeated(prompt[p].turn)

-----------------------------------------------------------------------------
(* The agent as a consumer of the engine.                                  *)

\* What a step of the agent is to the engine.
LEMMA AgentIsConsumer == [AgentNext]_allVars => [Next]_vars
<1> SUFFICES ASSUME [AgentNext]_allVars PROVE [Next]_vars
  OBVIOUS
<1>1. CASE NewSession
  BY <1>1 DEF NewSession, Next, EngineNext
<1>2. CASE Cancel
  <2>1. 0 \in 0..MaxTurns
    BY EngineAssumption
  <2> QED
    BY <1>2, <2>1 DEF Cancel, Next, EngineNext
<1>3. CASE EngineWorks
  BY <1>3 DEF EngineWorks, Next
<1>4. CASE Stream
  BY <1>4 DEF Stream, Next, EngineNext
<1>5. ASSUME NEW p \in Prompts, Prompt(p) PROVE [Next]_vars
  BY <1>5 DEF Prompt, Next, EngineNext
<1>6. ASSUME NEW p \in Prompts, Forward(p) \/ ForwardFails(p) \/ Advance(p) PROVE [Next]_vars
  BY <1>6 DEF Forward, ForwardFails, Advance, Next, EngineNext, vars
<1>7. CASE Load \/ LoadEvent \/ LoadEnds \/ LoadFails
  BY <1>7 DEF Load, LoadEvent, LoadEnds, LoadFails, vars
<1>8. CASE UNCHANGED allVars
  BY <1>8 DEF allVars
<1> QED
  BY <1>1, <1>2, <1>3, <1>4, <1>5, <1>6, <1>7, <1>8 DEF AgentNext

\* agent.ts is a consumer as the engine takes one: with it every run of the
\* process is a run of the engine, whatever the wire and the prompts do.
THEOREM AgentImplementsEngine == AgentSpec => Spec
<1>1. AgentInit => Init
  BY DEF AgentInit
<1> QED
  BY <1>1, AgentIsConsumer, PTL DEF AgentSpec, Spec

\* So what the engine keeps, it keeps under the agent.
LEMMA EngineUnderAgent == AgentSpec => [](EngineInv /\ Standing)
<1>1. Init => WholeInv
  BY WholeInvInit
<1>2. EngineInv /\ WholeInv /\ [Next]_vars => WholeInv'
  BY StoreKeepsWhole, AskingKeepsWhole DEF EngineInv
<1>3. WholeInv => Standing
  BY DEF WholeInv
<1> QED
  BY <1>1, <1>2, <1>3, EngineInvariant, AgentImplementsEngine, PTL DEF Spec

-----------------------------------------------------------------------------
(* What is on the log and what was shown.                                  *)

\* An append to the log is one of the turn of its event.
LEMMA PartGrows ==
    ASSUME TypeOK, NEW e \in Entry, log' = Append(log, e), NEW k
    PROVE  /\ LogOf(k)' = LogOf(k) \cup (IF e.turn = k /\ e.type # "tool" THEN {e} ELSE {})
           /\ CompletedAt(k)' = CompletedAt(k) \cup
                 (IF e.turn = k /\ e.type = "turn.completed" THEN {Len(log) + 1} ELSE {})
<1>1. /\ Len(log) \in Nat /\ DOMAIN log = 1..Len(log)
      /\ DOMAIN log' = 1..(Len(log) + 1) /\ log'[Len(log) + 1] = e
      /\ \A n \in 1..Len(log) : log'[n] = log[n]
  BY LogGrows
<1>2. 1..(Len(log) + 1) = 1..Len(log) \cup {Len(log) + 1} /\ Len(log) + 1 \notin 1..Len(log)
  BY <1>1
<1>3. CompletedAt(k)' = CompletedAt(k) \cup
         (IF e.turn = k /\ e.type = "turn.completed" THEN {Len(log) + 1} ELSE {})
  BY <1>1, <1>2 DEF CompletedAt
<1>4. LogOf(k)' = LogOf(k) \cup (IF e.turn = k /\ e.type # "tool" THEN {e} ELSE {})
  <2> DEFINE M(l) == {m \in DOMAIN l : l[m].turn = k /\ l[m].type # "tool"}
  <2>1. M(log') = M(log) \cup (IF e.turn = k /\ e.type # "tool" THEN {Len(log) + 1} ELSE {})
    BY <1>1, <1>2
  <2>2. \A n \in M(log) : log'[n] = log[n]
    BY <1>1
  <2> HIDE DEF M
  <2>3. {log'[n] : n \in M(log')} =
           {log[n] : n \in M(log)} \cup (IF e.turn = k /\ e.type # "tool" THEN {e} ELSE {})
    BY <1>1, <2>1, <2>2
  <2> QED
    BY <2>3 DEF LogOf, M
<1> QED
  BY <1>3, <1>4

\* What a yield adds to what was shown of its turn.
LEMMA YieldShows ==
    ASSUME TypeOK, NEW k \in TurnIds, NEW e \in Entry, Shows(k, e)
    PROVE  /\ EventsOf(shown'[k]) = EventsOf(shown[k]) \cup {e}
           /\ shown'[k] # <<>> /\ shown'[k][Len(shown'[k])] = e
           /\ \A q \in TurnIds \ {k} : shown'[q] = shown[q]
<1>1. shown[k] \in Seq(Entry) /\ shown'[k] = Append(shown[k], e)
  BY DEF TypeOK, Shows
<1>2. shown'[k] # <<>> /\ shown'[k][Len(shown'[k])] = e
  BY <1>1
<1> QED
  BY <1>2, ShownGrows DEF EventsOf

\* A turn that is neither shown an event nor has one appended that is not of a
\* tool stays as it is.
LEMMA PartStays ==
    ASSUME TypeOK, NEW e \in Entry, log' \in {log, Append(log, e)}, NEW k \in TurnIds,
           log' # log => e.turn # k \/ e.type = "tool", shown'[k] = shown[k]
    PROVE  /\ LogOf(k)' = LogOf(k) /\ CompletedAt(k)' = CompletedAt(k)
           /\ EventsOf(shown[k])' = EventsOf(shown[k])
           /\ LastShown(k)' = LastShown(k)
           /\ Closed(k) => Closed(k)'
<1>1. /\ LogOf(k)' = LogOf(k) /\ CompletedAt(k)' = CompletedAt(k)
      /\ \A n \in DOMAIN log : n \in DOMAIN log' /\ log'[n] = log[n]
  <2>1. CASE log' = log
    BY <2>1 DEF LogOf, CompletedAt
  <2>2. CASE log' = Append(log, e) /\ log' # log
    <3>1. /\ LogOf(k)' = LogOf(k) \cup (IF e.turn = k /\ e.type # "tool" THEN {e} ELSE {})
          /\ CompletedAt(k)' = CompletedAt(k) \cup
                (IF e.turn = k /\ e.type = "turn.completed" THEN {Len(log) + 1} ELSE {})
      BY <2>2, PartGrows
    <3>2. ~(e.turn = k /\ e.type # "tool") /\ ~(e.turn = k /\ e.type = "turn.completed")
      BY <2>2
    <3>3. LogOf(k)' = LogOf(k) /\ CompletedAt(k)' = CompletedAt(k)
      BY <3>1, <3>2
    <3>4. \A n \in DOMAIN log : n \in DOMAIN log' /\ log'[n] = log[n]
      BY <2>2, LogGrows
    <3> QED
      BY <3>3, <3>4
  <2> QED
    BY <2>1, <2>2
<1>2. EventsOf(shown[k])' = EventsOf(shown[k]) /\ LastShown(k)' = LastShown(k)
  BY DEF EventsOf, LastShown
<1>3. Closed(k) => Closed(k)'
  BY <1>1, <1>2 DEF Closed
<1> QED
  BY <1>1, <1>2, <1>3

\* An answer of the store keeps what is reported of the turns.
LEMMA StoreReport == ASSUME TypeInv, Standing, ReportInv, Store PROVE ReportInv'
<1> DEFINE c == Head(inflight)
           e == Head(inflight).event
<1>1. PICK ok \in BOOLEAN :
        /\ inflight # <<>> /\ Answered(Head(inflight), ok)
        /\ log' \in {log, Append(log, e)}
        /\ ok => log' = Append(log, e)
  BY DEF Store, StoreKeeps, StoreRefuses, StoreFails
<1>2. /\ e \in Entry /\ c.by \in {"create", "turn", "tool"}
      /\ c.by = "create" => turn.at = "none" /\ e.turn = 0
      /\ c.by = "turn" => /\ turn.at = "commit" /\ turn.id \in TurnIds /\ ended[turn.id] = "no"
                          /\ e.turn = turn.id /\ e.type = TypeAt[turn.step]
      /\ c.by = "tool" => e.type = "tool"
  BY <1>1, HeadOwner
<1>3. TypeOK /\ 0 \notin TurnIds /\ (turn.at # "none" => turn.id \in TurnIds)
      /\ ended \in [TurnIds -> {"no", "returned", "threw", "abandoned"}]
      /\ NoTurn.at = "none"
  BY SlotTyped, NoTurnTyped DEF TypeInv, TurnIds
<1>4. /\ \A n \in DOMAIN log' : SaysHow(log'[n])
      /\ \A i \in DOMAIN inflight' : SaysHow(inflight'[i].event)
  <2>1. SaysHow(e)
    BY <1>1, <1>3, TakeFromQueue DEF ReportInv
  <2>2. \A n \in DOMAIN log' : SaysHow(log'[n])
    BY <1>1, <1>2, <1>3, <2>1, LogGrows DEF ReportInv
  <2>3. /\ Tail(inflight) \in Seq(Requested)
        /\ \A i \in DOMAIN Tail(inflight) : SaysHow(Tail(inflight)[i].event)
    BY <1>1, <1>3, TakeFromQueue DEF ReportInv
  <2> DEFINE d == Completed("error", "none")
  <2>4. d \in Requested /\ SaysHow(d.event)
    BY <1>3, CompletedTyped DEF StopReason, ErrorCode, SaysHow, mapStopReason
  <2>5. inflight' = Tail(inflight) \/ inflight' = Append(Tail(inflight), d)
    BY <1>1 DEF Answered
  <2> HIDE DEF d
  <2>6. \A t \in Seq(Requested) : \A i \in DOMAIN Append(t, d) :
           (i \in DOMAIN t /\ Append(t, d)[i] = t[i]) \/ Append(t, d)[i] = d
    BY <2>4, AppendProperties
  <2> QED
    BY <2>2, <2>3, <2>4, <2>5, <2>6
<1> HIDE DEF c, e
<1>5. ASSUME NEW k \in TurnIds, shown'[k] = shown[k], log' # log => e.turn # k \/ e.type = "tool"
      PROVE  /\ LogOf(k)' = LogOf(k) /\ CompletedAt(k)' = CompletedAt(k)
             /\ EventsOf(shown[k])' = EventsOf(shown[k])
             /\ Closed(k) => Closed(k)'
  BY <1>1, <1>2, <1>3, <1>5, PartStays
<1>6. CASE c.by \in {"create", "tool"}
  <2>1. UNCHANGED <<turn, shown, ended>>
    BY <1>1, <1>6, AnsweredOwner DEF c
  <2>2. \A k \in TurnIds : log' # log => e.turn # k \/ e.type = "tool"
    BY <1>2, <1>3, <1>6
  <2>3. \A k \in TurnIds : /\ LogOf(k)' = LogOf(k) /\ CompletedAt(k)' = CompletedAt(k)
                           /\ EventsOf(shown[k])' = EventsOf(shown[k])
                           /\ Closed(k) => Closed(k)'
    BY <1>5, <2>1, <2>2
  <2>4. Midway(turn') <=> Midway(turn)
    BY <2>1
  <2> QED
    BY <1>3, <1>4, <2>1, <2>3, <2>4 DEF ReportInv, Midway
<1>7. CASE c.by = "turn"
  <2>0. PICK k \in TurnIds : k = turn.id
    BY <1>2, <1>7
  <2>1. /\ k = turn.id /\ k \in TurnIds /\ ended[k] = "no" /\ e.turn = k /\ turn.at = "commit"
        /\ e.type = TypeAt[turn.step] /\ turn.step # "none"
    BY <1>2, <1>7, <2>0 DEF ReportInv
  <2>2. turn.step \in {"started", "user", "delta", "completed", "storeFailed"}
    BY <2>1, SlotTyped DEF TurnType
  <2>3. /\ e.type # "tool"
        /\ e.type = "turn.completed" <=> turn.step \in {"completed", "storeFailed"}
    BY <2>1, <2>2 DEF TypeAt
  <2>4. ASSUME NEW q \in TurnIds \ {k}, shown'[q] = shown[q]
        PROVE  /\ LogOf(q)' = LogOf(q) /\ CompletedAt(q)' = CompletedAt(q)
               /\ EventsOf(shown[q])' = EventsOf(shown[q])
               /\ Closed(q) => Closed(q)'
    BY <1>5, <2>1, <2>4
  <2>5. \/ /\ ok /\ UNCHANGED ended
           /\ turn'.at = "yield" /\ turn'.step = turn.step /\ turn'.id = k
           /\ Shows(k, e)
        \/ /\ ~ok /\ UNCHANGED shown
           /\ turn' = NoTurn /\ ended' = [ended EXCEPT ![k] = "threw"]
        \/ /\ ~ok /\ UNCHANGED <<shown, ended>>
           /\ turn'.at = "commit" /\ turn'.step = "storeFailed" /\ turn'.id = k
    BY <1>1, <1>7, <2>0, AnsweredOwner DEF c, e
  <2>6. \A q \in TurnIds : ended'[q] = "returned" => q # k /\ ended[q] = "returned"
    BY <1>3, <2>1, <2>5
  <2>7. \A q \in TurnIds \ {k} : shown'[q] = shown[q]
    BY <1>2, <1>3, <2>1, <2>5, YieldShows
  <2>8. \A q \in TurnIds : ended'[q] = "returned" =>
           (EventsOf(shown[q]) = LogOf(q))' /\ Closed(q)'
    BY <2>4, <2>6, <2>7 DEF ReportInv
  <2>9. CASE turn' = NoTurn \/ (turn'.step = "storeFailed" /\ turn'.at = "commit")
    BY <1>3, <1>4, <2>8, <2>9 DEF ReportInv, Midway
  <2>10. CASE ok /\ turn'.at = "yield" /\ turn'.step = turn.step /\ turn'.id = k /\ Shows(k, e)
    <3>1. /\ EventsOf(shown[k])' = EventsOf(shown[k]) \cup {e}
          /\ shown'[k] # <<>> /\ LastShown(k)' = e
      BY <1>2, <1>3, <2>1, <2>10, YieldShows DEF EventsOf, LastShown
    <3>2. /\ LogOf(k)' = LogOf(k) \cup {e}
          /\ turn.step \in {"completed", "storeFailed"} =>
                CompletedAt(k)' = CompletedAt(k) \cup {Len(log) + 1}
          /\ turn.step \notin {"completed", "storeFailed"} => CompletedAt(k)' = CompletedAt(k)
      <4>1. log' = Append(log, e) /\ TypeOK /\ e \in Entry
        BY <1>1, <1>2, <1>3, <2>10
      <4>2. /\ LogOf(k)' = LogOf(k) \cup (IF e.turn = k /\ e.type # "tool" THEN {e} ELSE {})
            /\ CompletedAt(k)' = CompletedAt(k) \cup
                  (IF e.turn = k /\ e.type = "turn.completed" THEN {Len(log) + 1} ELSE {})
        BY <4>1, PartGrows
      <4> QED
        BY <2>1, <2>3, <4>2
    <3>3. turn.step # "storeFailed" =>
             Midway(turn) /\ CompletedAt(k) = {} /\ EventsOf(shown[k]) = LogOf(k)
      BY <2>1 DEF ReportInv, Midway
    <3>4. turn.step = "completed" => Closed(k)'
      <4> SUFFICES ASSUME turn.step = "completed" PROVE Closed(k)'
        OBVIOUS
      <4>1. Len(log) + 1 \in DOMAIN log' /\ log'[Len(log) + 1] = e
        BY <1>1, <1>2, <1>3, <2>10, LogGrows
      <4>2. CompletedAt(k)' = {Len(log) + 1}
        BY <3>2, <3>3
      <4> QED
        BY <3>1, <4>1, <4>2 DEF Closed
    <3>5. turn.step # "storeFailed" => EventsOf(shown[k])' = LogOf(k)'
      BY <3>1, <3>2, <3>3
    <3>6. Midway(turn') => CompletedAt(k)' = {}
      BY <2>10, <3>2, <3>3 DEF Midway
    <3> QED
      BY <1>4, <2>1, <2>8, <2>10, <3>1, <3>4, <3>5, <3>6 DEF ReportInv
  <2> QED
    BY <2>5, <2>9, <2>10
<1> QED
  BY <1>2, <1>6, <1>7

\* An append in flight that joins those that say how they complete their turn.
Joins(c) == c \in Requested /\ SaysHow(c.event) /\ inflight' = Append(inflight, c)

\* A step that is not an answer leaves the log and what was shown alone.
LEMMA QuietReport ==
    ASSUME TypeInv, Standing, ReportInv, UNCHANGED <<log, shown>>,
           inflight' = inflight \/ \E c : Joins(c),
           \/ turn' = NoTurn
           \/ /\ turn'.id = turn.id /\ turn'.at = turn.at /\ turn'.step = turn.step
           \/ /\ turn'.id = turn.id /\ turn'.at # "yield" /\ Midway(turn) /\ Midway(turn')
              /\ turn'.step # "none"
           \/ /\ turn'.id \in TurnIds /\ turn'.id > turns /\ turn'.at = "commit"
              /\ turn'.step = "started",
           \/ UNCHANGED ended
           \/ \E how : /\ ended' = [ended EXCEPT ![turn.id] = how] /\ turn.at # "none"
                       /\ how = "returned" => turn.at = "yield" /\ turn.step = "completed"
    PROVE  ReportInv'
<1>1. \A k \in TurnIds : /\ LogOf(k)' = LogOf(k) /\ CompletedAt(k)' = CompletedAt(k)
                         /\ EventsOf(shown[k])' = EventsOf(shown[k])
                         /\ Closed(k)' = Closed(k)
  BY DEF LogOf, CompletedAt, EventsOf, Closed, LastShown
<1>2. \A i \in DOMAIN inflight' : SaysHow(inflight'[i].event)
  <2>1. CASE inflight' = inflight
    BY <2>1 DEF ReportInv
  <2>2. ASSUME NEW c, Joins(c) PROVE \A i \in DOMAIN inflight' : SaysHow(inflight'[i].event)
    BY <2>2, AppendToQueue DEF Joins, ReportInv, TypeInv
  <2> QED
    BY <2>1, <2>2
<1>3. ASSUME NEW k \in TurnIds, ended'[k] = "returned"
      PROVE  EventsOf(shown[k]) = LogOf(k) /\ Closed(k)
  <2>1. ended[k] = "returned" \/ (k = turn.id /\ turn.at = "yield" /\ turn.step = "completed")
    BY <1>3, SlotTyped
  <2> QED
    BY <2>1 DEF ReportInv
<1>4. /\ turn.at # "none" => turn.id \in TurnIds
      /\ NoTurn.at = "none" /\ NoTurn.step = "none"
  BY SlotTyped DEF NoTurn
<1>5. CASE turn' = NoTurn
  BY <1>1, <1>2, <1>3, <1>4, <1>5 DEF ReportInv, Midway
<1>6. CASE turn'.id = turn.id /\ turn'.at = turn.at /\ turn'.step = turn.step
  <2>1. Midway(turn') <=> Midway(turn)
    BY <1>6 DEF Midway
  <2> QED
    BY <1>1, <1>2, <1>3, <1>4, <1>6, <2>1 DEF ReportInv, Midway
<1>7. CASE /\ turn'.id = turn.id /\ turn'.at # "yield" /\ Midway(turn) /\ Midway(turn')
           /\ turn'.step # "none"
  <2>1. turn.at # "none" /\ turn.step # "storeFailed" /\ turn.id \in TurnIds
    BY <1>4, <1>7 DEF Midway
  <2>2. CompletedAt(turn.id) = {} /\ EventsOf(shown[turn.id]) = LogOf(turn.id)
    BY <1>7, <2>1 DEF ReportInv
  <2> QED
    BY <1>1, <1>2, <1>3, <1>7, <2>1, <2>2 DEF ReportInv
<1>8. CASE /\ turn'.id \in TurnIds /\ turn'.id > turns /\ turn'.at = "commit"
           /\ turn'.step = "started"
  <2>1. PICK k \in TurnIds : k = turn'.id /\ k > turns
    BY <1>8
  <2>2. shown[k] = <<>> /\ \A n \in DOMAIN log : log[n].turn # k
    <3>1. \A n \in DOMAIN log : log[n].turn \in Nat /\ log[n].turn <= turns
      <4>1. \A n \in DOMAIN log : log[n] \in Entry
        BY DEF TypeInv, TypeOK
      <4> QED
        BY <4>1, EngineAssumption DEF Standing, Entry
    <3>2. turns \in Nat
      BY SlotTyped
    <3> QED
      BY <2>1, <3>1, <3>2 DEF Standing, TurnIds
  <2>3. LogOf(k) = {} /\ CompletedAt(k) = {} /\ EventsOf(shown[k]) = {}
    BY <2>2 DEF LogOf, CompletedAt, EventsOf
  <2> QED
    BY <1>1, <1>2, <1>3, <1>8, <2>1, <2>3 DEF ReportInv, Midway
<1> QED
  BY <1>5, <1>6, <1>7, <1>8

\* A turn that is completed with one of the three stop reasons.
LEMMA FinishReport ==
    ASSUME TypeInv, Standing, ReportInv, Midway(turn), UNCHANGED <<shown, ended>>,
           NEW stop \in {"final", "cancelled", "error"}, NEW code \in ErrorCode,
           Finish(stop, code)
    PROVE  ReportInv'
<1> DEFINE c == Completed(stop, code)
<1>1. c \in Requested /\ SaysHow(c.event)
  BY CompletedTyped DEF StopReason, TypeInv, SaysHow, mapStopReason
<1>2. /\ inflight' = Append(inflight, c) /\ log' = log
      /\ turn' = [[turn EXCEPT !.fsm = StateOf(stop)] EXCEPT !.at = "commit", !.step = "completed"]
  BY DEF Finish, Emit, Submit
<1> HIDE DEF c
<1>3. turn'.id = turn.id /\ turn'.at = "commit" /\ turn'.step = "completed"
  BY <1>2, SlotTyped DEF TurnType
<1>4. Midway(turn')
  BY <1>3 DEF Midway
<1> QED
  BY <1>1, <1>2, <1>3, <1>4, QuietReport DEF Joins

\* A turn that appends an event of another type.
LEMMA PlainReport ==
    ASSUME TypeInv, Standing, ReportInv, Midway(turn), UNCHANGED <<shown, ended>>,
           NEW step \in {"user", "delta"}, NEW type \in {"user.message", "model.delta"},
           Emit(step, Plain("turn", turn.id, type), turn)
    PROVE  ReportInv'
<1> DEFINE c == Plain("turn", turn.id, type)
<1>1. turn.id \in 0..MaxTurns /\ type \in EventType
  BY SlotTyped DEF TurnType, EventType
<1>2. c \in Requested /\ c.event.type = type
  BY <1>1, PlainTyped DEF TypeInv, Plain, Commit
<1>3. /\ inflight' = Append(inflight, c) /\ log' = log
      /\ turn' = [turn EXCEPT !.at = "commit", !.step = step]
  BY DEF Emit, Submit
<1> HIDE DEF c
<1>4. turn'.id = turn.id /\ turn'.at = "commit" /\ turn'.step = step
  BY <1>3, SlotTyped DEF TurnType
<1>5. Midway(turn') /\ SaysHow(c.event)
  BY <1>2, <1>4 DEF Midway, SaysHow
<1> QED
  BY <1>2, <1>3, <1>4, <1>5, QuietReport DEF Joins

\* A generator that ends, and returns only when it has completed its turn.
LEMMA EndReport ==
    ASSUME TypeInv, Standing, ReportInv, turn.at # "none", UNCHANGED <<log, inflight, shown>>,
           NEW how, EndTurn(how), how = "returned" => turn.at = "yield" /\ turn.step = "completed"
    PROVE  ReportInv'
<1>1. turn' = NoTurn /\ ended' = [ended EXCEPT ![turn.id] = how]
  BY DEF EndTurn
<1>2. \E h : /\ ended' = [ended EXCEPT ![turn.id] = h] /\ turn.at # "none"
             /\ h = "returned" => turn.at = "yield" /\ turn.step = "completed"
  BY <1>1
<1> QED
  BY <1>1, <1>2, QuietReport

\* Every other step keeps it too.
LEMMA AskingReport == ASSUME TypeInv, Standing, ReportInv, [Next]_vars, ~Store PROVE ReportInv'
<1> USE EngineAssumption
<1>1. CASE CreateSession
  <2> DEFINE c == Plain("create", 0, "session.created")
  <2>1. c \in Requested /\ c.event.type = "session.created"
    <3>1. c \in Requested
      BY PlainTyped DEF EventType, TypeInv
    <3>2. c.event.type = "session.created"
      BY DEF Plain, Commit
    <3> QED
      BY <3>1, <3>2
  <2>2. inflight' = Append(inflight, c) /\ UNCHANGED <<turn, log, shown, ended>>
    BY <1>1 DEF CreateSession, Submit, history
  <2> HIDE DEF c
  <2>3. Joins(c)
    BY <2>1, <2>2 DEF Joins, SaysHow
  <2> QED
    BY <2>2, <2>3, QuietReport
<1>2. CASE RunTurn
  <2> DEFINE c == Plain("turn", turns + 1, "turn.started")
  <2>1. /\ turns + 1 \in TurnIds /\ turns + 1 \in 0..MaxTurns /\ turns \in Nat
        /\ UNCHANGED <<log, shown, ended>>
    BY <1>2, SlotTyped DEF RunTurn, TurnIds, Emit, Submit, history
  <2>2. c \in Requested /\ SaysHow(c.event)
    BY <2>1, PlainTyped DEF EventType, TypeInv, SaysHow, Plain, Commit
  <2> HIDE DEF c
  <2>3. PICK aborted \in BOOLEAN :
           Emit("started", c,
                [NoTurn EXCEPT !.id = turns + 1, !.fsm = "running", !.aborted = aborted])
    BY <1>2 DEF RunTurn, c
  <2>4. /\ turn'.at = "commit" /\ turn'.step = "started" /\ turn'.id = turns + 1
        /\ inflight' = Append(inflight, c)
    BY <2>1, <2>3 DEF Emit, Submit, NoTurn
  <2>5. turn'.id \in TurnIds /\ turn'.id > turns
    BY <2>1, <2>4
  <2> QED
    BY <2>1, <2>2, <2>4, <2>5, QuietReport DEF Joins
<1>3. ASSUME NEW named \in 0..MaxTurns, CancelTurn(named) PROVE ReportInv'
  <2>1. /\ turn' = [turn EXCEPT !.aborted = TRUE] /\ UNCHANGED <<inflight, log, shown, ended>>
    BY <1>3 DEF CancelTurn, store, history
  <2>2. turn'.at = turn.at /\ turn'.id = turn.id /\ turn'.step = turn.step
    BY <2>1, SlotTyped DEF TurnType
  <2> QED
    BY <2>1, <2>2, QuietReport
<1>4. CASE Resume
  <2>1. turn.at = "yield"
    BY <1>4 DEF Resume
  <2>2. turn.step \in {"started", "user", "delta"} => Midway(turn)
    BY <2>1 DEF Midway
  <2>3. CASE /\ turn.step = "started" /\ UNCHANGED history
             /\ Emit("user", Plain("turn", turn.id, "user.message"), turn)
    BY <2>2, <2>3, PlainReport DEF history
  <2>4. CASE /\ turn.step \in {"user", "delta"} /\ turn' = [turn EXCEPT !.at = "stream"]
             /\ UNCHANGED <<nextSequence, store, history>>
    <3>1. turn'.at = "stream" /\ turn'.id = turn.id /\ turn'.step = turn.step
      BY <2>4, SlotTyped DEF TurnType
    <3>2. Midway(turn') /\ turn'.step # "none"
      BY <2>4, <3>1 DEF Midway
    <3> QED
      BY <2>2, <2>4, <3>1, <3>2, QuietReport DEF store, history
  <2>5. CASE turn.step = "user" /\ Finish("error", "context_overflow") /\ UNCHANGED history
    BY <2>2, <2>5, FinishReport DEF ErrorCode, history
  <2>6. CASE /\ turn.step = "completed" /\ EndTurn("returned")
             /\ UNCHANGED <<nextSequence, store, shown>>
    BY <2>1, <2>6, EndReport DEF store
  <2>7. CASE EndTurn("threw") /\ UNCHANGED <<nextSequence, store, shown>>
    BY <2>1, <2>7, EndReport DEF store
  <2> QED
    BY <1>4, <2>3, <2>4, <2>5, <2>6, <2>7 DEF Resume
<1>5. CASE Abandon
  BY <1>5, EndReport DEF Abandon, store
<1>6. ASSUME turn.at = "stream", UNCHANGED history,
             NEW stop \in {"final", "cancelled", "error"}, NEW code \in ErrorCode,
             Finish(stop, code)
      PROVE  ReportInv'
  <2>1. Midway(turn)
    BY <1>6 DEF ReportInv
  <2> QED
    BY <1>6, <2>1, FinishReport DEF history
<1>7. CASE Chunk
  <2>1. turn.at = "stream" /\ Midway(turn) /\ UNCHANGED history /\ turn.step # "none"
    BY <1>7 DEF Chunk, ChunkAfterAbort, ChunkDelta, ChunkToolCall, ChunkFailed, ChunkCompleted,
                Received, ReportInv
  <2>2. CASE ChunkDelta
    BY <2>1, <2>2, PlainReport DEF ChunkDelta, history
  <2>3. CASE ChunkToolCall \/ ChunkCompleted
    <3>1. /\ turn'.at = turn.at /\ turn'.id = turn.id /\ turn'.step = turn.step
          /\ UNCHANGED <<inflight, log>>
      BY <2>1, <2>3, SlotTyped DEF ChunkToolCall, ChunkCompleted, TurnType, store
    <3> QED
      BY <2>1, <3>1, QuietReport DEF history
  <2>4. CASE ChunkAfterAbort \/ ChunkFailed
    BY <2>1, <2>4, <1>6 DEF ChunkAfterAbort, ChunkFailed, ErrorCode
  <2> QED
    BY <1>7, <2>2, <2>3, <2>4 DEF Chunk
<1>8. CASE StreamThrows
  <2>1. PICK code \in ErrorCode \ {"none"} : StreamThrowsWith(code)
    BY <1>8 DEF StreamThrows
  <2> QED
    BY <2>1, <1>6 DEF StreamThrowsWith, ErrorCode
<1>9. CASE StreamEnds
  <2>1. turn.at = "stream" /\ UNCHANGED history /\ Midway(turn) /\ turn.step # "none"
    BY <1>9 DEF StreamEnds, ReportInv
  <2>2. CASE Finish("cancelled", "none") \/ Finish("final", "none")
    BY <2>1, <2>2, <1>6 DEF ErrorCode
  <2>3. CASE turn' = [turn EXCEPT !.at = "handle"] /\ UNCHANGED <<nextSequence, store>>
    <3>1. turn'.at = "handle" /\ turn'.id = turn.id /\ turn'.step = turn.step
      BY <2>3, SlotTyped DEF TurnType
    <3>2. Midway(turn')
      BY <2>1, <3>1 DEF Midway
    <3> QED
      BY <2>1, <2>3, <3>1, <3>2, QuietReport DEF store, history
  <2> QED
    BY <1>9, <2>2, <2>3 DEF StreamEnds
<1>10. ASSUME NEW k \in TurnIds, NEW detail \in Detail, HandlerCommits(k, detail)
       PROVE  ReportInv'
  <2> DEFINE c == Commit("tool", k, "tool", "none", "none", detail)
  <2>1. c \in Requested
    BY CommitTyped DEF TypeInv, TurnIds, EventType, StopReason, ErrorCode
  <2>2. SaysHow(c.event)
    BY DEF SaysHow, Commit
  <2>3. inflight' = Append(inflight, c) /\ UNCHANGED <<turn, log, shown, ended>>
    BY <1>10 DEF HandlerCommits, Submit, history
  <2> HIDE DEF c
  <2> QED
    BY <2>1, <2>2, <2>3, QuietReport DEF Joins
<1>11. CASE HandlerReturns
  <2> DEFINE left == [turn EXCEPT !.pending = @ - 1]
  <2>1. turn.at = "handle" /\ UNCHANGED history /\ Midway(turn) /\ turn.step # "none"
    BY <1>11 DEF HandlerReturns, ReportInv
  <2>2. left.id = turn.id /\ left.at = "handle" /\ left.step = turn.step
    BY <2>1, SlotTyped DEF TurnType
  <2>3. \/ turn' = [left EXCEPT !.at = "stream"] /\ UNCHANGED <<inflight, log>>
        \/ turn' = left /\ UNCHANGED <<inflight, log>>
        \/ Finish("cancelled", "none")
    BY <1>11 DEF HandlerReturns, store
  <2>4. CASE turn' \in {left, [left EXCEPT !.at = "stream"]} /\ UNCHANGED <<inflight, log>>
    <3>1. turn'.at \in {"handle", "stream"} /\ turn'.id = turn.id /\ turn'.step = turn.step
      BY <2>1, <2>4, SlotTyped DEF TurnType
    <3>2. Midway(turn')
      BY <2>1, <3>1 DEF Midway
    <3> QED
      BY <2>1, <2>4, <3>1, <3>2, QuietReport DEF history
  <2>5. CASE Finish("cancelled", "none")
    BY <2>1, <2>5, FinishReport DEF ErrorCode, history
  <2> QED
    BY <2>3, <2>4, <2>5
<1>12. CASE HandlerThrows
  BY <1>12, EndReport DEF HandlerThrows, store
<1>13. CASE UNCHANGED vars
  BY <1>13, QuietReport DEF vars, store, history
<1> QED
  BY <1>1, <1>2, <1>3, <1>4, <1>5, <1>7, <1>8, <1>9, <1>10, <1>11, <1>12, <1>13
  DEF Next, EngineNext, Provider

\* What is reported of the turns holds under the agent.
LEMMA ReportUnderAgent == AgentSpec => []ReportInv
<1>1. Init => ReportInv
  BY EngineAssumption
  DEF Init, NoTurn, ReportInv, Midway, CompletedAt, SaysHow
<1>2. EngineInv /\ Standing /\ ReportInv /\ [Next]_vars => ReportInv'
  BY StoreReport, AskingReport DEF EngineInv
<1> QED
  BY <1>1, <1>2, EngineUnderAgent, AgentImplementsEngine, PTL DEF Spec

-----------------------------------------------------------------------------
(***************************************************************************)
(* The calls of prompt.  To them a step of the engine is one of four: the  *)
(* generator works on, yields an event, or ends; or it is not touched.     *)
(***************************************************************************)

CallType == [phase : {"none", "iterating", "answered"}, turn : 0..MaxTurns,
             forwarded : BOOLEAN, stop : DOMAIN mapStopReason,
             answer : {"none", "error", "end_turn", "cancelled", "refusal"}]

LoadType == [phase : {"none", "replaying", "loaded", "failed"}, pos : Nat,
             sent : Seq(Entry), owed : SUBSET Prompts]

Keeps == /\ turn'.id = turn.id /\ turn'.at = turn.at /\ turn'.step = turn.step
         /\ UNCHANGED <<shown, ended>>

Works == /\ turn.at # "none" /\ turn'.at \notin {"none", "yield"} /\ turn'.id = turn.id
         /\ UNCHANGED <<shown, ended>>

Yields == /\ turn.at = "commit" /\ turn'.at = "yield" /\ turn'.id = turn.id
          /\ \E e \in Entry : Shows(turn.id, e)
          /\ UNCHANGED ended

Ends(how) == /\ turn.at # "none" /\ turn' = NoTurn /\ UNCHANGED shown
             /\ how \in {"returned", "threw", "abandoned"}
             /\ ended' = [ended EXCEPT ![turn.id] = how]

\* The consumer asks for the next event.
LEMMA ResumeMoves ==
    ASSUME TypeInv, Resume
    PROVE  /\ turn.at = "yield" /\ UNCHANGED log
           /\ \/ Works
              \/ Ends("returned") /\ turn.step = "completed"
              \/ Ends("threw")
<1>1. turn.at = "yield" /\ turn \in TurnType
  BY SlotTyped DEF Resume
<1>2. CASE /\ UNCHANGED history
           /\ Emit("user", Plain("turn", turn.id, "user.message"), turn)
  BY <1>1, <1>2 DEF Emit, Submit, history, Works, TurnType
<1>3. CASE turn' = [turn EXCEPT !.at = "stream"] /\ UNCHANGED <<nextSequence, store, history>>
  BY <1>1, <1>3 DEF store, history, Works, TurnType
<1>4. CASE Finish("error", "context_overflow") /\ UNCHANGED history
  BY <1>1, <1>4 DEF Finish, Emit, Submit, history, Works, TurnType
<1>5. CASE /\ turn.step = "completed" /\ EndTurn("returned")
           /\ UNCHANGED <<nextSequence, store, shown>>
  BY <1>1, <1>5 DEF store, EndTurn, Ends
<1>6. CASE EndTurn("threw") /\ UNCHANGED <<nextSequence, store, shown>>
  BY <1>1, <1>6 DEF store, EndTurn, Ends
<1> QED
  BY <1>1, <1>2, <1>3, <1>4, <1>5, <1>6 DEF Resume

\* The provider's stream goes on, or ends.
LEMMA StreamMoves ==
    ASSUME TypeInv, Provider
    PROVE  turn.at = "stream" /\ Works /\ UNCHANGED log
<1>1. turn.at = "stream" /\ turn \in TurnType /\ UNCHANGED <<shown, ended>>
  BY SlotTyped
  DEF Provider, Chunk, ChunkAfterAbort, ChunkDelta, ChunkToolCall, ChunkFailed, ChunkCompleted,
      Received, StreamThrows, StreamThrowsWith, StreamEnds, history
<1>2. ASSUME NEW stop, NEW code, Finish(stop, code)
      PROVE  turn'.id = turn.id /\ turn'.at = "commit" /\ UNCHANGED log
  BY <1>1, <1>2 DEF Finish, Emit, Submit, TurnType
<1>3. CASE Chunk
  <2>1. CASE ChunkAfterAbort \/ ChunkFailed
    BY <1>1, <1>2, <2>1 DEF ChunkAfterAbort, ChunkFailed, Works
  <2>2. CASE ChunkDelta
    BY <1>1, <2>2 DEF ChunkDelta, Emit, Submit, Works, TurnType
  <2>3. CASE ChunkToolCall \/ ChunkCompleted
    BY <1>1, <2>3 DEF ChunkToolCall, ChunkCompleted, Works, TurnType, store
  <2> QED
    BY <1>3, <2>1, <2>2, <2>3 DEF Chunk
<1>4. CASE StreamThrows
  BY <1>1, <1>2, <1>4 DEF StreamThrows, StreamThrowsWith, Works
<1>5. CASE StreamEnds
  <2>1. CASE Finish("cancelled", "none") \/ Finish("final", "none")
    BY <1>1, <1>2, <2>1 DEF Works
  <2>2. CASE turn' = [turn EXCEPT !.at = "handle"] /\ UNCHANGED <<nextSequence, store>>
    BY <1>1, <2>2 DEF Works, TurnType, store
  <2> QED
    BY <1>5, <2>1, <2>2 DEF StreamEnds
<1> QED
  BY <1>1, <1>3, <1>4, <1>5 DEF Provider

\* The store answers, or the handler goes on.
LEMMA WorkMoves ==
    ASSUME TypeInv, Standing,
           \/ Store \/ HandlerReturns \/ HandlerThrows
           \/ \E k \in TurnIds, detail \in Detail : HandlerCommits(k, detail)
    PROVE  \/ Keeps
           \/ turn.at # "yield" /\ Works
           \/ Yields
           \/ Ends("threw")
<1>1. turn \in TurnType
  BY SlotTyped
<1>2. CASE Store
  <2>1. PICK ok \in BOOLEAN : inflight # <<>> /\ Answered(Head(inflight), ok)
    BY <1>2 DEF Store, StoreKeeps, StoreRefuses, StoreFails
  <2>2. /\ Head(inflight).by \in {"create", "turn", "tool"} /\ Head(inflight).event \in Entry
        /\ Head(inflight).by = "turn" => turn.at = "commit"
    BY <2>1, HeadOwner
  <2>3. \/ UNCHANGED <<turn, shown, ended>>
        \/ /\ turn.at = "commit"
           /\ \/ /\ UNCHANGED ended
                 /\ turn'.at = "yield" /\ turn'.step = turn.step /\ turn'.id = turn.id
                 /\ Shows(turn.id, Head(inflight).event)
              \/ /\ UNCHANGED shown
                 /\ turn' = NoTurn /\ ended' = [ended EXCEPT ![turn.id] = "threw"]
              \/ /\ UNCHANGED <<shown, ended>>
                 /\ turn'.at = "commit" /\ turn'.step = "storeFailed" /\ turn'.id = turn.id
    BY <2>1, <2>2, AnsweredOwner
  <2> QED
    BY <2>2, <2>3 DEF Keeps, Works, Yields, Ends
<1>3. CASE HandlerReturns
  <2> DEFINE left == [turn EXCEPT !.pending = @ - 1]
  <2>1. turn.at = "handle" /\ UNCHANGED <<shown, ended>>
    BY <1>3 DEF HandlerReturns, history
  <2>2. left.id = turn.id /\ left.at = "handle" /\ left.step = turn.step
    BY <1>1, <2>1 DEF TurnType
  <2>3. turn' = [left EXCEPT !.at = "stream"] \/ turn' = left \/ Finish("cancelled", "none")
    BY <1>3 DEF HandlerReturns
  <2>4. CASE turn' \in {left, [left EXCEPT !.at = "stream"]}
    BY <1>1, <2>1, <2>2, <2>4 DEF TurnType, Works
  <2>5. CASE Finish("cancelled", "none")
    BY <1>1, <2>1, <2>5 DEF Finish, Emit, TurnType, Works
  <2> QED
    BY <2>3, <2>4, <2>5
<1>4. CASE HandlerThrows
  BY <1>4 DEF HandlerThrows, EndTurn, Ends
<1>5. CASE \E k \in TurnIds, detail \in Detail : HandlerCommits(k, detail)
  BY <1>5 DEF HandlerCommits, history, Keeps
<1> QED
  BY <1>2, <1>3, <1>4, <1>5

\* A call is answered when its turn has ended, and only then.
LEMMA OutcomeOf ==
    ASSUME NEW call \in CallType
    PROVE  /\ Outcome(call) \in CallType
           /\ call.phase # "iterating" \/ ended'[call.turn] = "no" => Outcome(call) = call
           /\ call.phase = "iterating" /\ ended'[call.turn] # "no" =>
                 /\ Outcome(call).phase = "answered" /\ Outcome(call).turn = call.turn
                 /\ ended'[call.turn] = "returned" =>
                       Outcome(call).answer = mapStopReason[call.stop]
                 /\ ended'[call.turn] # "returned" => Outcome(call).answer = "error"
<1>1. mapStopReason[call.stop] \in {"end_turn", "cancelled", "refusal"}
  BY DEF CallType, mapStopReason
<1> DEFINE answer == IF ended'[call.turn] = "returned" THEN mapStopReason[call.stop] ELSE "error"
<1>2. answer \in {"error", "end_turn", "cancelled", "refusal"}
  BY <1>1
<1>3. /\ [call EXCEPT !.phase = "answered", !.answer = answer] \in CallType
      /\ [call EXCEPT !.phase = "answered", !.answer = answer].phase = "answered"
      /\ [call EXCEPT !.phase = "answered", !.answer = answer].turn = call.turn
      /\ [call EXCEPT !.phase = "answered", !.answer = answer].answer = answer
  <2> HIDE DEF answer
  <2> QED
    BY <1>2 DEF CallType
<1>4. Outcome(call) = IF call.phase # "iterating" \/ ended'[call.turn] = "no" THEN call
                      ELSE [call EXCEPT !.phase = "answered", !.answer = answer]
  BY DEF Outcome
<1> QED
  BY <1>3, <1>4

\* The types of the agent and its calls hold at first.
LEMMA AgentInitially == AgentInit => AgentTypeOK /\ IteratingInv /\ AnsweredInv /\ LoadInv
<1> SUFFICES ASSUME AgentInit PROVE AgentTypeOK /\ IteratingInv /\ AnsweredInv /\ LoadInv
  OBVIOUS
<1> USE DEF AgentInit
<1>1. NoPrompt \in CallType /\ NoPrompt.phase = "none" /\ NoLoad \in LoadType
  BY EngineAssumption DEF NoPrompt, CallType, NoLoad, LoadType, mapStopReason
<1>2. AgentTypeOK
  BY <1>1 DEF AgentTypeOK, CallType, LoadType
<1>3. IteratingInv /\ AnsweredInv
  BY <1>1 DEF IteratingInv, AnsweredInv, Iterates, Told
<1>4. LoadInv
  BY DEF LoadInv, NoLoad, Carries, EventsOf, Init
<1> QED
  BY <1>2, <1>3, <1>4

\* Settle answers nothing while no turn ends.
LEMMA SettleKeeps ==
    ASSUME Standing, AgentTypeOK, IteratingInv, UNCHANGED ended, Settle
    PROVE  prompt' = prompt
<1>1. prompt \in [Prompts -> CallType]
  BY DEF AgentTypeOK, CallType
<1>2. ASSUME NEW p \in Prompts PROVE Outcome(prompt[p]) = prompt[p]
  <2>1. Iterates(p) => ended'[prompt[p].turn] = "no"
    BY DEF IteratingInv, Serves, Standing
  <2> QED
    BY <1>1, <2>1, OutcomeOf DEF Iterates
<1> QED
  BY <1>1, <1>2 DEF Settle

\* When a turn ends its call is answered, the others are what they were.
LEMMA SettleEnds ==
    ASSUME TypeInv, Standing, AgentTypeOK, IteratingInv, Settle, NEW how, Ends(how)
    PROVE  /\ prompt' \in [Prompts -> CallType]
           /\ \A p \in Prompts :
                 /\ prompt'[p].phase # "iterating"
                 /\ ~Iterates(p) => prompt'[p] = prompt[p]
                 /\ Iterates(p) => /\ prompt'[p].phase = "answered"
                                   /\ prompt'[p].turn = prompt[p].turn
                                   /\ how # "returned" => prompt'[p].answer = "error"
<1>1. prompt \in [Prompts -> CallType] /\ turn.id \in TurnIds
      /\ ended \in [TurnIds -> {"no", "returned", "threw", "abandoned"}]
  BY SlotTyped DEF AgentTypeOK, CallType, Ends
<1>2. prompt' \in [Prompts -> CallType] /\ \A p \in Prompts : prompt'[p] = Outcome(prompt[p])
  BY <1>1, OutcomeOf DEF Settle
<1>3. ASSUME NEW p \in Prompts
      PROVE  /\ prompt'[p].phase # "iterating"
             /\ ~Iterates(p) => prompt'[p] = prompt[p]
             /\ Iterates(p) => /\ prompt'[p].phase = "answered"
                               /\ prompt'[p].turn = prompt[p].turn
                               /\ how # "returned" => prompt'[p].answer = "error"
  <2>1. prompt[p] \in CallType
    BY <1>1
  <2>2. CASE ~Iterates(p)
    BY <1>2, <2>1, <2>2, OutcomeOf DEF Iterates
  <2>3. CASE Iterates(p)
    <3>1. ended'[prompt[p].turn] = how /\ how # "no"
      BY <1>1, <2>3 DEF IteratingInv, Serves, Ends
    <3> QED
      BY <1>2, <2>1, <2>3, <3>1, OutcomeOf DEF Iterates
  <2> QED
    BY <2>2, <2>3
<1> QED
  BY <1>2, <1>3

-----------------------------------------------------------------------------
(* What is surfaced, and what a sequence carries.                          *)

\* The tokens used are reported of a turn that goes on.
Meters == \/ UNCHANGED metered
          \/ /\ turn.at # "none" /\ Midway(turn)
             /\ metered' = metered \cup {turn.id}

\* So of what has been shown of a turn it is settled what is surfaced.
LEMMA SurfaceStays ==
    ASSUME TypeInv, Standing, ReportInv, Meters, NEW k \in TurnIds, NEW e \in EventsOf(shown[k]),
           ended[k] = "returned" \/ k = turn.id
    PROVE  Surfaced(e)' <=> Surfaced(e)
<1>1. CASE UNCHANGED metered
  BY <1>1 DEF Surfaced, HasUsage
<1>2. CASE turn.at # "none" /\ Midway(turn) /\ metered' = metered \cup {turn.id}
  <2>1. EventsOf(shown[k]) = LogOf(k)
    BY <1>2 DEF ReportInv, Midway
  <2>2. e.turn = k /\ e \in LogOf(k)
    BY <2>1 DEF LogOf
  <2>3. CASE k = turn.id
    <3>1. CompletedAt(k) = {}
      BY <1>2, <2>3 DEF ReportInv
    <3>2. e.type # "turn.completed"
      BY <2>2, <3>1 DEF LogOf, CompletedAt
    <3> QED
      BY <3>2 DEF Surfaced
  <2>4. CASE k # turn.id
    BY <1>2, <2>2, <2>4 DEF Surfaced, HasUsage
  <2> QED
    BY <2>3, <2>4
<1> QED
  BY <1>1, <1>2 DEF Meters

\* An event of a later sequence goes behind what is carried already.
LEMMA CarriesOn ==
    ASSUME NEW s \in Seq(Entry), NEW S, Carries(s, S), NEW e \in Entry,
           \A x \in S : x.sequence < e.sequence
    PROVE  Carries(Append(s, e), S \cup {e})
<1>1. /\ DOMAIN Append(s, e) = 1..(Len(s) + 1) /\ DOMAIN s = 1..Len(s) /\ Len(s) \in Nat
      /\ Append(s, e)[Len(s) + 1] = e
      /\ \A i \in 1..Len(s) : Append(s, e)[i] = s[i]
  BY AppendProperties
<1>2. EventsOf(Append(s, e)) = S \cup {e}
  <2>1. EventsOf(s) = S
    BY DEF Carries
  <2>2. 1..(Len(s) + 1) = 1..Len(s) \cup {Len(s) + 1}
    BY <1>1
  <2> QED
    BY <1>1, <2>1, <2>2 DEF EventsOf
<1>3. ASSUME NEW i \in DOMAIN Append(s, e), NEW j \in 1..(i - 1)
      PROVE  Append(s, e)[j].sequence < Append(s, e)[i].sequence
  <2>1. j \in 1..Len(s) /\ Append(s, e)[j] = s[j]
    BY <1>1, <1>3
  <2>2. CASE i = Len(s) + 1
    <3>1. s[j] \in S
      BY <1>1, <2>1 DEF Carries, EventsOf
    <3> QED
      BY <1>1, <2>1, <2>2, <3>1
  <2>3. CASE i # Len(s) + 1
    <3>1. i \in 1..Len(s) /\ Append(s, e)[i] = s[i]
      BY <1>1, <2>3
    <3> QED
      BY <1>1, <1>3, <2>1, <3>1 DEF Carries
  <2> QED
    BY <2>2, <2>3
<1> QED
  BY <1>2, <1>3 DEF Carries

\* What was shown last is later than the rest.
LEMMA LastIsLatest ==
    ASSUME TypeOK, DurableThenVisible, NEW k \in TurnIds, shown[k] # <<>>
    PROVE  /\ LastShown(k) \in Entry /\ LastShown(k) \in EventsOf(shown[k])
           /\ \A x \in EventsOf(shown[k]) \ {LastShown(k)} : x.sequence < LastShown(k).sequence
<1>1. /\ shown[k] \in Seq(Entry) /\ Len(shown[k]) \in Nat /\ Len(shown[k]) > 0
      /\ DOMAIN shown[k] = 1..Len(shown[k])
  BY DEF TypeOK
<1>2. LastShown(k) \in Entry /\ LastShown(k) \in EventsOf(shown[k])
  BY <1>1 DEF LastShown, EventsOf
<1>3. ASSUME NEW x \in EventsOf(shown[k]) \ {LastShown(k)} PROVE x.sequence < LastShown(k).sequence
  <2>1. PICK i \in DOMAIN shown[k] : x = shown[k][i]
    BY <1>3 DEF EventsOf
  <2>2. i \in 1..(Len(shown[k]) - 1)
    BY <1>1, <1>3, <2>1 DEF LastShown
  <2> QED
    BY <1>1, <2>1, <2>2 DEF DurableThenVisible, LastShown
<1> QED
  BY <1>2, <1>3

\* What is shown was not shown before.
LEMMA YieldedIsNew ==
    ASSUME TypeOK, DurableThenVisible', NEW k \in TurnIds, NEW e \in Entry, Shows(k, e)
    PROVE  e \notin EventsOf(shown[k])
<1>1. /\ shown[k] \in Seq(Entry) /\ shown'[k] = Append(shown[k], e)
      /\ \A i \in 1..Len(shown[k]) : shown[k][i] \in Entry
  BY DEF TypeOK, Shows
<1>2. /\ DOMAIN shown'[k] = 1..(Len(shown[k]) + 1) /\ DOMAIN shown[k] = 1..Len(shown[k])
      /\ Len(shown[k]) \in Nat /\ shown'[k][Len(shown[k]) + 1] = e
      /\ \A i \in 1..Len(shown[k]) : shown'[k][i] = shown[k][i]
  BY <1>1, AppendProperties
<1>3. \A j \in 1..Len(shown[k]) : shown[k][j].sequence < e.sequence
  <2>1. \A i \in DOMAIN shown'[k] : \A j \in 1..(i - 1) :
           shown'[k][j].sequence < shown'[k][i].sequence
    BY DEF DurableThenVisible
  <2>2. Len(shown[k]) + 1 \in DOMAIN shown'[k] /\ (Len(shown[k]) + 1) - 1 = Len(shown[k])
    BY <1>2
  <2>3. \A j \in 1..Len(shown[k]) : shown'[k][j].sequence < shown'[k][Len(shown[k]) + 1].sequence
    BY <2>1, <2>2
  <2> QED
    BY <1>2, <2>3
<1>4. e.sequence \in Nat
  BY DEF Entry
<1>5. \A j \in 1..Len(shown[k]) : shown[k][j] # e
  BY <1>3, <1>4
<1> QED
  BY <1>2, <1>5 DEF EventsOf

-----------------------------------------------------------------------------
(* The call that iterates, from step to step.                              *)

\* While nothing is yielded it has been sent what it was.
LEMMA ServesOn ==
    ASSUME TypeInv, Standing, ReportInv, Meters, NEW p \in Prompts, Serves(p),
           sent'[p] = sent[p], prompt'[p].turn = prompt[p].turn, prompt'[p].stop = prompt[p].stop,
           \A q \in Prompts : Iterates(q)' => Iterates(q),
           \/ Keeps /\ prompt'[p].forwarded = prompt[p].forwarded
           \/ /\ Works /\ ~prompt'[p].forwarded
              /\ turn.at = "yield" => prompt[p].forwarded
    PROVE  Serves(p)'
<1>1. PICK k \in TurnIds : k = turn.id /\ k = turn'.id
  BY SlotTyped DEF Serves, Keeps, Works
<1>2. UNCHANGED <<shown, ended>> /\ turn'.at # "none"
  BY DEF Keeps, Works, Serves
<1>3. \A e \in EventsOf(shown[k]) : Surfaced(e)' <=> Surfaced(e)
  BY <1>1, SurfaceStays
<1>4. Owing(p)' = Owing(p)
  <2>1. LastShown(turn.id)' = LastShown(turn.id)
    BY <1>1, <1>2 DEF LastShown
  <2>2. CASE Keeps /\ prompt'[p].forwarded = prompt[p].forwarded
    BY <2>1, <2>2 DEF Owing, Keeps
  <2>3. CASE Works /\ ~prompt'[p].forwarded /\ (turn.at = "yield" => prompt[p].forwarded)
    BY <2>3 DEF Owing, Works
  <2> QED
    BY <2>2, <2>3
<1>5. {e \in EventsOf(shown[k]) \ Owing(p) : Surfaced(e)}'
         = {e \in EventsOf(shown[k]) \ Owing(p) : Surfaced(e)}
  BY <1>2, <1>3, <1>4 DEF EventsOf
<1>6. Carries(sent[p], {e \in EventsOf(shown[k]) \ Owing(p) : Surfaced(e)})'
  BY <1>1, <1>5 DEF Serves, Carries, EventsOf
<1>7. prompt'[p].forwarded => turn'.at = "yield" /\ prompt[p].forwarded /\ turn'.step = turn.step
  BY DEF Keeps, Works, Serves
<1>8. LastShown(turn.id)' = LastShown(turn.id)
  BY <1>1, <1>2 DEF LastShown
<1> QED
  BY <1>1, <1>2, <1>6, <1>7, <1>8 DEF Serves

\* An event is yielded to it, which it has not been sent.
LEMMA ServesYield ==
    ASSUME TypeInv, DurableThenVisible', Yields, UNCHANGED <<prompt, sent, metered>>,
           NEW p \in Prompts, Iterates(p), Serves(p)
    PROVE  Serves(p)'
<1>1. PICK k \in TurnIds : k = turn.id /\ k = turn'.id
  BY SlotTyped DEF Serves, Yields
<1>2. PICK e \in Entry : Shows(k, e)
  BY <1>1 DEF Yields
<1>3. /\ EventsOf(shown'[k]) = EventsOf(shown[k]) \cup {e} /\ LastShown(k)' = e
      /\ e \notin EventsOf(shown[k])
  BY <1>2, YieldShows, YieldedIsNew DEF LastShown, TypeInv
<1>4. Owing(p) = {} /\ Owing(p)' = {e} /\ ~prompt[p].forwarded
  BY <1>1, <1>3 DEF Owing, Serves, Yields
<1>5. {x \in EventsOf(shown[k]) \ Owing(p) : Surfaced(x)}'
         = {x \in EventsOf(shown[k]) \ Owing(p) : Surfaced(x)}
  <2>1. (EventsOf(shown[k]) \ Owing(p))' = EventsOf(shown[k]) \ Owing(p)
    BY <1>3, <1>4 DEF EventsOf
  <2> QED
    BY <2>1 DEF Surfaced, HasUsage
<1>6. Carries(sent[p], {x \in EventsOf(shown[k]) \ Owing(p) : Surfaced(x)})'
  BY <1>1, <1>5 DEF Serves, Carries, EventsOf
<1>7. \A q \in Prompts : Iterates(q)' => p = q
  BY DEF Serves, Iterates
<1> QED
  BY <1>1, <1>4, <1>6, <1>7 DEF Serves, Yields

-----------------------------------------------------------------------------
(* The calls answered, from step to step.                                  *)

\* What a step can do to what was shown, and to how the turns ended.
Moves == UNCHANGED <<shown, ended>> \/ Yields \/ \E how : Ends(how)

\* Of a turn that returned nothing changes.
LEMMA ReturnedStays ==
    ASSUME TypeInv, Standing, Moves, NEW k \in TurnIds, ended[k] = "returned"
    PROVE  shown'[k] = shown[k] /\ ended'[k] = ended[k] /\ turn.id # k
<1>1. turn.at # "none" => turn.id \in TurnIds /\ ended[turn.id] = "no"
  BY SlotTyped DEF Standing
<1>2. turn.id # k
  <2>1. CASE turn.at = "none"
    BY <2>1 DEF TypeInv, SlotInv, NoTurn, TurnIds
  <2>2. CASE turn.at # "none"
    BY <1>1, <2>2
  <2> QED
    BY <2>1, <2>2
<1>3. CASE UNCHANGED <<shown, ended>>
  BY <1>2, <1>3
<1>4. CASE Yields
  <2>1. PICK e \in Entry : Shows(turn.id, e)
    BY <1>4 DEF Yields
  <2>2. PICK t \in TurnIds : t = turn.id
    BY <1>1, <1>4 DEF Yields
  <2> QED
    BY <1>2, <1>4, <2>1, <2>2, YieldShows DEF TypeInv, Yields
<1>5. ASSUME NEW how, Ends(how) PROVE shown'[k] = shown[k] /\ ended'[k] = ended[k]
  <2>1. ended \in [TurnIds -> {"no", "returned", "threw", "abandoned"}]
    BY SlotTyped
  <2> QED
    BY <1>2, <1>5, <2>1 DEF Ends
<1> QED
  BY <1>2, <1>3, <1>4, <1>5 DEF Moves

\* So the answer a call was given stays the right one.
LEMMA AnswersOn ==
    ASSUME TypeInv, Standing, ReportInv, Moves, Meters, NEW p \in Prompts, Answers(p),
           prompt'[p] = prompt[p], sent'[p] = sent[p]
    PROVE  Answers(p)'
<1>1. PICK k \in TurnIds : k = prompt[p].turn /\ ended[k] = "returned"
  BY DEF Answers
<1>2. shown'[k] = shown[k] /\ ended'[k] = "returned"
  BY <1>1, ReturnedStays
<1>3. LastShown(k)' = LastShown(k) /\ EventsOf(shown[k])' = EventsOf(shown[k])
  BY <1>2 DEF LastShown, EventsOf
<1>4. \A e \in EventsOf(shown[k]) : Surfaced(e)' <=> Surfaced(e)
  BY <1>1, SurfaceStays
<1>5. {e \in EventsOf(shown[k]) : Surfaced(e)}' = {e \in EventsOf(shown[k]) : Surfaced(e)}
  BY <1>3, <1>4
<1>6. Carries(sent[p], {e \in EventsOf(shown[k]) : Surfaced(e)})'
  BY <1>1, <1>5 DEF Answers, Carries, EventsOf
<1>7. prompt'[p].answer = mapStopReason[LastShown(k).stop]'
  BY <1>1, <1>3 DEF Answers, mapStopReason
<1> QED
  BY <1>1, <1>2, <1>6, <1>7 DEF Answers

\* A step that answers no call with a stop reason.
LEMMA AnsweredOn ==
    ASSUME TypeInv, Standing, ReportInv, AnsweredInv, Moves, Meters,
           \A p \in Prompts :
              \/ prompt'[p] = prompt[p] /\ sent'[p] = sent[p]
              \/ prompt'[p].phase = "iterating"
              \/ prompt'[p].phase = "answered" /\ prompt'[p].answer = "error"
    PROVE  AnsweredInv'
<1> SUFFICES ASSUME NEW p \in Prompts
             PROVE  /\ prompt'[p].phase = "none" => prompt'[p] = NoPrompt /\ sent'[p] = <<>>
                    /\ Told(p)' => Answers(p)'
  BY DEF AnsweredInv
<1>1. CASE prompt'[p] = prompt[p] /\ sent'[p] = sent[p]
  <2>1. Told(p)' => Told(p)
    BY <1>1 DEF Told
  <2>2. Told(p)' => Answers(p)'
    BY <1>1, <2>1, AnswersOn DEF AnsweredInv
  <2> QED
    BY <1>1, <2>2 DEF AnsweredInv
<1>2. CASE \/ prompt'[p].phase = "iterating"
           \/ prompt'[p].phase = "answered" /\ prompt'[p].answer = "error"
  BY <1>2 DEF Told
<1> QED
  BY <1>1, <1>2

-----------------------------------------------------------------------------
(* The steps of the agent.                                                 *)

CallInv == AgentTypeOK /\ IteratingInv /\ AnsweredInv

\* A step of the engine that reaches no call.
LEMMA QuietCalls ==
    ASSUME TypeInv, Standing, ReportInv, CallInv,
           \/ Keeps
           \/ turn.at # "yield" /\ Works,
           Meters, metered' \in SUBSET TurnIds, UNCHANGED <<prompt, sent>>, load' \in LoadType
    PROVE  CallInv'
<1>1. AgentTypeOK'
  BY DEF CallInv, AgentTypeOK, LoadType
<1>2. Moves
  BY DEF Moves, Keeps, Works
<1>3. AnsweredInv'
  BY <1>2, AnsweredOn DEF CallInv
<1>4. ASSUME NEW p \in Prompts, Iterates(p)' PROVE Serves(p)'
  <2>1. Iterates(p) /\ Serves(p)
    BY <1>4 DEF CallInv, IteratingInv, Iterates
  <2>2. \A q \in Prompts : Iterates(q)' => Iterates(q)
    BY DEF Iterates
  <2>3. turn.at # "yield" => ~prompt[p].forwarded
    BY <2>1 DEF Serves, CallInv, AgentTypeOK
  <2> QED
    BY <2>1, <2>2, <2>3, ServesOn
<1> QED
  BY <1>1, <1>3, <1>4 DEF CallInv, IteratingInv

\* A call is refused, or takes the turn it iterates.
LEMMA CallRefused ==
    ASSUME NEW c \in CallType
    PROVE  LET r == [c EXCEPT !.phase = "answered", !.answer = "error"] IN
           r \in CallType /\ r.phase = "answered" /\ r.answer = "error"
  BY DEF CallType

LEMMA CallTaken ==
    ASSUME NEW k \in 0..MaxTurns
    PROVE  LET r == [NoPrompt EXCEPT !.phase = "iterating", !.turn = k] IN
           r \in CallType /\ r.phase = "iterating" /\ r.turn = k /\ r.forwarded = FALSE
  BY DEF CallType, NoPrompt, mapStopReason

\* The turn is begun that a call is to iterate, or the call is refused.
LEMMA PromptCalls ==
    ASSUME TypeInv, Standing, ReportInv, CallInv, NEW p \in Prompts, Prompt(p)
    PROVE  CallInv'
<1>1. /\ prompt[p].phase = "none" /\ UNCHANGED <<sent, metered, load>>
      /\ prompt \in [Prompts -> CallType] /\ turns \in 0..MaxTurns
      /\ prompt[p] = NoPrompt /\ sent[p] = <<>>
  BY SlotTyped DEF Prompt, CallInv, AgentTypeOK, CallType, AnsweredInv
<1>2. prompt[p] \in CallType
  BY <1>1
<1>3. Meters
  BY <1>1 DEF Meters
<1>4. CASE /\ prompt' = [prompt EXCEPT ![p].phase = "answered", ![p].answer = "error"]
           /\ UNCHANGED vars
  <2>1. /\ prompt'[p] = [prompt[p] EXCEPT !.phase = "answered", !.answer = "error"]
        /\ \A q \in Prompts \ {p} : prompt'[q] = prompt[q]
        /\ prompt' = [prompt EXCEPT ![p] = prompt'[p]]
    BY <1>1, <1>4
  <2>2. prompt' \in [Prompts -> CallType] /\ prompt'[p].phase = "answered"
        /\ prompt'[p].answer = "error"
    <3>1. /\ prompt'[p] \in CallType /\ prompt'[p].phase = "answered"
          /\ prompt'[p].answer = "error"
      BY <1>2, <2>1, CallRefused
    <3> QED
      BY <1>1, <2>1, <3>1
  <2>3. AgentTypeOK'
    BY <1>1, <2>2 DEF CallInv, AgentTypeOK, CallType
  <2>4. Keeps /\ Moves
    BY <1>4 DEF vars, Keeps, Moves, history
  <2>5. AnsweredInv'
    BY <1>1, <1>3, <2>1, <2>2, <2>4, AnsweredOn DEF CallInv
  <2>6. \A q \in Prompts : Iterates(q)' => q # p /\ Iterates(q)
    BY <2>1, <2>2 DEF Iterates
  <2>7. ASSUME NEW q \in Prompts, Iterates(q)' PROVE Serves(q)'
    <3>1. q # p /\ Iterates(q) /\ Serves(q)
      BY <2>6, <2>7 DEF CallInv, IteratingInv
    <3> QED
      BY <1>1, <1>3, <2>1, <2>4, <2>6, <3>1, ServesOn
  <2> QED
    BY <2>3, <2>5, <2>7 DEF CallInv, IteratingInv
<1>5. CASE /\ RunTurn
           /\ prompt' = [prompt EXCEPT ![p].phase = "iterating", ![p].turn = turn'.id]
  <2>1. /\ turn.at = "none" /\ turns + 1 \in TurnIds /\ UNCHANGED <<log, shown, ended>>
        /\ turn'.id = turns + 1 /\ turn'.at = "commit" /\ turn'.step = "started"
    <3>1. /\ turn.at = "none" /\ turns < MaxTurns /\ UNCHANGED history
          /\ \E aborted \in BOOLEAN :
                Emit("started", Plain("turn", turns + 1, "turn.started"),
                     [NoTurn EXCEPT !.id = turns + 1, !.fsm = "running", !.aborted = aborted])
      BY <1>5 DEF RunTurn
    <3>2. turns + 1 \in TurnIds
      BY <1>1, <3>1, EngineAssumption DEF TurnIds
    <3> QED
      BY <3>1, <3>2 DEF Emit, Submit, history, NoTurn
  <2>2. PICK k \in TurnIds : k = turns + 1 /\ k = turn'.id /\ k \in 0..MaxTurns
    BY <2>1 DEF TurnIds
  <2>3. /\ prompt'[p] = [prompt[p] EXCEPT !.phase = "iterating", !.turn = k]
        /\ \A q \in Prompts \ {p} : prompt'[q] = prompt[q]
        /\ prompt' = [prompt EXCEPT ![p] = prompt'[p]]
    BY <1>1, <1>5, <2>2
  <2>4. /\ prompt' \in [Prompts -> CallType] /\ prompt'[p].phase = "iterating"
        /\ prompt'[p].turn = k /\ prompt'[p].forwarded = FALSE
    <3>1. prompt'[p] = [NoPrompt EXCEPT !.phase = "iterating", !.turn = k] /\ k \in 0..MaxTurns
      BY <1>1, <2>2, <2>3
    <3>2. /\ prompt'[p] \in CallType /\ prompt'[p].phase = "iterating"
          /\ prompt'[p].turn = k /\ prompt'[p].forwarded = FALSE
      BY <3>1, CallTaken
    <3> QED
      BY <1>1, <2>3, <3>2
  <2>5. AgentTypeOK'
    BY <1>1, <2>4 DEF CallInv, AgentTypeOK, CallType
  <2>6. AnsweredInv'
    BY <1>1, <1>3, <2>1, <2>3, <2>4, AnsweredOn DEF CallInv, Moves
  <2>7. \A q \in Prompts : Iterates(q)' => q = p
    BY <2>1, <2>3 DEF Iterates, CallInv, IteratingInv, Serves
  <2>8. shown[k] = <<>>
    BY <1>1, <2>2 DEF Standing
  <2>9. Carries(sent[p], {e \in EventsOf(shown[k]) \ Owing(p) : Surfaced(e)})'
    BY <1>1, <2>1, <2>8 DEF Carries, EventsOf
  <2>10. Serves(p)'
    BY <2>1, <2>2, <2>4, <2>7, <2>9 DEF Serves
  <2> QED
    BY <2>5, <2>6, <2>7, <2>10 DEF CallInv, IteratingInv
<1> QED
  BY <1>4, <1>5 DEF Prompt

\* A turn that ends without returning: its call is answered with an error.
LEMMA EndCalls ==
    ASSUME TypeInv, Standing, ReportInv, CallInv, NEW how \in {"threw", "abandoned"}, Ends(how),
           Settle, UNCHANGED <<sent, metered, load>>
    PROVE  CallInv'
<1>1. /\ prompt' \in [Prompts -> CallType]
      /\ \A p \in Prompts :
            /\ prompt'[p].phase # "iterating"
            /\ ~Iterates(p) => prompt'[p] = prompt[p]
            /\ Iterates(p) => prompt'[p].phase = "answered" /\ prompt'[p].answer = "error"
  BY SettleEnds DEF CallInv
<1>2. AgentTypeOK'
  BY <1>1 DEF CallInv, AgentTypeOK, CallType
<1>3. AnsweredInv'
  BY <1>1, AnsweredOn DEF CallInv, Moves, Meters
<1>4. IteratingInv'
  BY <1>1 DEF IteratingInv, Iterates
<1> QED
  BY <1>2, <1>3, <1>4 DEF CallInv

\* The store answers or the tool handler goes on.
LEMMA WorkCalls ==
    ASSUME TypeInv, Standing, ReportInv, CallInv, DurableThenVisible', EngineWorks
    PROVE  CallInv'
<1>1. /\ Settle /\ UNCHANGED <<sent, metered, load>>
      /\ Keeps \/ (turn.at # "yield" /\ Works) \/ Yields \/ Ends("threw")
  BY WorkMoves DEF EngineWorks
<1>2. CASE Ends("threw")
  BY <1>1, <1>2, EndCalls
<1>3. CASE Keeps \/ (turn.at # "yield" /\ Works) \/ Yields
  <2>1. prompt' = prompt
    BY <1>1, <1>3, SettleKeeps DEF CallInv, Keeps, Works, Yields
  <2>2. Meters /\ metered' \in SUBSET TurnIds
    BY <1>1 DEF Meters, CallInv, AgentTypeOK
  <2>3. load' \in LoadType
    BY <1>1 DEF CallInv, AgentTypeOK, LoadType
  <2>4. CASE Keeps
    BY <1>1, <2>1, <2>2, <2>3, <2>4, QuietCalls
  <2>5. CASE turn.at # "yield" /\ Works
    BY <1>1, <2>1, <2>2, <2>3, <2>5, QuietCalls
  <2>6. CASE Yields
    <3>1. AgentTypeOK'
      BY <1>1, <2>1 DEF CallInv, AgentTypeOK
    <3>2. AnsweredInv'
      BY <1>1, <2>1, <2>2, <2>6, AnsweredOn DEF CallInv, Moves
    <3>3. ASSUME NEW p \in Prompts, Iterates(p)' PROVE Serves(p)'
      <4>1. Iterates(p) /\ Serves(p)
        BY <2>1, <3>3 DEF CallInv, IteratingInv, Iterates
      <4> QED
        BY <1>1, <2>1, <2>6, <4>1, ServesYield
    <3> QED
      BY <3>1, <3>2, <3>3 DEF CallInv, IteratingInv
  <2> QED
    BY <1>3, <2>4, <2>5, <2>6
<1> QED
  BY <1>1, <1>2, <1>3

\* The provider's stream goes on, and may report the tokens used.
LEMMA StreamCalls ==
    ASSUME TypeInv, Standing, ReportInv, CallInv, Stream
    PROVE  /\ CallInv' /\ Meters /\ UNCHANGED <<load, log, shown, ended>>
<1>1. /\ Settle /\ UNCHANGED <<sent, load, log>> /\ turn.at = "stream" /\ Works
      /\ UNCHANGED metered \/ metered' = metered \cup {turn.id}
  BY StreamMoves DEF Stream
<1>2. turn.id \in TurnIds /\ Midway(turn)
  BY <1>1, SlotTyped DEF ReportInv
<1>3. Meters
  BY <1>1, <1>2 DEF Meters
<1>4. prompt' = prompt
  BY <1>1, SettleKeeps DEF CallInv, Works
<1>5. metered' \in SUBSET TurnIds
  BY <1>1, <1>2 DEF CallInv, AgentTypeOK
<1>6. load' \in LoadType
  BY <1>1 DEF CallInv, AgentTypeOK, LoadType
<1> QED
  BY <1>1, <1>3, <1>4, <1>5, <1>6, QuietCalls DEF Works

\* The event that was yielded is forwarded, and remembered if it is the last.
LEMMA ForwardCalls ==
    ASSUME TypeInv, Standing, ReportInv, CallInv, DurableThenVisible,
           NEW p \in Prompts, Forward(p)
    PROVE  CallInv'
<1>1. /\ Iterates(p) /\ turn.at = "yield" /\ prompt[p].forwarded = FALSE
      /\ UNCHANGED <<vars, metered, load>>
      /\ prompt \in [Prompts -> CallType] /\ sent \in [Prompts -> Seq(Entry)] /\ Serves(p)
  BY DEF Forward, CallInv, AgentTypeOK, CallType, IteratingInv
<1>2. PICK k \in TurnIds : k = turn.id
  BY <1>1, SlotTyped
<1>3. /\ shown[k] # <<>> /\ Yielded = LastShown(k)
      /\ Yielded \in Entry /\ Yielded \in EventsOf(shown[k])
      /\ \A x \in EventsOf(shown[k]) \ {Yielded} : x.sequence < Yielded.sequence
  <2>1. shown[k] # <<>> /\ Yielded = LastShown(k)
    BY <1>1, <1>2 DEF ReportInv, Yielded, LastShown
  <2> QED
    BY <2>1, LastIsLatest DEF TypeInv
<1> DEFINE stop == IF Yielded.type = "turn.completed" THEN Yielded.stop ELSE prompt[p].stop
<1>4. stop \in DOMAIN mapStopReason
  <2>1. \E n \in DOMAIN log : log[n] = Yielded
    BY <1>2, <1>3 DEF DurableThenVisible, EventsOf
  <2>2. SaysHow(Yielded)
    BY <2>1 DEF ReportInv
  <2> QED
    BY <1>1, <2>2 DEF SaysHow, CallType
<1>5. prompt' = [prompt EXCEPT ![p] = [prompt[p] EXCEPT !.forwarded = TRUE, !.stop = stop]]
  BY <1>1 DEF Forward
<1> HIDE DEF stop
<1>6. /\ prompt'[p] \in CallType /\ prompt'[p].phase = "iterating" /\ prompt'[p].forwarded = TRUE
      /\ prompt'[p].turn = prompt[p].turn /\ prompt'[p].stop = stop
      /\ \A q \in Prompts \ {p} : prompt'[q] = prompt[q]
      /\ prompt' \in [Prompts -> CallType]
  <2>1. \A c \in CallType :
           LET r == [c EXCEPT !.forwarded = TRUE, !.stop = stop] IN
           /\ r \in CallType /\ r.phase = c.phase /\ r.forwarded = TRUE
           /\ r.turn = c.turn /\ r.stop = stop
    BY <1>4 DEF CallType
  <2>2. prompt'[p] = [prompt[p] EXCEPT !.forwarded = TRUE, !.stop = stop]
    BY <1>1, <1>5
  <2>3. /\ prompt'[p] \in CallType /\ prompt'[p].phase = "iterating" /\ prompt'[p].forwarded = TRUE
        /\ prompt'[p].turn = prompt[p].turn /\ prompt'[p].stop = stop
    BY <1>1, <2>1, <2>2 DEF Iterates
  <2> QED
    BY <1>1, <1>5, <2>3
<1>7. /\ sent'[p] = IF Surfaced(Yielded) THEN Append(sent[p], Yielded) ELSE sent[p]
      /\ \A q \in Prompts \ {p} : sent'[q] = sent[q]
      /\ sent' \in [Prompts -> Seq(Entry)]
  <2>1. CASE Surfaced(Yielded)
    <3>1. sent' = [sent EXCEPT ![p] = Append(sent[p], Yielded)]
      BY <2>1 DEF Forward
    <3> QED
      BY <1>1, <1>3, <2>1, <3>1
  <2>2. CASE ~Surfaced(Yielded)
    BY <1>1, <2>2 DEF Forward
  <2> QED
    BY <2>1, <2>2
<1>8. AgentTypeOK'
  BY <1>1, <1>6, <1>7 DEF CallInv, AgentTypeOK, CallType
<1>9. AnsweredInv'
  <2>1. Moves /\ Meters
    BY <1>1 DEF Moves, Meters, vars, history
  <2> QED
    BY <1>6, <1>7, <2>1, AnsweredOn DEF CallInv
<1>10. Carries(sent'[p], {e \in EventsOf(shown[k]) : Surfaced(e)})
  <2>1. Carries(sent[p], {e \in EventsOf(shown[k]) \ {Yielded} : Surfaced(e)})
    BY <1>1, <1>2, <1>3 DEF Serves, Owing
  <2>2. CASE Surfaced(Yielded)
    <3>1. {e \in EventsOf(shown[k]) : Surfaced(e)}
             = {e \in EventsOf(shown[k]) \ {Yielded} : Surfaced(e)} \cup {Yielded}
      BY <1>3, <2>2
    <3>2. \A x \in {e \in EventsOf(shown[k]) \ {Yielded} : Surfaced(e)} :
             x.sequence < Yielded.sequence
      BY <1>3
    <3>3. sent[p] \in Seq(Entry) /\ Yielded \in Entry
      BY <1>1, <1>3
    <3>4. Carries(Append(sent[p], Yielded),
                  {e \in EventsOf(shown[k]) \ {Yielded} : Surfaced(e)} \cup {Yielded})
      BY <2>1, <3>2, <3>3, CarriesOn
    <3> QED
      BY <1>7, <2>2, <3>1, <3>4
  <2>3. CASE ~Surfaced(Yielded)
    <3>1. {e \in EventsOf(shown[k]) : Surfaced(e)}
             = {e \in EventsOf(shown[k]) \ {Yielded} : Surfaced(e)}
      BY <2>3
    <3> QED
      BY <1>7, <2>1, <2>3, <3>1
  <2> QED
    BY <2>2, <2>3
<1>11. Serves(p)'
  <2>1. UNCHANGED <<turn, shown>> /\ \A e : Surfaced(e)' <=> Surfaced(e)
    BY <1>1 DEF vars, history, Surfaced, HasUsage
  <2>2. Owing(p)' = {}
    BY <1>6 DEF Owing
  <2>3. {e \in EventsOf(shown[turn.id]) \ Owing(p) : Surfaced(e)}'
           = {e \in EventsOf(shown[k]) : Surfaced(e)}
    BY <1>2, <2>1, <2>2 DEF EventsOf
  <2>4. Carries(sent[p], {e \in EventsOf(shown[turn.id]) \ Owing(p) : Surfaced(e)})'
    BY <1>10, <2>3 DEF Carries, EventsOf
  <2>5. turn.step = "completed" => stop = LastShown(k).stop
    <3>1. turn.step = "completed" => Closed(k)
      BY <1>1, <1>2 DEF ReportInv
    <3>2. Closed(k) => LastShown(k).type = "turn.completed"
      BY DEF Closed, CompletedAt
    <3> QED
      BY <1>3, <3>1, <3>2 DEF stop
  <2>6. \A q \in Prompts : Iterates(q)' => p = q
    BY <1>1, <1>6 DEF Serves, Iterates
  <2>7. LastShown(turn.id)' = LastShown(k)
    BY <1>2, <2>1 DEF LastShown
  <2> QED
    BY <1>1, <1>2, <1>6, <2>1, <2>4, <2>5, <2>6, <2>7 DEF Serves
<1>12. \A q \in Prompts : Iterates(q)' => p = q
  BY <1>11 DEF Serves
<1> QED
  BY <1>8, <1>9, <1>11, <1>12 DEF CallInv, IteratingInv

\* The loop asks for the next event: the turn goes on, or its call is answered.
LEMMA AdvanceCalls ==
    ASSUME TypeInv, Standing, ReportInv, CallInv, NEW p \in Prompts, Advance(p)
    PROVE  CallInv'
<1> DEFINE c == [prompt[p] EXCEPT !.forwarded = FALSE]
<1>1. /\ Iterates(p) /\ prompt[p].forwarded /\ UNCHANGED <<sent, metered, load>>
      /\ prompt \in [Prompts -> CallType] /\ Serves(p)
      /\ prompt' = [prompt EXCEPT ![p] = Outcome(c)]
  BY DEF Advance, CallInv, AgentTypeOK, CallType, IteratingInv
<1>2. /\ c \in CallType /\ c.phase = "iterating" /\ c.forwarded = FALSE
      /\ c.turn = prompt[p].turn /\ c.stop = prompt[p].stop
  BY <1>1 DEF CallType, Iterates
<1> HIDE DEF c
<1>3. PICK k \in TurnIds : k = turn.id /\ c.turn = k
  BY <1>1, <1>2, SlotTyped DEF Serves
<1>4. /\ turn.at = "yield"
      /\ \/ Works
         \/ Ends("returned") /\ turn.step = "completed"
         \/ Ends("threw")
  BY ResumeMoves DEF Advance
<1>5. /\ prompt' \in [Prompts -> CallType] /\ prompt'[p] = Outcome(c)
      /\ \A q \in Prompts \ {p} : prompt'[q] = prompt[q] /\ ~Iterates(q) /\ ~Iterates(q)'
  <2>1. Outcome(c) \in CallType
    BY <1>2, OutcomeOf
  <2>2. \A q \in Prompts \ {p} : ~Iterates(q)
    BY <1>1 DEF Serves
  <2> QED
    BY <1>1, <2>1, <2>2 DEF Iterates
<1>6. AgentTypeOK'
  BY <1>1, <1>5 DEF CallInv, AgentTypeOK, CallType
<1>7. Moves /\ Meters
  BY <1>1, <1>4 DEF Moves, Meters, Works
<1>8. CASE Works
  <2>1. ended'[k] = "no"
    BY <1>3, <1>4, <1>8 DEF Works, Standing
  <2>2. prompt'[p] = c
    BY <1>2, <1>3, <1>5, <2>1, OutcomeOf
  <2>3. AnsweredInv'
    BY <1>1, <1>2, <1>5, <1>7, <2>2, AnsweredOn DEF CallInv
  <2>4. Serves(p)'
    <3>1. \A q \in Prompts : Iterates(q)' => Iterates(q)
      BY <1>1, <1>5
    <3> QED
      BY <1>1, <1>2, <1>4, <1>7, <1>8, <2>2, <3>1, ServesOn
  <2> QED
    BY <1>5, <1>6, <2>3, <2>4 DEF CallInv, IteratingInv
<1>9. CASE Ends("threw") \/ (Ends("returned") /\ turn.step = "completed")
  <2>1. ended \in [TurnIds -> {"no", "returned", "threw", "abandoned"}]
    BY SlotTyped
  <2>2. /\ prompt'[p].phase = "answered" /\ prompt'[p].turn = k
        /\ Ends("returned") => ended'[k] = "returned" /\ prompt'[p].answer = mapStopReason[c.stop]
        /\ Ends("threw") => prompt'[p].answer = "error"
    BY <1>2, <1>3, <1>5, <1>9, <2>1, OutcomeOf DEF Ends
  <2>3. IteratingInv'
    BY <1>5, <2>2 DEF IteratingInv, Iterates
  <2>4. CASE Ends("threw")
    BY <1>1, <1>5, <1>6, <1>7, <2>2, <2>3, <2>4, AnsweredOn DEF CallInv
  <2>5. CASE Ends("returned") /\ turn.step = "completed"
    <3>1. UNCHANGED shown
      BY <2>5 DEF Ends
    <3>2. Owing(p) = {} /\ prompt[p].stop = LastShown(k).stop
      BY <1>1, <1>3, <2>5 DEF Owing, Serves
    <3>3. {e \in EventsOf(shown[k]) : Surfaced(e)}'
             = {e \in EventsOf(shown[k]) \ Owing(p) : Surfaced(e)}
      BY <1>1, <3>1, <3>2 DEF EventsOf, Surfaced, HasUsage
    <3>4. Carries(sent[p], {e \in EventsOf(shown[k]) : Surfaced(e)})'
      BY <1>1, <1>3, <3>3 DEF Serves, Carries, EventsOf
    <3>5. prompt'[p].answer = mapStopReason[LastShown(k).stop]'
      BY <1>2, <2>2, <2>5, <3>1, <3>2 DEF LastShown, mapStopReason
    <3>6. Answers(p)'
      BY <1>3, <2>2, <2>5, <3>4, <3>5 DEF Answers
    <3>7. ASSUME NEW q \in Prompts \ {p}
          PROVE  /\ prompt'[q].phase = "none" => prompt'[q] = NoPrompt /\ sent'[q] = <<>>
                 /\ Told(q)' => Answers(q)'
      <4>1. prompt'[q] = prompt[q] /\ sent'[q] = sent[q]
        BY <1>1, <1>5
      <4>2. Told(q)' => Answers(q)'
        BY <1>7, <4>1, AnswersOn DEF Told, CallInv, AnsweredInv
      <4> QED
        BY <4>1, <4>2 DEF CallInv, AnsweredInv
    <3>8. AnsweredInv'
      BY <2>2, <3>6, <3>7 DEF AnsweredInv
    <3> QED
      BY <1>6, <2>3, <3>8 DEF CallInv
  <2> QED
    BY <1>9, <2>4, <2>5
<1> QED
  BY <1>4, <1>8, <1>9

\* The steps of a load change nothing else.
LEMMA LoadTypes ==
    ASSUME EngineInv, AgentTypeOK, Load \/ LoadEvent \/ LoadEnds \/ LoadFails
    PROVE  load' \in LoadType /\ UNCHANGED <<vars, prompt, sent, metered>>
<1>1. load \in LoadType /\ NoLoad \in LoadType /\ log \in Seq(Entry)
  BY DEF AgentTypeOK, LoadType, NoLoad, EngineInv, TypeInv, TypeOK
<1>2. CASE Load
  BY <1>1, <1>2 DEF Load, LoadType
<1>3. CASE LoadEvent
  <2>1. log[load.pos + 1] \in Entry
    BY <1>1, <1>3 DEF LoadEvent, LoadType
  <2>2. PICK s \in Seq(Entry) : load' = [load EXCEPT !.pos = @ + 1, !.sent = s]
    <3>1. load.sent \in Seq(Entry) /\ Append(load.sent, log[load.pos + 1]) \in Seq(Entry)
      BY <1>1, <2>1 DEF LoadType
    <3> QED
      BY <1>3, <3>1 DEF LoadEvent
  <2>3. \A l \in LoadType, n \in Nat : [l EXCEPT !.pos = n, !.sent = s] \in LoadType
    BY DEF LoadType
  <2>4. load.pos + 1 \in Nat
    BY <1>1 DEF LoadType
  <2>5. load' \in LoadType
    BY <1>1, <2>2, <2>3, <2>4
  <2> QED
    BY <1>3, <2>5 DEF LoadEvent
<1>4. CASE LoadEnds \/ LoadFails
  BY <1>1, <1>4 DEF LoadEnds, LoadFails, LoadType
<1> QED
  BY <1>2, <1>3, <1>4 DEF Load, LoadEvent, LoadEnds, LoadFails

\* Every step of the agent keeps what its calls have told.
LEMMA AgentStepCalls ==
    ASSUME EngineInv, Standing, ReportInv, CallInv, EngineInv', [AgentNext]_allVars
    PROVE  CallInv' /\ Moves /\ Meters
<1>1. TypeInv /\ DurableThenVisible /\ DurableThenVisible' /\ turn \in TurnType
  BY SlotTyped DEF EngineInv, LogInv
<1>2. ASSUME Keeps, UNCHANGED <<prompt, sent, metered>>, load' \in LoadType
      PROVE  CallInv' /\ Moves /\ Meters
  <2>1. Moves /\ Meters /\ metered' \in SUBSET TurnIds
    BY <1>2 DEF Moves, Keeps, Meters, CallInv, AgentTypeOK
  <2> QED
    BY <1>1, <1>2, <2>1, QuietCalls
<1>3. load \in LoadType
  BY DEF CallInv, AgentTypeOK, LoadType
<1>4. CASE NewSession
  <2>1. Keeps /\ UNCHANGED agentVars
    BY <1>4 DEF NewSession, CreateSession, Keeps, history
  <2> QED
    BY <1>2, <1>3, <2>1 DEF agentVars
<1>5. CASE Cancel
  <2>1. Keeps /\ UNCHANGED agentVars
    BY <1>1, <1>5 DEF Cancel, CancelTurn, Keeps, history, TurnType
  <2> QED
    BY <1>2, <1>3, <2>1 DEF agentVars
<1>6. CASE EngineWorks
  <2>1. Meters
    BY <1>6 DEF EngineWorks, Meters
  <2>2. Moves
    BY <1>1, <1>6, WorkMoves DEF EngineWorks, Moves, Keeps, Works
  <2> QED
    BY <1>1, <1>6, <2>1, <2>2, WorkCalls
<1>7. CASE Stream
  BY <1>1, <1>7, StreamCalls DEF Moves
<1>8. ASSUME NEW p \in Prompts, Prompt(p) PROVE CallInv' /\ Moves /\ Meters
  <2>1. Moves /\ Meters
    BY <1>8 DEF Prompt, RunTurn, vars, history, Moves, Meters
  <2> QED
    BY <1>1, <1>8, <2>1, PromptCalls
<1>9. ASSUME NEW p \in Prompts, Forward(p) PROVE CallInv' /\ Moves /\ Meters
  <2>1. Moves /\ Meters
    BY <1>9 DEF Forward, vars, history, Moves, Meters
  <2> QED
    BY <1>1, <1>9, <2>1, ForwardCalls
<1>10. ASSUME NEW p \in Prompts, ForwardFails(p) PROVE CallInv' /\ Moves /\ Meters
  <2>1. /\ Ends("abandoned") /\ Settle /\ UNCHANGED <<sent, metered, load>>
    BY <1>10 DEF ForwardFails, Abandon, EndTurn, Ends
  <2>2. Moves /\ Meters
    BY <2>1 DEF Moves, Meters
  <2> QED
    BY <1>1, <2>1, <2>2, EndCalls
<1>11. ASSUME NEW p \in Prompts, Advance(p) PROVE CallInv' /\ Moves /\ Meters
  <2>1. Meters
    BY <1>11 DEF Advance, Meters
  <2>2. Moves
    BY <1>1, <1>11, ResumeMoves DEF Advance, Moves, Works
  <2> QED
    BY <1>1, <1>11, <2>1, <2>2, AdvanceCalls
<1>12. CASE Load \/ LoadEvent \/ LoadEnds \/ LoadFails
  <2>1. load' \in LoadType /\ UNCHANGED <<vars, prompt, sent, metered>>
    BY <1>12, LoadTypes DEF CallInv
  <2>2. Keeps
    BY <2>1 DEF Keeps, vars, history
  <2> QED
    BY <1>2, <2>1, <2>2
<1>13. CASE UNCHANGED allVars
  <2>1. Keeps /\ UNCHANGED <<prompt, sent, metered, load>>
    BY <1>13 DEF allVars, agentVars, vars, history, Keeps
  <2> QED
    BY <1>2, <1>3, <2>1
<1> QED
  BY <1>4, <1>5, <1>6, <1>7, <1>8, <1>9, <1>10, <1>11, <1>12, <1>13 DEF AgentNext

-----------------------------------------------------------------------------
(* The load, from step to step.                                            *)

\* The turn of a call that told a stop reason is on file, and the numbers of
\* its events are their places.
LEMMA ToldIsOnFile ==
    ASSUME EngineInv, Standing, ReportInv, AnsweredInv, NEW p \in Prompts, Told(p)
    PROVE  \E k \in TurnIds :
              /\ k = prompt[p].turn /\ ended[k] = "returned"
              /\ EventsOf(shown[k]) = LogOf(k) /\ Closed(k)
              /\ \A e \in LogOf(k) : e.sequence \in 1..Len(log) /\ log[e.sequence] = e
<1>1. PICK k \in TurnIds : k = prompt[p].turn /\ ended[k] = "returned"
  BY DEF AnsweredInv, Answers
<1>2. EventsOf(shown[k]) = LogOf(k) /\ Closed(k)
  BY <1>1 DEF ReportInv
<1>3. \A e \in LogOf(k) : e.sequence \in 1..Len(log) /\ log[e.sequence] = e
  <2>1. DOMAIN log = 1..Len(log)
    BY DEF EngineInv, TypeInv, TypeOK
  <2> QED
    BY <2>1 DEF LogOf, EngineInv, LogInv, NoGaps
<1> QED
  BY <1>1, <1>2, <1>3

\* A call is answered once.
LEMMA AnsweredOnce ==
    ASSUME AgentTypeOK, [AgentNext]_allVars, NEW p \in Prompts, prompt[p].phase = "answered"
    PROVE  prompt'[p] = prompt[p]
<1>1. prompt \in [Prompts -> CallType]
  BY DEF AgentTypeOK, CallType
<1>2. CASE Settle
  <2>1. prompt'[p] = Outcome(prompt[p])
    BY <1>2 DEF Settle
  <2> QED
    BY <1>1, <2>1, OutcomeOf
<1>3. ASSUME NEW q \in Prompts, prompt[q].phase # "answered", NEW c,
             prompt' = [prompt EXCEPT ![q] = c]
      PROVE  prompt'[p] = prompt[p]
  BY <1>1, <1>3
<1>4. ASSUME NEW q \in Prompts, Prompt(q) PROVE prompt'[p] = prompt[p]
  BY <1>3, <1>4 DEF Prompt
<1>5. ASSUME NEW q \in Prompts, Forward(q) PROVE prompt'[p] = prompt[p]
  <2>1. prompt[q].phase # "answered"
    BY <1>5 DEF Forward, Iterates
  <2> QED
    BY <1>3, <1>5, <2>1 DEF Forward
<1>6. ASSUME NEW q \in Prompts, Advance(q) PROVE prompt'[p] = prompt[p]
  <2>1. prompt[q].phase # "answered"
    BY <1>6 DEF Advance, Iterates
  <2> QED
    BY <1>3, <1>6, <2>1 DEF Advance
<1>7. CASE EngineWorks \/ Stream \/ \E q \in Prompts : ForwardFails(q)
  BY <1>2, <1>7 DEF EngineWorks, Stream, ForwardFails
<1>8. CASE NewSession \/ Cancel \/ Load \/ LoadEvent \/ LoadEnds \/ LoadFails \/ UNCHANGED allVars
  BY <1>8 DEF NewSession, Cancel, agentVars, allVars, Load, LoadEvent, LoadEnds, LoadFails
<1> QED
  BY <1>4, <1>5, <1>6, <1>7, <1>8 DEF AgentNext

\* The log only grows.
LEMMA LogKeepsGrowing ==
    ASSUME TypeInv, Standing, [Next]_vars
    PROVE  Len(log') >= Len(log)
<1>1. log \in Seq(Entry) /\ (log' = log \/ \E e \in Entry : log' = Append(log, e))
  <2>1. CASE Store
    <3>1. Head(inflight).event \in Entry
      BY <2>1, HeadOwner DEF Store, StoreKeeps, StoreRefuses, StoreFails
    <3> QED
      BY <2>1, <3>1 DEF Store, StoreKeeps, StoreRefuses, StoreFails, TypeInv, TypeOK
  <2>2. CASE NoAnswer
    BY <2>2 DEF NoAnswer, TypeInv, TypeOK
  <2> QED
    BY <2>1, <2>2, OnlyStoreWrites DEF TypeInv
<1> QED
  BY <1>1

\* Nothing the process of the prompts does changes what a load has to send.
LEMMA LoadStays ==
    ASSUME EngineInv, Standing, ReportInv, CallInv, LoadInv,
           EngineInv', ReportInv', [AgentNext]_allVars, UNCHANGED load
    PROVE  LoadInv'
<1>1. CallInv' /\ Moves /\ Meters /\ TypeInv /\ [Next]_vars
  BY AgentStepCalls, AgentIsConsumer DEF EngineInv
<1>2. load.pos <= Len(log')
  <2>1. Len(log') >= Len(log) /\ Len(log) \in Nat /\ Len(log') \in Nat
    BY <1>1, LogKeepsGrowing DEF EngineInv, TypeInv, TypeOK
  <2>2. load.pos \in Nat /\ load.pos <= Len(log)
    BY DEF CallInv, AgentTypeOK, LoadInv
  <2> QED
    BY <2>1, <2>2
<1>3. \A p \in load.owed :
         p \in Prompts /\ prompt[p].phase = "answered" /\ prompt'[p] = prompt[p]
  BY AnsweredOnce DEF LoadInv, CallInv, AgentTypeOK
<1>4. ASSUME NEW p \in load.owed, Told(p)'
      PROVE  /\ Told(p) /\ prompt'[p] = prompt[p]
             /\ Repeated(prompt[p].turn)' = Repeated(prompt[p].turn)
  <2>1. Told(p) /\ p \in Prompts /\ prompt'[p] = prompt[p]
    BY <1>3, <1>4 DEF Told
  <2>2. PICK k \in TurnIds :
           /\ k = prompt[p].turn /\ ended[k] = "returned"
           /\ EventsOf(shown[k]) = LogOf(k) /\ Closed(k)
           /\ \A e \in LogOf(k) : e.sequence \in 1..Len(log) /\ log[e.sequence] = e
    BY <2>1, ToldIsOnFile DEF CallInv
  <2>3. shown'[k] = shown[k] /\ ended'[k] = "returned"
    BY <1>1, <2>2, ReturnedStays
  <2>4. LogOf(k)' = LogOf(k)
    <3>1. EventsOf(shown[k])' = LogOf(k)'
      BY <2>3 DEF ReportInv
    <3>2. EventsOf(shown[k])' = EventsOf(shown[k])
      BY <2>3 DEF EventsOf
    <3> QED
      BY <2>2, <3>1, <3>2
  <2>5. \A e \in LogOf(k) : Surfaced(e)' <=> Surfaced(e)
    BY <1>1, <2>2, SurfaceStays
  <2>6. Repeated(k)' = Repeated(k)
    BY <2>4, <2>5 DEF Repeated
  <2> QED
    BY <2>1, <2>2, <2>6
<1>5. ASSUME load.phase \in {"replaying", "loaded"}, NEW p \in load.owed, Told(p)'
      PROVE  {e \in EventsOf(load.sent) : e.turn = prompt'[p].turn /\ e.type # "tool"}
                = Repeated(prompt[p].turn)'
  <2>1. /\ Told(p) /\ prompt'[p] = prompt[p]
        /\ Repeated(prompt[p].turn)' = Repeated(prompt[p].turn)
    BY <1>4, <1>5
  <2>2. {e \in EventsOf(load.sent) : e.turn = prompt[p].turn /\ e.type # "tool"}
           = Repeated(prompt[p].turn)
    BY <1>5, <2>1 DEF LoadInv
  <2> QED
    BY <2>1, <2>2
<1>6. Carries(load.sent, EventsOf(load.sent))' /\ EventsOf(load.sent)' = EventsOf(load.sent)
  BY DEF LoadInv, Carries, EventsOf
<1> QED
  BY <1>2, <1>3, <1>5, <1>6 DEF LoadInv

\* The load begins with nothing sent of what it owes.
LEMMA LoadBegins ==
    ASSUME EngineInv, Standing, ReportInv, CallInv, LoadInv, Load
    PROVE  LoadInv'
<1>1. /\ load' = [NoLoad EXCEPT !.phase = "replaying",
                    !.owed = {p \in Prompts : prompt[p].phase = "answered"}]
      /\ UNCHANGED <<vars, prompt, sent, metered>>
  BY DEF Load
<1>2. /\ load'.phase = "replaying" /\ load'.pos = 0 /\ load'.sent = <<>>
      /\ load'.owed = {p \in Prompts : prompt[p].phase = "answered"}
  BY <1>1 DEF NoLoad
<1>3. EventsOf(<<>>) = {} /\ Carries(<<>>, {})
  BY DEF EventsOf, Carries
<1>4. ASSUME NEW p \in load'.owed, Told(p)' PROVE Repeated(prompt[p].turn)' = {}
  <2>1. p \in Prompts /\ Told(p) /\ prompt'[p] = prompt[p]
    BY <1>1, <1>2, <1>4 DEF Told
  <2>2. PICK k \in TurnIds :
           /\ k = prompt[p].turn
           /\ \A e \in LogOf(k) : e.sequence \in 1..Len(log) /\ log[e.sequence] = e
    BY <2>1, ToldIsOnFile DEF CallInv
  <2>3. LogOf(k)' = LogOf(k)
    BY <1>1 DEF LogOf, vars, store
  <2>4. \A e \in LogOf(k)' : ~(e.sequence <= load'.pos \/ load'.phase = "loaded")
    BY <1>2, <2>2, <2>3
  <2>5. Repeated(k)' = {}
    BY <2>4 DEF Repeated
  <2> QED
    BY <2>1, <2>2, <2>5
<1>5. Len(log') \in Nat
  BY <1>1 DEF EngineInv, TypeInv, TypeOK, vars, store
<1>6. load'.pos <= Len(log')
  BY <1>2, <1>5
<1>7. /\ Carries(load.sent, EventsOf(load.sent))'
      /\ EventsOf(load.sent)' = {}
  BY <1>2, <1>3 DEF Carries, EventsOf
<1>8. \A p \in load'.owed : prompt'[p].phase = "answered"
  BY <1>1, <1>2
<1> QED
  BY <1>2, <1>4, <1>6, <1>7, <1>8 DEF LoadInv

\* It goes on by an event of the log.
LEMMA LoadGoesOn ==
    ASSUME EngineInv, Standing, ReportInv, CallInv, LoadInv, LoadEvent
    PROVE  LoadInv'
<1> DEFINE e == log[load.pos + 1]
<1>1. /\ load.phase = "replaying" /\ load.pos < Len(log)
      /\ UNCHANGED <<vars, prompt, sent, metered>>
      /\ load' = [load EXCEPT !.pos = @ + 1,
                              !.sent = IF Surfaced(e) THEN Append(@, e) ELSE @]
      /\ load \in LoadType /\ log \in Seq(Entry)
  BY DEF LoadEvent, CallInv, AgentTypeOK, LoadType, EngineInv, TypeInv, TypeOK
<1>2. /\ load.pos + 1 \in DOMAIN log /\ e \in Entry /\ e.sequence = load.pos + 1
      /\ load.pos \in Nat /\ load.sent \in Seq(Entry)
  BY <1>1 DEF LoadType, EngineInv, LogInv, NoGaps
<1> HIDE DEF e
<1>3. /\ load'.phase = "replaying" /\ load'.pos = load.pos + 1 /\ load'.owed = load.owed
      /\ load'.sent = IF Surfaced(e) THEN Append(load.sent, e) ELSE load.sent
  BY <1>1 DEF LoadType
<1> DEFINE new == IF Surfaced(e) THEN {e} ELSE {}
<1>4. /\ EventsOf(load'.sent) = EventsOf(load.sent) \cup new
      /\ Carries(load'.sent, EventsOf(load'.sent))
  <2>1. Carries(load.sent, EventsOf(load.sent))
        /\ \A x \in EventsOf(load.sent) : x \in Entry /\ x.sequence <= load.pos
    BY <1>2 DEF LoadInv, EventsOf
  <2>2. CASE Surfaced(e)
    <3>1. \A x \in EventsOf(load.sent) : x.sequence < e.sequence
      <4>1. \A x \in EventsOf(load.sent) : x.sequence \in Nat
        BY <2>1 DEF Entry
      <4> QED
        BY <1>2, <2>1, <4>1
    <3>2. Carries(Append(load.sent, e), EventsOf(load.sent) \cup {e})
      BY <1>2, <2>1, <3>1, CarriesOn
    <3>3. EventsOf(load'.sent) = EventsOf(load.sent) \cup {e}
      BY <1>3, <2>2, <3>2 DEF Carries
    <3> QED
      BY <1>3, <2>2, <3>2, <3>3
  <2>3. CASE ~Surfaced(e)
    BY <1>3, <2>1, <2>3
  <2> QED
    BY <2>2, <2>3
<1>5. \A x \in EventsOf(load'.sent) : x.sequence <= load'.pos
  <2>1. \A x \in EventsOf(load.sent) : x \in Entry /\ x.sequence <= load.pos
    BY <1>2 DEF LoadInv, EventsOf
  <2>2. \A x \in EventsOf(load.sent) : x.sequence <= load.pos + 1
    BY <1>2, <2>1 DEF Entry
  <2> QED
    BY <1>2, <1>3, <1>4, <2>2
<1>6. ASSUME NEW p \in load.owed, Told(p)'
      PROVE  {x \in EventsOf(load'.sent) : x.turn = prompt'[p].turn /\ x.type # "tool"}
                = Repeated(prompt[p].turn)'
  <2>1. p \in Prompts /\ Told(p) /\ prompt'[p] = prompt[p]
    BY <1>1, <1>6 DEF Told, CallInv, AgentTypeOK
  <2>2. PICK k \in TurnIds :
           /\ k = prompt[p].turn
           /\ \A x \in LogOf(k) : x.sequence \in 1..Len(log) /\ log[x.sequence] = x
    BY <2>1, ToldIsOnFile DEF CallInv
  <2>3. LogOf(k)' = LogOf(k) /\ \A x : Surfaced(x)' <=> Surfaced(x)
    BY <1>1 DEF LogOf, vars, store, Surfaced, HasUsage
  <2>4. {x \in EventsOf(load.sent) : x.turn = k /\ x.type # "tool"} = Repeated(k)
    BY <1>1, <2>1, <2>2 DEF LoadInv
  <2>5. ASSUME NEW x
        PROVE  x \in Repeated(k)' <=> x \in Repeated(k) \/ (x = e /\ e \in LogOf(k) /\ Surfaced(e))
    <3>1. x \in Repeated(k)' <=> x \in LogOf(k) /\ x.sequence <= load.pos + 1 /\ Surfaced(x)
      BY <1>3, <2>3 DEF Repeated
    <3>2. x \in Repeated(k) <=> x \in LogOf(k) /\ x.sequence <= load.pos /\ Surfaced(x)
      BY <1>1 DEF Repeated
    <3>3. x \in LogOf(k) => (x.sequence <= load.pos + 1 <=> x.sequence <= load.pos \/ x = e)
      BY <1>2, <2>2 DEF e
    <3> QED
      BY <3>1, <3>2, <3>3
  <2>6. e \in LogOf(k) <=> e.turn = k /\ e.type # "tool"
    BY <1>2 DEF LogOf, e
  <2>7. {x \in EventsOf(load'.sent) : x.turn = k /\ x.type # "tool"} = Repeated(k)'
    BY <1>4, <2>4, <2>5, <2>6
  <2> QED
    BY <2>1, <2>2, <2>7
<1>7. load'.pos <= Len(log')
  BY <1>1, <1>2, <1>3 DEF vars, store
<1>8. \A p \in load'.owed : prompt'[p].phase = "answered"
  BY <1>1, <1>3 DEF LoadInv
<1>9. EventsOf(load.sent)' = EventsOf(load'.sent) /\ Carries(load.sent, EventsOf(load.sent))'
  BY <1>4 DEF EventsOf, Carries
<1> QED
  BY <1>3, <1>5, <1>6, <1>7, <1>8, <1>9 DEF LoadInv

\* It ends at the end of the log, or fails.
LEMMA LoadIsOver ==
    ASSUME EngineInv, Standing, ReportInv, CallInv, LoadInv, LoadEnds \/ LoadFails
    PROVE  LoadInv'
<1>1. /\ load.phase = "replaying" /\ UNCHANGED <<vars, prompt, sent, metered>>
      /\ load \in LoadType
  BY DEF LoadEnds, LoadFails, CallInv, AgentTypeOK, LoadType
<1>2. /\ load'.phase \in {"loaded", "failed"} /\ load'.pos = load.pos /\ load'.sent = load.sent
      /\ load'.owed = load.owed
      /\ load'.phase = "loaded" => load.pos = Len(log)
  BY <1>1 DEF LoadEnds, LoadFails, LoadType
<1>3. ASSUME load'.phase = "loaded", NEW p \in load.owed, Told(p)'
      PROVE  {x \in EventsOf(load'.sent) : x.turn = prompt'[p].turn /\ x.type # "tool"}
                = Repeated(prompt[p].turn)'
  <2>1. p \in Prompts /\ Told(p) /\ prompt'[p] = prompt[p]
    BY <1>1, <1>3 DEF Told, CallInv, AgentTypeOK
  <2>2. PICK k \in TurnIds :
           /\ k = prompt[p].turn
           /\ \A x \in LogOf(k) : x.sequence \in 1..Len(log) /\ log[x.sequence] = x
    BY <2>1, ToldIsOnFile DEF CallInv
  <2>3. LogOf(k)' = LogOf(k) /\ \A x : Surfaced(x)' <=> Surfaced(x)
    BY <1>1 DEF LogOf, vars, store, Surfaced, HasUsage
  <2>4. {x \in EventsOf(load.sent) : x.turn = k /\ x.type # "tool"} = Repeated(k)
    BY <1>1, <2>1, <2>2 DEF LoadInv
  <2>5. \A x \in LogOf(k) : x.sequence <= load.pos
    BY <1>2, <1>3, <2>2
  <2>6. Repeated(k)' = Repeated(k)
    BY <1>3, <2>3, <2>5 DEF Repeated
  <2> QED
    BY <1>2, <2>1, <2>2, <2>4, <2>6
<1>4. load'.pos <= Len(log')
  BY <1>1, <1>2 DEF LoadInv, vars, store
<1>5. \A p \in load'.owed : prompt'[p].phase = "answered"
  BY <1>1, <1>2 DEF LoadInv
<1>6. /\ EventsOf(load.sent)' = EventsOf(load'.sent)
      /\ Carries(load.sent, EventsOf(load.sent))'
      /\ \A e \in EventsOf(load'.sent) : e.sequence <= load'.pos
  BY <1>2 DEF EventsOf, Carries, LoadInv
<1> QED
  BY <1>2, <1>3, <1>4, <1>5, <1>6 DEF LoadInv

-----------------------------------------------------------------------------
(***************************************************************************)
(* The invariant of the agent, and what it promises to its client.         *)
(***************************************************************************)

LEMMA AgentInvariant == AgentSpec => [](EngineInv /\ Standing /\ ReportInv /\ CallInv /\ LoadInv)
<1> DEFINE Below == EngineInv /\ Standing /\ ReportInv
<1>1. AgentInit => CallInv /\ LoadInv
  BY AgentInitially DEF CallInv
<1>2. Below /\ CallInv /\ LoadInv /\ Below' /\ [AgentNext]_allVars => CallInv' /\ LoadInv'
  <2> SUFFICES ASSUME Below, CallInv, LoadInv, Below', [AgentNext]_allVars
               PROVE  CallInv' /\ LoadInv'
    OBVIOUS
  <2>1. CallInv'
    BY AgentStepCalls
  <2>2. CASE UNCHANGED load
    BY <2>1, <2>2, LoadStays
  <2>3. CASE Load \/ LoadEvent \/ LoadEnds \/ LoadFails
    BY <2>1, <2>3, LoadBegins, LoadGoesOn, LoadIsOver
  <2>4. UNCHANGED load \/ Load \/ LoadEvent \/ LoadEnds \/ LoadFails
    BY DEF AgentNext, allVars, agentVars, NewSession, Cancel, EngineWorks, Stream, Prompt,
           Forward, ForwardFails, Advance
  <2> QED
    BY <2>1, <2>2, <2>3, <2>4
<1>3. AgentSpec => []Below
  BY EngineUnderAgent, ReportUnderAgent, PTL
<1> HIDE DEF Below
<1>4. AgentSpec => [](Below /\ CallInv /\ LoadInv)
  BY <1>1, <1>2, <1>3, PTL DEF AgentSpec
<1>5. Below /\ CallInv /\ LoadInv => EngineInv /\ Standing /\ ReportInv /\ CallInv /\ LoadInv
  BY DEF Below
<1> QED
  BY <1>4, <1>5, PTL

\* The calls of agent.ts, what they forward and what a load forwards keep their
\* types; so mapStopReason is only ever applied to a reason it knows.
THEOREM AgentTypes == AgentSpec => []AgentTypeOK
<1>1. CallInv => AgentTypeOK
  BY DEF CallInv
<1> QED
  BY <1>1, AgentInvariant, PTL

\* The answer of prompt is the stop reason of the one turn.completed its turn
\* has on file, and all that was yielded of the turn has been sent, whenever
\* cancel arrived and whatever failed (agent.ts prompt, mapStopReason).
THEOREM AnswersTellLog == AgentSpec => []AnswerTellsLog
<1>1. EngineInv /\ Standing /\ ReportInv /\ CallInv => AnswerTellsLog
  <2> SUFFICES ASSUME EngineInv, Standing, ReportInv, CallInv, NEW p \in Prompts, Told(p)
               PROVE  /\ \E n \in DOMAIN log :
                            /\ log[n].turn = prompt[p].turn
                            /\ log[n].type = "turn.completed"
                            /\ mapStopReason[log[n].stop] = prompt[p].answer
                            /\ \A m \in DOMAIN log \ {n} :
                                  log[m].turn = prompt[p].turn => log[m].type # "turn.completed"
                      /\ Carries(sent[p], {e \in EventsOf(shown[prompt[p].turn]) : Surfaced(e)})
    BY DEF AnswerTellsLog, Told
  <2>1. PICK k \in TurnIds : k = prompt[p].turn /\ Closed(k)
    BY ToldIsOnFile DEF CallInv
  <2>2. /\ prompt[p].answer = mapStopReason[LastShown(k).stop]
        /\ Carries(sent[p], {e \in EventsOf(shown[k]) : Surfaced(e)})
    BY <2>1 DEF CallInv, AnsweredInv, Answers
  <2>3. PICK n \in DOMAIN log : CompletedAt(k) = {n} /\ log[n] = LastShown(k)
    BY <2>1 DEF Closed
  <2>4. /\ log[n].turn = k /\ log[n].type = "turn.completed"
        /\ \A m \in DOMAIN log \ {n} : log[m].turn = k => log[m].type # "turn.completed"
    BY <2>3 DEF CompletedAt
  <2> QED
    BY <2>1, <2>2, <2>3, <2>4
<1> QED
  BY <1>1, AgentInvariant, PTL

\* A load sends the log in its order, and of every turn that was answered before
\* it began the updates that prompt had sent (agent.ts loadSession).
THEOREM LoadsRepeatWire == AgentSpec => []ReplayRepeatsWire
<1>1. EngineInv /\ Standing /\ ReportInv /\ CallInv /\ LoadInv => ReplayRepeatsWire
  <2> SUFFICES ASSUME EngineInv, Standing, ReportInv, CallInv, LoadInv, load.phase = "loaded"
               PROVE  /\ Carries(load.sent, EventsOf(load.sent))
                      /\ \A p \in load.owed : prompt[p].answer # "error" =>
                            Carries(sent[p], {e \in EventsOf(load.sent) :
                                                 e.turn = prompt[p].turn /\ e.type # "tool"})
    BY DEF ReplayRepeatsWire
  <2>1. ASSUME NEW p \in load.owed, prompt[p].answer # "error"
        PROVE  Carries(sent[p], {e \in EventsOf(load.sent) :
                                    e.turn = prompt[p].turn /\ e.type # "tool"})
    <3>1. p \in Prompts /\ Told(p)
      BY <2>1 DEF LoadInv, Told, CallInv, AgentTypeOK
    <3>2. PICK k \in TurnIds : k = prompt[p].turn /\ EventsOf(shown[k]) = LogOf(k)
      BY <3>1, ToldIsOnFile DEF CallInv
    <3>3. Carries(sent[p], {e \in LogOf(k) : Surfaced(e)})
      BY <3>1, <3>2 DEF CallInv, AnsweredInv, Answers
    <3>4. {e \in EventsOf(load.sent) : e.turn = k /\ e.type # "tool"}
             = {e \in LogOf(k) : Surfaced(e)}
      BY <2>1, <3>1, <3>2 DEF LoadInv, Repeated
    <3> QED
      BY <3>2, <3>3, <3>4
  <2> QED
    BY <2>1 DEF LoadInv
<1> QED
  BY <1>1, AgentInvariant, PTL
-----------------------------------------------------------------------------
(***************************************************************************)
(* The provider (ModelTurn): what is proved of the engine is true of it    *)
(* with the real provider, and each request answers the calls of the one   *)
(* before.  The messages are kept as rounds: one with calls, then a result *)
(* for each of them, of which only the last round may lack some.           *)
(***************************************************************************)

(* The provider as the engine takes one.                                   *)

\* A stream that throws an error with the codes of the provider.
LEMMA ThrowIsProvider ==
    ASSUME NEW codes, codes \subseteq ErrorCode \ {"none"}, Throw(codes) PROVE StreamThrows
  BY DEF Throw, StreamThrows

\* A step of the adapter is one of the engine's provider, or none.
LEMMA AdapterStep == Adapter => Provider \/ UNCHANGED vars
<1> SUFFICES ASSUME Adapter PROVE Provider \/ UNCHANGED vars
  OBVIOUS
<1>1. CASE OpenStream \/ RawBlockStart
  BY <1>1 DEF OpenStream, RawBlockStart
<1>2. CASE RawAfterAbort \/ RawText
  BY <1>2 DEF RawAfterAbort, RawText, Provider, Chunk
<1>3. ASSUME NEW b \in 1..MaxRaw, RawBlockStop(b) PROVE Provider
  BY <1>3 DEF RawBlockStop, Provider, Chunk
<1>4. CASE OpenFails \/ RawBlockBroken \/ RawError
  BY <1>4, ThrowIsProvider
  DEF OpenFails, RawBlockBroken, RawError, ProviderCode, ErrorCode, Provider
<1>5. CASE RawEnds \/ StreamDone
  BY <1>5 DEF RawEnds, StreamDone, Provider, Chunk
<1> QED
  BY <1>1, <1>2, <1>3, <1>4, <1>5 DEF Adapter

\* What a step of the engine with its adapter is to the engine.
LEMMA AdapterIsProvider == [MNext]_turnVars => [Next]_vars
<1> SUFFICES ASSUME [MNext]_turnVars PROVE [Next]_vars
  OBVIOUS
<1>1. CASE Elsewhere(Beside)
  BY <1>1 DEF Elsewhere, Beside, Next, EngineNext
<1>2. CASE ToolReturns
  BY <1>2 DEF ToolReturns, Next
<1>3. CASE Adapter
  BY <1>3, AdapterStep DEF Next, EngineNext
<1>4. CASE UNCHANGED turnVars
  BY <1>4 DEF turnVars
<1> QED
  BY <1>1, <1>2, <1>3, <1>4 DEF MNext

\* anthropic.ts is a provider as the engine takes one: with it every run of the
\* engine is a run of the engine with some provider, whatever the API sends.
THEOREM AdapterImplementsProvider == MSpec => Spec
<1>1. MInit => Init
  BY DEF MInit
<1> QED
  BY <1>1, AdapterIsProvider, PTL DEF MSpec, Spec

-----------------------------------------------------------------------------
(* What is kept of the rounds of tools.                                    *)

Message == [role : {"user", "assistant", "tool"}, call : 0..MaxRaw, asked : Seq(1..MaxRaw)]

AdapterTypes ==
    /\ stream \in [at : {"none", "open", "done"}, blocks : SUBSET (1..MaxRaw)]
    /\ requested \in Seq(1..MaxRaw)
    /\ messages \in Seq(Message)
    /\ raw \in 0..MaxRaw

Asked(ms, a) == ms[a].asked
Asks(ms, a)  == a \in DOMAIN ms /\ ms[a].role = "assistant"

\* The messages are that of the user and rounds of tools: a message with calls
\* and the results of them, in the order of the calls.
Rounds(ms) ==
    /\ ms # <<>> /\ ms[1] = User
    /\ \A i \in DOMAIN ms : i > 1 => \E a \in 2..i : Asks(ms, a) /\ i <= a + Len(Asked(ms, a))
    /\ \A a \in DOMAIN ms : Asks(ms, a) =>
          /\ Asked(ms, a) # <<>>
          /\ \A n \in DOMAIN Asked(ms, a) : a + n <= Len(ms) => ms[a + n] = Tool(Asked(ms, a)[n])
          /\ a + Len(Asked(ms, a)) < Len(ms) => Asks(ms, a + Len(Asked(ms, a)) + 1)

\* Every call has its result.
AllAnswered(ms) == \A a \in DOMAIN ms : Asks(ms, a) => a + Len(Asked(ms, a)) <= Len(ms)

\* The calls without a result are those of the message at a that are pending.
Handles(ms, calls, a) ==
    /\ Asks(ms, a)
    /\ Len(ms) + Len(calls) = a + Len(Asked(ms, a))
    /\ \A m \in DOMAIN calls : calls[m] = Asked(ms, a)[(Len(ms) - a) + m]

Live(t) == t.step \notin {"completed", "storeFailed"}

RoundInv ==
    /\ Rounds(messages)
    /\ turn.at \in {"stream", "handle"} => Live(turn)
    /\ Live(turn) => turn.pending = Len(requested)
    /\ turn.at = "handle" => stream = NoStream /\ \E a \in DOMAIN messages : Handles(messages, requested, a)
    /\ turn.at # "handle" => AllAnswered(messages) /\ (stream.at = "none" => requested = <<>>)

AdapterInv == AdapterTypes /\ RoundInv

-----------------------------------------------------------------------------
LEMMA MessagesTyped ==
    /\ User \in Message
    /\ \A c \in 1..MaxRaw : Tool(c) \in Message
    /\ \A calls \in Seq(1..MaxRaw) : Assistant(calls) \in Message
<1>1. <<>> \in Seq(1..MaxRaw) /\ 0 \in 0..MaxRaw /\ \A c \in 1..MaxRaw : c \in 0..MaxRaw
  BY MaxRawAssumption
<1> QED
  BY <1>1 DEF Message, User, Tool, Assistant

LEMMA MessageAdded ==
    ASSUME NEW ms \in Seq(Message), NEW m \in Message
    PROVE  LET now == Append(ms, m) IN
           /\ now \in Seq(Message) /\ now # <<>>
           /\ Len(ms) \in Nat /\ Len(now) = Len(ms) + 1
           /\ DOMAIN ms = 1..Len(ms) /\ DOMAIN now = 1..(Len(ms) + 1)
           /\ now[Len(ms) + 1] = m
           /\ \A i \in 1..Len(ms) : now[i] = ms[i] /\ now[i] \in Message
  BY AppendProperties

\* The positions of messages and of the calls they make.
LEMMA Positions ==
    ASSUME NEW ms \in Seq(Message)
    PROVE  /\ Len(ms) \in Nat /\ DOMAIN ms = 1..Len(ms)
           /\ \A a \in 1..Len(ms) :
                 /\ Asks(ms, a) <=> ms[a].role = "assistant"
                 /\ Asked(ms, a) = ms[a].asked
                 /\ Asked(ms, a) \in Seq(1..MaxRaw)
                 /\ Len(Asked(ms, a)) \in Nat
                 /\ DOMAIN Asked(ms, a) = 1..Len(Asked(ms, a))
           /\ \A a : Asks(ms, a) => a \in 1..Len(ms)
<1>1. Len(ms) \in Nat /\ DOMAIN ms = 1..Len(ms)
  OBVIOUS
<1>2. ASSUME NEW a \in 1..Len(ms)
      PROVE  /\ Asked(ms, a) \in Seq(1..MaxRaw)
             /\ Len(Asked(ms, a)) \in Nat
             /\ DOMAIN Asked(ms, a) = 1..Len(Asked(ms, a))
  <2>1. ms[a] \in Message
    BY <1>1
  <2>2. Asked(ms, a) \in Seq(1..MaxRaw)
    BY <2>1 DEF Asked, Message
  <2> QED
    BY <2>2
<1> QED
  BY <1>1, <1>2 DEF Asks, Asked

\* The first of the pending calls and the others.
LEMMA FirstCall ==
    ASSUME NEW calls \in Seq(1..MaxRaw), calls # <<>>
    PROVE  /\ Head(calls) \in 1..MaxRaw /\ Head(calls) = calls[1]
           /\ Tail(calls) \in Seq(1..MaxRaw) /\ Len(calls) \in Nat /\ Len(Tail(calls)) = Len(calls) - 1
           /\ DOMAIN calls = 1..Len(calls) /\ DOMAIN Tail(calls) = 1..(Len(calls) - 1)
           /\ \A m \in 1..(Len(calls) - 1) : Tail(calls)[m] = calls[m + 1]
           /\ Len(calls) > 0 /\ (Tail(calls) = <<>> <=> Len(calls) = 1)
<1>1. Len(calls) \in Nat /\ DOMAIN calls = 1..Len(calls)
  OBVIOUS
<1>2. Len(calls) # 0
  BY EmptySeq
<1>3. Len(calls) > 0 /\ 1 \in 1..Len(calls)
  <2>1. \A n \in Nat : n # 0 => n > 0 /\ 1 \in 1..n
    OBVIOUS
  <2> QED
    BY <1>1, <1>2, <2>1, Zenon
<1>4. Head(calls) = calls[1] /\ calls[1] \in 1..MaxRaw
  <2>1. calls[1] \in 1..MaxRaw
    BY <1>3, ElementOfSeq
  <2>2. Head(calls) = calls[1]
    OBVIOUS
  <2> QED
    BY <2>1, <2>2
<1>5. /\ Tail(calls) \in Seq(1..MaxRaw) /\ Len(Tail(calls)) = Len(calls) - 1
      /\ \A m \in 1..(Len(calls) - 1) : Tail(calls)[m] = calls[m + 1]
  BY HeadTailProperties
<1>6. DOMAIN Tail(calls) = 1..(Len(calls) - 1)
  BY <1>5
<1>7. Tail(calls) = <<>> <=> Len(Tail(calls)) = 0
  BY <1>5, EmptySeq
<1> QED
  BY <1>1, <1>3, <1>4, <1>5, <1>6, <1>7

\* The engine is in one round at a time.
LEMMA OneRound ==
    ASSUME NEW ms \in Seq(Message), Rounds(ms), NEW a, NEW b, Asks(ms, a), Asks(ms, b),
           Len(ms) <= a + Len(Asked(ms, a)), Len(ms) <= b + Len(Asked(ms, b))
    PROVE  a = b
<1>1. ASSUME NEW x, NEW y, Asks(ms, x), Asks(ms, y), Len(ms) <= x + Len(Asked(ms, x))
      PROVE  ~(x < y)
  <2>1. /\ x \in 1..Len(ms) /\ y \in 1..Len(ms) /\ Len(ms) \in Nat /\ DOMAIN ms = 1..Len(ms)
        /\ Len(Asked(ms, x)) \in Nat /\ DOMAIN Asked(ms, x) = 1..Len(Asked(ms, x))
    BY <1>1, Positions
  <2> SUFFICES ASSUME x < y PROVE FALSE
    OBVIOUS
  <2>2. y - x \in DOMAIN Asked(ms, x) /\ x + (y - x) <= Len(ms) /\ x + (y - x) = y
    BY <1>1, <2>1
  <2>3. ms[y] = Tool(Asked(ms, x)[y - x])
    BY <1>1, <2>1, <2>2 DEF Rounds
  <2> QED
    BY <1>1, <2>3 DEF Asks, Tool
<1>2. a \in Nat /\ b \in Nat
  BY Positions
<1>3. ~(a < b)
  BY <1>1
<1>4. ~(b < a)
  BY <1>1
<1> QED
  BY <1>2, <1>3, <1>4

\* A new round.
LEMMA RoundBegins ==
    ASSUME NEW ms \in Seq(Message), Rounds(ms), AllAnswered(ms),
           NEW calls \in Seq(1..MaxRaw), calls # <<>>
    PROVE  LET now == Append(ms, Assistant(calls)) IN
           /\ Rounds(now)
           /\ Handles(now, calls, Len(ms) + 1)
<1> DEFINE now == Append(ms, Assistant(calls))
           L   == Len(ms)
<1>1. /\ now \in Seq(Message) /\ now # <<>>
      /\ L \in Nat /\ Len(now) = L + 1
      /\ DOMAIN ms = 1..L /\ DOMAIN now = 1..(L + 1)
      /\ now[L + 1] = Assistant(calls)
      /\ \A i \in 1..L : now[i] = ms[i]
      /\ L > 0
  BY MessagesTyped, MessageAdded DEF Rounds
<1> HIDE DEF now
<1>2. /\ \A a \in 1..L : (Asks(now, a) <=> Asks(ms, a)) /\ Asked(now, a) = Asked(ms, a)
      /\ \A a \in 1..L : /\ Len(Asked(ms, a)) \in Nat
                        /\ DOMAIN Asked(ms, a) = 1..Len(Asked(ms, a))
      /\ Asks(now, L + 1) /\ Asked(now, L + 1) = calls
  <2>1. Asks(now, L + 1) /\ Asked(now, L + 1) = calls
    BY <1>1 DEF Asks, Asked, Assistant
  <2>2. \A a \in 1..L : (Asks(now, a) <=> Asks(ms, a)) /\ Asked(now, a) = Asked(ms, a)
    BY <1>1 DEF Asks, Asked
  <2> QED
    BY <2>1, <2>2, Positions
<1>3. now[1] = User
  BY <1>1 DEF Rounds
<1>4. ASSUME NEW i \in DOMAIN now, i > 1
      PROVE  \E a \in 2..i : Asks(now, a) /\ i <= a + Len(Asked(now, a))
  <2>1. CASE i = L + 1
    BY <1>1, <1>2, <1>4, <2>1
  <2>2. CASE i \in 1..L
    <3>1. PICK a \in 2..i : Asks(ms, a) /\ i <= a + Len(Asked(ms, a))
      BY <1>1, <1>4, <2>2 DEF Rounds
    <3>2. a \in 1..L
      BY <1>1, <2>2
    <3> QED
      BY <1>2, <3>1, <3>2
  <2> QED
    BY <1>1, <1>4, <2>1, <2>2
<1>5. ASSUME NEW a \in DOMAIN now, Asks(now, a)
      PROVE  /\ Asked(now, a) # <<>>
             /\ \A n \in DOMAIN Asked(now, a) : a + n <= Len(now) => now[a + n] = Tool(Asked(now, a)[n])
             /\ a + Len(Asked(now, a)) < Len(now) => Asks(now, a + Len(Asked(now, a)) + 1)
  <2>1. CASE a = L + 1
    <3>1. Len(calls) \in Nat /\ DOMAIN calls = 1..Len(calls)
      OBVIOUS
    <3> QED
      BY <1>1, <1>2, <2>1, <3>1
  <2>2. CASE a \in 1..L
    <3>1. /\ Asks(ms, a) /\ Asked(now, a) = Asked(ms, a) /\ Asked(ms, a) # <<>>
          /\ \A n \in DOMAIN Asked(ms, a) : a + n <= L => ms[a + n] = Tool(Asked(ms, a)[n])
          /\ a + Len(Asked(ms, a)) < L => Asks(ms, a + Len(Asked(ms, a)) + 1)
          /\ a + Len(Asked(ms, a)) <= L
      BY <1>1, <1>2, <1>5, <2>2 DEF Rounds, AllAnswered
    <3>2. Len(Asked(ms, a)) \in Nat /\ DOMAIN Asked(ms, a) = 1..Len(Asked(ms, a))
      BY <1>2, <2>2
    <3>3. \A n \in DOMAIN Asked(ms, a) : a + n \in 1..L /\ now[a + n] = Tool(Asked(ms, a)[n])
      BY <1>1, <2>2, <3>1, <3>2
    <3>4. a + Len(Asked(ms, a)) < L + 1 => Asks(now, a + Len(Asked(ms, a)) + 1)
      <4>1. CASE a + Len(Asked(ms, a)) < L
        <5>1. a + Len(Asked(ms, a)) + 1 \in 1..L
          BY <1>1, <2>2, <3>2, <4>1
        <5> QED
          BY <1>2, <3>1, <4>1, <5>1
      <4>2. CASE a + Len(Asked(ms, a)) = L
        BY <1>2, <4>2
      <4> QED
        BY <1>1, <2>2, <3>1, <3>2, <4>1, <4>2
    <3> QED
      BY <1>1, <3>1, <3>3, <3>4
  <2> QED
    BY <1>1, <1>5, <2>1, <2>2
<1>6. Rounds(now)
  BY <1>1, <1>3, <1>4, <1>5 DEF Rounds
<1>7. Handles(now, calls, L + 1)
  <2>1. Len(calls) \in Nat /\ DOMAIN calls = 1..Len(calls)
    OBVIOUS
  <2> QED
    BY <1>1, <1>2, <2>1 DEF Handles
<1> QED
  BY <1>6, <1>7 DEF now

\* A result in its round.
LEMMA ResultJoins ==
    ASSUME NEW ms \in Seq(Message), Rounds(ms),
           NEW calls \in Seq(1..MaxRaw), calls # <<>>,
           NEW a \in DOMAIN ms, Handles(ms, calls, a)
    PROVE  LET now == Append(ms, Tool(Head(calls))) IN
           /\ Rounds(now)
           /\ Handles(now, Tail(calls), a)
           /\ Tail(calls) = <<>> => AllAnswered(now)
<1> DEFINE now == Append(ms, Tool(Head(calls)))
           L   == Len(ms)
<1>1. /\ Head(calls) \in 1..MaxRaw /\ Head(calls) = calls[1]
      /\ Tail(calls) \in Seq(1..MaxRaw) /\ Len(calls) \in Nat /\ Len(Tail(calls)) = Len(calls) - 1
      /\ DOMAIN calls = 1..Len(calls) /\ DOMAIN Tail(calls) = 1..(Len(calls) - 1)
      /\ \A m \in 1..(Len(calls) - 1) : Tail(calls)[m] = calls[m + 1]
      /\ Len(calls) > 0 /\ (Tail(calls) = <<>> => Len(calls) = 1)
  BY FirstCall
<1>2. /\ now \in Seq(Message) /\ now # <<>>
      /\ L \in Nat /\ Len(now) = L + 1
      /\ DOMAIN ms = 1..L /\ DOMAIN now = 1..(L + 1)
      /\ now[L + 1] = Tool(calls[1])
      /\ \A i \in 1..L : now[i] = ms[i]
      /\ L > 0
  BY <1>1, MessagesTyped, MessageAdded DEF Rounds
<1> HIDE DEF now
<1>3. /\ \A b \in 1..L : (Asks(now, b) <=> Asks(ms, b)) /\ Asked(now, b) = Asked(ms, b)
      /\ ~Asks(now, L + 1)
  BY <1>2 DEF Asks, Asked, Tool
<1>4. \A b \in 1..L : Len(Asked(ms, b)) \in Nat /\ DOMAIN Asked(ms, b) = 1..Len(Asked(ms, b))
  BY Positions
<1>5. /\ a \in 1..L /\ Asks(ms, a) /\ L + Len(calls) = a + Len(Asked(ms, a))
      /\ calls[1] = Asked(ms, a)[(L - a) + 1]
      /\ \A m \in DOMAIN calls : calls[m] = Asked(ms, a)[(L - a) + m]
  <2>1. /\ Asks(ms, a) /\ L + Len(calls) = a + Len(Asked(ms, a))
        /\ \A m \in DOMAIN calls : calls[m] = Asked(ms, a)[(L - a) + m]
    BY DEF Handles
  <2>2. a \in 1..L /\ 1 \in DOMAIN calls
    BY <1>1, <1>2
  <2> HIDE DEF L
  <2> QED
    BY <2>1, <2>2
\* Of the other rounds none goes on to where the result is put.
<1>6. \A b \in 1..L : Asks(ms, b) /\ b # a => b + Len(Asked(ms, b)) < L
  <2> SUFFICES ASSUME NEW b \in 1..L, Asks(ms, b), b # a, ~(b + Len(Asked(ms, b)) < L) PROVE FALSE
    OBVIOUS
  <2>1. L <= b + Len(Asked(ms, b)) /\ L <= a + Len(Asked(ms, a))
    BY <1>1, <1>2, <1>4, <1>5
  <2> QED
    BY <1>5, <2>1, OneRound
<1>7. now[1] = User
  BY <1>2 DEF Rounds
<1>8. ASSUME NEW i \in DOMAIN now, i > 1
      PROVE  \E b \in 2..i : Asks(now, b) /\ i <= b + Len(Asked(now, b))
  <2>1. CASE i = L + 1
    <3>1. a # 1
      BY <1>2, <1>5 DEF Rounds, Asks, User
    <3> QED
      BY <1>1, <1>2, <1>3, <1>4, <1>5, <2>1, <3>1
  <2>2. CASE i \in 1..L
    <3>1. PICK b \in 2..i : Asks(ms, b) /\ i <= b + Len(Asked(ms, b))
      BY <1>2, <1>8, <2>2 DEF Rounds
    <3>2. b \in 1..L
      BY <1>2, <2>2
    <3> QED
      BY <1>3, <3>1, <3>2
  <2> QED
    BY <1>2, <1>8, <2>1, <2>2
<1>9. ASSUME NEW b \in DOMAIN now, Asks(now, b)
      PROVE  /\ Asked(now, b) # <<>>
             /\ \A n \in DOMAIN Asked(now, b) : b + n <= Len(now) => now[b + n] = Tool(Asked(now, b)[n])
             /\ b + Len(Asked(now, b)) < Len(now) => Asks(now, b + Len(Asked(now, b)) + 1)
  <2>1. /\ b \in 1..L /\ Asks(ms, b) /\ Asked(now, b) = Asked(ms, b) /\ Asked(ms, b) # <<>>
        /\ \A n \in DOMAIN Asked(ms, b) : b + n <= L => ms[b + n] = Tool(Asked(ms, b)[n])
        /\ b + Len(Asked(ms, b)) < L => Asks(ms, b + Len(Asked(ms, b)) + 1)
    <3>1. b \in 1..L
      BY <1>2, <1>3, <1>9
    <3> QED
      BY <1>2, <1>3, <1>9, <3>1 DEF Rounds
  <2>2. ASSUME NEW n \in DOMAIN Asked(ms, b), b + n <= L + 1
        PROVE  now[b + n] = Tool(Asked(ms, b)[n])
    <3>1. CASE b + n <= L
      <4>1. b + n \in 1..L
        BY <1>2, <1>4, <2>1, <3>1
      <4> QED
        BY <1>2, <2>1, <3>1, <4>1
    <3>2. CASE b + n = L + 1
      <4>0. b + Len(Asked(ms, b)) \in Nat /\ n \in 1..Len(Asked(ms, b))
        BY <1>4, <2>1, <2>2
      <4>1. b = a
        <5>1. ~(b + Len(Asked(ms, b)) < L)
          BY <1>2, <2>1, <3>2, <4>0
        <5> QED
          BY <1>6, <2>1, <5>1
      <4>2. n = (L - a) + 1
        BY <1>2, <1>5, <3>2, <4>0, <4>1
      <4> QED
        BY <1>2, <1>5, <3>2, <4>1, <4>2
    <3> QED
      BY <1>2, <1>4, <2>1, <2>2, <3>1, <3>2
  <2>3. b + Len(Asked(ms, b)) < L + 1 => Asks(now, b + Len(Asked(ms, b)) + 1)
    <3>1. CASE b = a
      BY <1>1, <1>2, <1>4, <1>5, <3>1
    <3>2. CASE b # a
      <4>1. b + Len(Asked(ms, b)) < L
        BY <1>6, <2>1, <3>2
      <4>2. b + Len(Asked(ms, b)) + 1 \in 1..L
        BY <1>2, <1>4, <2>1, <4>1
      <4> QED
        BY <1>3, <2>1, <4>1, <4>2
    <3> QED
      BY <3>1, <3>2
  <2> QED
    BY <1>2, <2>1, <2>2, <2>3
<1>10. Rounds(now)
  BY <1>2, <1>7, <1>8, <1>9 DEF Rounds
<1>11. Handles(now, Tail(calls), a)
  <2>1. \A m \in 1..(Len(calls) - 1) : m + 1 \in 1..Len(calls)
    BY <1>1
  <2>4. \A m \in 1..(Len(calls) - 1) : (L - a) + (m + 1) = ((L + 1) - a) + m
    BY <1>2, <1>5
  <2>2. \A m \in DOMAIN Tail(calls) : Tail(calls)[m] = Asked(ms, a)[((L + 1) - a) + m]
    BY <1>1, <1>5, <2>1, <2>4
  <2>3. (L + 1) + Len(Tail(calls)) = a + Len(Asked(ms, a))
    BY <1>1, <1>2, <1>4, <1>5
  <2> QED
    BY <1>2, <1>3, <1>5, <2>2, <2>3 DEF Handles
<1>12. Tail(calls) = <<>> => AllAnswered(now)
  <2> SUFFICES ASSUME Tail(calls) = <<>>, NEW b \in DOMAIN now, Asks(now, b)
               PROVE  b + Len(Asked(now, b)) <= L + 1
    BY <1>2, Zenon DEF AllAnswered
  <2>1. b \in 1..L /\ Asks(ms, b) /\ Asked(now, b) = Asked(ms, b)
    BY <1>2, <1>3
  <2>2. CASE b = a
    BY <1>1, <1>2, <1>4, <1>5, <2>1, <2>2
  <2>3. CASE b # a
    <3>1. b + Len(Asked(ms, b)) < L
      BY <1>6, <2>1, <2>3
    <3> QED
      BY <1>2, <1>4, <2>1, <3>1
  <2> QED
    BY <2>2, <2>3
<1> QED
  BY <1>10, <1>11, <1>12 DEF now
-----------------------------------------------------------------------------
(* What the steps do to the rounds.                                        *)

\* The loop goes on, and its handler with it, or is left.
GoesOn ==
    /\ UNCHANGED <<stream, requested, messages, raw>>
    /\ Live(turn) /\ Live(turn') /\ turn'.pending = turn.pending
    /\ turn'.at = "handle" <=> turn.at = "handle"

IsLeft ==
    /\ Leave /\ raw' \in 0..MaxRaw
    /\ turn'.at \notin {"stream", "handle"}
    /\ Live(turn') => turn'.pending = 0

LEMMA GoingOnKeeps == AdapterInv /\ GoesOn => AdapterInv'
  BY DEF AdapterInv, AdapterTypes, RoundInv, GoesOn, Live

LEMMA LeavingKeeps == IsLeft => AdapterInv'
<1> SUFFICES ASSUME IsLeft PROVE AdapterInv'
  OBVIOUS
<1>1. /\ stream' = NoStream /\ requested' = <<>> /\ messages' = <<User>> /\ raw' \in 0..MaxRaw
  BY DEF IsLeft, Leave
<1>2. <<User>> \in Seq(Message) /\ <<User>> # <<>> /\ DOMAIN <<User>> = {1} /\ <<User>>[1] = User
  BY MessagesTyped
<1>3. AdapterTypes'
  BY <1>1, <1>2 DEF AdapterTypes, NoStream
<1>4. \A a : ~Asks(<<User>>, a)
  BY <1>2 DEF Asks, User
<1>5. Rounds(<<User>>) /\ AllAnswered(<<User>>)
  BY <1>2, <1>4 DEF Rounds, AllAnswered
<1>6. Len(<<>>) = 0
  OBVIOUS
<1>7. RoundInv'
  BY <1>1, <1>5, <1>6 DEF RoundInv, IsLeft
<1> QED
  BY <1>3, <1>7 DEF AdapterInv

\* Leaving what the generator commits.
LEMMA FinishLeaves ==
    ASSUME TypeInv, AdapterTypes, NEW stop, NEW code, Finish(stop, code), Leave, raw' \in 0..MaxRaw
    PROVE  IsLeft
<1>1. turn' = [[turn EXCEPT !.fsm = StateOf(stop)] EXCEPT !.at = "commit", !.step = "completed"]
  BY DEF Finish, Emit
<1>2. turn'.at = "commit" /\ turn'.step = "completed"
  BY <1>1, SlotTyped DEF TurnType
<1> QED
  BY <1>2 DEF IsLeft, Live

\* The engine without its provider.
LEMMA BesideMoves ==
    ASSUME TypeInv, AdapterInv, Elsewhere(Beside) PROVE GoesOn \/ IsLeft
<1>1. /\ turn \in TurnType /\ NoTurn.at = "none" /\ NoTurn.id = 0 /\ NoTurn.step = "none"
      /\ NoTurn.pending = 0 /\ 0 \notin TurnIds
      /\ turn.at = "none" => turn = NoTurn
      /\ turn.at # "none" => turn.id \in TurnIds
      /\ turn.at \in {"stream", "handle"} => Live(turn)
      /\ raw' \in 0..MaxRaw
  BY SlotTyped DEF NoTurn, TurnIds, AdapterInv, AdapterTypes, RoundInv, Elsewhere, TypeInv, SlotInv
<1>2. /\ turn'.id = turn.id /\ Live(turn') => UNCHANGED <<stream, requested, messages, raw>>
      /\ ~(turn'.id = turn.id /\ Live(turn')) => Leave
  BY DEF Elsewhere, Live
<1>3. CASE UNCHANGED turn
  BY <1>1, <1>2, <1>3 DEF GoesOn, IsLeft, Live
<1>4. CASE turn' = NoTurn /\ turn.at # "none"
  BY <1>1, <1>2, <1>4 DEF IsLeft
<1>5. CASE RunTurn
  <2>1. turn.id = 0 /\ turn'.id = turns + 1 /\ turn'.at = "commit" /\ turn'.pending = 0 /\ turns + 1 # 0
    BY <1>1, <1>5 DEF RunTurn, Emit, NoTurn, TypeInv, TypeOK
  <2> QED
    BY <1>1, <1>2, <2>1 DEF IsLeft
<1>6. ASSUME NEW named, CancelTurn(named) PROVE GoesOn \/ IsLeft
  <2>1. turn' = [turn EXCEPT !.aborted = TRUE]
    BY <1>6 DEF CancelTurn
  <2>2. /\ turn'.id = turn.id /\ turn'.at = turn.at /\ turn'.step = turn.step
        /\ turn'.pending = turn.pending
    BY <1>1, <2>1 DEF TurnType
  <2> QED
    BY <1>1, <1>2, <2>2 DEF GoesOn, IsLeft, Live
<1>7. CASE Resume
  <2>1. turn.at = "yield"
    BY <1>7 DEF Resume
  <2>2. CASE turn.step = "started" /\ Emit("user", Plain("turn", turn.id, "user.message"), turn)
    <3>1. /\ turn'.id = turn.id /\ turn'.at = "commit" /\ turn'.step = "user"
          /\ turn'.pending = turn.pending
      BY <1>1, <2>2 DEF Emit, TurnType
    <3> QED
      BY <1>2, <2>1, <2>2, <3>1 DEF GoesOn, Live
  <2>3. CASE turn.step \in {"user", "delta"} /\ turn' = [turn EXCEPT !.at = "stream"]
    <3>1. /\ turn'.id = turn.id /\ turn'.at = "stream" /\ turn'.step = turn.step
          /\ turn'.pending = turn.pending
      BY <1>1, <2>3 DEF TurnType
    <3> QED
      BY <1>2, <2>1, <2>3, <3>1 DEF GoesOn, Live
  <2>4. CASE Finish("error", "context_overflow")
    <3>1. turn'.step = "completed"
      BY <1>1, <2>4 DEF Finish, Emit, TurnType
    <3>2. Leave
      BY <1>2, <3>1 DEF Live
    <3> QED
      BY <1>1, <2>4, <3>2, FinishLeaves DEF AdapterInv
  <2>5. CASE turn' = NoTurn
    BY <1>4, <2>1, <2>5
  <2> QED
    BY <1>7, <2>2, <2>3, <2>4, <2>5 DEF Resume, EndTurn
<1>8. CASE Abandon \/ HandlerThrows
  BY <1>4, <1>8 DEF Abandon, HandlerThrows, EndTurn
<1>9. CASE Store
  <2>1. PICK ok \in BOOLEAN : inflight # <<>> /\ Answered(Head(inflight), ok)
    BY <1>9 DEF Store, StoreKeeps, StoreRefuses, StoreFails
  <2>2. Head(inflight).by = "turn" => turn.at = "commit"
    BY <2>1, TakeFromQueue DEF TypeInv, SlotInv
  <2>3. CASE UNCHANGED turn
    BY <1>3, <2>3
  <2>4. CASE turn.at = "commit" /\ turn' = [turn EXCEPT !.at = "yield"]
    <3>1. /\ turn'.id = turn.id /\ turn'.at = "yield" /\ turn'.step = turn.step
          /\ turn'.pending = turn.pending
      BY <1>1, <2>4 DEF TurnType
    <3> QED
      BY <1>1, <1>2, <2>4, <3>1 DEF GoesOn, IsLeft, Live
  <2>5. CASE turn.at = "commit" /\ turn' = NoTurn
    BY <1>4, <2>5
  <2>6. CASE turn' = [turn EXCEPT !.at = "commit", !.step = "storeFailed", !.fsm = StateOf("error")]
    <3>1. turn'.at = "commit" /\ turn'.step = "storeFailed"
      BY <1>1, <2>6 DEF TurnType
    <3> QED
      BY <1>1, <1>2, <3>1 DEF IsLeft, Live
  <2> QED
    BY <2>1, <2>2, <2>3, <2>4, <2>5, <2>6 DEF Answered, EndTurn
<1> QED
  BY <1>3, <1>5, <1>6, <1>7, <1>8, <1>9
  DEF Elsewhere, Beside, CreateSession, HandlerCommits

\* The provider.
LEMMA AdapterKeeps ==
    ASSUME TypeInv, AdapterInv, Adapter PROVE AdapterInv'
<1>1. /\ turn \in TurnType /\ stream \in [at : {"none", "open", "done"}, blocks : SUBSET (1..MaxRaw)]
      /\ requested \in Seq(1..MaxRaw) /\ messages \in Seq(Message) /\ raw \in 0..MaxRaw
  BY SlotTyped DEF AdapterInv, AdapterTypes
<1>2. turn.at = "stream" =>
         /\ Rounds(messages) /\ AllAnswered(messages) /\ Live(turn) /\ turn.pending = Len(requested)
         /\ stream.at = "none" => requested = <<>>
  BY DEF AdapterInv, RoundInv
<1>3. ASSUME turn.at = "stream", NEW codes, Throw(codes) PROVE AdapterInv'
  <2>1. \E stop, code : Finish(stop, code)
    BY <1>3 DEF Throw, StreamThrowsWith
  <2>2. Leave /\ raw' \in 0..MaxRaw
    BY <1>1, <1>3 DEF Throw
  <2> QED
    BY <2>1, <2>2, FinishLeaves, LeavingKeeps DEF AdapterInv
\* The stream goes on or ends, and nothing is appended to the messages.
<1>4. ASSUME turn.at = "stream", turn'.at \in {"stream", "commit"}, Live(turn'),
             turn'.pending = turn.pending, stream'.at # "none",
             stream' \in [at : {"none", "open", "done"}, blocks : SUBSET (1..MaxRaw)],
             raw' \in 0..MaxRaw, UNCHANGED <<requested, messages>>
      PROVE  AdapterInv'
  <2>1. AdapterTypes'
    BY <1>1, <1>4 DEF AdapterTypes
  <2>2. RoundInv'
    BY <1>2, <1>4 DEF RoundInv
  <2> QED
    BY <2>1, <2>2 DEF AdapterInv
<1>5. CASE OpenStream
  <2>1. /\ turn.at = "stream" /\ turn' = turn /\ raw' = raw
        /\ stream' = [at |-> "open", blocks |-> {}]
        /\ UNCHANGED <<requested, messages>>
    BY <1>5 DEF OpenStream, NoStream, vars
  <2> QED
    BY <1>1, <1>2, <1>4, <2>1
<1>6. CASE OpenFails \/ RawError \/ RawBlockBroken
  <2>1. \E codes : Throw(codes)
    BY <1>6 DEF OpenFails, RawError, RawBlockBroken
  <2>2. turn.at = "stream"
    BY <2>1 DEF Throw, StreamThrowsWith
  <2> QED
    BY <1>3, <2>1, <2>2
<1>7. RawEvent => turn.at = "stream" /\ stream.at = "open" /\ raw' \in 1..MaxRaw /\ raw' \in 0..MaxRaw
  BY <1>1, MaxRawAssumption DEF RawEvent
<1>8. CASE RawAfterAbort
  BY <1>7, <1>8, FinishLeaves, LeavingKeeps DEF RawAfterAbort, ChunkAfterAbort, AdapterInv
<1>9. CASE RawText
  <2>1. /\ turn'.at = "commit" /\ turn'.step = "delta" /\ turn'.pending = turn.pending
        /\ UNCHANGED <<stream, requested, messages>>
    BY <1>1, <1>9 DEF RawText, ChunkDelta, Emit, TurnType
  <2> QED
    BY <1>1, <1>4, <1>7, <1>9, <2>1 DEF RawText, Live
<1>10. CASE RawBlockStart
  <2>1. /\ turn' = turn /\ UNCHANGED <<requested, messages>>
        /\ stream' = [stream EXCEPT !.blocks = @ \cup {raw'}]
    BY <1>10 DEF RawBlockStart, vars
  <2>2. RawEvent
    BY <1>10 DEF RawBlockStart
  <2>3. /\ stream'.at = "open"
        /\ stream' \in [at : {"none", "open", "done"}, blocks : SUBSET (1..MaxRaw)]
    BY <1>1, <1>7, <2>1, <2>2
  <2> QED
    BY <1>2, <1>4, <1>7, <2>1, <2>2, <2>3
<1>11. ASSUME NEW b \in 1..MaxRaw, RawBlockStop(b) PROVE AdapterInv'
  <2>1. /\ RawEvent /\ stream' = [stream EXCEPT !.blocks = @ \ {b}]
        /\ requested' = Append(requested, b) /\ messages' = messages
        /\ turn' = [turn EXCEPT !.pending = @ + 1]
    BY <1>11 DEF RawBlockStop, ChunkToolCall
  <2>2. /\ requested' \in Seq(1..MaxRaw) /\ Len(requested') = Len(requested) + 1
        /\ stream'.at = "open"
        /\ stream' \in [at : {"none", "open", "done"}, blocks : SUBSET (1..MaxRaw)]
    BY <1>1, <1>7, <2>1
  <2>3. turn'.at = "stream" /\ turn'.step = turn.step /\ turn'.pending = turn.pending + 1
    BY <1>1, <1>7, <2>1 DEF TurnType
  <2>4. AdapterTypes'
    BY <1>1, <1>7, <2>1, <2>2 DEF AdapterTypes
  <2>5. RoundInv'
    BY <1>2, <1>7, <2>1, <2>2, <2>3 DEF RoundInv, Live
  <2> QED
    BY <2>4, <2>5 DEF AdapterInv
<1>12. CASE RawEnds
  <2>1. CASE ChunkAfterAbort /\ Leave
    BY <1>1, <1>12, <2>1, FinishLeaves, LeavingKeeps DEF RawEnds, ChunkAfterAbort, AdapterInv
  <2>2. CASE /\ ChunkCompleted /\ stream' = [NoStream EXCEPT !.at = "done"]
             /\ UNCHANGED <<requested, messages>>
    <3>1. /\ turn.at = "stream" /\ turn' = turn /\ raw' = raw
          /\ stream' = [at |-> "done", blocks |-> {}]
      BY <1>12, <2>2 DEF RawEnds, ChunkCompleted, NoStream
    <3>2. /\ stream'.at # "none"
          /\ stream' \in [at : {"none", "open", "done"}, blocks : SUBSET (1..MaxRaw)]
      BY <3>1
    <3> QED
      BY <1>1, <1>2, <1>4, <2>2, <3>1, <3>2
  <2> QED
    BY <1>12, <2>1, <2>2 DEF RawEnds
<1>13. CASE StreamDone
  <2>1. turn.at = "stream" /\ raw' = raw
    BY <1>13 DEF StreamDone, StreamEnds
  <2>2. CASE turn'.at # "handle"
    <3>1. Leave /\ \E stop, code : Finish(stop, code)
      <4>1. [turn EXCEPT !.at = "handle"].at = "handle"
        BY <1>1 DEF TurnType
      <4> QED
        BY <1>13, <2>2, <4>1 DEF StreamDone, StreamEnds
    <3> QED
      BY <1>1, <2>1, <3>1, FinishLeaves, LeavingKeeps DEF AdapterInv
  <2>3. CASE turn'.at = "handle"
    <3>1. /\ stream' = NoStream /\ messages' = Append(messages, Assistant(requested))
          /\ requested' = requested
      BY <1>13, <2>3 DEF StreamDone
    <3>2. turn' = [turn EXCEPT !.at = "handle"] /\ turn.pending > 0
      BY <1>1, <1>13, <2>3 DEF StreamDone, StreamEnds, Finish, Emit, TurnType
    <3>3. turn'.pending = turn.pending /\ turn'.step = turn.step
      BY <1>1, <3>2 DEF TurnType
    <3>4. requested # <<>>
      BY <1>2, <2>1, <3>2
    <3>5. /\ Rounds(messages') /\ Handles(messages', requested', Len(messages) + 1)
          /\ messages' \in Seq(Message)
      BY <1>1, <1>2, <2>1, <3>1, <3>4, RoundBegins, MessageAdded, MessagesTyped
    <3>6. Len(messages) + 1 \in DOMAIN messages'
      BY <3>5 DEF Handles, Asks
    <3>7. AdapterTypes'
      BY <1>1, <2>1, <3>1, <3>5 DEF AdapterTypes, NoStream
    <3>8. RoundInv'
      BY <1>2, <2>1, <2>3, <3>1, <3>3, <3>5, <3>6 DEF RoundInv, Live
    <3> QED
      BY <3>7, <3>8 DEF AdapterInv
  <2> QED
    BY <2>2, <2>3
<1> QED
  BY <1>5, <1>6, <1>8, <1>9, <1>10, <1>11, <1>12, <1>13 DEF Adapter

\* A tool returns.
LEMMA ToolKeeps == ASSUME TypeInv, AdapterInv, ToolReturns PROVE AdapterInv'
<1>1. /\ turn \in TurnType /\ stream = NoStream
      /\ requested \in Seq(1..MaxRaw) /\ messages \in Seq(Message) /\ raw' \in 0..MaxRaw
      /\ turn.at = "handle" /\ turn.pending > 0 /\ Live(turn) /\ turn.pending = Len(requested)
      /\ Rounds(messages)
  BY SlotTyped
  DEF TypeInv, SlotInv, AdapterInv, AdapterTypes, RoundInv, ToolReturns, HandlerReturns
<1>2. PICK a \in DOMAIN messages : Handles(messages, requested, a)
  BY <1>1 DEF AdapterInv, RoundInv
<1>3. CASE turn'.step = "completed"
  <2>1. Leave /\ \E stop, code : Finish(stop, code)
    <3> DEFINE left == [turn EXCEPT !.pending = @ - 1]
    <3>1. left.step = turn.step /\ [left EXCEPT !.at = "stream"].step = turn.step
      BY <1>1 DEF TurnType
    <3>2. left.step # "completed" /\ [left EXCEPT !.at = "stream"].step # "completed"
      BY <1>1, <3>1 DEF Live
    <3>3. Leave
      BY <1>3 DEF ToolReturns
    <3> QED
      BY <1>3, <3>2, <3>3 DEF ToolReturns, HandlerReturns
  <2> QED
    BY <1>1, <2>1, FinishLeaves, LeavingKeeps DEF AdapterInv
<1>4. CASE turn'.step # "completed"
  <2> DEFINE left == [turn EXCEPT !.pending = @ - 1]
  <2>1. /\ messages' = Append(messages, Tool(Head(requested))) /\ requested' = Tail(requested)
        /\ stream' = stream
    BY <1>4 DEF ToolReturns
  <2>2. /\ left.pending = turn.pending - 1 /\ left.at = "handle" /\ left.step = turn.step
        /\ [left EXCEPT !.at = "stream"].pending = turn.pending - 1
        /\ [left EXCEPT !.at = "stream"].at = "stream"
        /\ [left EXCEPT !.at = "stream"].step = turn.step
    BY <1>1 DEF TurnType
  <2>3. \/ turn.pending = 1 /\ turn' = [left EXCEPT !.at = "stream"]
        \/ turn.pending > 1 /\ turn' = left
    <3>1. ~\E stop, code : Finish(stop, code)
      BY <1>1, <1>4 DEF Finish, Emit, TurnType
    <3>2. turn.pending \in Nat
      BY <1>1 DEF TurnType
    <3> QED
      BY <2>2, <3>1, <3>2 DEF ToolReturns, HandlerReturns
  <2>4. /\ requested # <<>> /\ Len(requested) \in Nat
        /\ requested' \in Seq(1..MaxRaw) /\ Len(requested') = Len(requested) - 1
        /\ Head(requested) \in 1..MaxRaw
    <3>1. requested # <<>>
      BY <1>1
    <3> QED
      BY <1>1, <2>1, <3>1, FirstCall
  <2>5. /\ Rounds(messages') /\ Handles(messages', requested', a)
        /\ requested' = <<>> => AllAnswered(messages')
    BY <1>1, <1>2, <2>1, <2>4, ResultJoins
  <2>6. messages' \in Seq(Message)
    BY <1>1, <2>1, <2>4, MessageAdded, MessagesTyped
  <2>7. AdapterTypes'
    BY <1>1, <2>1, <2>4, <2>6 DEF AdapterTypes, NoStream
  <2>8. /\ Live(turn') /\ turn'.pending = Len(requested')
        /\ turn'.at \in {"stream", "handle"}
        /\ turn'.at = "stream" => requested' = <<>>
    <3>1. Len(requested) = 1 => requested' = <<>>
      BY <1>1, <2>1, <2>4, FirstCall
    <3> QED
      BY <1>1, <2>2, <2>3, <2>4, <3>1 DEF Live
  <2>9. a \in DOMAIN messages'
    BY <2>5 DEF Handles, Asks
  <2>10. RoundInv'
    BY <1>1, <2>1, <2>5, <2>8, <2>9 DEF RoundInv
  <2> QED
    BY <2>7, <2>10 DEF AdapterInv
<1> QED
  BY <1>3, <1>4

\* The types and the rounds hold under the adapter.
LEMMA AdapterInvariant == MSpec => []AdapterInv
<1>1. MInit => AdapterInv
  <2> SUFFICES ASSUME MInit PROVE AdapterInv
    OBVIOUS
  <2>1. /\ stream = NoStream /\ requested = <<>> /\ messages = <<User>> /\ raw = 0
        /\ turn = NoTurn
    BY DEF MInit, Init
  <2>2. <<User>> \in Seq(Message) /\ <<User>> # <<>> /\ DOMAIN <<User>> = {1} /\ <<User>>[1] = User
    BY MessagesTyped
  <2>3. AdapterTypes
    BY <2>1, <2>2, MaxRawAssumption DEF AdapterTypes, NoStream
  <2>4. \A a : ~Asks(<<User>>, a)
    BY <2>2 DEF Asks, User
  <2>5. Rounds(<<User>>) /\ AllAnswered(<<User>>)
    BY <2>2, <2>4 DEF Rounds, AllAnswered
  <2>6. Len(<<>>) = 0
    OBVIOUS
  <2>7. RoundInv
    BY <2>1, <2>5, <2>6 DEF RoundInv, NoTurn
  <2> QED
    BY <2>3, <2>7 DEF AdapterInv
<1>2. TypeInv /\ AdapterInv /\ [MNext]_turnVars => AdapterInv'
  <2> SUFFICES ASSUME TypeInv, AdapterInv, [MNext]_turnVars PROVE AdapterInv'
    OBVIOUS
  <2>1. CASE Elsewhere(Beside)
    BY <2>1, BesideMoves, GoingOnKeeps, LeavingKeeps
  <2>2. CASE UNCHANGED turnVars
    BY <2>2 DEF turnVars, vars, adapter, AdapterInv, AdapterTypes, RoundInv
  <2> QED
    BY <2>1, <2>2, AdapterKeeps, ToolKeeps DEF MNext
<1>3. EngineInv => TypeInv
  BY DEF EngineInv
<1> QED
  BY <1>1, <1>2, <1>3, EngineInvariant, AdapterImplementsProvider, PTL DEF MSpec

-----------------------------------------------------------------------------
(* What is sent of the rounds.                                             *)

\* The results that follow position i of a round, a call's or a result's.
LEMMA FollowingInRound ==
    ASSUME NEW ms \in Seq(Message), Rounds(ms), AllAnswered(ms), NEW a, Asks(ms, a),
           NEW i \in a..(a + Len(Asked(ms, a)))
    PROVE  Following(ms, i) = (i + 1)..(a + Len(Asked(ms, a)))
<1> DEFINE L == Len(ms)
           z == a + Len(Asked(ms, a))
<1>1. /\ L \in Nat /\ DOMAIN ms = 1..L /\ a \in 1..L /\ z \in Nat /\ a <= z /\ z <= L
      /\ DOMAIN Asked(ms, a) = 1..Len(Asked(ms, a)) /\ Len(Asked(ms, a)) \in Nat
      /\ i \in Nat /\ a <= i /\ i <= z
  BY Positions DEF AllAnswered
<1>2. \A k \in (a + 1)..z : ms[k].role = "tool"
  <2> SUFFICES ASSUME NEW k \in (a + 1)..z PROVE ms[k].role = "tool"
    OBVIOUS
  <2>1. k - a \in DOMAIN Asked(ms, a) /\ a + (k - a) = k /\ a + (k - a) <= L
    BY <1>1
  <2>2. ms[a + (k - a)] = Tool(Asked(ms, a)[k - a])
    BY <1>1, <2>1 DEF Rounds
  <2> QED
    BY <2>1, <2>2 DEF Tool
<1>3. z < L => ms[z + 1].role = "assistant"
  BY <1>1 DEF Rounds, Asks
<1> HIDE DEF z, L
<1>4. \A j \in (i + 1)..z : j \in (i + 1)..L /\ \A k \in (i + 1)..j : k \in (a + 1)..z
  BY <1>1
<1>5. \A j \in (i + 1)..L : j > z => z + 1 \in (i + 1)..j /\ z < L
  BY <1>1
<1>6. \A j \in (i + 1)..L : (\A k \in (i + 1)..j : ms[k].role = "tool") <=> j <= z
  <2> SUFFICES ASSUME NEW j \in (i + 1)..L
               PROVE  (\A k \in (i + 1)..j : ms[k].role = "tool") <=> j <= z
    OBVIOUS
  <2>1. CASE j <= z
    <3>1. j \in (i + 1)..z
      BY <1>1, <2>1
    <3> QED
      BY <1>2, <1>4, <2>1, <3>1
  <2>2. CASE ~(j <= z)
    <3>1. j > z
      BY <1>1, <2>2
    <3> QED
      BY <1>3, <1>5, <2>2, <3>1
  <2> QED
    BY <2>1, <2>2
<1> QED
  <2>1. Following(ms, i) = {j \in (i + 1)..L : j <= z}
    BY <1>6 DEF Following, L
  <2>2. {j \in (i + 1)..L : j <= z} = (i + 1)..z
    BY <1>1
  <2> QED
    BY <2>1, <2>2 DEF z

\* Every message is the user's, a message with calls, or a result of its round.
LEMMA InRounds ==
    ASSUME NEW ms \in Seq(Message), Rounds(ms), AllAnswered(ms), NEW k \in DOMAIN ms
    PROVE  \/ k = 1 /\ ms[k].role = "user"
           \/ Asks(ms, k)
           \/ \E a : /\ Asks(ms, a) /\ k \in (a + 1)..(a + Len(Asked(ms, a)))
                    /\ ms[k] = Tool(Asked(ms, a)[k - a])
<1>1. Len(ms) \in Nat /\ DOMAIN ms = 1..Len(ms)
  BY Positions
<1>2. CASE k = 1
  BY <1>2 DEF Rounds, User
<1>3. CASE k > 1
  <2>1. PICK a \in 2..k : Asks(ms, a) /\ k <= a + Len(Asked(ms, a))
    BY <1>1, <1>3 DEF Rounds
  <2>2. /\ a \in 1..Len(ms) /\ Len(Asked(ms, a)) \in Nat
        /\ DOMAIN Asked(ms, a) = 1..Len(Asked(ms, a))
    BY <2>1, Positions
  <2>3. CASE k # a
    <3>1. k \in (a + 1)..(a + Len(Asked(ms, a)))
      BY <1>1, <2>1, <2>2, <2>3
    <3>2. k - a \in DOMAIN Asked(ms, a) /\ a + (k - a) = k /\ a + (k - a) <= Len(ms)
      BY <1>1, <2>2, <3>1
    <3>3. ms[a + (k - a)] = Tool(Asked(ms, a)[k - a])
      BY <2>1, <3>2 DEF Rounds, Asks
    <3> QED
      BY <2>1, <3>1, <3>2, <3>3
  <2> QED
    BY <2>1, <2>3
<1> QED
  BY <1>1, <1>2, <1>3

\* A position is in one round only.
LEMMA InOneRound ==
    ASSUME NEW ms \in Seq(Message), Rounds(ms), AllAnswered(ms), NEW a, NEW b, Asks(ms, a), Asks(ms, b),
           NEW k, k \in a..(a + Len(Asked(ms, a))), k \in b..(b + Len(Asked(ms, b)))
    PROVE  a = b
<1>1. ASSUME NEW x, NEW y, Asks(ms, x), Asks(ms, y),
             k \in x..(x + Len(Asked(ms, x))), k \in y..(y + Len(Asked(ms, y)))
      PROVE  ~(x < y)
  <2>1. /\ x \in 1..Len(ms) /\ y \in 1..Len(ms) /\ Len(ms) \in Nat /\ DOMAIN ms = 1..Len(ms)
        /\ Len(Asked(ms, x)) \in Nat /\ DOMAIN Asked(ms, x) = 1..Len(Asked(ms, x))
        /\ Len(Asked(ms, y)) \in Nat
    BY <1>1, Positions
  <2> SUFFICES ASSUME x < y PROVE FALSE
    OBVIOUS
  <2>2. y - x \in DOMAIN Asked(ms, x) /\ x + (y - x) <= Len(ms) /\ x + (y - x) = y
    BY <1>1, <2>1
  <2>3. ms[y] = Tool(Asked(ms, x)[y - x])
    BY <1>1, <2>1, <2>2 DEF Rounds
  <2> QED
    BY <1>1, <2>3 DEF Asks, Tool
<1>2. a \in Nat /\ b \in Nat
  BY Positions
<1>3. ~(a < b)
  BY <1>1
<1>4. ~(b < a)
  BY <1>1
<1> QED
  BY <1>2, <1>3, <1>4

\* What is sent of complete rounds.
LEMMA SentInRounds ==
    ASSUME NEW ms \in Seq(Message), Rounds(ms), AllAnswered(ms)
    PROVE  LET request == toAnthropicMessages(ms) IN
           /\ 1 \in DOMAIN request
           /\ request[1] = [role |-> "user", uses |-> <<>>, results |-> <<>>]
           /\ \A k \in DOMAIN request : k = 1 \/ \E a : Asks(ms, a) /\ k \in {a, a + 1}
           /\ \A a : Asks(ms, a) =>
                 /\ a \in DOMAIN request /\ request[a].role = "assistant"
                 /\ request[a].uses = Asked(ms, a)
                 /\ a + 1 \in DOMAIN request /\ request[a + 1].role = "user"
                 /\ request[a + 1].results = Asked(ms, a)
<1> DEFINE L == Len(ms)
           End(a) == a + Len(Asked(ms, a))
           Translated(i) ==
              CASE ms[i].role = "user"      -> [role |-> "user", uses |-> <<>>, results |-> <<>>]
                [] ms[i].role = "assistant" ->
                      [role |-> "assistant",
                       uses |-> CallsAt(ms, i + 1, Following(ms, i)), results |-> <<>>]
                [] ms[i].role = "tool"      ->
                      [role |-> "user", uses |-> <<>>,
                       results |-> CallsAt(ms, i, Results(ms, i))]
           IsJoined(i) == \E j \in 1..(i - 1) : ms[j].role = "tool" /\ i \in Results(ms, j)
           request == toAnthropicMessages(ms)
<1>1. request = [i \in {k \in DOMAIN ms : ~IsJoined(k)} |-> Translated(i)]
  BY DEF toAnthropicMessages
<1>2. L \in Nat /\ DOMAIN ms = 1..L /\ 1 \in 1..L /\ ms[1] = User
  <2>1. L \in Nat /\ DOMAIN ms = 1..L
    BY Positions
  <2>2. L # 0
    BY EmptySeq DEF Rounds
  <2>3. \A n \in Nat : n # 0 => 1 \in 1..n
    OBVIOUS
  <2> QED
    BY <2>1, <2>2, <2>3 DEF Rounds
<1>3. \A a : Asks(ms, a) =>
         /\ a \in 1..L /\ Asked(ms, a) \in Seq(1..MaxRaw) /\ Len(Asked(ms, a)) \in Nat
         /\ DOMAIN Asked(ms, a) = 1..Len(Asked(ms, a)) /\ Len(Asked(ms, a)) > 0
         /\ End(a) \in Nat /\ End(a) <= L /\ a + 1 \in (a + 1)..End(a) /\ a \in a..End(a)
         /\ a + 1 \in 1..L /\ ms[a].role = "assistant"
  <2> SUFFICES ASSUME NEW a, Asks(ms, a)
               PROVE  /\ a \in 1..L /\ Asked(ms, a) \in Seq(1..MaxRaw) /\ Len(Asked(ms, a)) \in Nat
                      /\ DOMAIN Asked(ms, a) = 1..Len(Asked(ms, a)) /\ Len(Asked(ms, a)) > 0
                      /\ End(a) \in Nat /\ End(a) <= L /\ a + 1 \in (a + 1)..End(a) /\ a \in a..End(a)
                      /\ a + 1 \in 1..L /\ ms[a].role = "assistant"
    OBVIOUS
  <2>1. /\ a \in 1..L /\ Asked(ms, a) \in Seq(1..MaxRaw) /\ Len(Asked(ms, a)) \in Nat
        /\ DOMAIN Asked(ms, a) = 1..Len(Asked(ms, a)) /\ ms[a].role = "assistant"
    BY Positions
  <2>2. Asked(ms, a) # <<>> /\ End(a) <= L
    BY <1>2, <2>1 DEF Rounds, AllAnswered
  <2>3. Len(Asked(ms, a)) > 0
    BY <2>1, <2>2, FirstCall
  <2> QED
    BY <1>2, <2>1, <2>2, <2>3
<1>4. \A a : Asks(ms, a) => \A k \in (a + 1)..End(a) :
         /\ k \in 1..L /\ ms[k] = Tool(Asked(ms, a)[k - a]) /\ ms[k].role = "tool"
         /\ Results(ms, k) = k..End(a)
  <2> SUFFICES ASSUME NEW a, Asks(ms, a), NEW k \in (a + 1)..End(a)
               PROVE  /\ k \in 1..L /\ ms[k] = Tool(Asked(ms, a)[k - a]) /\ ms[k].role = "tool"
                      /\ Results(ms, k) = k..End(a)
    OBVIOUS
  <2>1. k - a \in DOMAIN Asked(ms, a) /\ a + (k - a) = k /\ k <= L /\ k \in 1..L /\ k \in a..End(a)
    BY <1>2, <1>3
  <2>2. ms[a + (k - a)] = Tool(Asked(ms, a)[k - a])
    BY <1>2, <1>3, <2>1 DEF Rounds
  <2>3. Following(ms, k) = (k + 1)..End(a)
    BY <2>1, FollowingInRound
  <2>4. {k} \cup ((k + 1)..End(a)) = k..End(a)
    BY <1>3, <2>1
  <2> QED
    BY <2>1, <2>2, <2>3, <2>4 DEF Results, Tool
<1> HIDE DEF L, End, Translated, request
\* A result is joined to the one before it, and nothing else is.
<1>5. ~IsJoined(1) /\ \A a : Asks(ms, a) => ~IsJoined(a) /\ ~IsJoined(a + 1)
  <2>1. ~IsJoined(1)
    BY <1>2
  <2>2. ASSUME NEW a, Asks(ms, a), NEW k \in {a, a + 1}, IsJoined(k) PROVE FALSE
    <3>0. a \in Nat /\ k \in Nat /\ k \in a..End(a) /\ k \in 1..L
      BY <1>3, <2>2 DEF End, L
    <3>1. PICK j \in 1..(k - 1) : ms[j].role = "tool" /\ k \in Results(ms, j)
      BY <2>2
    <3>2. j \in 1..L /\ j < k
      BY <1>2, <3>0, <3>1
    <3>3. PICK b : Asks(ms, b) /\ j \in (b + 1)..End(b)
      BY <1>2, <3>1, <3>2, InRounds DEF Asks, End
    <3>4. k \in j..End(b)
      BY <1>4, <3>1, <3>3
    <3>5. k \in b..End(b) /\ k > b + 1
      BY <1>3, <3>0, <3>2, <3>3, <3>4
    <3>6. a = b
      BY <2>2, <3>0, <3>3, <3>5, InOneRound DEF End
    <3> QED
      BY <2>2, <3>0, <3>5, <3>6
  <2> QED
    BY <2>1, <2>2
<1>6. \A k \in 1..L : ~IsJoined(k) => k = 1 \/ \E a : Asks(ms, a) /\ k \in {a, a + 1}
  <2> SUFFICES ASSUME NEW k \in 1..L, k # 1, ~Asks(ms, k),
                      NEW a, Asks(ms, a), k \in (a + 1)..End(a), k # a + 1
               PROVE  IsJoined(k)
    BY <1>2, InRounds DEF End
  <2>1. k \in (a + 1)..End(a) /\ a + 1 \in (a + 1)..End(a) /\ a + 1 \in 1..(k - 1)
    BY <1>2, <1>3
  <2>2. ms[a + 1].role = "tool" /\ k \in Results(ms, a + 1)
    BY <1>4, <2>1
  <2> QED
    BY <2>1, <2>2
<1>7. \A k : k \in DOMAIN request <=> k = 1 \/ \E a : Asks(ms, a) /\ k \in {a, a + 1}
  <2>1. DOMAIN request = {k \in 1..L : ~IsJoined(k)}
    BY <1>1, <1>2
  <2> HIDE DEF IsJoined
  <2> QED
    BY <1>2, <1>3, <1>5, <1>6, <2>1
<1>8. \A k \in DOMAIN request : request[k] = Translated(k)
  BY <1>1
<1>9. 1 \in DOMAIN request /\ \A a : Asks(ms, a) => a \in DOMAIN request /\ a + 1 \in DOMAIN request
  BY <1>7
<1>10. request[1] = [role |-> "user", uses |-> <<>>, results |-> <<>>]
  BY <1>2, <1>8, <1>9 DEF Translated, User
<1>11. ASSUME NEW a, Asks(ms, a)
       PROVE  /\ request[a].role = "assistant" /\ request[a].uses = Asked(ms, a)
              /\ request[a + 1].role = "user" /\ request[a + 1].results = Asked(ms, a)
  <2> DEFINE made == Asked(ms, a)
             N == Len(Asked(ms, a))
  <2>1. /\ made \in Seq(1..MaxRaw) /\ N \in Nat /\ DOMAIN made = 1..N /\ a \in 1..L
        /\ End(a) = a + N /\ a + N <= L /\ N > 0 /\ a \in a..End(a) /\ a + 1 \in (a + 1)..End(a)
    BY <1>3, <1>11 DEF End
  <2>2. made = [n \in 1..N |-> made[n]]
    BY <2>1
  <2>3. \A n \in 1..N : a + n \in (a + 1)..End(a) /\ ms[a + n].call = made[n]
    <3> SUFFICES ASSUME NEW n \in 1..N PROVE a + n \in (a + 1)..End(a) /\ ms[a + n].call = made[n]
      OBVIOUS
    <3>1. a + n \in (a + 1)..End(a) /\ (a + n) - a = n
      BY <1>2, <2>1
    <3>2. ms[a + n] = Tool(Asked(ms, a)[(a + n) - a])
      BY <1>4, <1>11, <3>1
    <3> QED
      BY <3>1, <3>2 DEF Tool
  <2>4. CallsAt(ms, a + 1, (a + 1)..End(a)) = made
    <3>1. \A m \in 1..L : (a + 1) + m - 1 \in (a + 1)..End(a) <=> m \in 1..N
      BY <1>2, <2>1
    <3>2. {m \in 1..Len(ms) : (a + 1) + m - 1 \in (a + 1)..End(a)} = 1..N
      BY <1>2, <2>1, <3>1 DEF L
    <3>3. \A n \in 1..N : (a + 1) + n - 1 = a + n
      BY <1>2, <2>1
    <3> HIDE DEF made
    <3>4. CallsAt(ms, a + 1, (a + 1)..End(a)) = [n \in 1..N |-> ms[(a + 1) + n - 1].call]
      BY <3>2 DEF CallsAt
    <3>5. \A n \in 1..N : ms[(a + 1) + n - 1].call = made[n]
      BY <2>3, <3>3
    <3> QED
      BY <2>2, <3>4, <3>5
  <2>5. Following(ms, a) = (a + 1)..End(a)
    BY <1>11, <2>1, FollowingInRound DEF End
  <2>6. Results(ms, a + 1) = (a + 1)..End(a) /\ ms[a + 1].role = "tool" /\ ms[a].role = "assistant"
    BY <1>3, <1>4, <1>11, <2>1
  <2> HIDE DEF made, N
  <2>7. Translated(a) = [role |-> "assistant", uses |-> made, results |-> <<>>]
    BY <2>4, <2>5, <2>6 DEF Translated
  <2>8. Translated(a + 1) = [role |-> "user", uses |-> <<>>, results |-> made]
    BY <2>4, <2>6 DEF Translated
  <2> QED
    BY <1>8, <1>9, <1>11, <2>7, <2>8 DEF made
<1> QED
  BY <1>7, <1>9, <1>10, <1>11 DEF request

\* After a message with calls comes that with their results, and after that and
\* the first one a message with calls.
LEMMA SentAlternates ==
    ASSUME NEW ms \in Seq(Message), Rounds(ms), AllAnswered(ms)
    PROVE  LET request == toAnthropicMessages(ms) IN
           /\ \A a : Asks(ms, a) => Succeeds(request, a + 1, a)
           /\ \A i, j \in DOMAIN request : Succeeds(request, j, i) => request[i].role # request[j].role
<1> DEFINE request == toAnthropicMessages(ms)
<1>1. /\ request[1] = [role |-> "user", uses |-> <<>>, results |-> <<>>]
      /\ \A k \in DOMAIN request : k = 1 \/ \E a : Asks(ms, a) /\ k \in {a, a + 1}
      /\ \A a : Asks(ms, a) => /\ a \in DOMAIN request /\ request[a].role = "assistant"
                               /\ a + 1 \in DOMAIN request /\ request[a + 1].role = "user"
  BY SentInRounds
<1> HIDE DEF request
<1>2. request[1].role = "user"
  BY <1>1
<1>3. \A a : Asks(ms, a) => a \in Nat /\ a > 1
  <2>1. ~Asks(ms, 1) /\ Len(ms) \in Nat
    BY DEF Asks, Rounds, User
  <2>2. \A a : Asks(ms, a) => a \in 1..Len(ms)
    BY Positions
  <2> QED
    BY <2>1, <2>2
<1>4. \A k \in DOMAIN request : k \in Nat
  BY <1>1, <1>3
<1>5. \A a : Asks(ms, a) => Succeeds(request, a + 1, a)
  BY <1>3, <1>4 DEF Succeeds
\* Two rounds do not touch: a message with calls is followed by a result.
<1>6. \A a : Asks(ms, a) => ~Asks(ms, a + 1)
  <2> SUFFICES ASSUME NEW a, Asks(ms, a), Asks(ms, a + 1) PROVE FALSE
    OBVIOUS
  <2>1. request[a + 1].role = "assistant" /\ request[a + 1].role = "user"
    BY <1>1
  <2> QED
    BY <2>1
<1>7. ASSUME NEW i \in DOMAIN request, NEW j \in DOMAIN request, Succeeds(request, j, i),
             request[i].role = request[j].role
      PROVE  FALSE
  <2>1. i \in Nat /\ j \in Nat /\ i < j /\ \A k \in DOMAIN request : k <= i \/ j <= k
    BY <1>4, <1>7 DEF Succeeds
  <2>2. CASE Asks(ms, i)
    <3>1. i + 1 \in DOMAIN request /\ request[i + 1].role # request[i].role
      BY <1>1, <2>2
    <3>2. j = i + 1
      BY <2>1, <3>1
    <3> QED
      BY <1>7, <3>1, <3>2
  <2>3. CASE ~Asks(ms, i)
    <3>1. request[i].role = "user"
      BY <1>1, <1>2, <2>3
    <3>2. PICK b : Asks(ms, b) /\ j = b + 1
      <4>1. ~Asks(ms, j)
        BY <1>1, <1>7, <3>1
      <4>2. j # 1
        <5>1. \A k \in DOMAIN request : k >= 1
          BY <1>1, <1>3
        <5> QED
          BY <2>1, <5>1
      <4> QED
        BY <1>1, <4>1, <4>2
    <3>3. b \in DOMAIN request /\ b \in Nat
      BY <1>1, <1>3, <3>2
    <3>4. b = i
      BY <2>1, <3>2, <3>3
    <3> QED
      BY <2>3, <3>2, <3>4
  <2> QED
    BY <2>2, <2>3
<1> QED
  BY <1>5, <1>7 DEF request

\* The adapter's blocks, the calls of the engine and the messages it keeps are
\* numbered by the blocks of the response they come from.
THEOREM AdapterTyped == MSpec => []AdapterTypes
<1>1. AdapterInv => AdapterTypes
  BY DEF AdapterInv
<1> QED
  BY <1>1, AdapterInvariant, PTL

\* Each request begins with the user's message and alternates, and the calls of
\* each of its messages, all of them and in their order, have their results in
\* the one after it - after any number of rounds of tools with any number of
\* calls.
THEOREM RequestsAnswerCalls == MSpec => []RequestAnswersCalls
<1>1. AdapterInv => RequestAnswersCalls
  <2> SUFFICES ASSUME AdapterInv, turn.at = "stream"
               PROVE RequestAnswersCalls
    BY DEF RequestAnswersCalls
  <2> DEFINE request == toAnthropicMessages(messages)
  <2>1. messages \in Seq(Message) /\ Rounds(messages) /\ AllAnswered(messages)
    BY DEF AdapterInv, AdapterTypes, RoundInv
  <2>2. /\ 1 \in DOMAIN request
        /\ request[1] = [role |-> "user", uses |-> <<>>, results |-> <<>>]
        /\ \A k \in DOMAIN request : k = 1 \/ \E a : Asks(messages, a) /\ k \in {a, a + 1}
        /\ \A a : Asks(messages, a) =>
              /\ a \in DOMAIN request /\ request[a].role = "assistant"
              /\ request[a].uses = Asked(messages, a)
              /\ a + 1 \in DOMAIN request /\ request[a + 1].role = "user"
              /\ request[a + 1].results = Asked(messages, a)
    BY <2>1, SentInRounds
  <2>3. /\ \A a : Asks(messages, a) => Succeeds(request, a + 1, a)
        /\ \A i, j \in DOMAIN request : Succeeds(request, j, i) => request[i].role # request[j].role
    BY <2>1, SentAlternates
  <2> HIDE DEF request
  <2>4. ASSUME NEW i \in DOMAIN request, request[i].role = "assistant"
        PROVE  LET made == messages[i].asked IN
               /\ made # <<>> /\ request[i].uses = made
               /\ \E j \in DOMAIN request : Succeeds(request, j, i) /\ request[j].results = made
    <3>1. i \in DOMAIN messages /\ Asks(messages, i)
      <4>1. request[1].role = "user"
        BY <2>2
      <4>2. Asks(messages, i)
        BY <2>2, <2>4, <4>1
      <4> QED
        BY <4>2 DEF Asks
    <3>2. messages[i].asked # <<>>
      BY <2>1, <3>1 DEF Rounds, Asked
    <3>3. i + 1 \in DOMAIN request
      BY <2>2, <3>1
    <3>4. request[i].uses = messages[i].asked /\ request[i + 1].results = messages[i].asked
      BY <2>2, <3>1 DEF Asked
    <3>5. Succeeds(request, i + 1, i)
      BY <2>3, <3>1
    <3> QED
      BY <3>2, <3>3, <3>4, <3>5
  <2> QED
    BY <2>2, <2>3, <2>4 DEF RequestAnswersCalls, request
<1> QED
  BY <1>1, AdapterInvariant, PTL
=============================================================================
