------------------------------- MODULE ModelTurn -------------------------------
(***************************************************************************)
(* The engine with the real provider: AnthropicProvider                    *)
(* (packages/model-gateway/src/providers/anthropic.ts) as the generator    *)
(* the tool loop of runTurn iterates, and the messages the loop keeps.     *)
(*                                                                         *)
(* stream     the generator: not begun, over an open HTTP response, or     *)
(*            after its last chunk; blocks are the tool blocks begun and   *)
(*            not ended                                                    *)
(* requested  pendingToolCalls of the loop, by the number of their block   *)
(* messages   the messages of the next request.  An assistant's message    *)
(*            carries as history the calls it made, which the code drops   *)
(*                                                                         *)
(* The consumer, the store and the tool handler are those of SessionEngine.*)
(* What a text, a name or the arguments of a call say is left out.         *)
(***************************************************************************)
EXTENDS SessionEngine

CONSTANT MaxRaw   \* bound: events of the HTTP streams

ASSUME MaxRawAssumption == MaxRaw \in Nat

VARIABLES stream, requested, messages,
          raw     \* number of events received

adapter == <<stream, requested, messages, raw>>
turnVars == <<vars, adapter>>

NoStream == [at |-> "none", blocks |-> {}]

User == [role |-> "user", call |-> 0, asked |-> <<>>]
Assistant(asked) == [role |-> "assistant", call |-> 0, asked |-> asked]
Tool(call) == [role |-> "tool", call |-> call, asked |-> <<>>]
-----------------------------------------------------------------------------
(* What is sent: toAnthropicMessages.                                      *)

\* The positions of the tool messages that follow position i.
Following(ms, i) ==
    {j \in (i + 1)..Len(ms) : \A k \in (i + 1)..j : ms[k].role = "tool"}

\* The calls of the messages at the positions P, which begin with first.
CallsAt(ms, first, P) ==
    [n \in {m \in 1..Len(ms) : first + m - 1 \in P} |-> ms[first + n - 1].call]

\* Mutant of Results: each tool message becomes a message of its own.
ResultsOneByOne(ms, i) == {i}

\* The tool messages that go into one message of results with that at i.
Results(ms, i) == {i} \cup Following(ms, i)

\* The messages of the request, each under the position of the first message it
\* is made from: an assistant's with a tool_use block for each result that
\* follows, and the results together in one message of the user.
toAnthropicMessages(ms) ==
    LET Translated(i) ==
            CASE ms[i].role = "user"      -> [role |-> "user", uses |-> <<>>, results |-> <<>>]
              [] ms[i].role = "assistant" ->
                    [role |-> "assistant",
                     uses |-> CallsAt(ms, i + 1, Following(ms, i)), results |-> <<>>]
              [] ms[i].role = "tool"      ->
                    [role |-> "user", uses |-> <<>>,
                     results |-> CallsAt(ms, i, Results(ms, i))]
        IsJoined(i) == \E j \in 1..(i - 1) : ms[j].role = "tool" /\ i \in Results(ms, j)
    IN  [i \in {k \in DOMAIN ms : ~IsJoined(k)} |-> Translated(i)]
-----------------------------------------------------------------------------
MInit ==
    /\ Init
    /\ stream = NoStream
    /\ requested = <<>>
    /\ messages = <<User>>
    /\ raw = 0

\* The engine leaves its loop.
Leave == stream' = NoStream /\ requested' = <<>> /\ messages' = <<User>>

\* The engine goes on without its provider.  Leaving the loop of the stream
\* ends the generator; a new turn begins with the message of the user.
Elsewhere(A) ==
    /\ A
    /\ IF turn'.id = turn.id /\ turn'.step \notin {"completed", "storeFailed"}
       THEN UNCHANGED <<stream, requested, messages>>
       ELSE Leave
    /\ UNCHANGED raw

\* messages.create is sent the messages and resolves.
OpenStream ==
    /\ turn.at = "stream"
    /\ stream.at = "none"
    /\ ~turn.aborted
    /\ stream' = [NoStream EXCEPT !.at = "open"]
    /\ UNCHANGED <<vars, requested, messages, raw>>

\* An error goes through mapAnthropicError and toTurnErrorCode.
ProviderCode == {"provider_failure", "context_overflow"}

Throw(codes) ==
    /\ \E code \in codes : StreamThrowsWith(code)
    /\ Leave
    /\ UNCHANGED raw

\* Mutant of OpenFails: a rejected request is sent again.
OpenFailsAgain ==
    /\ turn.at = "stream"
    /\ stream.at = "none"
    /\ UNCHANGED turnVars

\* messages.create rejects, as it does if the signal is aborted.
OpenFails == stream.at = "none" /\ Throw(ProviderCode)

\* The generator goes on with the next event of the response.
RawEvent ==
    /\ turn.at = "stream"
    /\ stream.at = "open"
    /\ raw < MaxRaw
    /\ raw' = raw + 1

\* The signal is looked at first, and answered with a failed chunk.
RawAfterAbort == RawEvent /\ ChunkAfterAbort /\ Leave

RawText ==
    /\ RawEvent /\ ChunkDelta
    /\ UNCHANGED <<stream, requested, messages>>

\* A tool block begins; the parts of its arguments that follow are not steps.
RawBlockStart ==
    /\ RawEvent
    /\ ~turn.aborted
    /\ stream' = [stream EXCEPT !.blocks = @ \cup {raw'}]
    /\ UNCHANGED <<vars, requested, messages>>

\* It ends, and its arguments are JSON.
RawBlockStop(b) ==
    /\ RawEvent /\ ChunkToolCall
    /\ b \in stream.blocks
    /\ stream' = [stream EXCEPT !.blocks = @ \ {b}]
    /\ requested' = Append(requested, b)
    /\ UNCHANGED messages

\* It ends, and they are not: JSON.parse throws within the generator.
RawBlockBroken ==
    /\ turn.at = "stream"
    /\ stream.at = "open"
    /\ stream.blocks # {}
    /\ ~turn.aborted
    /\ Throw({"provider_failure"})

\* The response breaks: an error, or a failed chunk if the signal is aborted.
RawError ==
    /\ stream.at = "open"
    /\ Throw(ProviderCode)

\* The response ends, also within a block: the last chunk is completed.
RawEnds ==
    /\ turn.at = "stream"
    /\ stream.at = "open"
    /\ \/ ChunkAfterAbort /\ Leave
       \/ /\ ChunkCompleted
          /\ stream' = [NoStream EXCEPT !.at = "done"]
          /\ UNCHANGED <<requested, messages>>
    /\ UNCHANGED raw

\* The generator has returned: the calls are handled, or the turn is completed.
StreamDone ==
    /\ stream.at = "done"
    /\ StreamEnds
    /\ IF turn'.at # "handle" THEN Leave
       ELSE /\ stream' = NoStream
            /\ messages' = Append(messages, Assistant(requested))
            /\ UNCHANGED requested
    /\ UNCHANGED raw

\* A result goes into the messages; the last one is followed by a new request.
ToolReturns ==
    /\ HandlerReturns
    /\ IF turn'.step = "completed" THEN Leave
       ELSE /\ messages' = Append(messages, Tool(Head(requested)))
            /\ requested' = Tail(requested)
            /\ UNCHANGED stream
    /\ UNCHANGED raw
-----------------------------------------------------------------------------
Adapter ==
    \/ OpenStream \/ OpenFails
    \/ RawAfterAbort \/ RawText \/ RawBlockStart
    \/ \E b \in 1..MaxRaw : RawBlockStop(b)
    \/ RawBlockBroken \/ RawError \/ RawEnds \/ StreamDone

Beside ==
    \/ CreateSession \/ RunTurn \/ Resume \/ Abandon \/ HandlerThrows \/ Store
    \/ \E named \in 0..MaxTurns : CancelTurn(named)
    \/ \E k \in TurnIds, detail \in Detail : HandlerCommits(k, detail)

MNext == Elsewhere(Beside) \/ ToolReturns \/ Adapter

MSpec == MInit /\ [][MNext]_turnVars

\* The store answers, the consumer iterates, tools return; the API accepts or
\* rejects a request, and its response ends or breaks.
MFairSpec ==
    /\ MSpec
    /\ WF_turnVars(Elsewhere(Store))
    /\ WF_turnVars(Elsewhere(Resume))
    /\ WF_turnVars(ToolReturns \/ Elsewhere(HandlerThrows))
    /\ WF_turnVars(OpenStream \/ OpenFails)
    /\ WF_turnVars(RawAfterAbort \/ RawEnds \/ RawError)
    /\ WF_turnVars(StreamDone)
-----------------------------------------------------------------------------
(* Properties.                                                             *)

\* The message at j is sent after that at i.
Succeeds(sent, j, i) == i < j /\ \A k \in DOMAIN sent : k <= i \/ j <= k

\* Each request the API is sent begins with the user's message and alternates
\* between user and assistant, and the calls of every message of the assistant -
\* all of them, each once, in the order they were made - are the tool_use blocks
\* of that message and have their results in the message after it, over any
\* number of rounds of tools.
RequestAnswersCalls ==
    turn.at = "stream" /\ stream.at = "none" =>
        LET sent == toAnthropicMessages(messages) IN
        /\ 1 \in DOMAIN sent
        /\ sent[1] = [role |-> "user", uses |-> <<>>, results |-> <<>>]
        /\ \A i, j \in DOMAIN sent : Succeeds(sent, j, i) => sent[i].role # sent[j].role
        /\ \A i \in DOMAIN sent : sent[i].role = "assistant" =>
              LET made == messages[i].asked IN
              /\ made # <<>> /\ sent[i].uses = made
              /\ \E j \in DOMAIN sent : Succeeds(sent, j, i) /\ sent[j].results = made

\* The adapter is a provider as the engine takes one: each of its steps is one
\* the engine's port allows, and a stream the engine waits for ends or throws,
\* which rests on the API answering and its response ending, and on nothing
\* else - not on what the response says, an abort or unparsable arguments.
PortRespected == FairSpec
=============================================================================
