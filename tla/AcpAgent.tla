------------------------------ MODULE AcpAgent ------------------------------
(***************************************************************************)
(* The ACP agent (apps/acp-server/src/agent.ts) as the consumer of the     *)
(* SessionEngine: newSession, prompt and cancel in the process that owns   *)
(* the session, and loadSession in another process that replays the log    *)
(* the first one writes (event-mapper.ts maps the events of both).         *)
(*                                                                         *)
(* prompt   the session/prompt calls: the turn a call iterates, whether it *)
(*          has forwarded the event it was yielded, and its answer         *)
(* sent     the events forwarded as session/update, per call               *)
(* metered  the turns whose provider reported tokens used                  *)
(* load     the one session/load call: how far it is in the log and what   *)
(*          it has forwarded; owed are the calls answered before it        *)
(*                                                                         *)
(* The engine's steps are those of SessionEngine; a step that ends a turn  *)
(* answers its call in the same job.                                       *)
(***************************************************************************)
EXTENDS SessionEngine

CONSTANT MaxPrompts \* bound: calls of session/prompt

ASSUME AgentAssumption == MaxPrompts \in Nat

VARIABLES prompt, sent, metered, load

agentVars == <<prompt, sent, metered, load>>
allVars   == <<vars, agentVars>>

Prompts == 1..MaxPrompts

NoPrompt == [phase |-> "none", turn |-> 0, forwarded |-> FALSE, stop |-> "final",
             answer |-> "none"]
NoLoad == [phase |-> "none", pos |-> 0, sent |-> <<>>, owed |-> {}]

\* A turn whose store failed completes without the usage of its provider; of
\* the others metered says which had any (one that preflightCheck refused has
\* none, and may be outside of it).
HasUsage(e) == e.turn \in metered /\ (e.stop = "error" => e.code # "none")

\* mapEventToUpdate: session.created and turn.started are not surfaced, and
\* turn.completed only for its usage.
Surfaced(e) ==
    \/ e.type \in {"user.message", "model.delta", "tool"}
    \/ e.type = "turn.completed" /\ HasUsage(e)

mapStopReason == [final |-> "end_turn", cancelled |-> "cancelled", error |-> "refusal"]
-----------------------------------------------------------------------------
AgentInit ==
    /\ Init
    /\ ~orderly
    /\ prompt = [p \in Prompts |-> NoPrompt]
    /\ sent = [p \in Prompts |-> <<>>]
    /\ metered = {}
    /\ load = NoLoad

NewSession == CreateSession /\ UNCHANGED agentVars

Iterates(p) == prompt[p].phase = "iterating"

\* prompt refuses what it cannot read, and the engine a second turn; else the
\* turn begins.  The agent gives runTurn no signal.
Prompt(p) ==
    /\ prompt[p].phase = "none"
    /\ \A q \in 1..(p - 1) : prompt[q].phase # "none"
    /\ \/ /\ prompt' = [prompt EXCEPT ![p].phase = "answered", ![p].answer = "error"]
          /\ UNCHANGED vars
       \/ /\ RunTurn
          /\ ~turn'.aborted
          /\ prompt' = [prompt EXCEPT ![p].phase = "iterating", ![p].turn = turn'.id]
    /\ UNCHANGED <<sent, metered, load>>

Cancel == CancelTurn(0) /\ UNCHANGED agentVars

\* Mutant of Outcome: an error of the generator is swallowed.
OutcomeOnReturn(call) ==
    IF call.phase = "iterating" /\ ended'[call.turn] = "returned"
    THEN [call EXCEPT !.phase = "answered", !.answer = mapStopReason[call.stop]]
    ELSE call

\* The call whose turn has ended is answered: the stop reason of the last
\* turn.completed it saw, or the error that left the generator.
Outcome(call) ==
    IF call.phase # "iterating" \/ ended'[call.turn] = "no" THEN call
    ELSE [call EXCEPT !.phase = "answered",
                      !.answer = IF ended'[call.turn] = "returned"
                                 THEN mapStopReason[call.stop] ELSE "error"]

Settle == prompt' = [p \in Prompts |-> Outcome(prompt[p])]

Yielded == shown[turn.id][Len(shown[turn.id])]

\* Mutant of Forward: the stop reason of turn.completed is not remembered.
ForwardKeepsFinal(p) ==
    /\ Iterates(p)
    /\ turn.at = "yield"
    /\ ~prompt[p].forwarded
    /\ sent' = IF Surfaced(Yielded) THEN [sent EXCEPT ![p] = Append(@, Yielded)] ELSE sent
    /\ prompt' = [prompt EXCEPT ![p].forwarded = TRUE]
    /\ UNCHANGED <<vars, metered, load>>

\* The loop body: the event is forwarded, and remembered if it is the last.
Forward(p) ==
    /\ Iterates(p)
    /\ turn.at = "yield"
    /\ ~prompt[p].forwarded
    /\ sent' = IF Surfaced(Yielded) THEN [sent EXCEPT ![p] = Append(@, Yielded)] ELSE sent
    /\ prompt' = [prompt EXCEPT
                    ![p].forwarded = TRUE,
                    ![p].stop = IF Yielded.type = "turn.completed" THEN Yielded.stop ELSE @]
    /\ UNCHANGED <<vars, metered, load>>

\* sessionUpdate rejects, and for await closes the generator.
ForwardFails(p) ==
    /\ Iterates(p)
    /\ turn.at = "yield"
    /\ ~prompt[p].forwarded
    /\ Surfaced(Yielded)
    /\ Abandon
    /\ Settle
    /\ UNCHANGED <<sent, metered, load>>

\* The loop asks for the next event.
Advance(p) ==
    /\ Iterates(p)
    /\ prompt[p].forwarded
    /\ Resume
    /\ prompt' = [prompt EXCEPT ![p] = Outcome([@ EXCEPT !.forwarded = FALSE])]
    /\ UNCHANGED <<sent, metered, load>>

\* A completed chunk is the one the turn goes on from as it was: it may report
\* the tokens used.
Stream ==
    /\ Provider
    /\ Settle
    /\ \/ UNCHANGED metered
       \/ chunks' # chunks /\ UNCHANGED turn /\ metered' = metered \cup {turn.id}
    /\ UNCHANGED <<sent, load>>

EngineWorks ==
    /\ \/ Store
       \/ \E k \in TurnIds, detail \in Detail : HandlerCommits(k, detail)
       \/ HandlerReturns
       \/ HandlerThrows
    /\ Settle
    /\ UNCHANGED <<sent, metered, load>>
-----------------------------------------------------------------------------
(* loadSession in a process of its own.                                    *)

Load ==
    /\ load.phase = "none"
    /\ load' = [NoLoad EXCEPT !.phase = "replaying",
                  !.owed = {p \in Prompts : prompt[p].phase = "answered"}]
    /\ UNCHANGED <<vars, prompt, sent, metered>>

\* Mutant of LoadEvent: only the user's messages are forwarded.
LoadEventOfUser ==
    /\ load.phase = "replaying"
    /\ load.pos < Len(log)
    /\ LET e == log[load.pos + 1] IN
       load' = [load EXCEPT !.pos = @ + 1,
                            !.sent = IF e.type = "user.message" THEN Append(@, e) ELSE @]
    /\ UNCHANGED <<vars, prompt, sent, metered>>

LoadEvent ==
    /\ load.phase = "replaying"
    /\ load.pos < Len(log)
    /\ LET e == log[load.pos + 1] IN
       load' = [load EXCEPT !.pos = @ + 1,
                            !.sent = IF Surfaced(e) THEN Append(@, e) ELSE @]
    /\ UNCHANGED <<vars, prompt, sent, metered>>

\* At the end of the log: without session.created there is no such session.
LoadEnds ==
    /\ load.phase = "replaying"
    /\ load.pos = Len(log)
    /\ load' = [load EXCEPT
                  !.phase = IF \E n \in DOMAIN log : log[n].type = "session.created"
                            THEN "loaded" ELSE "failed"]
    /\ UNCHANGED <<vars, prompt, sent, metered>>

\* The reader throws or sessionUpdate rejects.
LoadFails ==
    /\ load.phase = "replaying"
    /\ load' = [load EXCEPT !.phase = "failed"]
    /\ UNCHANGED <<vars, prompt, sent, metered>>
-----------------------------------------------------------------------------
AgentNext ==
    \/ NewSession
    \/ Cancel
    \/ EngineWorks
    \/ Stream
    \/ \E p \in Prompts : Prompt(p) \/ Forward(p) \/ ForwardFails(p) \/ Advance(p)
    \/ Load
    \/ LoadEvent
    \/ LoadEnds
    \/ LoadFails

\* The fairness of SessionEngine's FairSpec, the consumer being the loop of
\* prompt: sessionUpdate resolves or rejects.
AgentSpec ==
    /\ AgentInit /\ [][AgentNext]_allVars
    /\ WF_allVars(Store /\ Settle /\ UNCHANGED <<sent, metered, load>>)
    /\ WF_allVars((HandlerReturns \/ HandlerThrows)
                     /\ Settle /\ UNCHANGED <<sent, metered, load>>)
    /\ WF_allVars((StreamThrows \/ StreamEnds)
                     /\ Settle /\ UNCHANGED <<sent, metered, load>>)
    /\ \A p \in Prompts : WF_allVars(Forward(p) \/ Advance(p))
-----------------------------------------------------------------------------
(* Properties.                                                             *)

\* The types of the agent's calls and of what they forward.
AgentTypeOK ==
    /\ prompt \in [Prompts ->
                     [phase : {"none", "iterating", "answered"}, turn : 0..MaxTurns,
                      forwarded : BOOLEAN, stop : DOMAIN mapStopReason,
                      answer : {"none", "error", "end_turn", "cancelled", "refusal"}]]
    /\ sent \in [Prompts -> Seq(Entry)]
    /\ metered \in SUBSET TurnIds
    /\ load \in [phase : {"none", "replaying", "loaded", "failed"}, pos : Nat,
                 sent : Seq(Entry), owed : SUBSET Prompts]

EventsOf(s) == {s[i] : i \in DOMAIN s}

\* The events of s are those of S, each once and in the order of the log.
Carries(s, S) ==
    /\ EventsOf(s) = S
    /\ \A i \in DOMAIN s : \A j \in 1..(i - 1) : s[j].sequence < s[i].sequence

\* The answer of prompt (326, mapStopReason) is the stop reason of the turn's
\* one turn.completed, which is on file, whenever cancel arrived and whatever
\* failed; and the client has been sent all of the turn the engine yielded.
AnswerTellsLog ==
    \A p \in Prompts :
        LET call == prompt[p] IN
        call.phase = "answered" /\ call.answer # "error" =>
            /\ \E n \in DOMAIN log :
                  /\ log[n].turn = call.turn
                  /\ log[n].type = "turn.completed"
                  /\ mapStopReason[log[n].stop] = call.answer
                  /\ \A m \in DOMAIN log \ {n} :
                        log[m].turn = call.turn => log[m].type # "turn.completed"
            /\ Carries(sent[p], {e \in EventsOf(shown[call.turn]) : Surfaced(e)})

\* loadSession (229-247) sends the log in its order, and so again what prompt had
\* sent: of every turn that was answered before the load, the same updates in the
\* same order, leaving aside the updates of tools, which only a load sends.
ReplayRepeatsWire ==
    load.phase = "loaded" =>
        /\ Carries(load.sent, EventsOf(load.sent))
        /\ \A p \in load.owed : prompt[p].answer # "error" =>
              Carries(sent[p], {e \in EventsOf(load.sent) :
                                    e.turn = prompt[p].turn /\ e.type # "tool"})

\* Every session/prompt call is answered, also when the store, the tool handler
\* or the wire fails in the middle of its turn.
PromptIsAnswered ==
    \A p \in Prompts : prompt[p].phase = "iterating" ~> prompt[p].phase = "answered"
=============================================================================
