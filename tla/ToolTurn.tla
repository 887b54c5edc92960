------------------------------ MODULE ToolTurn ------------------------------
(***************************************************************************)
(* The turns of SessionEngine with the tool handler the ACP agent gives    *)
(* it: ToolRouter.dispatch (packages/tools/src/router.ts), the             *)
(* PermissionEngine it asks (packages/permissions/src/index.ts), the tools *)
(* that run a process (shell, apply_patch, git_diff) or read files, and    *)
(* the handler that collects their output (apps/acp-server/src/agent.ts).  *)
(*                                                                         *)
(* call       the call the generator awaits and where its dispatch stands  *)
(* proc       the process of each call                                     *)
(* chain      the deltas of each call that wait on deltaChain              *)
(* collected  per turn, the calls whose output is in the array collected   *)
(* crashed    an unhandled rejection has ended the process                 *)
(*                                                                         *)
(* Engine steps are those of SessionEngine; a step of the handler is one   *)
(* of its handler actions together with what the router does.              *)
(***************************************************************************)
EXTENDS SessionEngine

CONSTANTS
    MaxDeltas,  \* bound: chunks of output per call (the output budget)
    Policy      \* what PermissionEngine.evaluate decides for each tool

Calls == 1..MaxCalls

\* shell: a process with a timeout; git: apply_patch and git_diff, a process
\* without one; read: read_file, list_files and search_text; unknown: a name
\* that is not registered.
Tools == {"shell", "git", "read", "unknown"}

ASSUME ToolAssumption ==
    /\ HasTools
    /\ MaxDeltas \in Nat
    /\ Policy \in [Tools -> {"allow", "ask", "deny"}]
    /\ ToolKinds = {"requested", "allowed", "denied", "started", "delta",
                    "completed", "failed"}

VARIABLES call, proc, chain, collected, crashed,
          calls,     \* number of calls begun
          results,   \* per call, whose output its result was made of
          abandoned  \* calls answered while their process was still running

toolVars == <<call, proc, chain, collected, crashed, calls, results, abandoned>>
allVars  == <<vars, toolVars>>

NoCall == [id |-> 0, tool |-> "unknown", phase |-> "idle", outcome |-> "none",
           target |-> 0]
NoProc == [state |-> "none", listens |-> FALSE, turn |-> 0]
NoChain == [queued |-> 0, busy |-> FALSE, done |-> 0, failed |-> FALSE]

\* Deltas handed to deltaChain so far.
Emitted(c) == chain[c].queued + chain[c].done + (IF chain[c].busy THEN 1 ELSE 0)
-----------------------------------------------------------------------------
ToolInit ==
    /\ Init
    /\ ~orderly
    /\ call = NoCall
    /\ proc = [c \in Calls |-> NoProc]
    /\ chain = [c \in Calls |-> NoChain]
    /\ collected = [k \in TurnIds |-> <<>>]
    /\ crashed = FALSE
    /\ calls = 0
    /\ results = [c \in Calls |-> <<>>]
    /\ abandoned = {}

\* The dispatch commits an event of its call and awaits it.
Report(c, kind) == HandlerCommits(turn.id, [call |-> c, kind |-> kind])

Quiet == UNCHANGED <<proc, chain, collected, crashed, calls, results, abandoned>>

\* Mutant of BeginCall: collected is not cleared.
BeginCallKeepsOutput ==
    /\ turn.at = "handle"
    /\ call.phase = "idle"
    /\ calls < MaxCalls
    /\ calls' = calls + 1
    /\ \E tool \in Tools :
          /\ call' = [NoCall EXCEPT !.id = calls + 1, !.tool = tool,
                        !.phase = IF tool = "unknown" THEN "ending" ELSE "requesting",
                        !.outcome = "failed"]
          /\ Report(calls + 1, IF tool = "unknown" THEN "failed" ELSE "requested")
    /\ UNCHANGED <<proc, chain, collected, crashed, results, abandoned>>

\* handle clears collected and calls dispatch, which looks the tool up.
BeginCall ==
    /\ turn.at = "handle"
    /\ call.phase = "idle"
    /\ calls < MaxCalls
    /\ calls' = calls + 1
    /\ collected' = [collected EXCEPT ![turn.id] = <<>>]
    /\ \E tool \in Tools :
          /\ call' = [NoCall EXCEPT !.id = calls + 1, !.tool = tool,
                        !.phase = IF tool = "unknown" THEN "ending" ELSE "requesting",
                        !.outcome = "failed"]
          /\ Report(calls + 1, IF tool = "unknown" THEN "failed" ELSE "requested")
    /\ UNCHANGED <<proc, chain, crashed, results, abandoned>>

\* requestPermission after its first event: allow and deny are final, an ask is
\* not put to the user once the turn is aborted.
Decide ==
    /\ call.phase = "requested"
    /\ \/ /\ Policy[call.tool] = "allow"
          /\ call' = [call EXCEPT !.phase = "resolving", !.outcome = "allowed"]
          /\ Report(call.id, "allowed")
       \/ /\ Policy[call.tool] = "deny" \/ (Policy[call.tool] = "ask" /\ turn.aborted)
          /\ call' = [call EXCEPT !.phase = "resolving", !.outcome = "denied"]
          /\ Report(call.id, "denied")
       \/ /\ Policy[call.tool] = "ask" /\ ~turn.aborted
          /\ call' = [call EXCEPT !.phase = "asking"]
          /\ UNCHANGED vars
    /\ Quiet

\* The approval source answers; an abort meanwhile overrules it.
Approve ==
    /\ call.phase = "asking"
    /\ \E outcome \in {"allowed", "denied"} :
          /\ turn.aborted => outcome = "denied"
          /\ call' = [call EXCEPT !.phase = "resolving", !.outcome = outcome]
          /\ Report(call.id, outcome)
    /\ Quiet

\* Mutant of Gate: a denial is reported but does not end the dispatch.
GateFallsThrough ==
    /\ call.phase = "resolved"
    /\ call' = [call EXCEPT !.phase = "starting"]
    /\ Report(call.id, IF call.outcome = "denied" THEN "failed" ELSE "started")
    /\ Quiet

\* dispatch after the permission: tool.failed if denied, else tool.started.
Gate ==
    /\ call.phase = "resolved"
    /\ \/ /\ call.outcome = "denied"
          /\ call' = [call EXCEPT !.phase = "ending"]
          /\ Report(call.id, "failed")
       \/ /\ call.outcome = "allowed"
          /\ call' = [call EXCEPT !.phase = "starting"]
          /\ Report(call.id, "started")
    /\ Quiet

\* The executor's promise settles: dispatch goes on to await deltaChain as it
\* is at this moment.
Settled(outcome, emitted) ==
    call' = [call EXCEPT !.phase = "draining", !.outcome = outcome,
                         !.target = emitted]

\* execute: a listener added to a signal that is already aborted never fires.
Spawn ==
    /\ call.phase = "started"
    /\ call.tool \in {"shell", "git"}
    /\ proc' = [proc EXCEPT ![call.id] = [state |-> "running",
                                          listens |-> ~turn.aborted,
                                          turn |-> turn.id]]
    /\ call' = [call EXCEPT !.phase = "executing"]
    /\ UNCHANGED <<vars, chain, collected, crashed, calls, results, abandoned>>

\* execute refuses its arguments (shell denylist, path safety), or reads and
\* emits what it found in one chunk, if it found anything.
ExecuteAtOnce ==
    /\ call.phase = "started"
    /\ \/ /\ Settled("failed", 0)
          /\ UNCHANGED chain
       \/ /\ call.tool = "read"
          /\ Settled("ok", 0)
          /\ UNCHANGED chain
       \/ /\ call.tool = "read"
          /\ MaxDeltas > 0
          /\ chain' = [chain EXCEPT ![call.id].queued = @ + 1]
          /\ Settled("ok", 1)
    /\ proc' = [proc EXCEPT ![call.id].turn = turn.id]
    /\ UNCHANGED <<vars, collected, crashed, calls, results, abandoned>>
-----------------------------------------------------------------------------
(* The processes.                                                          *)

Executing(c) == call.id = c /\ call.phase = "executing"

\* A data event: ctx.emit puts a delta on the chain.
ProcessWrites(c) ==
    /\ proc[c].state \in {"running", "killed"}
    /\ Emitted(c) < MaxDeltas
    /\ \/ /\ ~chain[c].failed
          /\ chain' = [chain EXCEPT ![c].queued = @ + 1]
          /\ UNCHANGED crashed
       \* chained on a rejected promise that nobody awaits any more
       \/ /\ chain[c].failed
          /\ crashed' = TRUE
          /\ UNCHANGED chain
    /\ UNCHANGED <<vars, call, proc, collected, calls, results, abandoned>>

\* close, after the last data event; a promise settled before stays as it is.
ProcessCloses(c) ==
    /\ proc[c].state \in {"running", "killed"}
    /\ proc' = [proc EXCEPT ![c].state = "closed", ![c].listens = FALSE]
    /\ \/ /\ Executing(c)
          /\ \E outcome \in {"ok", "failed"} : Settled(outcome, Emitted(c))
       \/ ~Executing(c) /\ UNCHANGED call
    /\ UNCHANGED <<vars, chain, collected, crashed, calls, results, abandoned>>

\* Settle the call of a process that has been killed but has not closed.
GiveUp(c) ==
    /\ proc' = [proc EXCEPT ![c].state = "killed"]
    /\ abandoned' = abandoned \cup {c}
    /\ Settled("failed", Emitted(c))
    /\ UNCHANGED <<chain, collected, crashed, calls, results>>

\* Mutant of Timeout: the process is killed but the promise waits for close.
TimeoutWaits ==
    /\ call.phase = "executing"
    /\ call.tool = "shell"
    /\ proc[call.id].state = "running"
    /\ proc' = [proc EXCEPT ![call.id].state = "killed"]
    /\ UNCHANGED <<vars, call, chain, collected, crashed, calls, results, abandoned>>

Timeout ==
    /\ call.phase = "executing"
    /\ call.tool = "shell"
    /\ GiveUp(call.id)
    /\ UNCHANGED vars

\* cancelTurn aborts the signal, which runs the listener of a running tool.
CancelWithTools(named) ==
    /\ CancelTurn(named)
    /\ \/ /\ call.phase = "executing"
          /\ proc[call.id].listens
          /\ ~turn.aborted
          /\ GiveUp(call.id)
       \/ /\ ~(call.phase = "executing" /\ proc[call.id].listens /\ ~turn.aborted)
          /\ UNCHANGED toolVars
-----------------------------------------------------------------------------
(* The delta chain and the end of dispatch.                                *)

\* The next delta of the chain: the sink collects its text and commits it.
ChainEmits(c) ==
    /\ chain[c].queued > 0
    /\ ~chain[c].busy
    /\ ~chain[c].failed
    /\ chain' = [chain EXCEPT ![c].queued = @ - 1, ![c].busy = TRUE]
    /\ collected' = [collected EXCEPT ![proc[c].turn] = Append(@, c)]
    /\ HandlerCommits(proc[c].turn, [call |-> c, kind |-> "delta"])
    /\ UNCHANGED <<call, proc, crashed, calls, results, abandoned>>

\* Mutant of Drained: the chain is not awaited.
DrainedAtOnce ==
    /\ call.phase = "draining"
    /\ call' = [call EXCEPT !.phase = "ending"]
    /\ Report(call.id, IF call.outcome = "ok" THEN "completed" ELSE "failed")
    /\ Quiet

\* await deltaChain is over: the terminal event.
Drained ==
    /\ call.phase = "draining"
    /\ chain[call.id].failed \/ chain[call.id].done >= call.target
    /\ call' = [call EXCEPT !.phase = "ending"]
    /\ Report(call.id, IF call.outcome = "ok" /\ ~chain[call.id].failed
                       THEN "completed" ELSE "failed")
    /\ Quiet

\* handle returns what is collected.
ReturnResult ==
    /\ call.phase = "done"
    /\ HandlerReturns
    /\ results' = [results EXCEPT ![call.id] = collected[turn.id]]
    /\ call' = NoCall
    /\ UNCHANGED <<proc, chain, collected, crashed, calls, abandoned>>

\* A failed append of the dispatch's own events leaves handle as it is.
ThrowFailure ==
    /\ call.phase = "threw"
    /\ HandlerThrows
    /\ call' = NoCall
    /\ Quiet
-----------------------------------------------------------------------------
(* The store's answer to a commit of the handler.                          *)

AfterOk == [requesting |-> "requested", resolving |-> "resolved",
            starting |-> "started", ending |-> "done"]

DeltaAnswered(c, ok) ==
    /\ chain' = [chain EXCEPT ![c].busy = FALSE,
                              ![c].done = IF ok THEN @ + 1 ELSE @,
                              ![c].queued = IF ok THEN @ ELSE 0,
                              ![c].failed = ~ok]
    \* nobody awaits the end of the chain: the rejection is unhandled
    /\ crashed' = (~ok /\ ~(call.id = c /\ call.phase = "draining"
                            /\ Emitted(c) = call.target))
    /\ UNCHANGED <<call, proc, collected, calls, results, abandoned>>

CallAnswered(ok) ==
    /\ call' = [call EXCEPT !.phase = IF ok THEN AfterOk[@] ELSE "threw"]
    /\ Quiet

ToolAnswered(ok) ==
    LET c == Head(inflight) IN
    \/ c.by # "tool" /\ UNCHANGED toolVars
    \/ c.by = "tool" /\ c.event.detail.kind = "delta"
          /\ DeltaAnswered(c.event.detail.call, ok)
    \/ c.by = "tool" /\ c.event.detail.kind # "delta" /\ CallAnswered(ok)

StoreAnswers ==
    \/ StoreKeeps /\ ToolAnswered(TRUE)
    \/ (StoreRefuses \/ StoreFails) /\ ToolAnswered(FALSE)
-----------------------------------------------------------------------------
EngineStep ==
    /\ CreateSession \/ RunTurn \/ Resume \/ Abandon \/ Provider
    /\ UNCHANGED toolVars

Dispatch ==
    \/ BeginCall
    \/ Decide
    \/ Gate
    \/ Spawn
    \/ ExecuteAtOnce
    \/ \E c \in Calls : ChainEmits(c)
    \/ Drained
    \/ ReturnResult
    \/ ThrowFailure

ToolNext ==
    /\ ~crashed
    /\ \/ EngineStep
       \/ StoreAnswers
       \/ \E named \in 0..MaxTurns : CancelWithTools(named)
       \/ Dispatch
       \/ Approve
       \/ \E c \in Calls : ProcessWrites(c) \/ ProcessCloses(c)
       \/ Timeout

ToolSpec == ToolInit /\ [][ToolNext]_allVars

Live(A) == ~crashed /\ A

\* As in SessionEngine's FairSpec, with the handler's own steps instead: the
\* user answers, timers fire and git ends; a shell command need not.
ToolFairSpec ==
    /\ ToolSpec
    /\ WF_allVars(Live(StoreAnswers))
    /\ WF_allVars(Live(Resume /\ UNCHANGED toolVars))
    /\ WF_allVars(Live((StreamThrows \/ StreamEnds) /\ UNCHANGED toolVars))
    /\ WF_allVars(Live(Dispatch))
    /\ WF_allVars(Live(Approve))
    /\ WF_allVars(Live(Timeout))
    /\ \A c \in Calls :
          WF_allVars(Live(call.tool = "git" /\ Executing(c) /\ ProcessCloses(c)))
-----------------------------------------------------------------------------
(* Properties.                                                             *)

\* The types of what dispatch and its processes add to the engine.
ToolTypeOK ==
    /\ call \in [id : 0..MaxCalls, tool : Tools,
                 phase : {"idle", "requesting", "requested", "asking", "resolving",
                          "resolved", "starting", "started", "executing",
                          "draining", "ending", "done", "threw"},
                 outcome : {"none", "allowed", "denied", "ok", "failed"},
                 target : 0..MaxDeltas]
    /\ proc \in [Calls -> [state : {"none", "running", "killed", "closed"},
                           listens : BOOLEAN, turn : 0..MaxTurns]]
    /\ chain \in [Calls -> [queued : 0..MaxDeltas, busy : BOOLEAN,
                            done : 0..MaxDeltas, failed : BOOLEAN]]
    /\ collected \in [TurnIds -> Seq(Calls)]
    /\ crashed \in BOOLEAN
    /\ calls \in 0..MaxCalls
    /\ results \in [Calls -> Seq(Calls)]
    /\ abandoned \in SUBSET {c \in Calls : proc[c].state \in {"killed", "closed"}}

IsTool(i, c, kind) == log[i].type = "tool" /\ log[i].detail = [call |-> c, kind |-> kind]

OfCall(i, c) == log[i].type = "tool" /\ log[i].detail.call = c

\* What the audit trail is for: a process runs only for a call whose allowed
\* permission and tool.started are on file, in that order.
AuditBeforeEffect ==
    \A c \in Calls : proc[c].state # "none" =>
        \E i, j \in DOMAIN log : i < j /\ IsTool(i, c, "allowed") /\ IsTool(j, c, "started")

\* dispatch ends a call once on file: completed and failed exclude each other
\* and neither is repeated.  Nothing of the call follows completed
\* (router.test.ts:233), and only deltas of a process that was given up follow
\* failed (against router.ts:220-222).
OneTerminalEvent ==
    \A c \in Calls : \A i, j \in DOMAIN log :
        i < j /\ OfCall(i, c) /\ OfCall(j, c) =>
            /\ log[i].detail.kind # "completed"
            /\ log[i].detail.kind = "failed" =>
                  log[j].detail.kind = "delta" /\ c \in abandoned

\* The result given to the model holds output of its own call, and otherwise
\* only of calls that were answered while their process was still running.
ResultsMixOnlyAbandoned ==
    \A c \in Calls : \A i \in DOMAIN results[c] :
        results[c][i] = c \/ results[c][i] \in abandoned

\* As long as no process outlives its call, the session has one append in
\* flight at a time, which is what commitEvent's numbering rests on.
SerializedUnlessAbandoned == abandoned = {} => Len(inflight) <= 1

\* Every call of a tool comes back to the engine: the model gets a result or
\* the turn ends with the store's failure, even if a command never exits.
EveryCallReturns ==
    \A c \in Calls : call.id = c ~> (call.id # c \/ crashed)
=============================================================================
