------------------------------- MODULE WebClient -------------------------------
(***************************************************************************)
(* One tab of the web client (apps/web-client/src/main.ts with             *)
(* daemon-client.ts and sse.ts) and the sessions of the daemon it talks to *)
(* (apps/acp-daemon/src/server.ts), as far as the tab can tell.            *)
(*                                                                         *)
(* tab      the UiState: sessionId, streamAbort (the number of its stream, *)
(*          0 for none) and the transcript                                 *)
(* calls    the POST /rpc calls whose answer the tab awaits                *)
(* streams  the GET /events subscriptions attachStream has opened, in      *)
(*          order; queue holds the frames on their way to the tab and      *)
(*          final what the daemon ends the stream with                     *)
(* daemon   per session: its process, the events on its log, and the       *)
(*          frames pushed to the cursor of its current run                 *)
(* shown    history: the frames the transcript was made from               *)
(*                                                                         *)
(* A click, an answer, or a chunk with all that follows from it up to the  *)
(* next await of the network is one step.  The text of the status line is  *)
(* left out: a call that fails and a stream that ends only write to it.    *)
(* The whole of the registry is SessionManager, of the cursor              *)
(* SessionCursor.                                                          *)
(***************************************************************************)
EXTENDS Naturals, Sequences, FiniteSets, Transcript

CONSTANTS
    Sessions,   \* session ids
    Saved,      \* the sessions that have a log and no process at the start
    NoSession,  \* the tab shows no session
    Capacity,   \* capacity of a cursor's ring
    Scripts,    \* what a session may come to say: sequences of updates
    Logged,     \* how much of it the saved sessions have said at the start
    MaxEvents,  \* bound: the length of a script
    MaxCalls,   \* bound: calls in flight
    MaxClicks,  \* bound: clicks on Start and Load
    MaxPrompts  \* bound: prompts sent

ASSUME WebAssumption ==
    /\ Saved \subseteq Sessions
    /\ NoSession \notin Sessions
    /\ Capacity \in Nat \ {0}
    /\ Scripts \subseteq Seq([kind : STRING, call : Nat, status : STRING, text : BOOLEAN])
    /\ \A sc \in Scripts : Len(sc) <= MaxEvents
    /\ Logged \subseteq 0..MaxEvents
    /\ MaxCalls \in Nat
    /\ MaxClicks \in Nat
    /\ MaxPrompts \in Nat

VARIABLES tab, calls, streams, daemon, shown,
          script,   \* what the sessions say: chosen once
          clicks,   \* number of clicks on Start and Load
          prompts   \* number of prompts sent

counters == <<clicks, prompts>>
vars == <<tab, calls, streams, daemon, shown, script, counters>>

Slots == 1..MaxCalls

NoTab  == [session |-> NoSession, stream |-> 0, transcript |-> EMPTY_TRANSCRIPT]
NoCall == [kind |-> "none", session |-> NoSession, at |-> "none", crossed |-> FALSE]

\* The daemon's process of a session; turn: does it handle a prompt?
NoProcess(life, events) ==
    [life |-> life, readonly |-> FALSE, events |-> events, pushed |-> <<>>, turn |-> FALSE]

\* The n-th event of a session's log as an update; its text is the event itself.
UpdateOf(s, n) ==
    LET u == script[n] IN
    [kind |-> u.kind, call |-> u.call, status |-> u.status,
     text |-> IF u.text THEN <<<<s, n>>>> ELSE <<>>]

\* A live prompt surfaces what the engine yields, which leaves out its tools.
Surfaced(n) == script[n].kind \notin {"tool_call", "tool_call_update"}

Opening(i) == calls[i].kind \in {"new", "load"}
IsLive(k) == streams[k].phase # "over"
Over(stream, end) ==
    [stream EXCEPT !.phase = "over", !.queue = <<>>, !.final = end]
-----------------------------------------------------------------------------
Init ==
    /\ script \in Scripts
    /\ tab = NoTab
    /\ calls = [i \in Slots |-> NoCall]
    /\ streams = <<>>
    /\ \E events \in Logged \cap 0..Len(script) :
          daemon = [s \in Sessions |-> IF s \in Saved THEN NoProcess("saved", events)
                                       ELSE NoProcess("unused", 0)]
    /\ shown = <<>>
    /\ clicks = 0
    /\ prompts = 0
-----------------------------------------------------------------------------
(* The tab.                                                                *)

\* Mutant of resetSessionState: the stream is left to the next attachStream.
resetWithoutAbort ==
    /\ tab' = NoTab
    /\ shown' = <<>>
    /\ UNCHANGED streams

resetSessionState ==
    /\ tab' = NoTab
    /\ shown' = <<>>
    /\ streams' = IF tab.stream = 0 THEN streams
                  ELSE [streams EXCEPT ![tab.stream] =
                           [Over(@, "aborted") EXCEPT !.crossed = FALSE, !.session = NoSession]]

\* The call is on its way; starts and loads in flight together are crossed.
Post(kind, s) ==
    \E i \in Slots :
        /\ calls[i] = NoCall
        /\ \A j \in 1..(i - 1) : calls[j] # NoCall
        /\ LET others == IF kind = "prompt" THEN {} ELSE {j \in Slots : Opening(j)} IN
           calls' = [j \in Slots |->
               IF j = i THEN [kind |-> kind, session |-> s, at |-> "sent",
                              crossed |-> others # {}]
               ELSE IF j \in others THEN [calls[j] EXCEPT !.crossed = TRUE]
               ELSE calls[j]]

\* startSession and loadSavedSession, up to the await of the answer.
Open(kind, s) ==
    /\ clicks < MaxClicks
    /\ clicks' = clicks + 1
    /\ resetSessionState
    /\ Post(kind, s)
    /\ UNCHANGED <<daemon, script, prompts>>

startSession == Open("new", NoSession)
loadSavedSession(s) == Open("load", s)

endSession ==
    /\ tab.session # NoSession
    /\ resetSessionState
    /\ UNCHANGED <<calls, daemon, script, counters>>

sendPrompt ==
    /\ tab.session # NoSession
    /\ prompts < MaxPrompts
    /\ prompts' = prompts + 1
    /\ Post("prompt", tab.session)
    /\ UNCHANGED <<tab, streams, daemon, shown, script, clicks>>

\* Mutant of attachStream: a session that was loaded is not subscribed to.
attachUnlessLoaded(call) ==
    /\ tab' = [tab EXCEPT !.session = call.session,
                          !.stream = IF call.kind = "load" THEN 0 ELSE Len(streams) + 1]
    /\ streams' = IF call.kind = "load" THEN streams
                  ELSE Append(streams,
                          [session |-> call.session, phase |-> "connecting",
                           queue |-> <<>>, final |-> "none", crossed |-> call.crossed])

\* The session is the tab's, and its subscription the one streamAbort aborts.
attachStream(call) ==
    /\ tab' = [tab EXCEPT !.session = call.session, !.stream = Len(streams) + 1]
    /\ streams' = Append(streams,
           [session |-> call.session, phase |-> "connecting", queue |-> <<>>,
            final |-> "none", crossed |-> call.crossed])

\* The answer arrives; an error is only reported.
Answered(i) ==
    /\ calls' = [calls EXCEPT ![i] = NoCall]
    /\ \/ calls[i].at = "done" /\ attachStream(calls[i])
       \/ calls[i].at = "refused" /\ UNCHANGED <<tab, streams>>
    /\ UNCHANGED <<daemon, shown, script, counters>>

\* The request or its answer is lost: fetch rejects.
CallFails(i) ==
    /\ calls[i].at \in {"sent", "handled", "done"}
    /\ calls' = [calls EXCEPT ![i] = NoCall]
    /\ UNCHANGED <<tab, streams, daemon, shown, script, counters>>

\* The next frame SseFrameParser completes, however the body is cut into chunks.
NextFrame(k) == Head(streams[k].queue)

\* subscribe yields the next frame, and handleStreamEvent applies it.
TakeFrame(k) ==
    /\ streams[k].phase = "open"
    /\ streams[k].queue # <<>>
    /\ LET s == streams[k].session
           f == NextFrame(k)
       IN /\ streams' = [streams EXCEPT ![k].queue = Tail(@)]
          /\ tab' = [tab EXCEPT !.transcript = applySessionUpdate(@, UpdateOf(s, f.event))]
          /\ shown' = Append(shown, [stream |-> k, session |-> s, id |-> f.id,
                                     event |-> f.event])
    /\ UNCHANGED <<calls, daemon, script, counters>>

\* terminated, cursor_lost or the end of the body: the loop of subscribe ends.
TakeFinal(k) ==
    /\ streams[k].phase = "open"
    /\ streams[k].queue = <<>>
    /\ streams[k].final # "none"
    /\ streams' = [streams EXCEPT ![k] = Over(@, @.final)]
    /\ UNCHANGED <<tab, calls, daemon, shown, script, counters>>

\* The connection breaks: fetch rejects, or read does and subscribe returns.
StreamBreaks(k) ==
    /\ IsLive(k)
    /\ streams' = [streams EXCEPT ![k] = Over(@, "broken")]
    /\ UNCHANGED <<tab, calls, daemon, shown, script, counters>>
-----------------------------------------------------------------------------
(* The daemon.                                                             *)

IsAttached(k, s) ==
    /\ streams[k].session = s
    /\ streams[k].phase = "open"
    /\ streams[k].final = "none"

\* The cursor numbers the frame, and each subscriber is written it.
Push(s, n) ==
    LET id == Len(daemon[s].pushed) + 1 IN
    streams' = [k \in DOMAIN streams |->
                   IF IsAttached(k, s)
                   THEN [streams[k] EXCEPT !.queue = Append(@, [id |-> id, event |-> n])]
                   ELSE streams[k]]

\* The streams of the session's cursor end.
EndStreams(s, final) ==
    streams' = [k \in DOMAIN streams |->
                   IF IsAttached(k, s) THEN [streams[k] EXCEPT !.final = final]
                   ELSE streams[k]]

\* The load that waits for the session's process, if any still does, is answered.
AnswerLoad(s, how) ==
    calls' = [i \in Slots |->
                 IF calls[i].session = s /\ calls[i].at = "handled"
                 THEN [calls[i] EXCEPT !.at = how] ELSE calls[i]]

Refuse(i) == calls' = [calls EXCEPT ![i].at = "refused"] /\ UNCHANGED daemon

Quiet == UNCHANGED <<tab, shown, script, counters>>

HandleNew(i) ==
    /\ calls[i].kind = "new" /\ calls[i].at = "sent"
    /\ \/ Refuse(i)
       \/ \E s \in Sessions :
             /\ daemon[s].life = "unused"
             /\ daemon' = [daemon EXCEPT ![s] = NoProcess("alive", 0)]
             /\ calls' = [calls EXCEPT ![i].session = s, ![i].at = "done"]
    /\ UNCHANGED streams /\ Quiet

\* An id that is alive is refused; a terminated entry makes way.
HandleLoad(i) ==
    /\ calls[i].kind = "load" /\ calls[i].at = "sent"
    /\ LET s == calls[i].session IN
       \/ /\ daemon[s].life \in {"loading", "alive"}
          /\ Refuse(i)
       \/ /\ daemon[s].life \in {"saved", "over"}
          /\ daemon' = [daemon EXCEPT ![s] =
                           [NoProcess("loading", @.events) EXCEPT !.readonly = TRUE]]
          /\ calls' = [calls EXCEPT ![i].at = "handled"]
       \* no such session: the child finds no log
       \/ /\ daemon[s].life = "unused"
          /\ Refuse(i)
    /\ UNCHANGED streams /\ Quiet

\* The child replays the log before it answers.
Replay(s) ==
    /\ daemon[s].life = "loading"
    /\ LET n == Len(daemon[s].pushed) + 1 IN
       /\ n <= daemon[s].events
       /\ daemon' = [daemon EXCEPT ![s].pushed = Append(@, n)]
       /\ Push(s, n)
    /\ UNCHANGED calls /\ Quiet

LoadDone(s) ==
    /\ daemon[s].life = "loading"
    /\ Len(daemon[s].pushed) = daemon[s].events
    /\ daemon' = [daemon EXCEPT ![s].life = "alive"]
    /\ AnswerLoad(s, "done")
    /\ UNCHANGED streams /\ Quiet

\* The replay fails or the child dies: the cleanup closes the cursor.
LoadFails(s) ==
    /\ daemon[s].life = "loading"
    /\ daemon' = [daemon EXCEPT ![s] = NoProcess("saved", @.events)]
    /\ AnswerLoad(s, "refused")
    /\ EndStreams(s, "closed")
    /\ Quiet

\* A session that is gone, loaded or at work does not take a prompt.  What the
\* tab is answered in the end goes to the status line only.
HandlePrompt(i) ==
    /\ calls[i].kind = "prompt" /\ calls[i].at = "sent"
    /\ LET s == calls[i].session
           takes == daemon[s].life = "alive" /\ ~daemon[s].readonly /\ ~daemon[s].turn
       IN daemon' = [daemon EXCEPT ![s].turn = takes \/ @]
    /\ calls' = [calls EXCEPT ![i] = NoCall]
    /\ UNCHANGED streams /\ Quiet

\* The turn records its next event; unless it is of a tool it is pushed.
TurnEvent(s) ==
    /\ daemon[s].turn
    /\ daemon[s].events < Len(script)
    /\ LET n == daemon[s].events + 1 IN
       IF Surfaced(n)
       THEN /\ daemon' = [daemon EXCEPT ![s].events = n, ![s].pushed = Append(@, n)]
            /\ Push(s, n)
       ELSE /\ daemon' = [daemon EXCEPT ![s].events = n]
            /\ UNCHANGED streams
    /\ UNCHANGED calls /\ Quiet

TurnEnds(s) ==
    /\ daemon[s].turn
    /\ daemon' = [daemon EXCEPT ![s].turn = FALSE]
    /\ UNCHANGED <<calls, streams>> /\ Quiet

\* The child exits: _daemon/terminated is the last event of the cursor.
Exit(s) ==
    /\ daemon[s].life = "alive"
    /\ daemon' = [daemon EXCEPT ![s].life = "over", ![s].turn = FALSE]
    /\ EndStreams(s, "terminated")
    /\ UNCHANGED calls /\ Quiet

\* The grace timer removes the entry.
Collect(s) ==
    /\ daemon[s].life = "over"
    /\ daemon' = [daemon EXCEPT ![s] = NoProcess("saved", @.events)]
    /\ UNCHANGED <<calls, streams>> /\ Quiet

\* Has the ring lost its first event?
Evicted(s) ==
    Len(daemon[s].pushed) + (IF daemon[s].life = "over" THEN 1 ELSE 0) > Capacity

\* What is in the ring, as frames.
Buffered(s) ==
    [id \in DOMAIN daemon[s].pushed |-> [id |-> id, event |-> daemon[s].pushed[id]]]

\* handleEvents: the tab never sends a Last-Event-ID, so the replay is of the
\* whole ring or the cursor is lost.
handleEvents(k) ==
    /\ streams[k].phase = "connecting"
    /\ LET s == streams[k].session
           open == [streams[k] EXCEPT !.phase = "open"]
       IN \/ /\ daemon[s].life \in {"unused", "saved"}
             /\ streams' = [streams EXCEPT ![k] = [open EXCEPT !.final = "gone"]]
          \/ /\ daemon[s].life \in {"loading", "alive", "over"}
             /\ Evicted(s)
             /\ streams' = [streams EXCEPT ![k] = [open EXCEPT !.final = "lost"]]
          \/ /\ daemon[s].life \in {"loading", "alive", "over"}
             /\ ~Evicted(s)
             /\ streams' = [streams EXCEPT ![k] =
                   [open EXCEPT !.queue = Buffered(s),
                                !.final = IF daemon[s].life = "over" THEN "terminated"
                                          ELSE "none"]]
    /\ UNCHANGED <<calls, daemon>> /\ Quiet
-----------------------------------------------------------------------------
User ==
    \/ startSession
    \/ \E s \in Sessions : loadSavedSession(s)
    \/ endSession
    \/ sendPrompt

Daemon ==
    \/ \E i \in Slots : HandleNew(i) \/ HandleLoad(i) \/ HandlePrompt(i)
    \/ \E s \in Sessions :
          \/ Replay(s) \/ LoadDone(s) \/ LoadFails(s)
          \/ TurnEvent(s) \/ TurnEnds(s)
          \/ Exit(s) \/ Collect(s)

Take(k) == TakeFrame(k) \/ TakeFinal(k)

Next ==
    \/ User
    \/ Daemon
    \/ \E i \in Slots : Answered(i) \/ CallFails(i)
    \/ \E k \in DOMAIN streams : handleEvents(k) \/ Take(k) \/ StreamBreaks(k)

Spec == Init /\ [][Next]_vars

Streams == 1..MaxClicks

\* The daemon answers a subscription, and what it writes reaches the tab.
FairSpec ==
    /\ Spec
    /\ \A k \in Streams :
          /\ WF_vars(k \in DOMAIN streams /\ handleEvents(k))
          /\ WF_vars(k \in DOMAIN streams /\ Take(k))
-----------------------------------------------------------------------------
(* Properties.                                                             *)

\* What the tab shows is its session and nothing else, from the first update
\* on and without a gap; after a session was left, nothing of it appears any
\* more and its stream is shut.  Only a stream whose start or load was in flight
\* together with another one may escape streamAbort (main.ts:33) and go on.
ShownIsCurrent ==
    /\ \A i \in DOMAIN shown :
          IF shown[i].stream = tab.stream
          THEN /\ shown[i].session = tab.session
               /\ shown[i].id = Cardinality({j \in 1..i : shown[j].stream = tab.stream})
          ELSE streams[shown[i].stream].crossed
    /\ \A k \in DOMAIN streams :
          IsLive(k) => k = tab.stream \/ streams[k].crossed

\* The reducer keeps the transcript that the updates applied so far make up, in
\* whatever order chunks, tool calls and the output of several calls arrive.
TranscriptIsFaithful ==
    Faithful(tab.transcript,
             [i \in DOMAIN shown |-> UpdateOf(shown[i].session, shown[i].event)])

HasShown(id) == \E i \in DOMAIN shown : shown[i].session = tab.session /\ shown[i].id = id

\* Each update pushed for the session of the tab - the history a load replays
\* before the tab can subscribe as well as those of a running turn - is shown
\* in the end, unless the user leaves the session or its stream breaks, came
\* too late for the ring or found no session any more (or another start or load
\* was in flight with its own).
EverythingIsShown ==
    \A id \in 1..MaxEvents :
        (tab.session # NoSession /\ id <= Len(daemon[tab.session].pushed))
            ~> \/ tab.session = NoSession
               \/ HasShown(id)
               \/ /\ tab.stream # 0
                  /\ \/ streams[tab.stream].crossed
                     \/ streams[tab.stream].final \in {"broken", "lost", "gone"}
=============================================================================
