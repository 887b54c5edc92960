----------------------------- MODULE ChildHandle -----------------------------
(***************************************************************************)
(* One ChildHandle (apps/acp-daemon/src/child.ts): an acp-server process,  *)
(* its pipes and the requests that wait for it.                            *)
(*                                                                         *)
(* os        the process: "unborn" if it could not be spawned, "killed"    *)
(*           after SIGKILL, "dead" before the exit event is handled        *)
(* exited    the exit event, or the error event, has been handled          *)
(* stdin     the write end of the child's stdin                            *)
(* pending   the requests that wait                                        *)
(* asked     the requests the child has been sent and has not answered     *)
(* stdout    the frames on their way to onStdout                           *)
(* status    what became of each request                                   *)
(* waiting   terminate() awaits the exit                                   *)
(* crashed   an error event of stdin without a listener ended the daemon   *)
(***************************************************************************)
EXTENDS Naturals, Sequences

CONSTANTS
    MaxRequests, \* bound: calls of request()
    MaxNotices,  \* bound: notifications the child sends
    MaxBadLines  \* bound: lines of stdout that are not JSON

ASSUME HandleAssumption ==
    /\ MaxRequests \in Nat
    /\ MaxNotices \in Nat
    /\ MaxBadLines \in Nat

VARIABLES os, exited, stdin, pending, asked, stdout, status, waiting, crashed,
          calls,    \* number of calls of request()
          notices,  \* number of notifications sent by the child
          notified, \* the notifications emitted to the SessionManager
          badLines  \* number of corrupt lines sent by the child

process == <<os, stdin, asked>>
handleVars == <<process, exited, pending, stdout, status, waiting, crashed,
          calls, notices, notified, badLines>>

Requests == 1..MaxRequests

\* after: how many notifications the child had sent before this frame.
Frame == [kind : {"answer"}, id : Requests, after : 0..MaxNotices]
    \cup [kind : {"notice"}, id : 1..MaxNotices, after : 0..MaxNotices]
    \cup [kind : {"bad"}, id : {0}, after : 0..MaxNotices]

HandleInit ==
    /\ os \in {"running", "unborn"}
    /\ exited = FALSE
    /\ stdin = "open"
    /\ pending = {}
    /\ asked = {}
    /\ stdout = <<>>
    /\ status = [r \in Requests |-> "new"]
    /\ waiting = FALSE
    /\ crashed = FALSE
    /\ calls = 0
    /\ notices = 0
    /\ notified = <<>>
    /\ badLines = 0
-----------------------------------------------------------------------------
(* Writing to the child.  The error of a write that fails is an event of   *)
(* stdin, which has no listener; the try around write() never sees it.     *)

Writable == stdin = "open" /\ os \in {"running", "killed"}

\* A write after end() always fails; one to a process that is dead may.
WriteFails ==
    \/ stdin = "ended" /\ crashed' = TRUE
    \/ stdin = "open" /\ os = "dead" /\ crashed' \in {TRUE, FALSE}
    \/ stdin = "open" /\ os # "dead" /\ UNCHANGED crashed

Request ==
    /\ calls < MaxRequests
    /\ calls' = calls + 1
    /\ LET r == calls + 1 IN
       \/ /\ exited
          /\ status' = [status EXCEPT ![r] = "rejected"]
          /\ UNCHANGED <<pending, asked, crashed>>
       \/ /\ ~exited
          /\ status' = [status EXCEPT ![r] = "waiting"]
          /\ pending' = pending \cup {r}
          /\ asked' = IF Writable THEN asked \cup {r} ELSE asked
          /\ WriteFails
    /\ UNCHANGED <<os, stdin, exited, stdout, waiting, notices, notified, badLines>>

\* notify: only the failure of its write is visible here.
Notify ==
    /\ ~exited
    /\ WriteFails
    /\ UNCHANGED <<process, exited, pending, stdout, status, waiting,
                   calls, notices, notified, badLines>>

\* terminate: end stdin, then wait for the exit event.
Terminate ==
    /\ ~exited
    /\ stdin' = "ended"
    /\ waiting' = TRUE
    /\ UNCHANGED <<os, asked, exited, pending, stdout, status, crashed,
                   calls, notices, notified, badLines>>

\* Mutant of KillTimer: the timer is cleared when stdin could be ended.
KillTimerCleared ==
    /\ waiting
    /\ os = "running"
    /\ stdin = "open"
    /\ os' = "killed"
    /\ UNCHANGED <<asked, stdin, exited, pending, stdout, status, waiting, crashed,
                   calls, notices, notified, badLines>>

\* The 2 seconds of terminate are over.
KillTimer ==
    /\ waiting
    /\ os = "running"
    /\ os' = "killed"
    /\ UNCHANGED <<asked, stdin, exited, pending, stdout, status, waiting, crashed,
                   calls, notices, notified, badLines>>
-----------------------------------------------------------------------------
(* The process.                                                            *)

Write(kind, id) ==
    /\ os = "running"
    /\ stdout' = Append(stdout, [kind |-> kind, id |-> id, after |-> notices])
    /\ UNCHANGED <<os, stdin, exited, pending, status, waiting, crashed, calls, notified>>

ChildAnswers(r) ==
    /\ r \in asked
    /\ asked' = asked \ {r}
    /\ Write("answer", r)
    /\ UNCHANGED <<notices, badLines>>

ChildNotifies ==
    /\ notices < MaxNotices
    /\ notices' = notices + 1
    /\ Write("notice", notices + 1)
    /\ UNCHANGED <<asked, badLines>>

ChildCorrupts ==
    /\ badLines < MaxBadLines
    /\ badLines' = badLines + 1
    /\ Write("bad", 0)
    /\ UNCHANGED <<asked, notices>>

ChildDies ==
    /\ os \in {"running", "killed"}
    /\ os' = "dead"
    /\ UNCHANGED <<asked, stdin, exited, pending, stdout, status, waiting, crashed,
                   calls, notices, notified, badLines>>
-----------------------------------------------------------------------------
(* Events of the child in the daemon.                                      *)

\* Mutant of ExitEvent: the pending requests are forgotten, not rejected.
ExitEventForgets ==
    /\ ~exited
    /\ os \in {"dead", "unborn"}
    /\ exited' = TRUE
    /\ pending' = {}
    /\ waiting' = FALSE
    /\ UNCHANGED <<process, stdout, status, crashed, calls, notices, notified, badLines>>

\* The exit handler, or the error handler when the spawn failed.
ExitEvent ==
    /\ ~exited
    /\ os \in {"dead", "unborn"}
    /\ exited' = TRUE
    /\ status' = [r \in Requests |-> IF r \in pending THEN "rejected" ELSE status[r]]
    /\ pending' = {}
    /\ waiting' = FALSE
    /\ UNCHANGED <<process, stdout, crashed, calls, notices, notified, badLines>>

\* Mutant of Route: an answer is routed without a look at pending.
RouteAlways(f) ==
    \/ /\ f.kind = "answer"
       /\ pending' = pending \ {f.id}
       /\ status' = [status EXCEPT ![f.id] = "answered"]
       /\ UNCHANGED <<os, notified>>
    \/ /\ f.kind = "notice"
       /\ notified' = Append(notified, f.id)
       /\ UNCHANGED <<os, pending, status>>
    \/ /\ f.kind = "bad"
       /\ os' = IF os = "running" THEN "killed" ELSE os
       /\ UNCHANGED <<pending, status, notified>>

\* Mutant of Route: a line that does not parse is skipped.
RouteSkipsBadLines(f) ==
    \/ /\ f.kind = "answer" /\ f.id \in pending
       /\ pending' = pending \ {f.id}
       /\ status' = [status EXCEPT ![f.id] = "answered"]
       /\ UNCHANGED <<os, notified>>
    \/ /\ f.kind = "answer" /\ f.id \notin pending
       /\ UNCHANGED <<os, pending, status, notified>>
    \/ /\ f.kind = "notice"
       /\ notified' = Append(notified, f.id)
       /\ UNCHANGED <<os, pending, status>>
    \/ /\ f.kind = "bad"
       /\ UNCHANGED <<os, pending, status, notified>>

\* onStdout and routeMessage: a line that does not parse kills the child; an
\* answer nobody waits for is ignored; stdout may outlive the exit event.
Route(f) ==
    \/ /\ f.kind = "answer" /\ f.id \in pending
       /\ pending' = pending \ {f.id}
       /\ status' = [status EXCEPT ![f.id] = "answered"]
       /\ UNCHANGED <<os, notified>>
    \/ /\ f.kind = "answer" /\ f.id \notin pending
       /\ UNCHANGED <<os, pending, status, notified>>
    \/ /\ f.kind = "notice"
       /\ notified' = Append(notified, f.id)
       /\ UNCHANGED <<os, pending, status>>
    \/ /\ f.kind = "bad"
       /\ os' = IF os = "running" THEN "killed" ELSE os
       /\ UNCHANGED <<pending, status, notified>>

\* Mutant of Deliver: a notification is taken up after the frames behind it.
DeliverLater ==
    /\ stdout # <<>>
    /\ \E i \in DOMAIN stdout :
          /\ \A j \in 1..(i - 1) : stdout[j].kind = "notice"
          /\ Route(stdout[i])
          /\ stdout' = SubSeq(stdout, 1, i - 1) \o SubSeq(stdout, i + 1, Len(stdout))
    /\ UNCHANGED <<stdin, asked, exited, waiting, crashed, calls, notices, badLines>>

Deliver ==
    /\ stdout # <<>>
    /\ stdout' = Tail(stdout)
    /\ Route(Head(stdout))
    /\ UNCHANGED <<stdin, asked, exited, waiting, crashed, calls, notices, badLines>>
-----------------------------------------------------------------------------
Daemon == Request \/ Notify \/ Terminate \/ KillTimer \/ ExitEvent \/ Deliver

Child == ChildNotifies \/ ChildCorrupts \/ ChildDies \/ \E r \in Requests : ChildAnswers(r)

HandleNext == ~crashed /\ (Daemon \/ Child)

HandleSpec == HandleInit /\ [][HandleNext]_handleVars

Live(A) == ~crashed /\ A

\* Events are handled, the timer fires and a killed process dies; the child
\* itself need not answer nor end when its stdin does.
FairHandleSpec ==
    /\ HandleSpec
    /\ WF_handleVars(Live(ExitEvent))
    /\ WF_handleVars(Live(Deliver))
    /\ WF_handleVars(Live(KillTimer))
    /\ WF_handleVars(Live(os = "killed" /\ ChildDies))
-----------------------------------------------------------------------------
(* Properties.                                                             *)

HandleTypeOK ==
    /\ os \in {"running", "killed", "dead", "unborn"}
    /\ exited \in BOOLEAN
    /\ stdin \in {"open", "ended"}
    /\ pending \in SUBSET Requests
    /\ asked \in SUBSET Requests
    /\ stdout \in Seq(Frame)
    /\ status \in [Requests -> {"new", "waiting", "answered", "rejected"}]
    /\ waiting \in BOOLEAN
    /\ crashed \in BOOLEAN
    /\ calls \in 0..MaxRequests
    /\ notices \in 0..MaxNotices
    /\ notified \in Seq(1..MaxNotices)
    /\ badLines \in 0..MaxBadLines
    /\ pending = {r \in Requests : status[r] = "waiting"}

\* An answer overtakes no notification: what the child reported before it
\* answered a prompt has been passed on when the caller gets the answer.
AnswersAfterNotices ==
    [][\A r \in Requests : status[r] = "waiting" /\ status'[r] = "answered" =>
          \E i \in DOMAIN stdout : /\ stdout[i].kind = "answer" /\ stdout[i].id = r
                                   /\ Len(notified) = stdout[i].after]_handleVars

\* A line that is not JSON costs the child its life, so that no request waits
\* on a stream that lost its framing (onStdout, SPEC.md:327-330).
CorruptionEnds ==
    \A r \in Requests :
        (status[r] = "waiting" /\ stdout # <<>> /\ Head(stdout).kind = "bad")
            ~> (status[r] # "waiting" \/ crashed)

\* terminate returns, whether or not the child heeds the end of its stdin.
TerminateReturns == waiting ~> (~waiting \/ crashed)

\* The handle implements the channel its callers rely on.
Channel == INSTANCE RpcChannel WITH up <- ~exited
ChannelSpec == Channel!RpcSpec

\* SPEC.md:342-343: other sessions are unaffected by the exit of a child, also
\* while its exit event is on its way.
OthersSurvive == stdin = "open" => ~crashed
=============================================================================
