----------------------------- MODULE DaemonProofs -----------------------------
(***************************************************************************)
(* Proofs about the processes of the daemon.                               *)
(*                                                                         *)
(* ChildHandle, for every number of requests, notifications and corrupt    *)
(* lines: its types, that it implements RpcChannel, and that an answer     *)
(* comes after the notifications sent before it.                           *)
(*                                                                         *)
(* SessionManager, for every number of session ids and of processes: no    *)
(* request goes to a process that has exited, no session has two           *)
(* processes, and every event stream ends - the last two for the ids no    *)
(* stale timer or cleanup has taken.                                       *)
(***************************************************************************)
EXTENDS ChildHandle, SessionManager, TLAPS

-----------------------------------------------------------------------------
(***************************************************************************)
(* The inductive invariant of a handle: ids are given out in order, and    *)
(* nothing waits once the exit has been handled.                           *)
(***************************************************************************)

HandleInv ==
    /\ HandleTypeOK
    /\ \A r \in Requests : r > calls => status[r] = "new"
    /\ exited => pending = {}

\* The next request is one of Requests, and a new one.
LEMMA NextRequest ==
    ASSUME HandleInv, calls < MaxRequests
    PROVE  /\ calls + 1 \in Requests
           /\ calls + 1 \in 0..MaxRequests
           /\ calls + 1 \notin pending
           /\ status[calls + 1] = "new"
           /\ \A r \in Requests : r > calls + 1 => r > calls
  BY HandleAssumption DEF HandleInv, HandleTypeOK, Requests

\* What is left of stdout is frames, and its head is one.
LEMMA HeadFrame ==
    ASSUME HandleTypeOK, stdout # <<>>
    PROVE  Head(stdout) \in Frame /\ Tail(stdout) \in Seq(Frame)
  BY DEF HandleTypeOK

\* The invariant holds at first.
LEMMA HandleInvInit == HandleInit => HandleInv
  <1> SUFFICES ASSUME HandleInit PROVE HandleInv
    OBVIOUS
  <1>1. stdout \in Seq(Frame) /\ notified \in Seq(1..MaxNotices)
    BY DEF HandleInit
  <1>2. status = [r \in Requests |-> "new"]
    BY DEF HandleInit
  <1>3. {r \in Requests : status[r] = "waiting"} = {}
    BY <1>2
  <1>4. /\ pending = {r \in Requests : status[r] = "waiting"}
        /\ status \in [Requests -> {"new", "waiting", "answered", "rejected"}]
    BY <1>2, <1>3 DEF HandleInit
  <1>5. calls \in 0..MaxRequests /\ notices \in 0..MaxNotices /\ badLines \in 0..MaxBadLines
    BY HandleAssumption DEF HandleInit
  <1>6. HandleTypeOK
    BY <1>1, <1>4, <1>5 DEF HandleInit, HandleTypeOK
  <1> QED
    BY <1>2, <1>6 DEF HandleInit, HandleInv

\* Every step keeps it.
LEMMA HandleInvStep == HandleInv /\ [HandleNext]_handleVars => HandleInv'
  <1> SUFFICES ASSUME HandleInv, [HandleNext]_handleVars PROVE HandleInv'
    OBVIOUS
  <1> HandleTypeOK
    BY DEF HandleInv
  <1> USE HandleAssumption DEF process
  <1>1. CASE Request
    <2> DEFINE r == calls + 1
    <2>1. /\ calls' = r
          /\ UNCHANGED <<os, stdin, exited, stdout, waiting, notices, notified, badLines>>
          /\ \/ /\ exited
                /\ status' = [status EXCEPT ![r] = "rejected"]
                /\ UNCHANGED <<pending, asked, crashed>>
             \/ /\ ~exited
                /\ status' = [status EXCEPT ![r] = "waiting"]
                /\ pending' = pending \cup {r}
                /\ asked' \in {asked \cup {r}, asked}
      BY <1>1 DEF Request
    <2>2. crashed' \in BOOLEAN
      BY <1>1 DEF Request, WriteFails, HandleTypeOK
    <2>3. /\ r \in Requests /\ r \in 0..MaxRequests /\ r \notin pending
          /\ \A q \in Requests : q > r => q > calls /\ q # r
      BY <1>1, NextRequest DEF Request, Requests
    <2> HIDE DEF r
    <2>4. pending' = {q \in Requests : status'[q] = "waiting"}
      BY <2>1, <2>3 DEF HandleTypeOK
    <2>5. \A q \in Requests : q > calls' => status'[q] = "new"
      BY <2>1, <2>3 DEF HandleInv, HandleTypeOK
    <2>6. exited' => pending' = {}
      BY <2>1 DEF HandleInv
    <2>7. status' \in [Requests -> {"new", "waiting", "answered", "rejected"}]
      BY <2>1, <2>3 DEF HandleTypeOK
    <2> QED
      BY <2>1, <2>2, <2>3, <2>4, <2>5, <2>6, <2>7 DEF HandleInv, HandleTypeOK
  <1>2. CASE Notify
    <2>1. crashed' \in BOOLEAN
      BY <1>2 DEF Notify, WriteFails, HandleTypeOK
    <2> QED
      BY <1>2, <2>1 DEF Notify, HandleInv, HandleTypeOK
  <1>3. CASE Terminate
    BY <1>3 DEF Terminate, HandleInv, HandleTypeOK
  <1>4. CASE KillTimer
    BY <1>4 DEF KillTimer, HandleInv, HandleTypeOK
  <1>5. CASE ExitEvent
    BY <1>5 DEF ExitEvent, HandleInv, HandleTypeOK
  <1>6. CASE Deliver
    <2> DEFINE f == Head(stdout)
    <2>1. f \in Frame /\ stdout' \in Seq(Frame)
      BY <1>6, HeadFrame DEF Deliver
    <2>2. Route(f) /\ UNCHANGED <<stdin, asked, exited, waiting, crashed, calls, notices, badLines>>
      BY <1>6 DEF Deliver
    <2> HIDE DEF f
    <2>3. CASE f.kind = "answer" /\ f.id \in pending
      BY <2>1, <2>2, <2>3 DEF Route, HandleInv, HandleTypeOK
    <2>4. CASE f.kind = "notice"
      <3>1. UNCHANGED <<os, pending, status>> /\ notified' = Append(notified, f.id)
        BY <2>2, <2>4 DEF Route
      <3>2. f.id \in 1..MaxNotices
        BY <2>1, <2>4 DEF Frame
      <3> QED
        BY <2>1, <2>2, <3>1, <3>2 DEF HandleInv, HandleTypeOK
    <2> QED
      BY <2>1, <2>2, <2>3, <2>4 DEF Route, HandleInv, HandleTypeOK
  <1>7. CASE ChildNotifies
    <2>1. notices + 1 \in 1..MaxNotices
      BY <1>7 DEF ChildNotifies, HandleTypeOK
    <2> QED
      BY <1>7, <2>1 DEF ChildNotifies, Write, HandleInv, HandleTypeOK, Frame
  <1>8. CASE ChildCorrupts
    BY <1>8 DEF ChildCorrupts, Write, HandleInv, HandleTypeOK, Frame
  <1>9. CASE ChildDies
    BY <1>9 DEF ChildDies, HandleInv, HandleTypeOK
  <1>10. ASSUME NEW r \in Requests, ChildAnswers(r) PROVE HandleInv'
    BY <1>10 DEF ChildAnswers, Write, HandleInv, HandleTypeOK, Frame
  <1>11. CASE UNCHANGED handleVars
    BY <1>11 DEF handleVars, HandleInv, HandleTypeOK
  <1> QED
    BY <1>1, <1>2, <1>3, <1>4, <1>5, <1>6, <1>7, <1>8, <1>9, <1>10, <1>11
       DEF HandleNext, Daemon, Child

(***************************************************************************)
(* The refinement.                                                         *)
(***************************************************************************)

\* The handle starts as a channel that is up and has been asked nothing.
LEMMA ChannelInit == HandleInit => Channel!RpcInit
  BY DEF HandleInit, Channel!RpcInit

\* Every step of the handle is a step of the channel or none.
LEMMA ChannelStep == HandleInv /\ [HandleNext]_handleVars => [Channel!RpcNext]_(Channel!rpcVars)
  <1> SUFFICES ASSUME HandleInv, [HandleNext]_handleVars
               PROVE  [Channel!RpcNext]_(Channel!rpcVars)
    OBVIOUS
  <1> HandleTypeOK
    BY DEF HandleInv
  <1> USE DEF process, Channel!RpcNext, Channel!rpcVars
  <1>1. ASSUME UNCHANGED <<exited, status>> PROVE [Channel!RpcNext]_(Channel!rpcVars)
    BY <1>1
  <1>2. CASE Request
    <2> DEFINE r == calls + 1
    <2>1. r \in Requests /\ status[r] = "new"
      BY <1>2, NextRequest DEF Request
    <2>2. /\ UNCHANGED exited
          /\ status' = [status EXCEPT ![r] = IF exited THEN "rejected" ELSE "waiting"]
      BY <1>2 DEF Request
    <2> HIDE DEF r
    <2>3. Channel!Ask(r)
      BY <2>1, <2>2 DEF Channel!Ask, HandleTypeOK
    <2> QED
      BY <2>1, <2>3
  <1>3. CASE ExitEvent
    <2>1. pending = Channel!Waiting
      BY DEF HandleTypeOK, Channel!Waiting
    <2>2. Channel!Down
      BY <1>3, <2>1 DEF ExitEvent, Channel!Down
    <2> QED
      BY <2>2
  <1>4. CASE Deliver
    <2> DEFINE f == Head(stdout)
    <2>1. Route(f) /\ UNCHANGED exited
      BY <1>4 DEF Deliver
    <2> HIDE DEF f
    <2>2. CASE f.kind = "answer" /\ f.id \in pending
      <3>1. f.id \in Channel!Waiting /\ f.id \in Requests
        BY <2>2 DEF HandleTypeOK, Channel!Waiting
      <3>2. Channel!Answer(f.id)
        BY <2>1, <2>2, <3>1 DEF Route, Channel!Answer
      <3> QED
        BY <3>1, <3>2
    <2>3. CASE ~(f.kind = "answer" /\ f.id \in pending)
      BY <1>1, <2>1, <2>3 DEF Route
    <2> QED
      BY <2>2, <2>3
  <1>5. CASE Notify \/ Terminate \/ KillTimer \/ Child \/ UNCHANGED handleVars
    BY <1>1, <1>5 DEF Notify, Terminate, KillTimer, Child, ChildAnswers, ChildNotifies,
                      ChildCorrupts, ChildDies, Write, handleVars
  <1> QED
    BY <1>2, <1>3, <1>4, <1>5 DEF HandleNext, Daemon

(***************************************************************************)
(* What is on its way to onStdout.                                         *)
(***************************************************************************)

\* How many notifications have been sent when frame f has.
Sent(f) == f.after + (IF f.kind = "notice" THEN 1 ELSE 0)

\* The frames follow each other without a gap in their notifications, from the
\* last one that was passed on to the last one that was sent.
PipeInv ==
    /\ stdout = <<>> => Len(notified) = notices
    /\ stdout # <<>> => Head(stdout).after = Len(notified) /\ Sent(stdout[Len(stdout)]) = notices
    /\ \A i \in 1..(Len(stdout) - 1) : stdout[i + 1].after = Sent(stdout[i])

\* A frame the child writes goes behind them.
LEMMA PipeGrows ==
    ASSUME HandleTypeOK, PipeInv, NEW f \in Frame, f.after = notices,
           stdout' = Append(stdout, f), notified' = notified, notices' = Sent(f)
    PROVE  PipeInv'
<1>1. /\ stdout \in Seq(Frame) /\ Len(stdout) \in Nat
      /\ Len(stdout') = Len(stdout) + 1 /\ stdout' # <<>>
      /\ stdout'[Len(stdout) + 1] = f
      /\ \A i \in 1..Len(stdout) : stdout'[i] = stdout[i]
      /\ Head(stdout') = stdout'[1]
  BY DEF HandleTypeOK
<1>2. Head(stdout').after = Len(notified')
  <2>1. CASE stdout = <<>>
    BY <1>1, <2>1 DEF PipeInv
  <2>2. CASE stdout # <<>>
    BY <1>1, <2>2 DEF PipeInv
  <2> QED
    BY <2>1, <2>2
<1>3. ASSUME NEW i \in 1..(Len(stdout') - 1) PROVE stdout'[i + 1].after = Sent(stdout'[i])
  <2>1. CASE i = Len(stdout)
    BY <1>1, <1>3, <2>1 DEF PipeInv
  <2>2. CASE i # Len(stdout)
    BY <1>1, <1>3, <2>2 DEF PipeInv
  <2> QED
    BY <2>1, <2>2
<1> QED
  BY <1>1, <1>2, <1>3 DEF PipeInv, Sent

\* The first of them is passed on.
LEMMA PipeShrinks ==
    ASSUME HandleTypeOK, PipeInv, Deliver
    PROVE  PipeInv'
<1>1. /\ stdout # <<>> /\ stdout' = Tail(stdout) /\ UNCHANGED notices
      /\ Len(notified') = Sent(Head(stdout))
  <2>1. Len(notified) = Head(stdout).after /\ notified \in Seq(1..MaxNotices)
    BY DEF Deliver, PipeInv, HandleTypeOK
  <2>2. Head(stdout).after \in Nat
    BY HandleAssumption, HeadFrame DEF Deliver, Frame
  <2>3. \/ Head(stdout).kind = "notice" /\ notified' = Append(notified, Head(stdout).id)
        \/ Head(stdout).kind # "notice" /\ notified' = notified
    BY DEF Deliver, Route
  <2> QED
    BY <2>1, <2>2, <2>3 DEF Deliver, Sent
<1>2. /\ Len(stdout) \in Nat /\ Len(stdout) > 0 /\ Len(stdout') = Len(stdout) - 1
      /\ \A i \in 1..(Len(stdout) - 1) : stdout'[i] = stdout[i + 1]
      /\ Head(stdout) = stdout[1]
  BY <1>1 DEF HandleTypeOK
<1>3. CASE Len(stdout) = 1
  <2>1. stdout' = <<>>
    BY <1>1, <1>3 DEF HandleTypeOK
  <2>2. Len(notified') = notices'
    BY <1>1, <1>2, <1>3 DEF PipeInv
  <2>3. 1..(Len(stdout') - 1) = {}
    BY <1>2, <1>3
  <2> QED
    BY <2>1, <2>2, <2>3 DEF PipeInv
<1>4. CASE Len(stdout) > 1
  <2>1. stdout' # <<>> /\ Head(stdout') = stdout[2] /\ stdout'[Len(stdout')] = stdout[Len(stdout)]
    <3>1. stdout' \in Seq(Frame) /\ Len(stdout') > 0
      BY <1>1, <1>2, <1>4 DEF HandleTypeOK
    <3>2. stdout' # <<>> /\ Head(stdout') = stdout'[1]
      BY <3>1
    <3>3. stdout'[1] = stdout[2] /\ stdout'[Len(stdout')] = stdout[Len(stdout)]
      BY <1>2, <1>4
    <3> QED
      BY <3>2, <3>3
  <2>2. stdout[2].after = Sent(stdout[1])
    BY <1>2, <1>4 DEF PipeInv
  <2>3. \A i \in 1..(Len(stdout') - 1) : stdout'[i + 1].after = Sent(stdout'[i])
    BY <1>2 DEF PipeInv
  <2> QED
    BY <1>1, <1>2, <2>1, <2>2, <2>3 DEF PipeInv, Sent
<1> QED
  BY <1>2, <1>3, <1>4

\* So it is at every step.
LEMMA PipeInvStep == HandleTypeOK /\ PipeInv /\ [HandleNext]_handleVars => PipeInv'
<1> SUFFICES ASSUME HandleTypeOK, PipeInv, [HandleNext]_handleVars PROVE PipeInv'
  OBVIOUS
<1>1. CASE UNCHANGED <<stdout, notified, notices>>
  BY <1>1 DEF PipeInv, Sent
<1>2. CASE Deliver
  BY <1>2, PipeShrinks
<1>3. ASSUME NEW r \in Requests, ChildAnswers(r) PROVE PipeInv'
  <2>1. PICK f \in Frame : /\ f.kind = "answer" /\ f.after = notices
                           /\ stdout' = Append(stdout, f)
    BY <1>3 DEF ChildAnswers, Write, Frame, HandleTypeOK
  <2> QED
    BY <1>3, <2>1, PipeGrows DEF ChildAnswers, Write, Sent, HandleTypeOK
<1>4. CASE ChildNotifies
  <2>1. PICK f \in Frame : /\ f.kind = "notice" /\ f.after = notices
                           /\ stdout' = Append(stdout, f)
    BY <1>4, HandleAssumption DEF ChildNotifies, Write, Frame, HandleTypeOK
  <2> QED
    BY <1>4, <2>1, PipeGrows DEF ChildNotifies, Write, Sent
<1>5. CASE ChildCorrupts
  <2>1. PICK f \in Frame : /\ f.kind = "bad" /\ f.after = notices
                           /\ stdout' = Append(stdout, f)
    BY <1>5 DEF ChildCorrupts, Write, Frame, HandleTypeOK
  <2> QED
    BY <1>5, <2>1, PipeGrows DEF ChildCorrupts, Write, Sent, HandleTypeOK
<1> QED
  BY <1>1, <1>2, <1>3, <1>4, <1>5
  DEF HandleNext, Daemon, Child, Request, Notify, Terminate, KillTimer, ExitEvent, ChildDies, process, handleVars

\* A request is answered by the frame that is the first in the pipe.
LEMMA AnsweredInTurn ==
    ASSUME HandleInv, PipeInv, [HandleNext]_handleVars,
           NEW r \in Requests, status[r] = "waiting", status'[r] = "answered"
    PROVE  \E i \in DOMAIN stdout : /\ stdout[i].kind = "answer" /\ stdout[i].id = r
                                    /\ Len(notified) = stdout[i].after
<1>1. Deliver
  <2>1. status \in [Requests -> {"new", "waiting", "answered", "rejected"}]
    BY DEF HandleInv, HandleTypeOK
  <2>2. ~Request
    <3>1. Request => calls + 1 \in Requests /\ status[calls + 1] = "new"
      BY NextRequest DEF Request
    <3> QED
      BY <2>1, <3>1 DEF Request
  <2>3. ~ExitEvent
    BY <2>1 DEF ExitEvent
  <2> QED
    BY <2>2, <2>3 DEF HandleNext, Daemon, Child, Notify, Terminate, KillTimer, ChildAnswers,
                      ChildNotifies, ChildCorrupts, ChildDies, Write, handleVars
<1>2. Head(stdout).kind = "answer" /\ Head(stdout).id = r
  <2>1. status \in [Requests -> {"new", "waiting", "answered", "rejected"}]
    BY DEF HandleInv, HandleTypeOK
  <2> QED
    BY <1>1, <2>1 DEF Deliver, Route
<1>3. 1 \in DOMAIN stdout /\ Head(stdout) = stdout[1]
  BY <1>1 DEF Deliver, HandleInv, HandleTypeOK
<1> QED
  BY <1>1, <1>2, <1>3 DEF Deliver, PipeInv

(***************************************************************************)
(* The theorems.                                                           *)
(***************************************************************************)

\* A ChildHandle keeps its types; in particular the pending map of child.ts
\* holds exactly the requests that were neither answered nor rejected.
THEOREM HandleTypes == HandleSpec => []HandleTypeOK
  <1>1. HandleInv => HandleTypeOK
    BY DEF HandleInv
  <1> QED
    BY HandleInvInit, HandleInvStep, <1>1, PTL DEF HandleSpec

\* Nothing waits on a child whose exit has been handled, and no answer is
\* given twice: the handle implements RpcChannel, for any number of requests.
THEOREM HandleImplementsChannel == HandleSpec => ChannelSpec
  <1>1. HandleSpec => []HandleInv
    BY HandleInvInit, HandleInvStep, PTL DEF HandleSpec
  <1> QED
    BY <1>1, ChannelInit, ChannelStep, PTL DEF HandleSpec, ChannelSpec, Channel!RpcSpec

\* When the caller of request() gets its answer, every notification that the
\* child had sent before it has been emitted (onStdout, routeMessage).
THEOREM AnswersComeInTurn == HandleSpec => AnswersAfterNotices
<1>1. HandleInit => PipeInv
  BY DEF HandleInit, PipeInv
<1>2. HandleInv => HandleTypeOK
  BY DEF HandleInv
<1>3. HandleSpec => [](HandleInv /\ PipeInv)
  BY HandleInvInit, HandleInvStep, PipeInvStep, <1>1, <1>2, PTL DEF HandleSpec
<1>4. HandleInv /\ PipeInv /\ [HandleNext]_handleVars =>
         [\A r \in Requests : status[r] = "waiting" /\ status'[r] = "answered" =>
             \E i \in DOMAIN stdout : /\ stdout[i].kind = "answer" /\ stdout[i].id = r
                                      /\ Len(notified) = stdout[i].after]_handleVars
  BY AnsweredInTurn
<1> QED
  BY <1>3, <1>4, PTL DEF HandleSpec, AnswersAfterNotices

-----------------------------------------------------------------------------
(* The inductive invariant of the registry.                                *)

\* Nothing is known of a process that has not been spawned.
FreshInv ==
    \A c \in Children : c > spawned => child[c] = NoChild /\ state[c] = NoState

\* A process is registered when it has a session and at no other time, a call
\* waits for a process that has not exited, and so does whoever sees it alive.
CallInv ==
    \A c \in Children :
       /\ Registered(c) <=> child[c].session # NoId
       /\ Loading(c) \/ child[c].call = "ready" => Registered(c)
       /\ Creating(c) => ~Registered(c)
       /\ child[c].call = "none" => child[c].os = "none"
       /\ child[c].call \in Starting => child[c].os \in {"running", "ending"}
       /\ state[c].status = "alive" => child[c].os \in {"running", "ending"}

\* The registry answers for a session with one of its own processes.
EntryInv == \A id \in Ids : entry[id] # 0 => child[entry[id]].session = id

\* While the daemon is up only a process whose call failed is ended; the session of
\* a running process is alive.
RunningInv ==
    phase = "up" => \A c \in Children :
       /\ child[c].os = "running" => child[c].call # "failed"
       /\ child[c].os = "running" /\ Registered(c) => state[c].status = "alive"
       /\ Loading(c) => child[c].os = "running"

\* As long as no stale timer or cleanup has taken the entry of a session, a process
\* that runs for it, or whose stream is open, is the one in the registry; a load
\* that has not been answered has its stream open; and a session that was opened
\* does not end unannounced.
StreamInv ==
    phase = "up" => \A c \in Children :
       Registered(c) /\ child[c].session \notin stray =>
          /\ child[c].os = "running" \/ state[c].cursor = "open" => entry[child[c].session] = c
          /\ Loading(c) => state[c].cursor = "open"
          /\ child[c].call = "ready" /\ (state[c].status = "terminated" \/ state[c].cursor = "closed")
                => state[c].announced

ManagerInv ==
    /\ TypeOK
    /\ FreshInv
    /\ CallInv
    /\ EntryInv
    /\ RunningInv
    /\ StreamInv

-----------------------------------------------------------------------------
(* Types.                                                                  *)

ChildType == [session : Ids \cup {NoId},
              call : Starting \cup {"none", "ready", "failed"},
              os : {"none", "running", "ending", "gone"}]

StateType == [status : {"none", "alive", "terminated"},
              cursor : {"none", "open", "closed"}, announced : BOOLEAN]

\* A SessionState has a cursor when its process is registered.
Whole(s) == s \in StateType /\ (s.status # "none" <=> s.cursor # "none")

\* TypeOK, with names for the records.
Typed ==
    /\ child \in [Children -> ChildType]
    /\ state \in [Children -> StateType]
    /\ \A c \in Children : Whole(state[c])
    /\ entry \in [Ids -> 0..MaxChildren]
    /\ grace \in [Ids -> {"none", "due", "never"}]
    /\ phase \in {"up", "closing", "gone", "forced"}
    /\ stray \in SUBSET Ids
    /\ spawned \in 0..MaxChildren
    /\ closing \in SUBSET Children

\* The two say the same.
LEMMA TypesAre == /\ TypeOK <=> Typed
                  /\ TypeOK' <=> Typed'
<1>1. TypeOK <=> Typed
  BY DEF TypeOK, Typed, Whole, ChildType, StateType, Registered
<1>2. TypeOK' <=> Typed'
  BY DEF TypeOK, Typed, Whole, ChildType, StateType, Registered
<1> QED
  BY <1>1, <1>2

\* What the operations make of a SessionState.
LEMMA StateTypes ==
    ASSUME NEW s, Whole(s)
    PROVE  /\ Whole(Ended(s)) \/ s.status = "none"
           /\ Ended(s) \in StateType
           /\ Ended(s).status = "terminated"
           /\ Ended(s).cursor = "closed"
           /\ Ended(s).announced = s.announced
           /\ ExitListener(s) \in StateType
           /\ ExitListener(s).status = "terminated"
           /\ ExitListener(s).cursor = s.cursor
           /\ ExitListener(s).announced = (s.announced \/ s.cursor = "open")
           /\ s.status # "none" => Whole(ExitListener(s))
           /\ [s EXCEPT !.cursor = "closed"] \in StateType
           /\ s.status # "none" => Whole([s EXCEPT !.cursor = "closed"])
           /\ [s EXCEPT !.cursor = "closed"].status = s.status
           /\ [s EXCEPT !.cursor = "closed"].announced = s.announced
BY DEF Whole, StateType, Ended, ExitListener

\* A SessionState that is registered.
LEMMA FreshState ==
    /\ Whole(NoState)
    /\ \A c : /\ Whole(Register(c))
              /\ Register(c).status = "alive"
              /\ Register(c).cursor = "open"
<1>1. Whole(NoState)
  BY DEF Whole, StateType, NoState
<1>2. \A s \in StateType : LET r == [s EXCEPT !.status = "alive", !.cursor = "open"] IN
                          /\ r \in StateType
                          /\ r.status = "alive"
                          /\ r.cursor = "open"
  BY DEF StateType
<1> QED
  BY <1>1, <1>2 DEF Whole, Register

\* Ending a process.
LEMMA EndTypes ==
    ASSUME NEW p \in ChildType
    PROVE  /\ End(p) \in ChildType
           /\ End(p).session = p.session
           /\ End(p).call = p.call
           /\ End(p).os = (IF p.os = "running" THEN "ending" ELSE p.os)
BY DEF ChildType, End

\* The invariant holds when the daemon starts.
LEMMA ManagerInit == Init => ManagerInv
<1> SUFFICES ASSUME Init PROVE ManagerInv
  OBVIOUS
<1>1. NoChild \in ChildType
  BY DEF NoChild, ChildType
<1>2. Typed
  BY <1>1, FreshState, ManagerAssumption DEF Init, Typed, Whole
<1>3. FreshInv /\ EntryInv
  BY DEF Init, FreshInv, EntryInv
<1>4. CallInv
  BY DEF Init, CallInv, NoChild, NoState, Registered, Loading, Creating, Starting
<1>5. RunningInv
  BY DEF Init, RunningInv, NoChild, Registered, Loading
<1>6. StreamInv
  BY DEF Init, StreamInv, NoChild, NoState, Registered
<1> QED
  BY <1>2, <1>3, <1>4, <1>5, <1>6, TypesAre DEF ManagerInv

-----------------------------------------------------------------------------
(* Calls that spawn.                                                       *)

\* spawn: the process that is new, and those there were.
LEMMA Spawned ==
    ASSUME ManagerInv, NEW id \in Ids \cup {NoId},
           NEW call \in {"new.initialize", "load.initialize"}, Spawn(id, call)
    PROVE  /\ spawned + 1 \in Children /\ spawned' = spawned + 1 /\ spawned \in Nat
           /\ spawned' \in 0..MaxChildren
           /\ child' \in [Children -> ChildType]
           /\ child'[spawned + 1].session = id
           /\ child'[spawned + 1].call = call
           /\ child'[spawned + 1].os = "running"
           /\ \A d \in Children : d # spawned + 1 => child'[d] = child[d]
           /\ child[spawned + 1] = NoChild /\ state[spawned + 1] = NoState
           /\ \A i \in Ids : entry[i] # spawned + 1
<1>1. Typed /\ FreshInv /\ EntryInv
  BY TypesAre DEF ManagerInv
<1>2. spawned \in Nat /\ spawned < MaxChildren /\ spawned' = spawned + 1
  BY <1>1, ManagerAssumption DEF Typed, Spawn
<1>3. spawned + 1 \in Children /\ spawned + 1 \in 0..MaxChildren
  BY <1>2, ManagerAssumption DEF Children
<1>4. child[spawned + 1] = NoChild /\ state[spawned + 1] = NoState
  BY <1>2, <1>3, <1>1 DEF FreshInv
<1>5. child \in [Children -> ChildType]
      /\ child' = [child EXCEPT ![spawned + 1] = [session |-> id, call |-> call, os |-> "running"]]
  BY <1>1 DEF Typed, Spawn
<1>6. [session |-> id, call |-> call, os |-> "running"] \in ChildType
  BY DEF ChildType, Starting
<1>7. \A i \in Ids : entry[i] # spawned + 1
  <2> SUFFICES ASSUME NEW i \in Ids, entry[i] = spawned + 1 PROVE FALSE
    OBVIOUS
  <2>1. child[spawned + 1].session = i
    BY <1>1, <1>2 DEF EntryInv
  <2> QED
    BY <1>4, <2>1, ManagerAssumption DEF NoChild, NoId
<1> QED
  BY <1>2, <1>3, <1>4, <1>5, <1>6, <1>7

\* createSession spawns a process nobody refers to yet.
LEMMA CreateStep == ASSUME ManagerInv, CreateSession PROVE ManagerInv'
<1> DEFINE n == spawned + 1
<1>0. /\ Typed /\ FreshInv /\ CallInv /\ EntryInv /\ RunningInv /\ StreamInv
      /\ Spawn(NoId, "new.initialize") /\ UNCHANGED <<state, entry, grace, phase, stray, closing>>
  BY TypesAre DEF ManagerInv, CreateSession
<1>1. /\ n \in Children /\ spawned' = n /\ spawned \in Nat
      /\ spawned' \in 0..MaxChildren
      /\ child' \in [Children -> ChildType]
      /\ child'[n].session = NoId
      /\ child'[n].call = "new.initialize"
      /\ child'[n].os = "running"
      /\ \A d \in Children : d # n => child'[d] = child[d]
      /\ child[n] = NoChild /\ state[n] = NoState
      /\ \A i \in Ids : entry[i] # n
  BY <1>0, Spawned
<1>2. n > spawned
  BY <1>1
<1> HIDE DEF n
<1>3. Typed'
  BY <1>0, <1>1 DEF Typed
<1>4. FreshInv'
  BY <1>0, <1>1 DEF FreshInv, Children, n
<1>5. CallInv'
  <2> SUFFICES ASSUME NEW c \in Children
               PROVE  /\ Registered(c)' <=> child'[c].session # NoId
                      /\ Loading(c)' \/ child'[c].call = "ready" => Registered(c)'
                      /\ Creating(c)' => ~Registered(c)'
                      /\ child'[c].call = "none" => child'[c].os = "none"
                      /\ child'[c].call \in Starting => child'[c].os \in {"running", "ending"}
                      /\ state'[c].status = "alive" => child'[c].os \in {"running", "ending"}
    BY DEF CallInv
  <2>1. CASE c = n
    BY <1>0, <1>1, <2>1 DEF Registered, Loading, Creating, NoState
  <2>2. CASE c # n
    <3>1. child'[c] = child[c] /\ state'[c] = state[c]
      BY <1>0, <1>1, <2>2
    <3> QED
      BY <1>0, <3>1 DEF CallInv, Registered, Loading, Creating
  <2> QED
    BY <2>1, <2>2
<1>6. EntryInv'
  <2>1. \A i \in Ids : entry[i] # 0 => entry[i] \in Children
    BY <1>0 DEF Typed, Children
  <2> QED
    BY <1>0, <1>1, <2>1 DEF EntryInv
<1>7. \A c \in Children : c # n => child'[c] = child[c] /\ state'[c] = state[c]
  BY <1>0, <1>1
<1>8. \A c \in Children : c = n => ~Registered(c)' /\ ~Loading(c)'
  BY <1>0, <1>1 DEF Registered, Loading, NoState
<1>9. RunningInv'
  <2> SUFFICES ASSUME phase = "up", NEW c \in Children
               PROVE  /\ child'[c].os = "running" => child'[c].call # "failed"
                      /\ child'[c].os = "running" /\ Registered(c)' => state'[c].status = "alive"
                      /\ Loading(c)' => child'[c].os = "running"
    BY <1>0 DEF RunningInv
  <2>1. CASE c = n
    BY <1>1, <1>8, <2>1
  <2>2. CASE c # n
    BY <1>0, <1>7, <2>2 DEF RunningInv, Registered, Loading
  <2> QED
    BY <2>1, <2>2
<1>10. StreamInv'
  <2> SUFFICES ASSUME phase = "up", NEW c \in Children, Registered(c)',
                      child'[c].session \notin stray
               PROVE  /\ child'[c].os = "running" \/ state'[c].cursor = "open"
                            => entry'[child'[c].session] = c
                      /\ Loading(c)' => state'[c].cursor = "open"
                      /\ child'[c].call = "ready"
                            /\ (state'[c].status = "terminated" \/ state'[c].cursor = "closed")
                         => state'[c].announced
    BY <1>0 DEF StreamInv
  <2>1. c # n
    BY <1>8
  <2>2. child'[c] = child[c] /\ state'[c] = state[c]
    BY <1>7, <2>1
  <2> QED
    BY <1>0, <2>2 DEF StreamInv, Registered, Loading
<1> QED
  BY <1>3, <1>4, <1>5, <1>6, <1>9, <1>10, TypesAre DEF ManagerInv

\* loadSession registers the process it spawns in place of one that has exited.
LEMMA LoadStep == ASSUME ManagerInv, NEW id \in Ids, LoadSession(id) PROVE ManagerInv'
<1> DEFINE n == spawned + 1
<1>0. /\ Typed /\ FreshInv /\ CallInv /\ EntryInv /\ RunningInv /\ StreamInv
      /\ Spawn(id, "load.initialize") /\ UNCHANGED <<phase, stray, closing>>
      /\ ~Alive(id)
  BY TypesAre DEF ManagerInv, LoadSession
<1>1. /\ n \in Children /\ spawned' = n /\ spawned \in Nat
      /\ spawned' \in 0..MaxChildren
      /\ child' \in [Children -> ChildType]
      /\ child'[n].session = id
      /\ child'[n].call = "load.initialize"
      /\ child'[n].os = "running"
      /\ \A d \in Children : d # n => child'[d] = child[d]
      /\ child[n] = NoChild /\ state[n] = NoState
      /\ \A i \in Ids : entry[i] # n
  BY <1>0, Spawned
<1> DEFINE e == entry[id]
<1>2. /\ state' = [c \in Children |-> IF c = n THEN Register(c) ELSE IF c = e THEN Ended(state[c])
                                      ELSE state[c]]
      /\ entry' = [entry EXCEPT ![id] = n]
      /\ grace' = [grace EXCEPT ![id] = IF e = 0 THEN @ ELSE "none"]
  BY DEF LoadSession
<1>3. e \in Children => /\ state[e].status = "terminated" /\ Whole(state[e]) /\ Registered(e)
                        /\ child[e].session = id
  <2> SUFFICES ASSUME e \in Children
               PROVE  /\ state[e].status = "terminated" /\ Whole(state[e]) /\ Registered(e)
                      /\ child[e].session = id
    OBVIOUS
  <2>1. e # 0
    BY DEF Children
  <2>2. child[e].session = id /\ id # NoId
    BY <1>0, <2>1, ManagerAssumption DEF EntryInv, NoId
  <2>3. Registered(e) /\ state[e].status # "alive"
    BY <1>0, <2>1, <2>2 DEF CallInv, Alive
  <2> QED
    BY <1>0, <2>2, <2>3 DEF Typed, Whole, StateType, Registered
<1>4. /\ \A d \in Children : d # n /\ d # e => state'[d] = state[d]
      /\ state'[n] = Register(n)
      /\ e \in Children => state'[e] = Ended(state[e])
      /\ DOMAIN state' = Children
      /\ n # e
  BY <1>1, <1>2
<1> HIDE DEF n, e
<1>5. /\ Whole(state'[n]) /\ state'[n].status = "alive" /\ state'[n].cursor = "open"
      /\ state'[n] \in StateType
  BY <1>4, FreshState DEF Whole
<1>6. e \in Children => /\ Whole(state'[e]) /\ state'[e].status = "terminated"
                        /\ state'[e].cursor = "closed" /\ state'[e] \in StateType
                        /\ state'[e].announced = state[e].announced
  <2>1. ASSUME e \in Children
        PROVE  /\ Whole(Ended(state[e])) \/ state[e].status = "none"
               /\ Ended(state[e]) \in StateType
               /\ Ended(state[e]).status = "terminated"
               /\ Ended(state[e]).cursor = "closed"
               /\ Ended(state[e]).announced = state[e].announced
    BY <1>3, <2>1, StateTypes
  <2> QED
    BY <1>3, <1>4, <2>1
<1>7. entry' \in [Ids -> 0..MaxChildren] /\ entry'[id] = n
      /\ \A i \in Ids \ {id} : entry'[i] = entry[i]
  BY <1>0, <1>1, <1>2 DEF Typed, Children
<1>8. Typed'
  <2>1. ASSUME NEW d \in Children PROVE state'[d] \in StateType /\ Whole(state'[d])
    BY <1>0, <1>4, <1>5, <1>6 DEF Typed
  <2>2. state' \in [Children -> StateType]
    BY <1>2, <2>1
  <2>3. grace' \in [Ids -> {"none", "due", "never"}]
    BY <1>0, <1>2 DEF Typed
  <2> QED
    BY <1>0, <1>1, <1>7, <2>1, <2>2, <2>3 DEF Typed
<1>9. FreshInv'
  <2>1. e \in Children => ~(e > spawned)
    BY <1>0, <1>3 DEF FreshInv, NoState, Registered
  <2> QED
    BY <1>0, <1>1, <1>4, <2>1 DEF FreshInv, Children, n
<1>10. CallInv'
  <2> SUFFICES ASSUME NEW d \in Children
               PROVE  /\ Registered(d)' <=> child'[d].session # NoId
                      /\ Loading(d)' \/ child'[d].call = "ready" => Registered(d)'
                      /\ Creating(d)' => ~Registered(d)'
                      /\ child'[d].call = "none" => child'[d].os = "none"
                      /\ child'[d].call \in Starting => child'[d].os \in {"running", "ending"}
                      /\ state'[d].status = "alive" => child'[d].os \in {"running", "ending"}
    BY DEF CallInv
  <2>1. CASE d = n
    BY <1>1, <1>5, <2>1, ManagerAssumption DEF Registered, Loading, Creating, Starting, NoId
  <2>2. CASE d = e /\ d # n
    BY <1>0, <1>1, <1>3, <1>6, <2>2 DEF CallInv, Registered, Loading, Creating, Starting
  <2>3. CASE d # e /\ d # n
    BY <1>0, <1>1, <1>4, <2>3 DEF CallInv, Registered, Loading, Creating, Starting
  <2> QED
    BY <2>1, <2>2, <2>3
<1>11. EntryInv'
  <2>1. \A i \in Ids : entry[i] # 0 => entry[i] \in Children
    BY <1>0 DEF Typed, Children
  <2> QED
    BY <1>0, <1>1, <1>7, <2>1 DEF EntryInv
<1>12. RunningInv'
  <2> SUFFICES ASSUME phase = "up", NEW d \in Children
               PROVE  /\ child'[d].os = "running" => child'[d].call # "failed"
                      /\ child'[d].os = "running" /\ Registered(d)' => state'[d].status = "alive"
                      /\ Loading(d)' => child'[d].os = "running"
    BY <1>0 DEF RunningInv
  <2>1. CASE d = n
    BY <1>1, <1>5, <2>1
  <2>2. CASE d = e /\ d # n
    BY <1>0, <1>1, <1>3, <1>6, <2>2 DEF RunningInv, Registered, Loading
  <2>3. CASE d # e /\ d # n
    BY <1>0, <1>1, <1>4, <2>3 DEF RunningInv, Registered, Loading
  <2> QED
    BY <2>1, <2>2, <2>3
<1>13. StreamInv'
  <2> SUFFICES ASSUME phase = "up", NEW d \in Children, Registered(d)',
                      child'[d].session \notin stray
               PROVE  /\ child'[d].os = "running" \/ state'[d].cursor = "open"
                            => entry'[child'[d].session] = d
                      /\ Loading(d)' => state'[d].cursor = "open"
                      /\ child'[d].call = "ready"
                            /\ (state'[d].status = "terminated" \/ state'[d].cursor = "closed")
                         => state'[d].announced
    BY <1>0 DEF StreamInv
  <2>1. CASE d = n
    BY <1>1, <1>5, <1>7, <2>1
  <2>2. CASE d = e /\ d # n
    <3>1. child'[d] = child[d] /\ child[d].os # "running" /\ Registered(d)
      BY <1>0, <1>1, <1>3, <2>2 DEF RunningInv
    <3>2. ~Loading(d)
      BY <1>0, <3>1 DEF RunningInv
    <3> QED
      BY <1>0, <1>3, <1>6, <2>2, <3>1, <3>2 DEF StreamInv, Loading
  <2>3. CASE d # e /\ d # n
    <3>1. child'[d] = child[d] /\ state'[d] = state[d]
      BY <1>1, <1>4, <2>3
    <3>2. Registered(d) /\ child[d].session \notin stray
      BY <3>1 DEF Registered
    <3>3. child[d].session \in Ids
      BY <1>0, <3>2 DEF CallInv, Typed, ChildType
    <3>4. entry[child[d].session] = d => child[d].session # id
      BY <2>3 DEF e
    <3> QED
      BY <1>0, <1>7, <3>1, <3>2, <3>3, <3>4 DEF StreamInv, Loading
  <2> QED
    BY <2>1, <2>2, <2>3
<1> QED
  BY <1>8, <1>9, <1>10, <1>11, <1>12, <1>13, TypesAre DEF ManagerInv

-----------------------------------------------------------------------------
(* Answers of a process.                                                   *)

\* A process that changes is one that was spawned.
LEMMA OneChild ==
    ASSUME ManagerInv, NEW c \in Children, NEW p \in ChildType,
           child' = [child EXCEPT ![c] = p], child[c].call # "none"
    PROVE  /\ child' \in [Children -> ChildType]
           /\ child'[c] = p
           /\ \A d \in Children : d # c => child'[d] = child[d]
           /\ ~(c > spawned)
<1>1. Typed /\ FreshInv
  BY TypesAre DEF ManagerInv
<1> QED
  BY <1>1 DEF Typed, FreshInv, NoChild

\* An answer that touches nothing but the call, and the process if the call fails.
LEMMA AnswerStep ==
    ASSUME ManagerInv, NEW c \in Children, NEW p \in ChildType,
           child' = [child EXCEPT ![c] = p],
           UNCHANGED <<state, entry, grace, phase, stray, spawned, closing>>,
           p.session = child[c].session,
           child[c].call \in Starting,
           \/ /\ p.os = child[c].os
              /\ \/ Creating(c) /\ p.call = "new.open"
                 \/ Loading(c) /\ p.call \in {"load.open", "ready"}
           \/ Creating(c) /\ p.call = "failed" /\ p.os = "ending"
    PROVE  ManagerInv'
<1>0. /\ Typed /\ FreshInv /\ CallInv /\ EntryInv /\ RunningInv /\ StreamInv
  BY TypesAre DEF ManagerInv
<1>1. /\ child' \in [Children -> ChildType]
      /\ child'[c] = p
      /\ \A d \in Children : d # c => child'[d] = child[d]
      /\ ~(c > spawned)
  BY OneChild DEF Starting
<1>2. Typed'
  BY <1>0, <1>1 DEF Typed
<1>3. FreshInv'
  BY <1>0, <1>1 DEF FreshInv
<1>4. CallInv'
  BY <1>0, <1>1 DEF CallInv, Registered, Loading, Creating, Starting
<1>5. EntryInv'
  <2>1. \A i \in Ids : entry[i] # 0 => entry[i] \in Children
    BY <1>0 DEF Typed, Children
  <2> QED
    BY <1>0, <1>1, <2>1 DEF EntryInv
<1>6. RunningInv'
  BY <1>0, <1>1 DEF RunningInv, Registered, Loading, Creating
<1>7. StreamInv'
  <2> SUFFICES ASSUME phase = "up", NEW d \in Children, Registered(d),
                      child[d].session \notin stray
               PROVE  /\ child'[d].os = "running" \/ state[d].cursor = "open"
                            => entry[child[d].session] = d
                      /\ Loading(d)' => state[d].cursor = "open"
                      /\ child'[d].call = "ready"
                            /\ (state[d].status = "terminated" \/ state[d].cursor = "closed")
                         => state[d].announced
    BY <1>1 DEF StreamInv, Registered
  <2>1. CASE d # c
    BY <1>0, <1>1, <2>1 DEF StreamInv, Loading
  <2>2. CASE d = c
    <3>1. ~Creating(c) /\ Loading(c)
      BY <1>0, <2>2 DEF CallInv, Starting, Creating, Loading
    <3>2. child[c].os = "running" /\ state[c].status = "alive" /\ state[c].cursor = "open"
      BY <1>0, <2>2, <3>1 DEF RunningInv, StreamInv
    <3> QED
      BY <1>0, <1>1, <2>2, <3>1, <3>2 DEF StreamInv, Loading, Creating
  <2> QED
    BY <2>1, <2>2
<1> QED
  BY <1>2, <1>3, <1>4, <1>5, <1>6, <1>7, TypesAre DEF ManagerInv

\* The child answers initialize or session/load, or createSession fails.
LEMMA AnswerSteps ==
    ASSUME ManagerInv, NEW c \in Children,
           InitializeAnswered(c) \/ LoadAnswered(c) \/ CreateFails(c)
    PROVE  ManagerInv'
<1>1. child \in [Children -> ChildType] /\ child[c] \in ChildType /\ CallInv /\ RunningInv
  BY TypesAre DEF ManagerInv, Typed
<1>2. CASE InitializeAnswered(c)
  <2>1. PICK call \in {"new.open", "load.open"} :
           /\ child' = [child EXCEPT ![c] = [child[c] EXCEPT !.call = call]]
           /\ \/ Creating(c) /\ call = "new.open"
              \/ Loading(c) /\ call = "load.open"
           /\ child[c].call \in Starting
    BY <1>1, <1>2 DEF InitializeAnswered, Creating, Loading, Starting
  <2>2. LET p == [child[c] EXCEPT !.call = call] IN
        /\ p \in ChildType /\ p.session = child[c].session /\ p.os = child[c].os /\ p.call = call
    BY <1>1, <2>1 DEF ChildType, Starting
  <2> QED
    BY <1>2, <2>1, <2>2, AnswerStep DEF InitializeAnswered
<1>3. CASE LoadAnswered(c)
  <2>1. /\ child' = [child EXCEPT ![c] = [child[c] EXCEPT !.call = "ready"]]
        /\ Loading(c) /\ child[c].call \in Starting
    BY <1>1, <1>3 DEF LoadAnswered, Loading, Starting
  <2>2. LET p == [child[c] EXCEPT !.call = "ready"] IN
        /\ p \in ChildType /\ p.session = child[c].session /\ p.os = child[c].os /\ p.call = "ready"
    BY <1>1 DEF ChildType
  <2> QED
    BY <1>3, <2>1, <2>2, AnswerStep DEF LoadAnswered
<1>4. CASE CreateFails(c)
  <2> DEFINE q == [child[c] EXCEPT !.call = "failed"]
  <2>1. child' = [child EXCEPT ![c] = End(q)] /\ Creating(c) /\ child[c].call \in Starting
    BY <1>1, <1>4 DEF CreateFails, Creating, Starting
  <2>2. /\ q \in ChildType /\ q.session = child[c].session /\ q.os = child[c].os
        /\ q.call = "failed"
    BY <1>1 DEF ChildType
  <2>3. child[c].os \in {"running", "ending"}
    BY <1>1, <2>1 DEF CallInv
  <2> HIDE DEF q
  <2>4. /\ End(q) \in ChildType /\ End(q).session = child[c].session
        /\ End(q).os = "ending" /\ End(q).call = "failed"
    BY <2>2, <2>3, EndTypes
  <2> QED
    BY <1>4, <2>1, <2>4, AnswerStep DEF CreateFails
<1> QED
  BY <1>2, <1>3, <1>4

\* The entry of a session is that of one of its processes, if any.
LEMMA Entries ==
    ASSUME Typed, EntryInv, NEW id \in Ids, entry[id] # 0
    PROVE  entry[id] \in Children /\ child[entry[id]].session = id
BY DEF Typed, Children, EntryInv

\* A registered process has a session.
LEMMA SessionOf ==
    ASSUME Typed, CallInv, NEW c \in Children, Registered(c)
    PROVE  child[c].session \in Ids
BY DEF Typed, CallInv, ChildType

\* The child names the session it has created, which no process had before.
LEMMA NewStep ==
    ASSUME ManagerInv, NEW c \in Children, NEW id \in Ids, NewAnswered(c, id)
    PROVE  ManagerInv'
<1> DEFINE p == [child[c] EXCEPT !.call = "ready", !.session = id]
<1>0. /\ Typed /\ FreshInv /\ CallInv /\ EntryInv /\ RunningInv /\ StreamInv
      /\ UNCHANGED <<grace, phase, stray, spawned, closing>>
      /\ child[c].call = "new.open" /\ child[c].os # "gone"
      /\ \A d \in Children : child[d].session # id
      /\ state' = [state EXCEPT ![c] = Register(c)]
      /\ entry' = [entry EXCEPT ![id] = c]
  BY TypesAre DEF ManagerInv, NewAnswered
<1>1. child' = [child EXCEPT ![c] = p] /\ p \in ChildType
      /\ p.session = id /\ p.call = "ready" /\ p.os = child[c].os
  BY <1>0 DEF NewAnswered, Typed, ChildType
<1> HIDE DEF p
<1>2. /\ child' \in [Children -> ChildType]
      /\ child'[c] = p
      /\ \A d \in Children : d # c => child'[d] = child[d]
      /\ ~(c > spawned)
  BY <1>0, <1>1, OneChild
<1>3. /\ \A d \in Children : d # c => state'[d] = state[d]
      /\ Whole(state'[c]) /\ state'[c].status = "alive" /\ state'[c].cursor = "open"
      /\ state' \in [Children -> StateType]
  BY <1>0, FreshState DEF Typed, Whole
<1>4. /\ entry' \in [Ids -> 0..MaxChildren] /\ entry'[id] = c
      /\ \A i \in Ids \ {id} : entry'[i] = entry[i]
      /\ id # NoId
  BY <1>0, ManagerAssumption DEF Typed, Children, NoId
<1>5. Typed'
  BY <1>0, <1>2, <1>3, <1>4 DEF Typed
<1>6. FreshInv'
  BY <1>0, <1>2, <1>3 DEF FreshInv
<1>7. child[c].os \in {"running", "ending"} /\ Creating(c)
  BY <1>0 DEF CallInv, Starting, Creating
<1>8. CallInv'
  BY <1>0, <1>1, <1>2, <1>3, <1>4, <1>7 DEF CallInv, Registered, Loading, Creating, Starting
<1>9. EntryInv'
  <2> SUFFICES ASSUME NEW i \in Ids, entry'[i] # 0 PROVE child'[entry'[i]].session = i
    BY DEF EntryInv
  <2>1. CASE i = id
    BY <1>1, <1>2, <1>4, <2>1
  <2>2. CASE i # id
    <3>1. entry'[i] = entry[i] /\ entry[i] \in Children /\ child[entry[i]].session = i
      BY <1>0, <1>4, <2>2, Entries
    <3>2. entry[i] # c
      BY <1>0, <1>7, <3>1, ManagerAssumption DEF CallInv, NoId
    <3> QED
      BY <1>2, <3>1, <3>2
  <2> QED
    BY <2>1, <2>2
<1>10. RunningInv'
  BY <1>0, <1>1, <1>2, <1>3 DEF RunningInv, Registered, Loading
<1>11. StreamInv'
  <2> SUFFICES ASSUME phase = "up", NEW d \in Children, Registered(d)',
                      child'[d].session \notin stray
               PROVE  /\ child'[d].os = "running" \/ state'[d].cursor = "open"
                            => entry'[child'[d].session] = d
                      /\ Loading(d)' => state'[d].cursor = "open"
                      /\ child'[d].call = "ready"
                            /\ (state'[d].status = "terminated" \/ state'[d].cursor = "closed")
                         => state'[d].announced
    BY <1>0 DEF StreamInv
  <2>1. CASE d = c
    BY <1>1, <1>2, <1>3, <1>4, <2>1 DEF Loading
  <2>2. CASE d # c
    <3>1. child'[d] = child[d] /\ state'[d] = state[d] /\ Registered(d)
      BY <1>2, <1>3, <2>2 DEF Registered
    <3>2. child[d].session \in Ids \ {id}
      BY <1>0, <3>1, SessionOf
    <3> QED
      BY <1>0, <1>4, <3>1, <3>2 DEF StreamInv, Loading
  <2> QED
    BY <2>1, <2>2
<1> QED
  BY <1>5, <1>6, <1>8, <1>9, <1>10, <1>11, TypesAre DEF ManagerInv

-----------------------------------------------------------------------------
(* Ends of a load and of a process.                                        *)

\* cleanup, of a load that fails or whose process exits: the stream of its own
\* process ends, and the entry of its session is gone whoever it was of.
LEMMA CleanUpStep ==
    ASSUME ManagerInv, NEW c \in Children, Loading(c),
           NEW p \in ChildType, child' = [child EXCEPT ![c] = p],
           p.session = child[c].session, p.call = "failed", p.os \in {"ending", "gone"},
           NEW s \in StateType, state' = [state EXCEPT ![c] = s],
           s.status = "terminated", s.cursor = "closed",
           CleanUp(child[c].session, c),
           closing' \in SUBSET Children,
           UNCHANGED <<phase, spawned>>
    PROVE  ManagerInv'
<1> DEFINE id == child[c].session
<1>0. /\ Typed /\ FreshInv /\ CallInv /\ EntryInv /\ RunningInv /\ StreamInv
  BY TypesAre DEF ManagerInv
<1>1. Registered(c) /\ id \in Ids /\ child[c].call \in Starting
  <2>1. Registered(c)
    BY <1>0 DEF CallInv
  <2> QED
    BY <1>0, <2>1, SessionOf DEF Loading, Starting
<1>2. /\ child' \in [Children -> ChildType]
      /\ child'[c] = p
      /\ \A d \in Children : d # c => child'[d] = child[d]
      /\ ~(c > spawned)
  BY <1>1, OneChild DEF Starting
<1>3. /\ state' \in [Children -> StateType]
      /\ state'[c] = s
      /\ \A d \in Children : d # c => state'[d] = state[d]
  BY <1>0 DEF Typed
<1>4. /\ entry' = [entry EXCEPT ![id] = 0] /\ grace' = [grace EXCEPT ![id] = "none"]
      /\ stray \subseteq stray' /\ stray' \in SUBSET Ids
      /\ id \notin stray' => entry[id] \in {0, c}
  BY <1>0, <1>1 DEF CleanUp, Typed
<1>5. /\ entry' \in [Ids -> 0..MaxChildren] /\ entry'[id] = 0
      /\ \A i \in Ids \ {id} : entry'[i] = entry[i]
      /\ grace' \in [Ids -> {"none", "due", "never"}]
  BY <1>0, <1>1, <1>4, ManagerAssumption DEF Typed
<1> HIDE DEF id
<1>6. Typed'
  BY <1>0, <1>2, <1>3, <1>4, <1>5 DEF Typed, Whole
<1>7. FreshInv'
  BY <1>0, <1>2, <1>3 DEF FreshInv
<1>8. CallInv'
  BY <1>0, <1>1, <1>2, <1>3 DEF CallInv, Registered, Loading, Creating, Starting
<1>9. EntryInv'
  <2> SUFFICES ASSUME NEW i \in Ids, entry'[i] # 0 PROVE child'[entry'[i]].session = i
    BY DEF EntryInv
  <2>1. entry'[i] = entry[i] /\ entry[i] \in Children /\ child[entry[i]].session = i
    BY <1>0, <1>5, Entries
  <2> QED
    BY <1>2, <2>1
<1>10. RunningInv'
  BY <1>0, <1>2, <1>3 DEF RunningInv, Registered, Loading
<1>11. StreamInv'
  <2> SUFFICES ASSUME phase = "up", NEW d \in Children, Registered(d)',
                      child'[d].session \notin stray'
               PROVE  /\ child'[d].os = "running" \/ state'[d].cursor = "open"
                            => entry'[child'[d].session] = d
                      /\ Loading(d)' => state'[d].cursor = "open"
                      /\ child'[d].call = "ready"
                            /\ (state'[d].status = "terminated" \/ state'[d].cursor = "closed")
                         => state'[d].announced
    BY DEF StreamInv
  <2>1. CASE d = c
    BY <1>2, <1>3, <2>1 DEF Loading
  <2>2. CASE d # c
    <3>1. child'[d] = child[d] /\ state'[d] = state[d] /\ Registered(d)
      BY <1>2, <1>3, <2>2 DEF Registered
    <3>2. child[d].session \in Ids /\ child[d].session \notin stray
      BY <1>0, <1>4, <3>1, SessionOf
    <3>3. entry[child[d].session] = d => child[d].session # id
      <4> SUFFICES ASSUME entry[id] = d, child[d].session = id PROVE FALSE
        OBVIOUS
      <4>1. d # 0
        BY DEF Children
      <4> QED
        BY <1>4, <2>2, <3>1, <4>1
    <3> QED
      BY <1>0, <1>5, <3>1, <3>2, <3>3 DEF StreamInv, Loading
  <2> QED
    BY <2>1, <2>2
<1> QED
  BY <1>6, <1>7, <1>8, <1>9, <1>10, <1>11, TypesAre DEF ManagerInv

\* A load fails.
LEMMA LoadFailsStep == ASSUME ManagerInv, NEW c \in Children, LoadFails(c) PROVE ManagerInv'
<1> DEFINE q == [child[c] EXCEPT !.call = "failed"]
<1>1. Typed /\ CallInv /\ Loading(c) /\ Registered(c) /\ child[c].os \in {"running", "ending"}
  BY TypesAre DEF ManagerInv, LoadFails, CallInv, Loading, Starting
<1>2. child' = [child EXCEPT ![c] = End(q)] /\ state' = [state EXCEPT ![c] = Ended(state[c])]
      /\ CleanUp(child[c].session, c) /\ UNCHANGED <<phase, spawned, closing>>
  BY <1>1 DEF LoadFails, Typed
<1>3. q \in ChildType /\ q.session = child[c].session /\ q.call = "failed" /\ q.os = child[c].os
  BY <1>1 DEF Typed, ChildType
<1> HIDE DEF q
<1>4. /\ End(q) \in ChildType /\ End(q).session = child[c].session /\ End(q).call = "failed"
      /\ End(q).os = "ending"
  BY <1>1, <1>3, EndTypes
<1>5. /\ Ended(state[c]) \in StateType /\ Ended(state[c]).status = "terminated"
      /\ Ended(state[c]).cursor = "closed"
  BY <1>1, StateTypes DEF Typed
<1>6. closing' \in SUBSET Children
  BY <1>1, <1>2 DEF Typed
<1> QED
  BY <1>1, <1>2, <1>4, <1>5, <1>6, CleanUpStep

\* A process exits.
LEMMA ExitStep == ASSUME ManagerInv, NEW c \in Children, ChildExits(c) PROVE ManagerInv'
<1> DEFINE p == [child[c] EXCEPT !.os = "gone",
                                 !.call = IF @ \in Starting THEN "failed" ELSE @]
           id == child[c].session
<1>0. /\ Typed /\ FreshInv /\ CallInv /\ EntryInv /\ RunningInv /\ StreamInv
  BY TypesAre DEF ManagerInv
<1>1. /\ child' = [child EXCEPT ![c] = p] /\ closing' = closing \ {c}
      /\ UNCHANGED <<phase, spawned>> /\ child[c].os \in {"running", "ending"}
  BY <1>0 DEF ChildExits, Typed
<1>2. /\ p \in ChildType /\ p.session = id /\ p.os = "gone"
      /\ p.call = (IF child[c].call \in Starting THEN "failed" ELSE child[c].call)
      /\ child[c] \in ChildType
  BY <1>0 DEF Typed, ChildType
<1> HIDE DEF p
<1>3. closing' \in SUBSET Children /\ child[c].call # "none"
  BY <1>0, <1>1 DEF Typed, CallInv
<1>4. /\ child' \in [Children -> ChildType]
      /\ child'[c] = p
      /\ \A d \in Children : d # c => child'[d] = child[d]
      /\ ~(c > spawned)
  BY <1>1, <1>2, <1>3, OneChild
<1>5. CASE Loading(c)
  <2> DEFINE s == Ended(ExitListener(state[c]))
  <2>1. Registered(c) /\ state' = [state EXCEPT ![c] = s] /\ CleanUp(id, c)
    BY <1>0, <1>5 DEF ChildExits, CallInv, Typed
  <2>2. Whole(ExitListener(state[c]))
    BY <1>0, <2>1, StateTypes DEF Typed, Registered
  <2>3. s \in StateType /\ s.status = "terminated" /\ s.cursor = "closed"
    BY <2>2, StateTypes
  <2>4. p.call = "failed"
    BY <1>2, <1>5 DEF Loading, Starting
  <2> QED
    BY <1>1, <1>2, <1>3, <1>5, <2>1, <2>3, <2>4, CleanUpStep
<1>6. CASE ~Loading(c)
  <2> DEFINE s == IF Registered(c) THEN ExitListener(state[c]) ELSE state[c]
  <2>1. /\ state' = [state EXCEPT ![c] = s]
        /\ UNCHANGED <<entry, stray>>
        /\ grace' \in [Ids -> {"none", "due", "never"}]
    <3>1. CASE Registered(c)
      <4>1. grace' = [grace EXCEPT ![id] = Scheduled(@)] /\ UNCHANGED <<entry, stray>>
            /\ state' = [state EXCEPT ![c] = s]
        BY <1>0, <1>6, <3>1 DEF ChildExits, Typed
      <4>2. Scheduled(grace[id]) \in {"none", "due", "never"}
        BY <1>0, <3>1, SessionOf DEF Typed, Scheduled
      <4> QED
        BY <1>0, <4>1, <4>2 DEF Typed
    <3>2. CASE ~Registered(c)
      BY <1>0, <1>6, <3>2 DEF ChildExits, Typed
    <3> QED
      BY <3>1, <3>2
  <2>2. /\ s \in StateType /\ Whole(s) /\ (s.status # "none" <=> Registered(c))
        /\ s.cursor = state[c].cursor /\ s.status # "alive"
        /\ s.announced = (state[c].announced \/ (Registered(c) /\ state[c].cursor = "open"))
    <3>1. CASE Registered(c)
      BY <1>0, <3>1, StateTypes DEF Typed, Registered
    <3>2. CASE ~Registered(c)
      BY <1>0, <3>2 DEF Typed, Registered, Whole, StateType
    <3> QED
      BY <3>1, <3>2
  <2> HIDE DEF s
  <2>3. /\ state' \in [Children -> StateType]
        /\ state'[c] = s
        /\ \A d \in Children : d # c => state'[d] = state[d]
    BY <1>0, <2>1, <2>2 DEF Typed
  <2>4. Typed'
    BY <1>0, <1>1, <1>3, <1>4, <2>1, <2>2, <2>3 DEF Typed
  <2>5. FreshInv'
    BY <1>0, <1>1, <1>4, <2>3 DEF FreshInv
  <2>6. CallInv'
    BY <1>0, <1>2, <1>3, <1>4, <1>6, <2>2, <2>3
    DEF CallInv, Registered, Loading, Creating, Starting
  <2>7. EntryInv'
    <3> SUFFICES ASSUME NEW i \in Ids, entry[i] # 0 PROVE child'[entry[i]].session = i
      BY <2>1 DEF EntryInv
    <3> QED
      BY <1>0, <1>2, <1>4, Entries
  <2>8. RunningInv'
    BY <1>0, <1>1, <1>2, <1>4, <1>6, <2>2, <2>3 DEF RunningInv, Registered, Loading, Starting
  <2>9. StreamInv'
    <3> SUFFICES ASSUME phase = "up", NEW d \in Children, Registered(d)',
                        child'[d].session \notin stray
                 PROVE  /\ child'[d].os = "running" \/ state'[d].cursor = "open"
                              => entry[child'[d].session] = d
                        /\ Loading(d)' => state'[d].cursor = "open"
                        /\ child'[d].call = "ready"
                              /\ (state'[d].status = "terminated" \/ state'[d].cursor = "closed")
                           => state'[d].announced
      BY <1>1, <2>1 DEF StreamInv
    <3>1. CASE d = c
      <4>1. Registered(c) /\ child[c].session \notin stray /\ ~Loading(c)'
        BY <1>2, <1>4, <1>6, <2>2, <2>3, <3>1 DEF Registered, Loading, Starting
      <4>2. /\ state[c].cursor = "open" => entry[id] = c
            /\ child[c].call = "ready" /\ state[c].cursor = "closed" => state[c].announced
        BY <1>0, <4>1 DEF StreamInv
      <4>3. state[c].cursor \in {"open", "closed"}
        BY <1>0, <4>1 DEF Typed, Whole, StateType, Registered
      <4> QED
        BY <1>2, <1>4, <2>2, <2>3, <3>1, <4>1, <4>2, <4>3
    <3>2. CASE d # c
      BY <1>0, <1>4, <2>3, <3>2 DEF StreamInv, Registered, Loading
    <3> QED
      BY <3>1, <3>2
  <2> QED
    BY <2>4, <2>5, <2>6, <2>7, <2>8, <2>9, TypesAre DEF ManagerInv
<1> QED
  BY <1>5, <1>6

-----------------------------------------------------------------------------
(* The grace timer and the shutdown.                                       *)

\* The timer takes the entry of a session; if that is not of a process that has
\* exited, the session is counted as taken.
LEMMA GraceStep == ASSUME ManagerInv, NEW id \in Ids, GraceFires(id) PROVE ManagerInv'
<1> DEFINE e == entry[id]
<1>0. /\ Typed /\ FreshInv /\ CallInv /\ EntryInv /\ RunningInv /\ StreamInv
      /\ UNCHANGED <<child, phase, spawned, closing>>
  BY TypesAre DEF ManagerInv, GraceFires
<1>1. /\ grace' = [grace EXCEPT ![id] = "none"] /\ entry' = [entry EXCEPT ![id] = 0]
      /\ state' = [c \in Children |-> IF c = e THEN [state[c] EXCEPT !.cursor = "closed"]
                                      ELSE state[c]]
      /\ stray' = IF Alive(id) THEN stray \cup {id} ELSE stray
  BY DEF GraceFires
<1>2. e \in Children => Registered(e) /\ child[e].session = id /\ e # 0
  BY <1>0, ManagerAssumption DEF EntryInv, CallInv, Children, NoId
<1>3. /\ \A d \in Children : d # e => state'[d] = state[d]
      /\ e \in Children => state'[e] = [state[e] EXCEPT !.cursor = "closed"]
  BY <1>1
<1>4. e \in Children /\ ~Alive(id) => state[e].status = "terminated"
  BY <1>0, <1>2 DEF Alive, Typed, StateType, Registered
<1> HIDE DEF e
<1>5. e \in Children => /\ Whole(state'[e]) /\ state'[e] \in StateType
                        /\ state'[e].status = state[e].status
                        /\ state'[e].cursor = "closed"
                        /\ state'[e].announced = state[e].announced
  <2> SUFFICES ASSUME e \in Children
               PROVE  /\ Whole(state'[e]) /\ state'[e] \in StateType
                      /\ state'[e].status = state[e].status
                      /\ state'[e].cursor = "closed"
                      /\ state'[e].announced = state[e].announced
    OBVIOUS
  <2>1. Whole(state[e]) /\ state[e].status # "none" /\ state[e] \in StateType
    BY <1>0, <1>2 DEF Typed, Registered
  <2>2. \A s \in StateType : Whole(s) /\ s.status # "none" =>
           LET r == [s EXCEPT !.cursor = "closed"] IN
           /\ Whole(r) /\ r \in StateType
           /\ r.status = s.status
           /\ r.cursor = "closed"
           /\ r.announced = s.announced
    BY DEF StateType, Whole
  <2>3. state'[e] = [state[e] EXCEPT !.cursor = "closed"]
    BY <1>3
  <2> QED
    BY <2>1, <2>2, <2>3
<1>6. /\ entry' \in [Ids -> 0..MaxChildren] /\ entry'[id] = 0
      /\ \A i \in Ids \ {id} : entry'[i] = entry[i]
      /\ grace' \in [Ids -> {"none", "due", "never"}]
      /\ stray \subseteq stray' /\ stray' \in SUBSET Ids
      /\ id \notin stray' => ~Alive(id)
  BY <1>0, <1>1, ManagerAssumption DEF Typed
<1>7. Typed'
  <2>1. ASSUME NEW d \in Children PROVE state'[d] \in StateType /\ Whole(state'[d])
    BY <1>0, <1>3, <1>5 DEF Typed
  <2>2. state' \in [Children -> StateType]
    BY <1>1, <2>1
  <2> QED
    BY <1>0, <1>6, <2>1, <2>2 DEF Typed
<1>8. FreshInv'
  <2>1. e \in Children => ~(e > spawned)
    BY <1>0, <1>2 DEF FreshInv, NoState, Registered
  <2> QED
    BY <1>0, <1>3, <2>1 DEF FreshInv
<1>9. \A d \in Children : state'[d].status = state[d].status
  BY <1>3, <1>5
<1>10. CallInv'
  BY <1>0, <1>9 DEF CallInv, Registered, Loading, Creating
<1>11. EntryInv'
  BY <1>0, <1>6, Entries DEF EntryInv
<1>12. RunningInv'
  BY <1>0, <1>9 DEF RunningInv, Registered, Loading
<1>13. StreamInv'
  <2> SUFFICES ASSUME phase = "up", NEW d \in Children, Registered(d),
                      child[d].session \notin stray'
               PROVE  /\ child[d].os = "running" \/ state'[d].cursor = "open"
                            => entry'[child[d].session] = d
                      /\ Loading(d) => state'[d].cursor = "open"
                      /\ child[d].call = "ready"
                            /\ (state'[d].status = "terminated" \/ state'[d].cursor = "closed")
                         => state'[d].announced
    BY <1>0, <1>9 DEF StreamInv, Registered, Loading
  <2>1. CASE d = e
    <3>1. child[d].session = id /\ ~Alive(id) /\ state[d].status = "terminated"
      BY <1>2, <1>4, <1>6, <2>1
    <3>2. child[d].os # "running" /\ ~Loading(d)
      BY <1>0, <3>1 DEF RunningInv
    <3>3. child[d].call = "ready" => state[d].announced
      BY <1>0, <1>6, <3>1 DEF StreamInv
    <3> QED
      BY <1>5, <2>1, <3>2, <3>3
  <2>2. CASE d # e
    <3>1. state'[d] = state[d]
      BY <1>3, <2>2
    <3>2. child[d].session \in Ids /\ child[d].session \notin stray
      BY <1>0, <1>6, SessionOf
    <3>3. entry[child[d].session] = d => child[d].session # id
      BY <2>2 DEF e
    <3> QED
      BY <1>0, <1>6, <3>1, <3>2, <3>3 DEF StreamInv
  <2> QED
    BY <2>1, <2>2
<1> QED
  BY <1>7, <1>8, <1>10, <1>11, <1>12, <1>13, TypesAre DEF ManagerInv

\* terminateAll ends every process of the registry and empties it.
LEMMA ShutdownStep == ASSUME ManagerInv, Shutdown PROVE ManagerInv'
<1>0. /\ Typed /\ FreshInv /\ CallInv /\ EntryInv
      /\ phase' = "closing" /\ UNCHANGED <<stray, spawned>>
      /\ entry' = [id \in Ids |-> 0]
      /\ grace' = [id \in Ids |-> IF entry[id] = 0 THEN grace[id] ELSE "none"]
      /\ state' = [c \in Children |-> IF c \in Tracked THEN Ended(state[c]) ELSE state[c]]
      /\ child' = [c \in Children |-> IF c \in Tracked THEN End(child[c]) ELSE child[c]]
      /\ closing' = {c \in Tracked : child[c].os # "gone"}
  BY TypesAre DEF ManagerInv, Shutdown
<1>1. ASSUME NEW c \in Tracked PROVE c \in Children /\ Registered(c)
  <2>1. PICK id \in Ids : c = entry[id] /\ c # 0
    BY <1>1 DEF Tracked
  <2>2. c \in Children /\ child[c].session = id
    BY <1>0, <2>1, Entries
  <2> QED
    BY <1>0, <2>2, ManagerAssumption DEF CallInv, NoId
<1>2. ASSUME NEW c \in Children
      PROVE  /\ child'[c] \in ChildType /\ child'[c].session = child[c].session
             /\ child'[c].call = child[c].call
             /\ child'[c].os = child[c].os \/ (child[c].os = "running" /\ child'[c].os = "ending")
             /\ state'[c] \in StateType /\ Whole(state'[c])
             /\ state'[c] = state[c] \/ (Registered(c) /\ state'[c].status = "terminated")
             /\ c > spawned => child'[c] = child[c] /\ state'[c] = state[c]
  <2>1. Whole(state[c]) /\ state[c] \in StateType /\ child[c] \in ChildType
    BY <1>0 DEF Typed
  <2>2. CASE c \in Tracked
    <3>1. child'[c] = End(child[c]) /\ state'[c] = Ended(state[c]) /\ Registered(c)
      BY <1>0, <1>1, <2>2
    <3>2. ~(c > spawned)
      BY <1>0, <3>1 DEF FreshInv, NoState, Registered
    <3>3. state[c].status # "none"
      BY <3>1 DEF Registered
    <3>4. Whole(Ended(state[c])) /\ Ended(state[c]) \in StateType /\ Ended(state[c]).status = "terminated"
      BY <2>1, <3>3, StateTypes
    <3>5. /\ child'[c] \in ChildType
          /\ child'[c].session = child[c].session
          /\ child'[c].call = child[c].call
          /\ child'[c].os = child[c].os \/ (child[c].os = "running" /\ child'[c].os = "ending")
      <4>1. CASE child[c].os = "running"
        <5>1. child'[c] = [child[c] EXCEPT !.os = "ending"]
          BY <3>1, <4>1 DEF End
        <5>2. \A p \in ChildType : LET r == [p EXCEPT !.os = "ending"] IN
                 r \in ChildType /\ r.session = p.session /\ r.call = p.call /\ r.os = "ending"
          BY DEF ChildType
        <5> QED
          BY <2>1, <4>1, <5>1, <5>2
      <4>2. CASE child[c].os # "running"
        BY <2>1, <3>1, <4>2 DEF End
      <4> QED
        BY <4>1, <4>2
    <3> QED
      BY <3>1, <3>2, <3>4, <3>5
  <2>3. CASE c \notin Tracked
    BY <1>0, <2>1, <2>3
  <2> QED
    BY <2>2, <2>3
<1>3. Typed'
  <2>1. child' \in [Children -> ChildType] /\ state' \in [Children -> StateType]
    BY <1>0, <1>2
  <2>2. entry' \in [Ids -> 0..MaxChildren] /\ grace' \in [Ids -> {"none", "due", "never"}]
    BY <1>0, ManagerAssumption DEF Typed
  <2>3. closing' \in SUBSET Children
    BY <1>0, <1>1
  <2> QED
    BY <1>0, <1>2, <2>1, <2>2, <2>3 DEF Typed
<1>4. FreshInv'
  BY <1>0, <1>2 DEF FreshInv
<1>5. CallInv'
  BY <1>0, <1>2 DEF CallInv, Registered, Loading, Creating, Starting
<1>6. EntryInv'
  BY <1>0 DEF EntryInv
<1>7. RunningInv' /\ StreamInv'
  BY <1>0 DEF RunningInv, StreamInv
<1> QED
  BY <1>3, <1>4, <1>5, <1>6, <1>7, TypesAre DEF ManagerInv

-----------------------------------------------------------------------------
(* The theorems.                                                           *)

\* The daemon that is gone has nothing left to keep.
LEMMA GoneStep ==
    ASSUME ManagerInv, phase' \in {"gone", "forced"},
           UNCHANGED <<child, state, entry, grace, stray, spawned, closing>>
    PROVE  ManagerInv'
<1>0. Typed /\ FreshInv /\ CallInv /\ EntryInv
  BY TypesAre DEF ManagerInv
<1>1. Typed' /\ FreshInv' /\ EntryInv'
  BY <1>0 DEF Typed, FreshInv, EntryInv
<1>2. CallInv'
  BY <1>0 DEF CallInv, Registered, Loading, Creating
<1>3. RunningInv' /\ StreamInv'
  BY DEF RunningInv, StreamInv
<1> QED
  BY <1>1, <1>2, <1>3, TypesAre DEF ManagerInv

\* Nothing changes.
LEMMA ManagerStutter == ASSUME ManagerInv, UNCHANGED vars PROVE ManagerInv'
<1>0. /\ Typed /\ FreshInv /\ CallInv /\ EntryInv /\ RunningInv /\ StreamInv
      /\ UNCHANGED <<child, state, entry, grace, phase, stray, spawned, closing>>
  BY TypesAre DEF ManagerInv, vars
<1>1. Typed' /\ FreshInv' /\ EntryInv'
  BY <1>0 DEF Typed, FreshInv, EntryInv
<1>2. CallInv'
  BY <1>0 DEF CallInv, Registered, Loading, Creating
<1>3. RunningInv'
  BY <1>0 DEF RunningInv, Registered, Loading
<1>4. StreamInv'
  BY <1>0 DEF StreamInv, Registered, Loading
<1> QED
  BY <1>1, <1>2, <1>3, <1>4, TypesAre DEF ManagerInv

\* Every step of the daemon preserves the invariant.
LEMMA ManagerInvariant == Spec => []ManagerInv
<1>1. ASSUME ManagerInv, [Next]_vars PROVE ManagerInv'
  <2>1. CASE CreateSession
    BY <1>1, <2>1, CreateStep
  <2>2. CASE \E id \in Ids : LoadSession(id) \/ GraceFires(id)
    BY <1>1, <2>2, LoadStep, GraceStep
  <2>3. ASSUME NEW c \in Children, ChildStep(c) PROVE ManagerInv'
    BY <1>1, <2>3, AnswerSteps, NewStep, LoadFailsStep DEF ChildStep
  <2>4. ASSUME NEW c \in Children, ChildExits(c) PROVE ManagerInv'
    BY <1>1, <2>4, ExitStep
  <2>5. CASE Shutdown
    BY <1>1, <2>5, ShutdownStep
  <2>6. CASE Exit \/ ForceExit
    BY <1>1, <2>6, GoneStep DEF Exit, ForceExit
  <2>7. CASE UNCHANGED vars
    BY <1>1, <2>7, ManagerStutter
  <2> QED
    BY <1>1, <2>1, <2>2, <2>3, <2>4, <2>5, <2>6, <2>7 DEF Next
<1> QED
  BY <1>1, ManagerInit, PTL DEF Spec

\* The registry holds what its declarations say: sessions maps ids to the
\* SessionStates of spawned processes, and each of these has a cursor.
THEOREM RegistryTypes == Spec => []TypeOK
<1>1. ManagerInv => TypeOK
  BY DEF ManagerInv
<1> QED
  BY <1>1, ManagerInvariant, PTL

\* getSession answers with a process that has not exited and that is the one of
\* the session asked for: the exit listener marks the state in the same job in which
\* the process is seen to be gone, whatever order exits, timers and loads come in.
THEOREM RoutesLive == Spec => []RoutesToLiveChild
<1>1. ManagerInv => RoutesToLiveChild
  <2> SUFFICES ASSUME ManagerInv, NEW id \in Ids, Alive(id)
               PROVE  child[entry[id]].os # "gone" /\ child[entry[id]].session = id
    BY DEF RoutesToLiveChild
  <2>1. entry[id] \in Children /\ child[entry[id]].session = id
    BY TypesAre, Entries DEF ManagerInv, Alive
  <2>2. child[entry[id]].os \in {"running", "ending"}
    BY <2>1 DEF ManagerInv, CallInv, Alive
  <2> QED
    BY <2>1, <2>2
<1> QED
  BY <1>1, ManagerInvariant, PTL

\* While the daemon is up no session has two running processes, unless its entry was
\* taken by a timer or a cleanup that was meant for an earlier process: loadSession
\* spawns only when the registry has nothing alive, and what runs is in the registry.
THEOREM OneProcess == Spec => []OneProcessPerSession
<1>1. ManagerInv => OneProcessPerSession
  <2> SUFFICES ASSUME ManagerInv, phase = "up", NEW c \in Children, NEW d \in Children,
                      c # d, child[c].session \notin stray \cup {NoId},
                      child[c].session = child[d].session,
                      child[c].os = "running", child[d].os = "running"
               PROVE  FALSE
    BY DEF OneProcessPerSession
  <2>1. Registered(c) /\ Registered(d)
    BY DEF ManagerInv, CallInv
  <2>2. entry[child[c].session] = c /\ entry[child[d].session] = d
    BY <2>1 DEF ManagerInv, StreamInv
  <2> QED
    BY <2>2
<1> QED
  BY <1>1, ManagerInvariant, PTL

\* While the daemon is up an open event stream is the one of the process in the
\* registry, and the stream of a session that was opened is not closed before the
\* event that says the process ended, with the same exception.
THEOREM StreamsEnd == Spec => []EveryStreamIsEnded
<1>1. ManagerInv => EveryStreamIsEnded
  BY DEF ManagerInv, StreamInv, EveryStreamIsEnded
<1> QED
  BY <1>1, ManagerInvariant, PTL
=============================================================================
