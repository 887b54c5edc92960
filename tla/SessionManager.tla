---------------------------- MODULE SessionManager ----------------------------
(***************************************************************************)
(* The daemon's registry of sessions                                       *)
(* (apps/acp-daemon/src/session-manager.ts) with the calls server.ts makes *)
(* on it and the shutdown of main.ts.                                      *)
(*                                                                         *)
(* child   the acp-server processes spawned so far, in spawn order, each   *)
(*         with the createSession or loadSession call that spawned it      *)
(* state   the SessionState of each child once it is registered            *)
(* entry   the registry: the child a session id maps to, 0 for none        *)
(* grace   graceCancels: is a grace timer set for the session id?          *)
(* phase   is the daemon up, waiting in terminateAll, or gone, orderly or  *)
(*         by force?                                                       *)
(* stray   history: the ids whose entry was taken from a process that it   *)
(*         is not the end of, by a stale timer or by another load's cleanup*)
(*                                                                         *)
(* A JavaScript job with its microtasks is one step: only the answers of a *)
(* child, its exit, timers and HTTP requests are interleaved.  The frames  *)
(* on a child's pipes and the writes to it are ChildHandle's; what a       *)
(* cursor keeps of the events is SessionCursor's.                          *)
(***************************************************************************)
EXTENDS Naturals, FiniteSets

CONSTANTS
    Ids,         \* session ids
    MaxChildren  \* bound: processes the daemon spawns

ASSUME ManagerAssumption ==
    /\ MaxChildren \in Nat
    /\ 0 \notin Ids

VARIABLES child, state, entry, grace, phase, stray,
          spawned,   \* number of processes spawned
          closing    \* the children terminateAll awaits

vars == <<child, state, entry, grace, phase, stray, spawned, closing>>

Children == 1..MaxChildren

\* No session id: a child that createSession has not named yet.
NoId == 0

NoChild == [session |-> NoId, call |-> "none", os |-> "none"]
NoState == [status |-> "none", cursor |-> "none", announced |-> FALSE]

\* createSession and loadSession await two answers, one after the other.
Starting == {"new.initialize", "new.open", "load.initialize", "load.open"}
Creating(c) == child[c].call \in {"new.initialize", "new.open"}
Loading(c)  == child[c].call \in {"load.initialize", "load.open"}

Alive(id) == entry[id] # 0 /\ state[entry[id]].status = "alive"
Registered(c) == state[c].status # "none"
-----------------------------------------------------------------------------
Init ==
    /\ child = [c \in Children |-> NoChild]
    /\ state = [c \in Children |-> NoState]
    /\ entry = [id \in Ids |-> 0]
    /\ grace = [id \in Ids |-> "none"]
    /\ phase = "up"
    /\ stray = {}
    /\ spawned = 0
    /\ closing = {}

\* registerSession: a fresh cursor, the listeners, the entry in the registry.
Register(c) == [NoState EXCEPT !.status = "alive", !.cursor = "open"]

\* terminate without the wait: the child's stdin is ended unless it has exited.
End(process) ==
    IF process.os = "running" THEN [process EXCEPT !.os = "ending"] ELSE process

\* What terminate and loadSession's cleanup make of a SessionState.
Ended(s) == [s EXCEPT !.status = "terminated", !.cursor = "closed"]

\* terminateAll is over: server.close follows in the same job.
AllEnded == phase = "closing" /\ closing = {}

Serving == phase \in {"up", "closing"} /\ ~AllEnded

Spawn(id, call) ==
    /\ spawned < MaxChildren
    /\ spawned' = spawned + 1
    /\ child' = [child EXCEPT ![spawned + 1] =
                    [session |-> id, call |-> call, os |-> "running"]]

CreateSession ==
    /\ Serving
    /\ Spawn(NoId, "new.initialize")
    /\ UNCHANGED <<state, entry, grace, phase, stray, closing>>

\* Mutant of LoadSession: the entry there is for the id is not looked at.
LoadSessionAnyway(id) ==
    /\ Serving
    /\ Spawn(id, "load.initialize")
    /\ state' = [state EXCEPT ![spawned + 1] = Register(spawned + 1)]
    /\ entry' = [entry EXCEPT ![id] = spawned + 1]
    /\ UNCHANGED <<grace, phase, stray, closing>>

\* loadSession of an id that is not alive: a terminated entry is terminated
\* first (its child has exited, so nothing is awaited), and the new child is
\* registered before it is asked anything.
LoadSession(id) ==
    /\ Serving
    /\ ~Alive(id)
    /\ Spawn(id, "load.initialize")
    /\ state' = [c \in Children |->
                    IF c = spawned + 1 THEN Register(c)
                    ELSE IF c = entry[id] THEN Ended(state[c])
                    ELSE state[c]]
    /\ entry' = [entry EXCEPT ![id] = spawned + 1]
    /\ grace' = [grace EXCEPT ![id] = IF entry[id] = 0 THEN @ ELSE "none"]
    /\ UNCHANGED <<phase, stray, closing>>

\* The child answers initialize; session/new or session/load is sent.
InitializeAnswered(c) ==
    /\ Serving
    /\ child[c].os # "gone"
    /\ \/ /\ child[c].call = "new.initialize"
          /\ child' = [child EXCEPT ![c].call = "new.open"]
       \/ /\ child[c].call = "load.initialize"
          /\ child' = [child EXCEPT ![c].call = "load.open"]
    /\ UNCHANGED <<state, entry, grace, phase, stray, spawned, closing>>

\* The child answers session/new: it names the session, which is registered.
NewAnswered(c, id) ==
    /\ Serving
    /\ child[c].os # "gone"
    /\ child[c].call = "new.open"
    /\ \A d \in Children : child[d].session # id
    /\ child' = [child EXCEPT ![c].call = "ready", ![c].session = id]
    /\ state' = [state EXCEPT ![c] = Register(c)]
    /\ entry' = [entry EXCEPT ![id] = c]
    /\ UNCHANGED <<grace, phase, stray, spawned, closing>>

LoadAnswered(c) ==
    /\ Serving
    /\ child[c].os # "gone"
    /\ child[c].call = "load.open"
    /\ child' = [child EXCEPT ![c].call = "ready"]
    /\ UNCHANGED <<state, entry, grace, phase, stray, spawned, closing>>

\* onFailure of createSession.
CreateFails(c) ==
    /\ Serving
    /\ child[c].os # "gone"
    /\ Creating(c)
    /\ child' = [child EXCEPT ![c] = End([@ EXCEPT !.call = "failed"])]
    /\ UNCHANGED <<state, entry, grace, phase, stray, spawned, closing>>

\* loadSession's cleanup deletes by id, whatever the registry holds by now.
CleanUp(id, c) ==
    /\ entry' = [entry EXCEPT ![id] = 0]
    /\ grace' = [grace EXCEPT ![id] = "none"]
    /\ stray' = IF entry[id] \in {0, c} THEN stray ELSE stray \cup {id}

\* The child answers initialize or session/load with an error.
LoadFails(c) ==
    /\ Serving
    /\ child[c].os # "gone"
    /\ Loading(c)
    /\ CleanUp(child[c].session, c)
    /\ state' = [state EXCEPT ![c] = Ended(@)]
    /\ child' = [child EXCEPT ![c] = End([@ EXCEPT !.call = "failed"])]
    /\ UNCHANGED <<phase, spawned, closing>>
-----------------------------------------------------------------------------
(* The exit of a child: the outstanding request is rejected, the exit      *)
(* listener runs, and then the cleanup of the rejected call.               *)

\* scheduleGrace keeps a timer that is set.  One set during the shutdown is
\* never due: the process exits within 5 seconds (main.ts), grace is 30.
Scheduled(timer) ==
    IF timer # "none" THEN timer ELSE IF phase = "up" THEN "due" ELSE "never"

\* Mutant of ExitListener: the status of the session is left as it is.
ExitListenerKeepsStatus(s) ==
    [s EXCEPT !.announced = @ \/ s.cursor = "open"]

\* The exit listener of registerSession pushes _daemon/terminated.
ExitListener(s) ==
    [s EXCEPT !.status = "terminated", !.announced = @ \/ s.cursor = "open"]

\* Mutant of ChildExits: no grace timer is scheduled.
ChildExitsUnnoticed(c) ==
    /\ Serving
    /\ child[c].os \in {"running", "ending"}
    /\ child' = [child EXCEPT ![c].os = "gone",
                              ![c].call = IF @ \in Starting THEN "failed" ELSE @]
    /\ closing' = closing \ {c}
    /\ state' = [state EXCEPT ![c] = IF Loading(c) THEN Ended(ExitListener(@))
                                     ELSE IF Registered(c) THEN ExitListener(@) ELSE @]
    /\ entry' = [id \in Ids |-> IF Loading(c) /\ id = child[c].session THEN 0 ELSE entry[id]]
    /\ UNCHANGED <<grace, phase, stray, spawned>>

ChildExits(c) ==
    /\ Serving
    /\ child[c].os \in {"running", "ending"}
    /\ child' = [child EXCEPT ![c].os = "gone",
                              ![c].call = IF @ \in Starting THEN "failed" ELSE @]
    /\ closing' = closing \ {c}
    /\ \/ /\ ~Registered(c)
          /\ UNCHANGED <<state, entry, grace, stray>>
       \/ /\ Registered(c) /\ ~Loading(c)
          /\ state' = [state EXCEPT ![c] = ExitListener(@)]
          /\ grace' = [grace EXCEPT ![child[c].session] = Scheduled(@)]
          /\ UNCHANGED <<entry, stray>>
       \/ /\ Loading(c)
          /\ state' = [state EXCEPT ![c] = Ended(ExitListener(@))]
          /\ CleanUp(child[c].session, c)
    /\ UNCHANGED <<phase, spawned>>

\* Mutant of GraceFires: the cursor of the removed entry stays open.
GraceFiresKeepsCursor(id) ==
    /\ Serving
    /\ grace[id] = "due"
    /\ grace' = [grace EXCEPT ![id] = "none"]
    /\ entry' = [entry EXCEPT ![id] = 0]
    /\ UNCHANGED <<child, state, phase, stray, spawned, closing>>

\* The timer removes whatever entry the id has by now.
GraceFires(id) ==
    /\ Serving
    /\ grace[id] = "due"
    /\ grace' = [grace EXCEPT ![id] = "none"]
    /\ entry' = [entry EXCEPT ![id] = 0]
    /\ state' = [c \in Children |->
                    IF c = entry[id] THEN [state[c] EXCEPT !.cursor = "closed"]
                    ELSE state[c]]
    /\ stray' = IF Alive(id) THEN stray \cup {id} ELSE stray
    /\ UNCHANGED <<child, phase, spawned, closing>>
-----------------------------------------------------------------------------
(* Shutdown.                                                               *)

Tracked == {entry[id] : id \in Ids} \ {0}

\* shutdown calls server.close, which first awaits terminateAll.
Shutdown ==
    /\ phase = "up"
    /\ phase' = "closing"
    /\ entry' = [id \in Ids |-> 0]
    /\ grace' = [id \in Ids |-> IF entry[id] = 0 THEN grace[id] ELSE "none"]
    /\ state' = [c \in Children |-> IF c \in Tracked THEN Ended(state[c]) ELSE state[c]]
    /\ child' = [c \in Children |-> IF c \in Tracked THEN End(child[c]) ELSE child[c]]
    /\ closing' = {c \in Tracked : child[c].os # "gone"}
    /\ UNCHANGED <<stray, spawned>>

\* The HTTP server closes its connections and the process exits.
Exit ==
    /\ AllEnded
    /\ phase' = "gone"
    /\ UNCHANGED <<child, state, entry, grace, stray, spawned, closing>>

\* The 5 seconds are over.
ForceExit ==
    /\ phase = "closing"
    /\ ~AllEnded
    /\ phase' = "forced"
    /\ UNCHANGED <<child, state, entry, grace, stray, spawned, closing>>
-----------------------------------------------------------------------------
ChildStep(c) ==
    \/ InitializeAnswered(c)
    \/ \E id \in Ids : NewAnswered(c, id)
    \/ LoadAnswered(c)
    \/ CreateFails(c)
    \/ LoadFails(c)

Next ==
    \/ CreateSession
    \/ \E id \in Ids : LoadSession(id) \/ GraceFires(id)
    \/ \E c \in Children : ChildStep(c) \/ ChildExits(c)
    \/ Shutdown
    \/ Exit
    \/ ForceExit

Spec == Init /\ [][Next]_vars

\* A child whose stdin was ended exits (ChildHandle kills it after 2 seconds),
\* and due timers fire.
FairSpec ==
    /\ Spec
    /\ \A c \in Children : WF_vars(child[c].os = "ending" /\ ChildExits(c))
    /\ \A id \in Ids : WF_vars(GraceFires(id))
-----------------------------------------------------------------------------
(* Properties.                                                             *)

\* The types of the registry; a process has a cursor once it is registered.
TypeOK ==
    /\ child \in [Children ->
          [session : Ids \cup {NoId},
           call : Starting \cup {"none", "ready", "failed"},
           os : {"none", "running", "ending", "gone"}]]
    /\ state \in [Children ->
          [status : {"none", "alive", "terminated"},
           cursor : {"none", "open", "closed"}, announced : BOOLEAN]]
    /\ \A c \in Children : Registered(c) <=> state[c].cursor # "none"
    /\ entry \in [Ids -> 0..MaxChildren]
    /\ grace \in [Ids -> {"none", "due", "never"}]
    /\ phase \in {"up", "closing", "gone", "forced"}
    /\ stray \in SUBSET Ids
    /\ spawned \in 0..MaxChildren
    /\ closing \in SUBSET Children

\* No request is routed to a process that has exited, and the registry never
\* answers for one session with the process of another.
RoutesToLiveChild ==
    \A id \in Ids : Alive(id) =>
        child[entry[id]].os # "gone" /\ child[entry[id]].session = id

\* Only an entry of the registry has an open event stream: whoever listens to
\* a session that was removed has been told so; and the stream of a session
\* that was opened and whose process exited ends with the event that says so
\* (SPEC.md:330-339).  Ids that a stale cleanup or timer took are excepted.
EveryStreamIsEnded ==
    phase = "up" => \A c \in Children :
        Registered(c) /\ child[c].session \notin stray =>
            /\ state[c].cursor = "open" => entry[child[c].session] = c
            /\ child[c].call = "ready" /\ state[c].cursor = "closed" => state[c].announced

\* SPEC.md:179-180: the daemon remembers the process of a session until it
\* exits or terminate is called.
MappingKept ==
    phase = "up" => \A c \in Children :
        child[c].call = "ready" /\ child[c].os = "running" => entry[child[c].session] = c

\* SPEC.md:214-216: no session has two processes that work on its log, unless
\* a stale cleanup or timer made the daemon forget the first.
OneProcessPerSession ==
    phase = "up" => \A c, d \in Children :
        /\ c # d
        /\ child[c].session \notin stray \cup {NoId}
        /\ child[c].session = child[d].session
        => ~(child[c].os = "running" /\ child[d].os = "running")

\* A terminated entry does not stay: its timer, or another load, removes it.
TerminatedIsCollected ==
    \A id \in Ids, c \in Children :
        (entry[id] = c /\ state[c].status = "terminated") ~> (entry[id] # c \/ phase # "up")

Reachable(c) == Creating(c) \/ (child[c].session # NoId /\ entry[child[c].session] = c)

\* No process is left behind: one that no call and no entry of the registry
\* refers to ends, unless a stale cleanup or timer took its entry.
NoOrphans ==
    \A c \in Children :
        (child[c].os \in {"running", "ending"} /\ ~Reachable(c))
            ~> (child[c].os = "gone" \/ phase # "up" \/ child[c].session \in stray)
=============================================================================
