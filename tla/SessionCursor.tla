---------------------------- MODULE SessionCursor ----------------------------
(***************************************************************************)
(* The event stream of one session of the daemon: the ring of cursor.ts,   *)
(* the generator SessionManager.subscribe over it and the loop of          *)
(* handleEvents in server.ts that writes what it yields.                   *)
(*                                                                         *)
(* ring, seq, closed   the SessionCursor; an event is its id               *)
(* terminated          the last event pushed is _daemon/terminated         *)
(* sub                 each client's connection, from Connect to Drop      *)
(* seen                the ids a client holds since it last began at 0     *)
(*                                                                         *)
(* The loop of handleEvents never awaits between two events, so it takes   *)
(* each in the job that pushes it.  subscribe promises the same events to  *)
(* a consumer that does await in between: the clients in Paced.            *)
(***************************************************************************)
EXTENDS Naturals, Sequences, FiniteSets

CONSTANTS
    Clients,    \* clients of the event stream
    Capacity,   \* capacity of the ring
    MaxEvents,  \* bound: events pushed
    Paced       \* the clients that let other jobs run between two events

ASSUME CursorAssumption ==
    /\ Capacity \in Nat \ {0}
    /\ MaxEvents \in Nat
    /\ Paced \subseteq Clients

VARIABLES ring, seq, closed, terminated, sub, seen

cursor == <<ring, seq, closed, terminated>>
vars == <<cursor, sub, seen>>

Off == [phase |-> "off", from |-> 0, todo |-> <<>>]

Last(s) == IF s = <<>> THEN 0 ELSE s[Len(s)]
-----------------------------------------------------------------------------
Init ==
    /\ ring = <<>>
    /\ seq = 0
    /\ closed = FALSE
    /\ terminated = FALSE
    /\ sub = [c \in Clients |-> Off]
    /\ seen = [c \in Clients |-> <<>>]

\* Mutant of Shifted: the newest event is dropped instead of the oldest.
ShiftedNewest(r) == IF Len(r) > Capacity THEN SubSeq(r, 1, Capacity) ELSE r

\* push: past the capacity the oldest event leaves the ring.
Shifted(r) == IF Len(r) > Capacity THEN Tail(r) ELSE r

\* A notification of the child, or the end of the child, becomes an event.  A
\* consumer that does not pause takes it within the same job.
Push(final) ==
    /\ ~closed
    /\ ~terminated
    /\ seq < MaxEvents
    /\ seq' = seq + 1
    /\ ring' = Shifted(Append(ring, seq + 1))
    /\ terminated' = final
    /\ sub' = [c \in Clients |->
                  IF sub[c].phase # "live" THEN sub[c]
                  ELSE IF c \in Paced THEN [sub[c] EXCEPT !.todo = Append(@, seq + 1)]
                  ELSE IF final THEN [sub[c] EXCEPT !.phase = "ended"] ELSE sub[c]]
    /\ seen' = [c \in Clients |->
                   IF sub[c].phase = "live" /\ c \notin Paced THEN Append(seen[c], seq + 1)
                   ELSE seen[c]]
    /\ UNCHANGED closed

\* close: a subscriber that has nothing left to take returns.
Close ==
    /\ ~closed
    /\ closed' = TRUE
    /\ sub' = [c \in Clients |->
                  IF sub[c].phase = "live" /\ sub[c].todo = <<>>
                  THEN [sub[c] EXCEPT !.phase = "ended"] ELSE sub[c]]
    /\ UNCHANGED <<ring, seq, terminated, seen>>
-----------------------------------------------------------------------------
\* replay: what filter keeps of the ring, in its order.
Replay(from) ==
    LET kept   == {i \in DOMAIN ring : ring[i] > from}
        nth(k) == CHOOSE i \in kept : Cardinality({j \in kept : j <= i}) = k
    IN  [k \in 1..Cardinality(kept) |-> ring[nth(k)]]

\* Mutant of CanResumeFrom: off by one at the end of the ring.
CanResumeFromBefore(from) ==
    from < seq /\ ring # <<>> => from + 1 >= ring[1] - 1

\* Mutant of CanResumeFrom: the event the client holds must be in the ring.
CanResumeFromHeld(from) == from < seq /\ ring # <<>> => from >= ring[1]

CanResumeFrom(from) == from < seq /\ ring # <<>> => from >= ring[1] - 1

\* GET /events: from 0, or from the Last-Event-ID the client holds.  A consumer
\* that does not pause takes the whole replay and attaches within the job.
Connect(c, from) ==
    /\ sub[c].phase = "off"
    /\ LET held   == IF from = 0 THEN <<>> ELSE seen[c]
           replay == Replay(from)
       IN \/ /\ ~CanResumeFrom(from)
             /\ sub' = [sub EXCEPT ![c].phase = "lost", ![c].from = from]
             /\ UNCHANGED seen
          \/ /\ CanResumeFrom(from) /\ c \in Paced /\ replay # <<>>
             /\ sub' = [sub EXCEPT ![c].phase = "replaying", ![c].todo = replay]
             /\ seen' = [seen EXCEPT ![c] = held]
          \/ /\ CanResumeFrom(from) /\ (c \in Paced => replay = <<>>)
             /\ sub' = [sub EXCEPT ![c].phase =
                           IF closed \/ (terminated /\ replay # <<>>) THEN "ended"
                           ELSE "live"]
             /\ seen' = [seen EXCEPT ![c] = held \o replay]
    /\ UNCHANGED cursor

Ended(s) == [s EXCEPT !.phase = "ended", !.todo = <<>>]

\* The consumer takes the next event, of the replay or of the live queue.
Take(c) ==
    /\ c \in Paced
    /\ sub[c].phase \in {"replaying", "live"}
    /\ sub[c].todo # <<>>
    /\ LET id   == Head(sub[c].todo)
           left == [sub[c] EXCEPT !.todo = Tail(@)]
       IN /\ seen' = [seen EXCEPT ![c] = Append(@, id)]
          /\ sub' = [sub EXCEPT ![c] = IF terminated /\ id = seq THEN Ended(left)
                                       ELSE left]
    /\ UNCHANGED cursor

\* The replay is over: subscribe returns, or listens to the cursor.
Attach(c) ==
    /\ sub[c].phase = "replaying"
    /\ sub[c].todo = <<>>
    /\ sub' = [sub EXCEPT ![c].phase = IF closed THEN "ended" ELSE "live"]
    /\ UNCHANGED <<cursor, seen>>

\* Mutant of Return: the close of the cursor is not looked at.
ReturnAfterTerminated(c) ==
    /\ sub[c].phase = "live"
    /\ sub[c].todo = <<>>
    /\ terminated
    /\ sub' = [sub EXCEPT ![c] = Ended(@)]
    /\ UNCHANGED <<cursor, seen>>

\* The queue is drained and the cursor has been closed meanwhile.
Return(c) ==
    /\ sub[c].phase = "live"
    /\ sub[c].todo = <<>>
    /\ closed
    /\ sub' = [sub EXCEPT ![c] = Ended(@)]
    /\ UNCHANGED <<cursor, seen>>

\* The connection is gone; the client may come back.
Drop(c) ==
    /\ sub[c].phase # "off"
    /\ sub' = [sub EXCEPT ![c] = Off]
    /\ UNCHANGED <<cursor, seen>>
-----------------------------------------------------------------------------
Consume(c) == Take(c) \/ Attach(c) \/ Return(c)

Next ==
    \/ \E final \in BOOLEAN : Push(final)
    \/ Close
    \/ \E c \in Clients :
          \/ \E from \in {0, Last(seen[c])} : Connect(c, from)
          \/ Consume(c)
          \/ Drop(c)

Spec == Init /\ [][Next]_vars

\* A consumer that is connected goes on taking what it is given.
FairSpec == Spec /\ \A c \in Clients : WF_vars(Consume(c))
-----------------------------------------------------------------------------
(* Properties.                                                             *)

Ids == 1..MaxEvents

\* The types of the cursor and its clients; the ring keeps its capacity.
TypeOK ==
    /\ ring \in Seq(Ids)
    /\ Len(ring) <= Capacity
    /\ seq \in 0..MaxEvents
    /\ closed \in BOOLEAN
    /\ terminated \in BOOLEAN
    /\ sub \in [Clients ->
                  [phase : {"off", "replaying", "live", "lost", "ended"},
                   from : 0..MaxEvents, todo : Seq(Ids)]]
    /\ seen \in [Clients -> Seq(Ids)]

\* A client that takes its events as handleEvents does, begins at 0 and comes
\* back with its Last-Event-ID holds every event once and in order, across
\* disconnections and evictions (SPEC.md:293-294).  One that takes its time may
\* have a gap, but never holds an event twice or out of order.
SeenOnceInOrder ==
    \A c \in Clients : \A i \in DOMAIN seen[c] :
        /\ c \notin Paced => seen[c][i] = i
        /\ \A j \in 1..(i - 1) : seen[c][j] < seen[c][i]

\* A client is turned away (cursor_lost) only if an event after the one it asks
\* to resume from has left the ring.
LostOnlyWhenEvicted ==
    [][\A c \in Clients : sub[c].phase # "lost" /\ sub'[c].phase = "lost" =>
          \E id \in (sub'[c].from + 1)..seq : \A i \in DOMAIN ring : ring[i] # id]_vars

\* The stream of a session that is over ends: a connected client is not left
\* waiting after the terminated event or the close of the cursor.
StreamEnds ==
    \A c \in Clients :
        (closed /\ sub[c].phase \in {"replaying", "live"})
            ~> sub[c].phase \in {"ended", "off"}
=============================================================================
