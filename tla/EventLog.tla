------------------------------ MODULE EventLog ------------------------------
(***************************************************************************)
(* The append-only JSONL file of one session and the JsonlEventLog that    *)
(* writes it (packages/storage/src/event-log.ts), with the store that      *)
(* keeps one such instance per session for the life of the process.        *)
(*                                                                         *)
(* lines   the newline-terminated lines of the file                        *)
(* rest    what follows the last newline, left by a torn write             *)
(* tail    the cached last event (tailEvent, tailLoaded)                   *)
(* queue   the batches chained on writeQueue behind the running one        *)
(* job     the batch appendBatchInternal is working on                     *)
(* reader  one replay() in the default, tolerant mode                      *)
(*                                                                         *)
(* A line is a sequence of fragments of encoded events: writing an event   *)
(* lands its JSON text bit by bit and its newline last, so a torn write    *)
(* leaves nothing, a part of the JSON or the whole JSON without its        *)
(* newline.  The remaining variables record what callers were told.        *)
(***************************************************************************)
EXTENDS Naturals, Sequences

CONSTANTS
    MaxSeq,       \* bound: largest sequence number a caller uses
    MaxEvents,    \* bound: number of events callers ever build
    MaxBatch      \* bound: largest batch given to appendMany

ASSUME LogAssumption ==
    /\ MaxSeq \in Nat \ {0}
    /\ MaxEvents \in Nat \ {0}
    /\ MaxBatch \in Nat \ {0}

VARIABLES lines, rest, tail, queue, job, reader,
          built,     \* number of events built so far
          acked,     \* events whose append resolved
          refused,   \* events rejected before anything was written
          unsure     \* events whose write failed or was cut by a crash

file == <<lines, rest>>
told == <<acked, refused, unsure>>
vars == <<lines, rest, tail, queue, job, reader, built, told>>

Event    == [sequence : 1..MaxSeq, id : 1..MaxEvents]
NoEvent  == [sequence |-> 0, id |-> 0]
Fragment == [event : Event, whole : BOOLEAN]
Line     == Seq(Fragment)
Batches  == Seq(Event)

Whole(e) == [event |-> e, whole |-> TRUE]
Part(e)  == [event |-> e, whole |-> FALSE]

\* Where the write of the event at the head of job.todo stands.
NoByte == 0
SomeBytes == 1
AllButNewline == 2

Idle == [phase |-> "idle", batch |-> <<>>, todo |-> <<>>, landed |-> NoByte]
Closed == [phase |-> "closed", pos |-> 0, seen |-> <<>>, owed |-> {}]

EventsOf(b) == {b[i] : i \in DOMAIN b}

Increasing(b) ==
    \A i, j \in DOMAIN b : i < j => b[i].sequence < b[j].sequence
-----------------------------------------------------------------------------
(* Reading.  decodeOrThrow accepts a line that is the JSON of one event.   *)

Decodes(line) == Len(line) = 1 /\ line[1].whole
EventAt(line) == line[1].event

\* The lines a strict reader takes: the unterminated remainder counts as one.
StrictLines == IF rest = <<>> THEN lines ELSE Append(lines, rest)

\* A strict replay throws on an undecodable line or on a sequence that does
\* not increase.
StrictReadable ==
    /\ \A i \in DOMAIN StrictLines : Decodes(StrictLines[i])
    /\ \A i \in 1..(Len(StrictLines) - 1) :
          EventAt(StrictLines[i]).sequence < EventAt(StrictLines[i + 1]).sequence

LastOnFile ==
    IF StrictLines = <<>> THEN NoEvent ELSE EventAt(StrictLines[Len(StrictLines)])
-----------------------------------------------------------------------------
Init ==
    /\ lines = <<>>
    /\ rest = <<>>
    /\ tail = [loaded |-> FALSE, event |-> NoEvent]
    /\ queue = <<>>
    /\ job = Idle
    /\ reader = Closed
    /\ built = 0
    /\ acked = {}
    /\ refused = {}
    /\ unsure = {}

\* appendMany: a batch out of order is rejected on the spot, any other one
\* waits its turn on the promise chain.
AppendMany(seqs) ==
    LET batch == [i \in DOMAIN seqs |-> [sequence |-> seqs[i], id |-> built + i]]
    IN  /\ built + Len(seqs) <= MaxEvents
        /\ built' = built + Len(seqs)
        /\ \/ /\ Increasing(batch)
              /\ queue' = Append(queue, batch)
              /\ UNCHANGED refused
           \/ /\ ~Increasing(batch)
              /\ refused' = refused \cup EventsOf(batch)
              /\ UNCHANGED queue
        /\ UNCHANGED <<file, tail, job, reader, acked, unsure>>

\* The chain runs one batch at a time, in the order of the calls.
StartBatch ==
    /\ job.phase = "idle"
    /\ queue # <<>>
    /\ job' = [phase |-> "load", batch |-> Head(queue), todo |-> <<>>, landed |-> NoByte]
    /\ queue' = Tail(queue)
    /\ UNCHANGED <<file, tail, reader, built, told>>

\* Mutant of Reject: the chain is not caught and never runs another batch.
RejectBreaksChain ==
    /\ refused' = refused \cup EventsOf(job.batch)
    /\ job' = [Idle EXCEPT !.phase = "broken"]
    /\ UNCHANGED <<file, queue, reader, built, acked, unsure>>

Reject ==
    /\ refused' = refused \cup EventsOf(job.batch)
    /\ job' = Idle
    /\ UNCHANGED <<file, queue, reader, built, acked, unsure>>

\* loadTailIfNeeded keeps a cached tail, or replays the file strictly.
LoadTail ==
    /\ job.phase = "load"
    /\ tail.loaded \/ StrictReadable
    /\ tail' = IF tail.loaded THEN tail ELSE [loaded |-> TRUE, event |-> LastOnFile]
    /\ job' = [job EXCEPT !.phase = "check"]
    /\ UNCHANGED <<file, queue, reader, built, told>>

\* The strict replay throws: the batch is rejected and the tail stays unknown.
LoadTailFails ==
    /\ job.phase = "load"
    /\ ~tail.loaded
    /\ ~StrictReadable
    /\ UNCHANGED tail
    /\ Reject

InSequence == tail.event.sequence < job.batch[1].sequence

RejectSequence ==
    /\ job.phase = "check"
    /\ ~InSequence
    /\ UNCHANGED tail
    /\ Reject

StartWrite ==
    /\ job.phase = "check"
    /\ InSequence
    /\ job' = [job EXCEPT !.phase = "write", !.todo = job.batch]
    /\ UNCHANGED <<file, tail, queue, reader, built, told>>
-----------------------------------------------------------------------------
(* appendFile: bytes of the payload land in order, at any pace.            *)

LandBytes ==
    /\ job.phase = "write"
    /\ job.todo # <<>>
    /\ \E n \in {SomeBytes, AllButNewline} :
          /\ n > job.landed
          /\ job' = [job EXCEPT !.landed = n]
    /\ UNCHANGED <<file, tail, queue, reader, built, told>>

LandNewline ==
    /\ job.phase = "write"
    /\ job.todo # <<>>
    /\ lines' = Append(lines, Append(rest, Whole(Head(job.todo))))
    /\ rest' = <<>>
    /\ job' = [job EXCEPT !.todo = Tail(@), !.landed = NoByte]
    /\ UNCHANGED <<tail, queue, reader, built, told>>

\* Mutant of WriteResolves: appendFile is not awaited.
WriteResolvesEarly ==
    /\ job.phase = "write"
    /\ acked' = acked \cup EventsOf(job.batch)
    /\ tail' = [loaded |-> TRUE, event |-> job.batch[Len(job.batch)]]
    /\ job' = Idle
    /\ UNCHANGED <<file, queue, reader, built, refused, unsure>>

WriteResolves ==
    /\ job.phase = "write"
    /\ job.todo = <<>>
    /\ acked' = acked \cup EventsOf(job.batch)
    /\ tail' = [loaded |-> TRUE, event |-> job.batch[Len(job.batch)]]
    /\ job' = Idle
    /\ UNCHANGED <<file, queue, reader, built, refused, unsure>>

\* What stays after the last newline when the write stops where it stands.
Torn ==
    IF job.todo = <<>> \/ job.landed = NoByte THEN rest
    ELSE Append(rest, [event |-> Head(job.todo),
                       whole |-> job.landed = AllButNewline])

\* Mutant of WriteFails: the cached tail survives the failure.
WriteFailsKeepsTail ==
    /\ job.phase = "write"
    /\ rest' = Torn
    /\ unsure' = unsure \cup EventsOf(job.batch)
    /\ job' = Idle
    /\ UNCHANGED <<lines, tail, queue, reader, built, acked, refused>>

\* appendFile throws, anywhere in the payload: the cached tail is dropped.
WriteFails ==
    /\ job.phase = "write"
    /\ rest' = Torn
    /\ unsure' = unsure \cup EventsOf(job.batch)
    /\ tail' = [loaded |-> FALSE, event |-> NoEvent]
    /\ job' = Idle
    /\ UNCHANGED <<lines, queue, reader, built, acked, refused>>
-----------------------------------------------------------------------------
(* The process dies and a new one opens the same file; what had reached    *)
(* the file stays there.                                                   *)
Crash ==
    /\ rest' = Torn
    /\ unsure' = unsure \cup EventsOf(job.batch)
                        \cup UNION {EventsOf(queue[i]) : i \in DOMAIN queue}
    /\ tail' = [loaded |-> FALSE, event |-> NoEvent]
    /\ job' = Idle
    /\ queue' = <<>>
    /\ reader' = Closed
    /\ UNCHANGED <<lines, built, acked, refused>>

\* An operator truncates the file to its last newline while no process has
\* it open.
Repair ==
    /\ rest # <<>>
    /\ job.phase = "idle"
    /\ ~tail.loaded
    /\ rest' = <<>>
    /\ UNCHANGED <<lines, tail, queue, job, reader, built, told>>
-----------------------------------------------------------------------------
(* replay(): the reader takes the lines one by one and may be overtaken by *)
(* the writer; at end of file it drops the remainder.                      *)

OpenReader ==
    /\ reader.phase \in {"closed", "done", "threw"}
    /\ reader' = [phase |-> "reading", pos |-> 0, seen |-> <<>>, owed |-> acked]
    /\ UNCHANGED <<file, tail, queue, job, built, told>>

NextLine == lines[reader.pos + 1]

AfterSeen(e) ==
    reader.seen # <<>> => reader.seen[Len(reader.seen)].sequence < e.sequence

ReadLine ==
    /\ reader.phase = "reading"
    /\ reader.pos < Len(lines)
    /\ \/ /\ Decodes(NextLine)
          /\ AfterSeen(EventAt(NextLine))
          /\ reader' = [reader EXCEPT !.pos = @ + 1,
                                      !.seen = Append(@, EventAt(NextLine))]
       \/ /\ ~(Decodes(NextLine) /\ AfterSeen(EventAt(NextLine)))
          /\ reader' = [reader EXCEPT !.phase = "threw"]
    /\ UNCHANGED <<file, tail, queue, job, built, told>>

\* Mutant of ReadEnd: a read that fills less than the chunk ends the replay.
ReadEndEarly ==
    /\ reader.phase = "reading"
    /\ reader' = [reader EXCEPT !.phase = "done"]
    /\ UNCHANGED <<file, tail, queue, job, built, told>>

ReadEnd ==
    /\ reader.phase = "reading"
    /\ reader.pos = Len(lines)
    /\ reader' = [reader EXCEPT !.phase = "done"]
    /\ UNCHANGED <<file, tail, queue, job, built, told>>
-----------------------------------------------------------------------------
Calls == UNION {[1..n -> 1..MaxSeq] : n \in 1..MaxBatch}

Write ==
    \/ StartBatch
    \/ LoadTail
    \/ LoadTailFails
    \/ RejectSequence
    \/ StartWrite
    \/ LandBytes
    \/ LandNewline
    \/ WriteResolves

Read == OpenReader \/ ReadLine \/ ReadEnd

Next ==
    \/ \E seqs \in Calls : AppendMany(seqs)
    \/ Write
    \/ WriteFails
    \/ Crash
    \/ Repair
    \/ Read

Spec == Init /\ [][Next]_vars

\* The event loop keeps running the chained write and the file system answers
\* every call; nothing makes callers call, readers read or writes fail.
FairSpec == Spec /\ WF_vars(Write)
-----------------------------------------------------------------------------
(* Properties.                                                             *)

TypeOK ==
    /\ lines \in Seq(Line)
    /\ rest \in Line
    /\ tail \in [loaded : BOOLEAN, event : Event \cup {NoEvent}]
    /\ queue \in Seq(Batches)
    /\ job \in [phase : {"idle", "load", "check", "write"}, batch : Batches,
                todo : Batches, landed : NoByte..AllButNewline]
    /\ reader \in [phase : {"closed", "reading", "done", "threw"}, pos : Nat,
                   seen : Batches, owed : SUBSET Event]
    /\ built \in 0..MaxEvents
    /\ acked \in SUBSET Event
    /\ refused \in SUBSET Event
    /\ unsure \in SUBSET Event

\* Whatever failed, tore or crashed in between, two lines that decode carry
\* sequences in the order of the file, so no sequence is ever stored twice:
\* the cached or reloaded tail never lags behind the file (appendBatchInternal).
OnDiskInOrder ==
    \A i, j \in DOMAIN lines :
        i < j /\ Decodes(lines[i]) /\ Decodes(lines[j])
            => EventAt(lines[i]).sequence < EventAt(lines[j]).sequence

\* A line made of an event whose write was cut just before the newline and of
\* the next append, which takes that event for a finished line.
Glued(line) == Len(line) > 1 /\ \A i \in DOMAIN line : line[i].whole

DecodesUpTo(n) == \A i \in 1..n : Decodes(lines[i])

\* An event whose append resolved is on file for good, whole and at the end of
\* its line, past every failure and restart; a replay reaches it unless two
\* events were glued into a line at or before it.  In particular no append
\* resolves behind the part of an event that a torn write left.
AckedReadable ==
    \A e \in acked : \E j \in DOMAIN lines :
        /\ lines[j][Len(lines[j])] = Whole(e)
        /\ DecodesUpTo(j) \/ \E i \in 1..j : Glued(lines[i])

\* A tolerant replay that ends returns every event acknowledged before it was
\* opened, however the writer overtakes it meanwhile.
ReplayReturnsAcked ==
    reader.phase = "done" => reader.owed \subseteq EventsOf(reader.seen)

\* Every append is settled in the end: it resolves, is rejected, or the
\* process dies.  A rejected batch does not hold up those behind it.
EveryAppendSettles ==
    \A k \in 1..MaxEvents :
        built >= k ~> \E e \in acked \cup refused \cup unsure : e.id = k

\* What a replay of the file returns before it meets a line it cannot decode.
Replayable == [i \in {n \in DOMAIN lines : DecodesUpTo(n)} |-> EventAt(lines[i])]

\* To its users the log is an EventStore: what can be replayed only grows, at
\* its end and in order of sequence, and an acknowledged event in it stays.
Store == INSTANCE EventStore
    WITH log <- Replayable, acked <- acked \cap EventsOf(Replayable)
StoreSpec == Store!Spec
=============================================================================
