---------------------------- MODULE EventLogProofs ----------------------------
(***************************************************************************)
(* Proofs about EventLog, for every number of events, sequences and batch  *)
(* size: its types, that the lines of the file are in order, that what was *)
(* acknowledged stays on file and is returned by a replay, and that to its *)
(* users the log is an EventStore.                                         *)
(***************************************************************************)
EXTENDS EventLog, TLAPS

(***************************************************************************)
(* The inductive invariant.                                                *)
(***************************************************************************)

Proper(b) == b # <<>> /\ Increasing(b)

\* Only batches that passed the check of appendMany are queued or worked on,
\* and the tail is known from the check of the sequence to the end of the write.
Shape ==
    /\ \A i \in DOMAIN queue : Proper(queue[i])
    /\ job.phase # "idle" => Proper(job.batch)
    /\ job.phase \in {"check", "write"} => tail.loaded

\* Every line that decodes is at most e.
UpTo(n) == \A i \in DOMAIN lines : Decodes(lines[i]) => EventAt(lines[i]).sequence <= n

\* Between writes a known tail is the last word of the file; during a write
\* what is still to be written follows everything that decodes, and the last
\* event of the batch is at least all of it.
Ahead ==
    /\ tail.loaded /\ job.phase # "write" => UpTo(tail.event.sequence)
    /\ job.phase = "write" =>
          /\ UpTo(job.batch[Len(job.batch)].sequence)
          /\ Increasing(job.todo)
          /\ \A j \in DOMAIN job.todo :
                /\ job.todo[j].sequence <= job.batch[Len(job.batch)].sequence
                /\ \A i \in DOMAIN lines :
                      Decodes(lines[i]) => EventAt(lines[i]).sequence < job.todo[j].sequence

LogInv == TypeOK /\ Shape /\ OnDiskInOrder /\ Ahead

(***************************************************************************)
(* Types.                                                                  *)
(***************************************************************************)

JobType == [phase : {"idle", "load", "check", "write"}, batch : Batches,
            todo : Batches, landed : NoByte..AllButNewline]

ReaderType == [phase : {"closed", "reading", "done", "threw"}, pos : Nat,
               seen : Batches, owed : SUBSET Event]

\* No event at all is a batch too.
LEMMA EmptyBatch == <<>> \in Batches
  BY DEF Batches

\* A line that decodes holds an event.
LEMMA DecodedEvent ==
    ASSUME NEW line \in Line, Decodes(line)
    PROVE  EventAt(line) \in Event
  <1>1. line[1] \in Fragment
    BY DEF Line, Decodes
  <1> QED
    BY <1>1 DEF Fragment, EventAt

\* The last event of a file that is read strictly is an event, if there is one.
LEMMA LastIsEvent ==
    ASSUME TypeOK, StrictReadable
    PROVE  LastOnFile \in Event \cup {NoEvent}
  <1>1. StrictLines \in Seq(Line)
    BY DEF StrictLines, TypeOK
  <1>2. CASE StrictLines # <<>>
    <2>1. /\ Len(StrictLines) \in DOMAIN StrictLines
          /\ StrictLines[Len(StrictLines)] \in Line
      BY <1>1, <1>2
    <2> QED
      BY <1>2, <2>1, DecodedEvent DEF StrictReadable, LastOnFile
  <1> QED
    BY <1>2 DEF LastOnFile

\* The records the actions make of reader have its type.
LEMMA ReaderUpdates ==
    ASSUME reader \in ReaderType, NEW b \in Batches, NEW n \in Nat, NEW S \in SUBSET Event
    PROVE  /\ [reader EXCEPT !.pos = n, !.seen = b] \in ReaderType
           /\ [phase |-> "reading", pos |-> n, seen |-> b, owed |-> S] \in ReaderType
           /\ [phase |-> "closed", pos |-> n, seen |-> b, owed |-> S] \in ReaderType
  BY DEF ReaderType

\* The records the actions make of job have its type.
LEMMA JobUpdates ==
    ASSUME job \in JobType, NEW b \in Batches, NEW n \in NoByte..AllButNewline
    PROVE  /\ [job EXCEPT !.phase = "check"] \in JobType
           /\ [job EXCEPT !.phase = "write", !.todo = b] \in JobType
           /\ [job EXCEPT !.landed = n] \in JobType
           /\ [job EXCEPT !.todo = b, !.landed = n] \in JobType
           /\ [phase |-> "idle", batch |-> b, todo |-> b, landed |-> n] \in JobType
           /\ [phase |-> "load", batch |-> b, todo |-> <<>>, landed |-> n] \in JobType
  <1>1. <<>> \in Batches
    BY DEF Batches
  <1> QED
    BY <1>1 DEF JobType

\* Where no write stands, and where one stands, are numbers in range.
LEMMA Bytes ==
    /\ NoByte \in NoByte..AllButNewline
    /\ {SomeBytes, AllButNewline} \subseteq NoByte..AllButNewline
  BY DEF NoByte, SomeBytes, AllButNewline

\* The idle job is a job.
LEMMA IdleJob == ASSUME job \in JobType PROVE Idle \in JobType
  <1>1. <<>> \in Batches
    BY DEF Batches
  <1> QED
    BY <1>1, Bytes, JobUpdates DEF Idle

\* The job a batch is started with.
LEMMA StartedJob ==
    ASSUME job \in JobType, NEW b \in Batches
    PROVE  [phase |-> "load", batch |-> b, todo |-> <<>>, landed |-> NoByte] \in JobType
  BY Bytes, JobUpdates

\* The batch that appendMany builds is a nonempty sequence of events.
LEMMA BuiltBatch ==
    ASSUME built \in 0..MaxEvents, NEW seqs \in Calls, built + Len(seqs) <= MaxEvents
    PROVE  LET batch == [i \in DOMAIN seqs |-> [sequence |-> seqs[i], id |-> built + i]]
           IN  /\ batch \in Batches
               /\ batch # <<>>
               /\ Len(seqs) \in Nat
  <1>1. PICK n \in 1..MaxBatch : seqs \in [1..n -> 1..MaxSeq]
    BY DEF Calls
  <1>2. n \in Nat /\ n >= 1 /\ Len(seqs) = n /\ DOMAIN seqs = 1..n
    BY <1>1, LogAssumption
  <1>3. \A i \in 1..n : [sequence |-> seqs[i], id |-> built + i] \in Event
    BY <1>1, <1>2, LogAssumption DEF Event
  <1> QED
    BY <1>2, <1>3 DEF Batches

\* The events of a batch are events.
LEMMA BatchEvents ==
    ASSUME NEW b \in Batches
    PROVE  EventsOf(b) \in SUBSET Event
  BY DEF EventsOf, Batches

\* What a write leaves after the last newline is a line without its end.
LEMMA TornLine ==
    ASSUME rest \in Line, job \in JobType
    PROVE  Torn \in Line
  <1>1. CASE job.todo = <<>> \/ job.landed = NoByte
    BY <1>1 DEF Torn
  <1>2. CASE ~(job.todo = <<>> \/ job.landed = NoByte)
    <2>1. Head(job.todo) \in Event
      BY <1>2 DEF JobType, Batches
    <2>2. [event |-> Head(job.todo), whole |-> job.landed = AllButNewline] \in Fragment
      BY <2>1 DEF Fragment
    <2> QED
      BY <1>2, <2>2 DEF Torn, Line
  <1> QED
    BY <1>1, <1>2
-----------------------------------------------------------------------------
\* TypeOK is kept by every step of the log.
LEMMA TypeStep == TypeOK /\ Shape /\ [Next]_vars => TypeOK'
  <1> SUFFICES ASSUME TypeOK, Shape, [Next]_vars PROVE TypeOK'
    OBVIOUS
  <1> job \in JobType /\ queue \in Seq(Batches)
    BY DEF TypeOK, JobType
  <1> reader \in ReaderType
    BY DEF TypeOK, ReaderType
  <1> USE DEF told, file
  <1>1. ASSUME NEW seqs \in Calls, AppendMany(seqs) PROVE TypeOK'
    <2> DEFINE batch == [i \in DOMAIN seqs |-> [sequence |-> seqs[i], id |-> built + i]]
    <2>1. batch \in Batches /\ Len(seqs) \in Nat
      BY <1>1, BuiltBatch DEF AppendMany, TypeOK
    <2>2. EventsOf(batch) \in SUBSET Event
      BY <2>1, BatchEvents
    <2>3. built' \in 0..MaxEvents
      BY <1>1, <2>1, LogAssumption DEF AppendMany, TypeOK
    <2>4. \/ queue' = Append(queue, batch) /\ refused' = refused
          \/ queue' = queue /\ refused' = refused \cup EventsOf(batch)
      BY <1>1 DEF AppendMany
    <2> HIDE DEF batch
    <2>5. Append(queue, batch) \in Seq(Batches) /\ refused \in SUBSET Event
      BY <2>1 DEF TypeOK
    <2>6. queue' \in Seq(Batches) /\ refused' \in SUBSET Event
      BY <2>2, <2>4, <2>5
    <2>7. UNCHANGED <<lines, rest, tail, job, reader, acked, unsure>>
      BY <1>1 DEF AppendMany
    <2> QED
      BY <2>3, <2>6, <2>7 DEF TypeOK
  <1>2. CASE StartBatch
    <2>1. Head(queue) \in Batches /\ queue' \in Seq(Batches)
      BY <1>2 DEF StartBatch
    <2>2. job' \in JobType
      BY <1>2, <2>1, StartedJob DEF StartBatch
    <2> QED
      BY <1>2, <2>1, <2>2 DEF StartBatch, TypeOK, JobType
  <1>3. CASE LoadTail
    <2>1. job' \in JobType
      BY <1>3 DEF LoadTail, JobType
    <2>2. tail' \in [loaded : BOOLEAN, event : Event \cup {NoEvent}]
      <3>1. CASE tail.loaded
        BY <1>3, <3>1 DEF LoadTail, TypeOK
      <3>2. CASE ~tail.loaded
        <4>1. LastOnFile \in Event \cup {NoEvent}
          BY <1>3, <3>2, LastIsEvent DEF LoadTail
        <4> QED
          BY <1>3, <3>2, <4>1 DEF LoadTail
      <3> QED
        BY <3>1, <3>2
    <2> QED
      BY <1>3, <2>1, <2>2 DEF LoadTail, TypeOK, JobType
  <1>4. ASSUME Reject, UNCHANGED tail PROVE TypeOK'
    <2>1. job' \in JobType /\ EventsOf(job.batch) \in SUBSET Event
      BY <1>4, IdleJob, BatchEvents DEF Reject, JobType
    <2> QED
      BY <1>4, <2>1 DEF Reject, TypeOK, JobType
  <1>5. CASE StartWrite
    <2>1. job' \in JobType
      BY <1>5 DEF StartWrite, JobType
    <2> QED
      BY <1>5, <2>1 DEF StartWrite, TypeOK, JobType
  <1>6. CASE LandBytes
    <2>1. job' \in JobType
      <3>1. PICK n \in {SomeBytes, AllButNewline} : job' = [job EXCEPT !.landed = n]
        BY <1>6 DEF LandBytes
      <3> QED
        BY <3>1, Bytes, JobUpdates, EmptyBatch
    <2> QED
      BY <1>6, <2>1 DEF LandBytes, TypeOK, JobType
  <1>7. CASE LandNewline
    <2>1. Head(job.todo) \in Event /\ Tail(job.todo) \in Batches
      BY <1>7 DEF LandNewline, JobType, Batches
    <2>2. job' \in JobType
      BY <1>7, <2>1, Bytes, JobUpdates DEF LandNewline
    <2>3. Append(rest, Whole(Head(job.todo))) \in Line
      BY <2>1 DEF Whole, Line, Fragment, TypeOK
    <2>4. rest' \in Line
      BY <1>7 DEF LandNewline, Line
    <2> QED
      BY <1>7, <2>2, <2>3, <2>4 DEF LandNewline, TypeOK, JobType
  <1>8. CASE WriteResolves
    <2>1. job' \in JobType /\ EventsOf(job.batch) \in SUBSET Event
      BY <1>8, IdleJob, BatchEvents DEF WriteResolves, JobType
    <2>2. job.batch[Len(job.batch)] \in Event
      BY <1>8 DEF WriteResolves, Shape, Proper, JobType, Batches
    <2>3. tail' \in [loaded : BOOLEAN, event : Event \cup {NoEvent}]
      BY <1>8, <2>2 DEF WriteResolves
    <2> QED
      BY <1>8, <2>1, <2>3 DEF WriteResolves, TypeOK, JobType
  <1>9. ASSUME rest' = Torn, tail' = [loaded |-> FALSE, event |-> NoEvent], job' = Idle
        PROVE  /\ rest' \in Line
               /\ tail' \in [loaded : BOOLEAN, event : Event \cup {NoEvent}]
               /\ job' \in JobType
               /\ EventsOf(job.batch) \in SUBSET Event
    BY <1>9, TornLine, IdleJob, BatchEvents DEF TypeOK, JobType
  <1>10. CASE WriteFails
    BY <1>9, <1>10 DEF WriteFails, TypeOK, JobType
  <1>11. CASE Crash
    <2>1. UNION {EventsOf(queue[i]) : i \in DOMAIN queue} \in SUBSET Event
      BY BatchEvents
    <2>2. queue' \in Seq(Batches)
      BY <1>11 DEF Crash
    <2>3. reader' \in ReaderType
      BY <1>11, EmptyBatch, ReaderUpdates DEF Crash, Closed
    <2> QED
      BY <1>9, <1>11, <2>1, <2>2, <2>3 DEF Crash, TypeOK, JobType, ReaderType
  <1>12. CASE Repair
    BY <1>12 DEF Repair, TypeOK, Line
  <1>13. CASE OpenReader
    <2>1. reader' \in ReaderType
      BY <1>13, EmptyBatch, ReaderUpdates DEF OpenReader, TypeOK
    <2> QED
      BY <1>13, <2>1 DEF OpenReader, TypeOK, ReaderType
  <1>14. CASE ReadLine
    <2>1. reader' \in ReaderType
      <3>1. CASE Decodes(NextLine) /\ AfterSeen(EventAt(NextLine))
        <4>1. NextLine \in Line
          BY <1>14 DEF ReadLine, NextLine, TypeOK
        <4>2. EventAt(NextLine) \in Event
          BY <3>1, <4>1, DecodedEvent
        <4>3. Append(reader.seen, EventAt(NextLine)) \in Batches
          BY <4>2 DEF TypeOK, Batches
        <4>4. reader' = [reader EXCEPT !.pos = reader.pos + 1,
                                       !.seen = Append(reader.seen, EventAt(NextLine))]
          BY <1>14, <3>1 DEF ReadLine
        <4>5. reader.pos + 1 \in Nat
          BY DEF TypeOK
        <4> QED
          BY <4>3, <4>4, <4>5, ReaderUpdates
      <3>2. CASE ~(Decodes(NextLine) /\ AfterSeen(EventAt(NextLine)))
        BY <1>14, <3>2 DEF ReadLine, ReaderType
      <3> QED
        BY <3>1, <3>2
    <2> QED
      BY <1>14, <2>1 DEF ReadLine, TypeOK, ReaderType
  <1>15. CASE ReadEnd
    BY <1>15 DEF ReadEnd, TypeOK
  <1>16. CASE UNCHANGED vars
    BY <1>16 DEF vars, TypeOK
  <1> QED
    BY <1>1, <1>2, <1>3, <1>4, <1>5, <1>6, <1>7, <1>8, <1>10, <1>11, <1>12, <1>13, <1>14,
       <1>15, <1>16
       DEF Next, Write, Read, LoadTailFails, RejectSequence

(***************************************************************************)
(* What is queued and worked on.                                           *)
(***************************************************************************)

\* Every step keeps the queue and the job proper.
LEMMA ShapeStep == TypeOK /\ Shape /\ [Next]_vars => Shape'
  <1> SUFFICES ASSUME TypeOK, Shape, [Next]_vars PROVE Shape'
    OBVIOUS
  <1> queue \in Seq(Batches)
    BY DEF TypeOK
  <1> USE DEF told, file
  <1>1. ASSUME NEW seqs \in Calls, AppendMany(seqs) PROVE Shape'
    <2> DEFINE batch == [i \in DOMAIN seqs |-> [sequence |-> seqs[i], id |-> built + i]]
    <2>1. batch \in Batches /\ batch # <<>>
      BY <1>1, BuiltBatch DEF AppendMany, TypeOK
    <2>2. \/ Increasing(batch) /\ queue' = Append(queue, batch)
          \/ queue' = queue
      BY <1>1 DEF AppendMany
    <2>3. UNCHANGED <<tail, job>>
      BY <1>1 DEF AppendMany
    <2> HIDE DEF batch
    <2>4. \A i \in DOMAIN queue' : Proper(queue'[i])
      BY <2>1, <2>2 DEF Shape, Proper
    <2> QED
      BY <2>3, <2>4 DEF Shape
  <1>2. CASE StartBatch
    <2>1. Head(queue) = queue[1] /\ 1 \in DOMAIN queue
      BY <1>2 DEF StartBatch
    <2>2. Proper(Head(queue))
      BY <2>1 DEF Shape
    <2>3. \A i \in DOMAIN queue' : queue'[i] = queue[i + 1] /\ i + 1 \in DOMAIN queue
      BY <1>2 DEF StartBatch
    <2> QED
      BY <1>2, <2>2, <2>3 DEF StartBatch, Shape
  <1>3. CASE LoadTail
    BY <1>3 DEF LoadTail, Shape, TypeOK
  <1>4. ASSUME Reject, UNCHANGED tail PROVE Shape'
    BY <1>4 DEF Reject, Idle, Shape
  <1>5. CASE StartWrite
    BY <1>5 DEF StartWrite, Shape, TypeOK
  <1>6. CASE LandBytes
    BY <1>6 DEF LandBytes, Shape, TypeOK
  <1>7. CASE LandNewline
    BY <1>7 DEF LandNewline, Shape, TypeOK
  <1>8. CASE WriteResolves
    BY <1>8 DEF WriteResolves, Idle, Shape
  <1>9. CASE WriteFails
    BY <1>9 DEF WriteFails, Idle, Shape
  <1>10. CASE Crash
    BY <1>10 DEF Crash, Idle, Shape
  <1>11. CASE Repair
    BY <1>11 DEF Repair, Shape
  <1>12. CASE Read \/ UNCHANGED vars
    BY <1>12 DEF Read, OpenReader, ReadLine, ReadEnd, vars, Shape
  <1> QED
    BY <1>1, <1>2, <1>3, <1>4, <1>5, <1>6, <1>7, <1>8, <1>9, <1>10, <1>11, <1>12
       DEF Next, Write, LoadTailFails, RejectSequence

(***************************************************************************)
(* The order on file.                                                      *)
(***************************************************************************)

\* The last line a strict reader takes is at least every line that decodes.
LEMMA LastIsGreatest ==
    ASSUME TypeOK, OnDiskInOrder, StrictReadable
    PROVE  UpTo(LastOnFile.sequence)
  <1>1. lines \in Seq(Line) /\ rest \in Line
    BY DEF TypeOK
  <1>2. \A i \in DOMAIN lines : Decodes(lines[i]) => EventAt(lines[i]).sequence \in Nat
    BY <1>1, DecodedEvent DEF Event
  <1>3. CASE rest = <<>>
    <2> SUFFICES ASSUME NEW i \in DOMAIN lines, Decodes(lines[i])
                 PROVE  EventAt(lines[i]).sequence <= LastOnFile.sequence
      BY DEF UpTo
    <2>1. /\ LastOnFile = EventAt(lines[Len(lines)])
          /\ Len(lines) \in DOMAIN lines /\ Decodes(lines[Len(lines)])
      BY <1>1, <1>3 DEF LastOnFile, StrictLines, StrictReadable
    <2>2. i = Len(lines) \/ i < Len(lines)
      BY <1>1
    <2> QED
      BY <1>2, <2>1, <2>2 DEF OnDiskInOrder
  <1>4. CASE rest # <<>>
    <2>1. /\ StrictLines = Append(lines, rest)
          /\ Len(StrictLines) = Len(lines) + 1
          /\ StrictLines[Len(lines) + 1] = rest
          /\ \A i \in DOMAIN lines : StrictLines[i] = lines[i]
          /\ DOMAIN StrictLines = 1..(Len(lines) + 1)
      BY <1>1, <1>4 DEF StrictLines
    <2>2. LastOnFile = EventAt(rest) /\ Decodes(rest)
      BY <1>1, <2>1 DEF LastOnFile, StrictReadable
    <2>3. EventAt(rest).sequence \in Nat
      BY <1>1, <2>2, DecodedEvent DEF Event
    <2> SUFFICES ASSUME NEW i \in DOMAIN lines, Decodes(lines[i])
                 PROVE  EventAt(lines[i]).sequence <= LastOnFile.sequence
      BY DEF UpTo
    <2>4. /\ Len(lines) \in DOMAIN lines /\ Decodes(lines[Len(lines)])
          /\ EventAt(lines[Len(lines)]).sequence < EventAt(rest).sequence
      BY <1>1, <2>1 DEF StrictReadable
    <2>5. i = Len(lines) \/ i < Len(lines)
      BY <1>1
    <2> QED
      BY <1>2, <2>2, <2>3, <2>4, <2>5 DEF OnDiskInOrder
  <1> QED
    BY <1>3, <1>4

\* The sequences of events are numbers.
LEMMA Numbers ==
    ASSUME TypeOK, Shape
    PROVE  /\ \A i \in DOMAIN lines : Decodes(lines[i]) => EventAt(lines[i]).sequence \in Nat
           /\ tail.event.sequence \in Nat
           /\ \A i \in DOMAIN job.batch : job.batch[i].sequence \in Nat
           /\ \A i \in DOMAIN job.todo : job.todo[i].sequence \in Nat
           /\ job.phase # "idle" => /\ 1 \in DOMAIN job.batch
                                    /\ Len(job.batch) \in DOMAIN job.batch
  <1>1. \A i \in DOMAIN lines : Decodes(lines[i]) => EventAt(lines[i]).sequence \in Nat
    BY DecodedEvent DEF TypeOK, Event
  <1>2. tail.event.sequence \in Nat
    BY DEF TypeOK, Event, NoEvent
  <1>3. job.batch \in Seq(Event) /\ job.todo \in Seq(Event)
    BY DEF TypeOK, Batches
  <1>4. \A e \in Event : e.sequence \in Nat
    BY DEF Event
  <1> QED
    BY <1>1, <1>2, <1>3, <1>4 DEF Shape, Proper

\* A line is added in order, and the tail or the batch stays ahead of it.
LEMMA OrderStep == LogInv /\ [Next]_vars => OnDiskInOrder' /\ Ahead'
  <1> SUFFICES ASSUME LogInv, [Next]_vars PROVE OnDiskInOrder' /\ Ahead'
    OBVIOUS
  <1> TypeOK /\ Shape /\ OnDiskInOrder /\ Ahead
    BY DEF LogInv
  <1> lines \in Seq(Line) /\ job \in JobType
    BY DEF TypeOK, JobType
  <1> USE DEF told, file
  <1>1. ASSUME UNCHANGED <<lines, tail, job>> PROVE OnDiskInOrder' /\ Ahead'
    BY <1>1 DEF OnDiskInOrder, Ahead, UpTo
  <1>2. CASE StartBatch
    BY <1>2 DEF StartBatch, OnDiskInOrder, Ahead, UpTo
  <1>3. CASE LoadTail
    <2>1. tail'.event = IF tail.loaded THEN tail.event ELSE LastOnFile
      BY <1>3 DEF LoadTail
    <2>2. UpTo(tail'.event.sequence)
      BY <1>3, <2>1, LastIsGreatest DEF LoadTail, Ahead
    <2>3. UNCHANGED lines /\ job'.phase = "check"
      BY <1>3 DEF LoadTail, JobType
    <2> QED
      BY <2>2, <2>3 DEF OnDiskInOrder, Ahead, UpTo
  <1>4. ASSUME Reject, UNCHANGED tail, job.phase # "write"
        PROVE  OnDiskInOrder' /\ Ahead'
    BY <1>4 DEF Reject, Idle, OnDiskInOrder, Ahead, UpTo
  <1>5. CASE StartWrite
    <2>1. UpTo(tail.event.sequence) /\ tail.event.sequence < job.batch[1].sequence
      BY <1>5 DEF StartWrite, InSequence, Ahead, Shape
    <2>2. Increasing(job.batch) /\ 1 \in DOMAIN job.batch /\ Len(job.batch) \in DOMAIN job.batch
      BY <1>5, Numbers DEF StartWrite, Shape, Proper
    <2>3. ASSUME NEW j \in DOMAIN job.batch
          PROVE  /\ job.batch[1].sequence <= job.batch[j].sequence
                 /\ job.batch[j].sequence <= job.batch[Len(job.batch)].sequence
      <3>1. job.batch \in Seq(Event)
        BY DEF JobType, Batches
      <3>2. (j = 1 \/ 1 < j) /\ (j = Len(job.batch) \/ j < Len(job.batch))
        BY <3>1
      <3>3. /\ job.batch[1].sequence \in Nat
            /\ job.batch[j].sequence \in Nat
            /\ job.batch[Len(job.batch)].sequence \in Nat
        BY <2>2, Numbers
      <3>4. 1 < j => job.batch[1].sequence < job.batch[j].sequence
        BY <2>2 DEF Increasing
      <3>5. j < Len(job.batch) => job.batch[j].sequence < job.batch[Len(job.batch)].sequence
        BY <2>2 DEF Increasing
      <3> QED
        BY <3>2, <3>3, <3>4, <3>5
    <2>4. UNCHANGED <<lines, tail>> /\ job'.phase = "write" /\ job'.batch = job.batch /\ job'.todo = job.batch
      BY <1>5 DEF StartWrite, JobType
    <2>5. \A i \in DOMAIN lines : Decodes(lines[i]) =>
              \A j \in DOMAIN job.batch : EventAt(lines[i]).sequence < job.batch[j].sequence
      BY <2>1, <2>3, Numbers, <2>2 DEF UpTo
    <2>6. UpTo(job.batch[Len(job.batch)].sequence)
      BY <2>2, <2>5, Numbers DEF UpTo
    <2> QED
      BY <2>2, <2>3, <2>4, <2>5, <2>6 DEF OnDiskInOrder, Ahead, UpTo
  <1>6. CASE LandBytes
    <2>1. UNCHANGED <<lines, tail>> /\ job'.phase = "write" /\ job'.batch = job.batch /\ job'.todo = job.todo
      BY <1>6 DEF LandBytes, JobType
    <2> QED
      BY <1>6, <2>1 DEF LandBytes, OnDiskInOrder, Ahead, UpTo
  <1>7. CASE LandNewline
    <2> DEFINE n == Len(lines) + 1
               new == Append(rest, Whole(Head(job.todo)))
    <2>1. /\ lines' = Append(lines, new)
          /\ job'.phase = "write" /\ job'.batch = job.batch /\ job'.todo = Tail(job.todo)
          /\ job.phase = "write"
      BY <1>7 DEF LandNewline, JobType
    <2>2. /\ job.todo \in Seq(Event) /\ job.todo # <<>>
          /\ Head(job.todo) = job.todo[1] /\ 1 \in DOMAIN job.todo
      BY <1>7 DEF LandNewline, JobType, Batches
    <2>3. Decodes(new) => EventAt(new) = job.todo[1]
      BY <2>2 DEF Decodes, EventAt, Whole, TypeOK, Line
    <2> HIDE DEF new
    <2>4. /\ DOMAIN lines' = 1..n
          /\ n \in Nat /\ lines'[n] = new
          /\ \A i \in DOMAIN lines : i \in Nat /\ i < n /\ lines'[i] = lines[i]
          /\ \A i \in DOMAIN lines' : i = n \/ i \in DOMAIN lines
      BY <2>1
    <2>5. \A i \in DOMAIN lines : Decodes(lines[i]) =>
              EventAt(lines[i]).sequence < job.todo[1].sequence
      BY <2>1, <2>2 DEF Ahead
    <2>6. OnDiskInOrder'
      BY <2>3, <2>4, <2>5 DEF OnDiskInOrder
    <2>7. /\ \A j \in DOMAIN job'.todo : j + 1 \in DOMAIN job.todo /\ job'.todo[j] = job.todo[j + 1]
          /\ \A j \in DOMAIN job'.todo : 1 < j + 1
      BY <2>1, <2>2
    <2>8. Increasing(job'.todo)
      BY <2>1, <2>2, <2>7 DEF Ahead, Increasing
    <2>9. \A j \in DOMAIN job'.todo : job.todo[1].sequence < job'.todo[j].sequence
      BY <2>1, <2>2, <2>7 DEF Ahead, Increasing
    <2>10. /\ UpTo(job.batch[Len(job.batch)].sequence)
           /\ job.todo[1].sequence <= job.batch[Len(job.batch)].sequence
           /\ \A j \in DOMAIN job'.todo : job'.todo[j].sequence <= job.batch[Len(job.batch)].sequence
      BY <2>1, <2>2, <2>7 DEF Ahead
    <2>11. \A i \in DOMAIN lines' : Decodes(lines'[i]) =>
              /\ EventAt(lines'[i]).sequence <= job.batch[Len(job.batch)].sequence
              /\ \A j \in DOMAIN job'.todo : EventAt(lines'[i]).sequence < job'.todo[j].sequence
      <3> SUFFICES ASSUME NEW i \in DOMAIN lines', Decodes(lines'[i])
                   PROVE  /\ EventAt(lines'[i]).sequence <= job.batch[Len(job.batch)].sequence
                          /\ \A j \in DOMAIN job'.todo :
                                EventAt(lines'[i]).sequence < job'.todo[j].sequence
        OBVIOUS
      <3>1. CASE i = n
        BY <3>1, <2>3, <2>4, <2>9, <2>10
      <3>2. CASE i \in DOMAIN lines
        BY <3>2, <2>1, <2>4, <2>7, <2>10 DEF UpTo, Ahead
      <3> QED
        BY <3>1, <3>2, <2>4
    <2> QED
      BY <2>1, <2>6, <2>8, <2>10, <2>11 DEF Ahead, UpTo
  <1>8. CASE WriteResolves
    <2>1. UNCHANGED lines /\ job'.phase = "idle" /\ tail'.event = job.batch[Len(job.batch)]
      BY <1>8 DEF WriteResolves, Idle
    <2>2. UpTo(job.batch[Len(job.batch)].sequence)
      BY <1>8 DEF WriteResolves, Ahead
    <2> QED
      BY <2>1, <2>2 DEF OnDiskInOrder, Ahead, UpTo
  <1>9. ASSUME UNCHANGED lines, tail' = [loaded |-> FALSE, event |-> NoEvent], job' = Idle
        PROVE  OnDiskInOrder' /\ Ahead'
    BY <1>9 DEF Idle, OnDiskInOrder, Ahead
  <1>10. CASE WriteFails \/ Crash
    BY <1>9, <1>10 DEF WriteFails, Crash
  <1>11. ASSUME NEW seqs \in Calls, AppendMany(seqs) PROVE UNCHANGED <<lines, tail, job>>
    BY <1>11 DEF AppendMany
  <1>12. CASE Repair \/ Read \/ UNCHANGED vars
    BY <1>1, <1>12 DEF Repair, Read, OpenReader, ReadLine, ReadEnd, vars
  <1> QED
    BY <1>1, <1>2, <1>3, <1>4, <1>5, <1>6, <1>7, <1>8, <1>10, <1>11, <1>12
       DEF Next, Write, LoadTailFails, RejectSequence

(***************************************************************************)
(* What was acknowledged.                                                  *)
(***************************************************************************)

\* e is on file with its newline.
Finished(e) == \E j \in DOMAIN lines : lines[j][Len(lines[j])] = Whole(e)

\* A finished line holds events that are whole; a remainder that does not is one
\* behind which nothing is written, since the tail cannot be loaded from the file.
WholeLines ==
    /\ \A i \in DOMAIN lines :
          lines[i] # <<>> /\ \A k \in DOMAIN lines[i] : lines[i][k].whole = TRUE
    /\ tail.loaded = TRUE => \A k \in DOMAIN rest : rest[k].whole = TRUE

\* An event of the batch that is written is on file or still to be written.
Landed ==
    job.phase = "write" =>
        \A e \in EventsOf(job.batch) : e \in EventsOf(job.todo) \/ Finished(e)

AckInv == WholeLines /\ Landed /\ \A e \in acked : Finished(e)

\* A reader has seen the lines before its position, all of which decode.
ReaderInv ==
    /\ reader.phase = "reading" =>
          /\ reader.pos <= Len(lines)
          /\ Len(reader.seen) = reader.pos
          /\ \A i \in 1..reader.pos : Decodes(lines[i]) /\ reader.seen[i] = EventAt(lines[i])
          /\ reader.owed \subseteq acked
    /\ ReplayReturnsAcked

\* A remainder that a strict reader takes is a whole event.
LEMMA StrictRestIsWhole ==
    ASSUME TypeOK, StrictReadable
    PROVE  \A k \in DOMAIN rest : rest[k].whole = TRUE
  <1>1. lines \in Seq(Line) /\ rest \in Line
    BY DEF TypeOK
  <1>2. CASE rest = <<>>
    BY <1>2
  <1>3. CASE rest # <<>>
    <2>1. Decodes(rest)
      BY <1>1, <1>3 DEF StrictReadable, StrictLines
    <2> QED
      BY <1>1, <2>1 DEF Decodes, Line, Fragment
  <1> QED
    BY <1>2, <1>3

\* A sequence with one more element.
LEMMA Appended ==
    ASSUME NEW S, NEW s \in Seq(S), NEW x \in S
    PROVE  /\ Append(s, x) \in Seq(S) /\ Append(s, x) # <<>>
           /\ Len(Append(s, x)) = Len(s) + 1
           /\ Append(s, x)[Len(s) + 1] = x /\ Len(s) + 1 \in DOMAIN Append(s, x)
           /\ \A k \in DOMAIN s : k \in DOMAIN Append(s, x) /\ Append(s, x)[k] = s[k]
           /\ \A k \in DOMAIN Append(s, x) : k \in DOMAIN s \/ k = Len(s) + 1
  OBVIOUS

\* What was finished stays so as long as lines are only added.
LEMMA FinishedStays ==
    ASSUME \A i \in DOMAIN lines : i \in DOMAIN lines' /\ lines'[i] = lines[i],
           NEW e, Finished(e)
    PROVE  Finished(e)'
  <1>1. PICK j \in DOMAIN lines : lines[j][Len(lines[j])] = Whole(e)
    BY DEF Finished
  <1>2. j \in DOMAIN lines' /\ lines'[j] = lines[j]
    BY <1>1
  <1>3. lines'[j][Len(lines'[j])] = Whole(e)
    BY <1>1, <1>2
  <1> QED
    BY <1>2, <1>3 DEF Finished

\* The newline that ends a line makes its event one that is finished.
LEMMA NewlineFinishes ==
    ASSUME TypeOK, LandNewline
    PROVE  LET new == Append(rest, Whole(Head(job.todo))) IN
           /\ Len(lines') = Len(lines) + 1
           /\ \A i \in DOMAIN lines : i \in DOMAIN lines' /\ lines'[i] = lines[i]
           /\ \A i \in DOMAIN lines' : i \in DOMAIN lines \/ i = Len(lines) + 1
           /\ Len(lines) + 1 \in DOMAIN lines' /\ lines'[Len(lines) + 1] = new
           /\ new \in Line /\ new # <<>> /\ new[Len(new)] = Whole(job.todo[1])
           /\ \A k \in DOMAIN new : (k \in DOMAIN rest /\ new[k] = rest[k]) \/ k = Len(new)
           /\ job.todo # <<>> /\ job.todo[1] \in Event /\ 1 \in DOMAIN job.todo
           /\ job'.todo = Tail(job.todo) /\ job'.batch = job.batch /\ job'.phase = "write"
           /\ \A i \in DOMAIN job.todo : i = 1 \/ job.todo[i] \in EventsOf(job'.todo)
  <1> DEFINE new == Append(rest, Whole(Head(job.todo)))
  <1>1. lines \in Seq(Line) /\ rest \in Seq(Fragment) /\ job.todo \in Seq(Event) /\ job.todo # <<>>
    BY DEF TypeOK, Line, Batches, LandNewline
  <1>2. Head(job.todo) = job.todo[1] /\ job.todo[1] \in Event /\ 1 \in DOMAIN job.todo
    BY <1>1
  <1>3. Whole(Head(job.todo)) \in Fragment
    BY <1>2 DEF Whole, Fragment
  <1>4. /\ new \in Line /\ new # <<>> /\ new[Len(new)] = Whole(job.todo[1])
        /\ \A k \in DOMAIN new : (k \in DOMAIN rest /\ new[k] = rest[k]) \/ k = Len(new)
    BY <1>1, <1>2, <1>3, Appended DEF Line
  <1>5. lines' = Append(lines, new)
    BY DEF LandNewline
  <1>6. job'.todo = Tail(job.todo) /\ job'.batch = job.batch /\ job'.phase = "write"
    BY DEF LandNewline, TypeOK
  <1>7. ASSUME NEW i \in DOMAIN job.todo, i # 1 PROVE job.todo[i] \in EventsOf(job'.todo)
    <2>1. /\ i - 1 \in DOMAIN Tail(job.todo)
          /\ Tail(job.todo)[i - 1] = job.todo[i]
      BY <1>1, <1>7
    <2> QED
      BY <1>6, <2>1 DEF EventsOf
  <1> HIDE DEF new
  <1>8. /\ Len(lines') = Len(lines) + 1
        /\ \A i \in DOMAIN lines : i \in DOMAIN lines' /\ lines'[i] = lines[i]
        /\ \A i \in DOMAIN lines' : i \in DOMAIN lines \/ i = Len(lines) + 1
        /\ Len(lines) + 1 \in DOMAIN lines' /\ lines'[Len(lines) + 1] = new
    BY <1>1, <1>4, <1>5, Appended
  <1> QED
    BY <1>1, <1>2, <1>4, <1>6, <1>7, <1>8 DEF new

\* Every step keeps what was acknowledged.
LEMMA AckStep == TypeOK /\ Shape /\ AckInv /\ [Next]_vars => AckInv'
  <1> SUFFICES ASSUME TypeOK, Shape, AckInv, [Next]_vars PROVE AckInv'
    OBVIOUS
  <1> USE DEF told, file
  <1>1. ASSUME UNCHANGED <<lines, rest, tail, job, acked>> PROVE AckInv'
    BY <1>1 DEF AckInv, WholeLines, Landed, Finished
  <1>2. ASSUME UNCHANGED <<lines, acked>>, job'.phase # "write",
               \/ UNCHANGED rest /\ UNCHANGED tail
               \/ tail'.loaded = FALSE
        PROVE  AckInv'
    BY <1>2 DEF AckInv, WholeLines, Landed, Finished
  <1>3. CASE StartBatch
    BY <1>2, <1>3 DEF StartBatch
  <1>4. CASE LoadTail
    <2>1. UNCHANGED <<lines, rest, acked>> /\ job'.phase = "check"
      BY <1>4 DEF LoadTail, TypeOK
    <2>2. \A k \in DOMAIN rest : rest[k].whole = TRUE
      BY <1>4, StrictRestIsWhole DEF LoadTail, AckInv, WholeLines, TypeOK
    <2>3. WholeLines' /\ Landed'
      BY <2>1, <2>2 DEF AckInv, WholeLines, Landed
    <2> QED
      BY <2>1, <2>3 DEF AckInv, Finished
  <1>5. CASE LoadTailFails \/ RejectSequence
    <2>1. UNCHANGED <<lines, acked>> /\ job'.phase # "write" /\ UNCHANGED rest /\ UNCHANGED tail
      BY <1>5 DEF LoadTailFails, RejectSequence, Reject, Idle
    <2> QED
      BY <1>2, <2>1
  <1>6. CASE StartWrite
    <2>1. UNCHANGED <<lines, rest, tail, acked>> /\ job'.todo = job'.batch
      BY <1>6 DEF StartWrite, TypeOK
    <2> QED
      BY <2>1 DEF AckInv, WholeLines, Landed, Finished
  <1>7. CASE LandBytes
    <2>1. /\ UNCHANGED <<lines, rest, tail, acked>>
          /\ job'.todo = job.todo /\ job'.batch = job.batch /\ job'.phase = job.phase
      BY <1>7 DEF LandBytes, TypeOK
    <2> QED
      BY <2>1 DEF AckInv, WholeLines, Landed, Finished
  <1>8. CASE LandNewline
    <2> DEFINE new == Append(rest, Whole(Head(job.todo)))
               n == Len(lines) + 1
    <2>1. /\ \A i \in DOMAIN lines : i \in DOMAIN lines' /\ lines'[i] = lines[i]
          /\ \A i \in DOMAIN lines' : i \in DOMAIN lines \/ i = n
          /\ n \in DOMAIN lines' /\ lines'[n] = new
          /\ new # <<>> /\ new[Len(new)] = Whole(job.todo[1])
          /\ \A k \in DOMAIN new : (k \in DOMAIN rest /\ new[k] = rest[k]) \/ k = Len(new)
          /\ job'.batch = job.batch /\ job'.phase = "write"
          /\ \A i \in DOMAIN job.todo : i = 1 \/ job.todo[i] \in EventsOf(job'.todo)
      BY <1>8, NewlineFinishes
    <2>2. /\ rest' = <<>> /\ UNCHANGED <<tail, acked>> /\ job.phase = "write" /\ tail.loaded = TRUE
      BY <1>8 DEF LandNewline, Shape, TypeOK
    <2> HIDE DEF new, n
    <2>3. \A k \in DOMAIN new : new[k].whole = TRUE
      BY <2>1, <2>2 DEF AckInv, WholeLines, Whole
    <2>4. WholeLines'
      BY <2>1, <2>2, <2>3 DEF AckInv, WholeLines
    <2>5. \A e : Finished(e) => Finished(e)'
      BY <2>1, FinishedStays
    <2> DEFINE first == job.todo[1]
    <2>6. lines'[n][Len(lines'[n])] = Whole(first)
      BY <2>1
    <2>7. Landed'
      <3> SUFFICES ASSUME NEW e \in EventsOf(job'.batch)
                   PROVE  e \in EventsOf(job'.todo) \/ Finished(e)'
        BY DEF Landed
      <3>1. e \in EventsOf(job.todo) \/ Finished(e)
        BY <2>1, <2>2 DEF AckInv, Landed
      <3>2. CASE e = first
        <4>1. lines'[n][Len(lines'[n])] = Whole(e)
          BY <2>6, <3>2
        <4> QED
          BY <2>1, <4>1 DEF Finished
      <3>3. CASE e # first
        BY <2>1, <2>5, <3>1, <3>3 DEF EventsOf
      <3> QED
        BY <3>2, <3>3
    <2> QED
      BY <2>2, <2>4, <2>5, <2>7 DEF AckInv
  <1>9. CASE WriteResolves
    <2>1. UNCHANGED <<lines, rest>> /\ job'.phase = "idle" /\ acked' = acked \cup EventsOf(job.batch)
      BY <1>9 DEF WriteResolves, Idle
    <2>2. tail.loaded = TRUE /\ EventsOf(job.todo) = {}
      BY <1>9 DEF WriteResolves, Shape, TypeOK, EventsOf
    <2>3. \A e \in EventsOf(job.batch) : Finished(e)
      BY <1>9, <2>2 DEF AckInv, Landed, WriteResolves
    <2>4. WholeLines' /\ Landed'
      BY <2>1, <2>2 DEF AckInv, WholeLines, Landed
    <2>5. \A e \in acked' : Finished(e)
      BY <2>1, <2>3 DEF AckInv
    <2> QED
      BY <2>1, <2>4, <2>5 DEF AckInv, Finished
  <1>10. CASE WriteFails \/ Crash
    <2>1. UNCHANGED <<lines, acked>> /\ job'.phase # "write" /\ tail'.loaded = FALSE
      BY <1>10 DEF WriteFails, Crash, Idle
    <2> QED
      BY <1>2, <2>1
  <1>11. CASE Repair
    BY <1>11 DEF Repair, AckInv, WholeLines, Landed, Finished
  <1>12. ASSUME NEW seqs \in Calls, AppendMany(seqs) PROVE AckInv'
    BY <1>1, <1>12 DEF AppendMany
  <1>13. CASE Read \/ UNCHANGED vars
    BY <1>1, <1>13 DEF Read, OpenReader, ReadLine, ReadEnd, vars
  <1> QED
    BY <1>3, <1>4, <1>5, <1>6, <1>7, <1>8, <1>9, <1>10, <1>11, <1>12, <1>13 DEF Next, Write

\* A line that decodes and ends with an event is that event.
LEMMA DecodedLine ==
    ASSUME NEW line, Decodes(line), NEW e, line[Len(line)] = Whole(e)
    PROVE  EventAt(line) = e
  BY DEF Decodes, EventAt, Whole

\* Every step keeps what a reader has seen, also one of the writer.
LEMMA ReaderStep == TypeOK /\ AckInv /\ ReaderInv /\ [Next]_vars => ReaderInv'
  <1> SUFFICES ASSUME TypeOK, AckInv, ReaderInv, [Next]_vars PROVE ReaderInv'
    OBVIOUS
  <1> USE DEF told, file
  <1>1. ASSUME UNCHANGED <<lines, reader>>, acked \subseteq acked' PROVE ReaderInv'
    BY <1>1 DEF ReaderInv, ReplayReturnsAcked
  <1>2. ASSUME NEW seqs \in Calls, AppendMany(seqs) PROVE ReaderInv'
    BY <1>1, <1>2 DEF AppendMany
  <1>3. CASE StartBatch \/ LoadTail \/ LoadTailFails \/ RejectSequence \/ StartWrite \/ LandBytes
    BY <1>1, <1>3 DEF StartBatch, LoadTail, LoadTailFails, RejectSequence, Reject, StartWrite,
                      LandBytes
  <1>4. CASE LandNewline
    <2>1. /\ Len(lines) \in Nat /\ Len(lines') = Len(lines) + 1
          /\ \A i \in DOMAIN lines : lines'[i] = lines[i]
          /\ DOMAIN lines = 1..Len(lines)
      BY <1>4, NewlineFinishes DEF TypeOK
    <2>2. UNCHANGED <<reader, acked>>
      BY <1>4 DEF LandNewline
    <2>3. reader.pos \in Nat
      BY DEF TypeOK
    <2>4. reader.phase = "reading" => 1..reader.pos \subseteq DOMAIN lines /\ reader.pos <= Len(lines')
      BY <2>1, <2>3 DEF ReaderInv
    <2> QED
      BY <2>1, <2>2, <2>4 DEF ReaderInv, ReplayReturnsAcked
  <1>5. CASE WriteResolves \/ WriteFails \/ Repair
    BY <1>1, <1>5 DEF WriteResolves, WriteFails, Repair
  <1>6. CASE Crash
    BY <1>6 DEF Crash, Closed, ReaderInv, ReplayReturnsAcked
  <1>7. CASE OpenReader
    BY <1>7 DEF OpenReader, ReaderInv, ReplayReturnsAcked, TypeOK
  <1>8. CASE ReadLine
    <2>1. /\ reader.phase = "reading" /\ reader.pos < Len(lines) /\ UNCHANGED <<lines, acked>>
          /\ reader.pos \in Nat /\ Len(lines) \in Nat
      BY <1>8 DEF ReadLine, TypeOK
    <2>2. CASE Decodes(NextLine) /\ AfterSeen(EventAt(NextLine))
      <3> DEFINE e == EventAt(NextLine)
      <3>1. /\ reader'.phase = "reading" /\ reader'.pos = reader.pos + 1
            /\ reader'.seen = Append(reader.seen, e) /\ reader'.owed = reader.owed
        BY <1>8, <2>2 DEF ReadLine, TypeOK
      <3>2. NextLine \in Line /\ reader.seen \in Seq(Event)
        BY <2>1 DEF NextLine, TypeOK, Batches
      <3>3. e \in Event
        BY <2>2, <3>2, DecodedEvent
      <3> HIDE DEF e
      <3>4. /\ Len(reader'.seen) = Len(reader.seen) + 1
            /\ reader'.seen[Len(reader.seen) + 1] = e
            /\ \A i \in DOMAIN reader.seen : reader'.seen[i] = reader.seen[i]
            /\ DOMAIN reader.seen = 1..Len(reader.seen)
        BY <3>1, <3>2, <3>3, Appended
      <3>5. Len(reader.seen) = reader.pos
        BY <2>1 DEF ReaderInv
      <3>6. ASSUME NEW i \in 1..(reader.pos + 1)
            PROVE  Decodes(lines[i]) /\ reader'.seen[i] = EventAt(lines[i])
        <4>1. i \in 1..reader.pos \/ i = reader.pos + 1
          BY <2>1
        <4>2. CASE i = reader.pos + 1
          BY <2>2, <3>4, <3>5, <4>2 DEF NextLine, e
        <4>3. CASE i \in 1..reader.pos
          BY <2>1, <3>4, <3>5, <4>3 DEF ReaderInv
        <4> QED
          BY <4>1, <4>2, <4>3
      <3>7. ReplayReturnsAcked'
        BY <3>1 DEF ReplayReturnsAcked
      <3>8. reader'.owed \subseteq acked' /\ reader'.pos <= Len(lines')
        BY <2>1, <3>1 DEF ReaderInv
      <3>9. \A i \in 1..reader'.pos : Decodes(lines'[i]) /\ reader'.seen[i] = EventAt(lines'[i])
        BY <2>1, <3>1, <3>6
      <3> QED
        BY <3>1, <3>4, <3>5, <3>7, <3>8, <3>9 DEF ReaderInv
    <2>3. CASE ~(Decodes(NextLine) /\ AfterSeen(EventAt(NextLine)))
      <3>1. reader'.phase = "threw"
        BY <1>8, <2>3 DEF ReadLine, TypeOK
      <3> QED
        BY <3>1 DEF ReaderInv, ReplayReturnsAcked
    <2> QED
      BY <2>2, <2>3
  <1>9. CASE ReadEnd
    <2>1. /\ reader.phase = "reading" /\ reader.pos = Len(lines)
          /\ reader'.phase = "done" /\ reader'.seen = reader.seen /\ reader'.owed = reader.owed
          /\ lines \in Seq(Line) /\ reader.seen \in Seq(Event)
      BY <1>9 DEF ReadEnd, TypeOK, Batches
    <2>2. ASSUME NEW e \in reader.owed PROVE e \in EventsOf(reader.seen)
      <3>1. PICK j \in DOMAIN lines : lines[j][Len(lines[j])] = Whole(e)
        BY <2>1 DEF ReaderInv, AckInv, Finished
      <3>2. j \in 1..reader.pos /\ j \in DOMAIN reader.seen
        BY <2>1 DEF ReaderInv
      <3>3. Decodes(lines[j]) /\ reader.seen[j] = EventAt(lines[j])
        BY <2>1, <3>2 DEF ReaderInv
      <3>4. reader.seen[j] = e
        BY <3>1, <3>3, DecodedLine
      <3> QED
        BY <3>2, <3>4 DEF EventsOf
    <2> QED
      BY <2>1, <2>2 DEF ReaderInv, ReplayReturnsAcked
  <1>10. CASE UNCHANGED vars
    BY <1>1, <1>10 DEF vars
  <1> QED
    BY <1>2, <1>3, <1>4, <1>5, <1>6, <1>7, <1>8, <1>9, <1>10 DEF Next, Write, Read

(***************************************************************************)
(* The log is an EventStore.                                               *)
(***************************************************************************)

\* A sequence that ends in x and is s before it.
LEMMA IsAppend ==
    ASSUME NEW S, NEW s \in Seq(S), NEW x \in S, NEW t \in Seq(S),
           Len(t) = Len(s) + 1, t[Len(s) + 1] = x,
           \A i \in 1..Len(s) : t[i] = s[i]
    PROVE  t = Append(s, x)
  OBVIOUS

\* When every line decodes all of them are replayed.
LEMMA AllReplayed ==
    ASSUME NEW L \in Seq(Line), \A i \in 1..Len(L) : Decodes(L[i])
    PROVE  LET R == [i \in {n \in DOMAIN L : \A m \in 1..n : Decodes(L[m])} |-> EventAt(L[i])] IN
           /\ R \in Seq(Event)
           /\ Len(R) = Len(L)
           /\ DOMAIN R = DOMAIN L
           /\ \A i \in DOMAIN L : R[i] = EventAt(L[i])
  <1>1. {n \in DOMAIN L : \A m \in 1..n : Decodes(L[m])} = 1..Len(L)
    OBVIOUS
  <1>2. \A i \in 1..Len(L) : EventAt(L[i]) \in Event
    BY DecodedEvent
  <1> QED
    BY <1>1, <1>2

\* What the newline of an event adds to the replay: the event, if all lines before
\* it and its own decode, and nothing otherwise.
LEMMA NewlineKeeps ==
    ASSUME LogInv, AckInv, LandNewline
    PROVE  \/ UNCHANGED Replayable
           \/ /\ Replayable \in Seq(Event)
              /\ job.todo[1] \in Event
              /\ job.todo[1] \notin acked
              /\ job.todo[1].sequence > Store!LastSequence
              /\ Replayable' = Append(Replayable, job.todo[1])
  <1> DEFINE n == Len(lines) + 1
             new == Append(rest, Whole(Head(job.todo)))
             e == job.todo[1]
  <1>1. TypeOK /\ Shape /\ Ahead /\ TypeOK'
    <2>1. [Next]_vars
      BY DEF Next, Write
    <2> QED
      BY <2>1, TypeStep DEF LogInv
  <1>2. /\ Len(lines') = n
        /\ \A i \in DOMAIN lines : i \in DOMAIN lines' /\ lines'[i] = lines[i]
        /\ \A i \in DOMAIN lines' : i \in DOMAIN lines \/ i = n
        /\ n \in DOMAIN lines' /\ lines'[n] = new
        /\ new[Len(new)] = Whole(e)
        /\ job.todo # <<>> /\ e \in Event /\ 1 \in DOMAIN job.todo
    BY <1>1, NewlineFinishes
  <1> HIDE DEF e, new
  <1>3. Len(lines) \in Nat /\ DOMAIN lines = 1..Len(lines) /\ DOMAIN lines' = 1..n /\ n \in Nat
    BY <1>1, <1>2 DEF TypeOK
  <1>4. CASE DecodesUpTo(Len(lines)) /\ Decodes(new)
    <2>1. DecodesUpTo(Len(lines))'
      BY <1>2, <1>3, <1>4 DEF DecodesUpTo
    <2>2. /\ Replayable \in Seq(Event) /\ Len(Replayable) = Len(lines)
          /\ DOMAIN Replayable = DOMAIN lines
          /\ \A i \in DOMAIN lines : Replayable[i] = EventAt(lines[i])
      BY <1>1, <1>4, AllReplayed DEF Replayable, DecodesUpTo, TypeOK
    <2>3. /\ Replayable' \in Seq(Event) /\ Len(Replayable') = n
          /\ \A i \in DOMAIN lines' : Replayable'[i] = EventAt(lines'[i])
      BY <1>1, <1>2, <2>1, AllReplayed DEF Replayable, DecodesUpTo, TypeOK
    <2>4. EventAt(new) = e
      BY <1>2, <1>4, DecodedLine
    <2>5. Replayable' = Append(Replayable, e)
      <3>1. Replayable'[Len(Replayable) + 1] = e
        BY <1>2, <2>2, <2>3, <2>4
      <3>2. \A i \in 1..Len(Replayable) : Replayable'[i] = Replayable[i]
        BY <1>2, <1>3, <2>2, <2>3
      <3> QED
        BY <1>2, <2>2, <2>3, <3>1, <3>2, IsAppend
    <2>6. \A i \in DOMAIN lines : EventAt(lines[i]).sequence < e.sequence
      BY <1>1, <1>2, <1>3, <1>4 DEF LandNewline, Ahead, DecodesUpTo, e
    <2>7. e \notin acked
      <3> SUFFICES ASSUME e \in acked PROVE FALSE
        OBVIOUS
      <3>1. PICK j \in DOMAIN lines : lines[j][Len(lines[j])] = Whole(e)
        BY DEF AckInv, Finished
      <3>2. EventAt(lines[j]) = e
        BY <1>3, <1>4, <3>1, DecodedLine DEF DecodesUpTo
      <3> QED
        BY <1>2, <2>6, <3>2 DEF Event
    <2>8. e.sequence > Store!LastSequence
      <3>1. CASE Replayable = <<>>
        BY <1>2, <3>1 DEF Store!LastSequence, Event
      <3>2. CASE Replayable # <<>>
        <4>1. Len(lines) \in DOMAIN lines
          BY <1>3, <2>2, <3>2
        <4>2. Replayable[Len(Replayable)] = EventAt(lines[Len(lines)]) /\ Replayable[Len(Replayable)] \in Event
          BY <2>2, <4>1
        <4> QED
          BY <1>2, <2>6, <3>2, <4>1, <4>2 DEF Store!LastSequence, Event
      <3> QED
        BY <3>1, <3>2
    <2> QED
      BY <1>2, <2>2, <2>5, <2>7, <2>8 DEF e
  <1>5. CASE ~(DecodesUpTo(Len(lines)) /\ Decodes(new))
    <2> DEFINE All(L, i) == \A m \in 1..i : Decodes(L[m])
               D == {i \in DOMAIN lines : All(lines, i)}
               E == {i \in DOMAIN lines' : All(lines', i)}
    <2>1. ~All(lines', n)
      <3>1. PICK m \in 1..n : (m = n /\ ~Decodes(new)) \/ (m # n /\ ~Decodes(lines[m]))
        BY <1>3, <1>5 DEF DecodesUpTo
      <3> QED
        BY <1>2, <1>3, <3>1
    <2>2. \A i \in DOMAIN lines : All(lines', i) <=> All(lines, i)
      BY <1>2, <1>3
    <2> HIDE DEF All
    <2>3. E = D
      BY <1>2, <2>1, <2>2
    <2>4. \A i \in D : EventAt(lines'[i]) = EventAt(lines[i])
      BY <1>2
    <2>5. [i \in E |-> EventAt(lines'[i])] = [i \in D |-> EventAt(lines[i])]
      BY <2>3, <2>4
    <2> QED
      BY <2>5 DEF Replayable, DecodesUpTo, All
  <1> QED
    BY <1>4, <1>5

\* To its users a step of the log is one of the store, or none.
LEMMA StoreStep ==
    LogInv /\ AckInv /\ [Next]_vars =>
        [Store!Next]_<<Replayable, acked \cap EventsOf(Replayable)>>
  <1> SUFFICES ASSUME LogInv, AckInv, [Next]_vars
               PROVE  [Store!Next]_<<Replayable, acked \cap EventsOf(Replayable)>>
    OBVIOUS
  <1> DEFINE Kept == {Replayable[i] : i \in DOMAIN Replayable}
  <1>0. Kept = EventsOf(Replayable)
    BY DEF EventsOf
  <1>1. CASE UNCHANGED <<lines, acked>>
    BY <1>1 DEF Replayable, EventsOf, DecodesUpTo
  <1>2. CASE LandNewline
    <2>1. acked' = acked
      BY <1>2 DEF LandNewline, told
    <2>2. CASE UNCHANGED Replayable
      BY <2>1, <2>2 DEF EventsOf
    <2>3. CASE ~UNCHANGED Replayable
      <3>1. /\ Replayable \in Seq(Event)
            /\ job.todo[1] \in Event /\ job.todo[1] \notin acked
            /\ job.todo[1].sequence > Store!LastSequence
            /\ Replayable' = Append(Replayable, job.todo[1])
        BY <1>2, <2>3, NewlineKeeps
      <3>2. EventsOf(Replayable') = EventsOf(Replayable) \cup {job.todo[1]}
        BY <3>1, Appended DEF EventsOf
      <3>3. Store!Keep(job.todo[1])
        BY <2>1, <3>1, <3>2 DEF Store!Keep
      <3> QED
        BY <3>1, <3>3 DEF Store!Next
    <2> QED
      BY <2>2, <2>3
  <1>3. CASE WriteResolves
    <2>1. lines' = lines /\ acked' = acked \cup EventsOf(job.batch)
      BY <1>3 DEF WriteResolves, file
    <2>2. Replayable' = Replayable
      BY <2>1 DEF Replayable, DecodesUpTo
    <2> DEFINE S == EventsOf(job.batch) \cap Kept
    <2>3. acked' \cap EventsOf(Replayable') = (acked \cap EventsOf(Replayable)) \cup S
      BY <1>0, <2>1, <2>2
    <2>4. Store!Acknowledge(S)
      BY <2>2, <2>3 DEF Store!Acknowledge
    <2> QED
      BY <2>4 DEF Store!Next
  <1>4. CASE ~LandNewline /\ ~WriteResolves
    <2>1. UNCHANGED <<lines, acked>>
      BY <1>4 DEF Next, Write, Read, AppendMany, StartBatch, LoadTail, LoadTailFails, RejectSequence,
                  Reject, StartWrite, LandBytes, WriteFails, Crash, Repair, OpenReader, ReadLine,
                  ReadEnd, vars, file, told
    <2> QED
      BY <1>1, <2>1
  <1> QED
    BY <1>2, <1>3, <1>4

(***************************************************************************)
(* The theorems.                                                           *)
(***************************************************************************)

\* The invariant holds at first.
LEMMA LogInvInit == Init => LogInv
  <1> SUFFICES ASSUME Init PROVE LogInv
    OBVIOUS
  <1>1. TypeOK
    BY EmptyBatch, LogAssumption
       DEF Init, TypeOK, Line, Idle, Closed, Batches, NoByte, AllButNewline
  <1> QED
    BY <1>1 DEF Init, LogInv, Shape, OnDiskInOrder, Ahead, UpTo, Idle

\* Every step keeps it.
LEMMA LogInvStep == LogInv /\ [Next]_vars => LogInv'
  BY TypeStep, ShapeStep, OrderStep DEF LogInv

\* JsonlEventLog keeps its types whatever fails, tears or crashes.
THEOREM LogTypes == Spec => []TypeOK
  <1>1. LogInv => TypeOK
    BY DEF LogInv
  <1> QED
    BY LogInvInit, LogInvStep, <1>1, PTL DEF Spec

\* The lines of the file that decode are in the order of their sequences, and
\* no sequence is stored twice: the guard of appendBatchInternal holds against
\* the file itself, however often the tail was lost and loaded again.
THEOREM LogInOrder == Spec => []OnDiskInOrder
  <1>1. LogInv => OnDiskInOrder
    BY DEF LogInv
  <1> QED
    BY LogInvInit, LogInvStep, <1>1, PTL DEF Spec

\* A finished line is one event, or several that were glued.
LEMMA DecodesOrGlued ==
    ASSUME NEW line \in Seq(Fragment), line # <<>>, \A k \in DOMAIN line : line[k].whole = TRUE
    PROVE  Decodes(line) \/ Glued(line)
  <1>1. Len(line) \in Nat /\ Len(line) # 0 /\ DOMAIN line = 1..Len(line)
    OBVIOUS
  <1>2. CASE Len(line) = 1
    BY <1>1, <1>2 DEF Decodes
  <1>3. CASE Len(line) # 1
    BY <1>1, <1>3 DEF Glued
  <1> QED
    BY <1>2, <1>3

\* Everything that is known of the log, its writer and its reader.
LEMMA FullInvariant == Spec => [](LogInv /\ AckInv /\ ReaderInv)
  <1>1. Init => AckInv /\ ReaderInv
    BY DEF Init, AckInv, WholeLines, Landed, ReaderInv, ReplayReturnsAcked, Idle, Closed
  <1>2. LogInv /\ AckInv /\ ReaderInv /\ [Next]_vars => (LogInv /\ AckInv /\ ReaderInv)'
    BY LogInvStep, AckStep, ReaderStep DEF LogInv
  <1> QED
    BY LogInvInit, <1>1, <1>2, PTL DEF Spec

\* An event whose append resolved stays on file, whole and at the end of its line,
\* past every failure, torn write, crash and repair, and a replay reaches it unless
\* two events were glued into a line before it: appendMany resolves only behind the
\* last byte of its batch, and after a torn write loadTailIfNeeded refuses to go on.
THEOREM AckedStaysReadable == Spec => []AckedReadable
  <1>1. TypeOK /\ AckInv => AckedReadable
    <2> SUFFICES ASSUME TypeOK, AckInv, NEW e \in acked
                 PROVE  \E j \in DOMAIN lines :
                           /\ lines[j][Len(lines[j])] = Whole(e)
                           /\ DecodesUpTo(j) \/ \E i \in 1..j : Glued(lines[i])
      BY DEF AckedReadable
    <2>1. PICK j \in DOMAIN lines : lines[j][Len(lines[j])] = Whole(e)
      BY DEF AckInv, Finished
    <2>2. lines \in Seq(Line) /\ \A i \in 1..j : i \in DOMAIN lines
      BY DEF TypeOK
    <2>3. ASSUME NEW i \in 1..j PROVE Decodes(lines[i]) \/ Glued(lines[i])
      <3>1. /\ lines[i] \in Seq(Fragment) /\ lines[i] # <<>>
            /\ \A k \in DOMAIN lines[i] : lines[i][k].whole = TRUE
        BY <2>2 DEF AckInv, WholeLines, Line
      <3> QED
        BY <3>1, DecodesOrGlued
    <2> QED
      BY <2>1, <2>3 DEF DecodesUpTo
  <1> QED
    BY FullInvariant, <1>1, PTL DEF LogInv

\* A tolerant replay that ends has returned every event that was acknowledged when
\* it was opened, however the writer overtakes it meanwhile.
THEOREM ReplayIsComplete == Spec => []ReplayReturnsAcked
  <1>1. ReaderInv => ReplayReturnsAcked
    BY DEF ReaderInv
  <1> QED
    BY FullInvariant, <1>1, PTL

\* To the session engine the file, its writer and whatever befalls them are an
\* EventStore: what can be replayed only grows, at its end and in order of sequence,
\* and what was acknowledged and can be replayed stays so.
THEOREM LogImplementsStore == Spec => StoreSpec
  <1>1. Init => Store!Init
    BY DEF Init, Store!Init, Replayable
  <1> QED
    BY FullInvariant, StoreStep, <1>1, PTL DEF Spec, StoreSpec, Store!Spec
=============================================================================
