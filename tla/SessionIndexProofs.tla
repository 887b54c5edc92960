--------------------------- MODULE SessionIndexProofs ---------------------------
(***************************************************************************)
(* Proofs about the SQLite projection (SessionIndex): a transaction is     *)
(* open exactly while a rebuild replays, turn_count counts the rows of     *)
(* turns unless a kill tore an apply, and a rebuild that commits has       *)
(* projected the logs, whatever ran on the connection while it awaited the *)
(* log reader.                                                             *)
(***************************************************************************)
EXTENDS SessionIndex, FiniteSetTheorems, SequenceTheorems, TLAPS

-----------------------------------------------------------------------------
(* The inductive invariant.                                                *)

\* What the session engine writes: session.created first and only there, no
\* turn event twice, a turn completed only after it started, turns numbered
\* without a hole.
Ordered(l) ==
    \A i \in DOMAIN l :
       /\ IsTurn(l[i]) <=> l[i].turn > 0
       /\ l[i].type = "session.created" <=> i = 1
       /\ \A j \in DOMAIN l : IsTurn(l[i]) /\ l[j] = l[i] => i = j
       /\ l[i].type = "turn.completed" =>
             \E j \in 1..(i - 1) : l[j] = [type |-> "turn.started", turn |-> l[i].turn]

LogOf(s) ==
    /\ Len(log[s]) <= MaxLog
    /\ Started(s) = 1..Cardinality(Started(s))
    /\ Ordered(log[s])

LogInv == \A s \in Sessions : LogOf(s)

\* The columns of a turn come from events of that turn.
Sourced(l, row) ==
    \A t \in Turns :
       /\ row.turns[t].started # 0 =>
             /\ row.turns[t].started \in DOMAIN l
             /\ l[row.turns[t].started] = [type |-> "turn.started", turn |-> t]
       /\ row.turns[t].completed # 0 =>
             /\ row.turns[t].completed \in DOMAIN l
             /\ l[row.turns[t].completed] = [type |-> "turn.completed", turn |-> t]

SourceInv == \A s \in Sessions : Sourced(log[s], db[s]) /\ Sourced(log[s], saved[s])

\* Only a rebuild that replays has a file open or has read any, and it has read
\* no further than the log goes.
ReadInv ==
    \A r \in Rebuilds :
       /\ rebuild[r].phase # "replaying" => rebuild[r].now = {}
       /\ \A s \in Sessions :
             /\ rebuild[r].phase # "replaying" => rebuild[r].read[s] = 0
             /\ rebuild[r].read[s] <= Len(log[s])

Counted(row) == row.count = Cardinality({t \in Turns : row.turns[t].row})

\* A torn count is in the tables a rollback restores, never in those a rebuild
\* has emptied.
CountInv ==
    \A s \in Sessions :
       /\ s \notin torn \/ tx # 0 => Counted(db[s])
       /\ s \notin torn => Counted(saved[s])

(* Projection, by its parts.                                               *)
TurnEvent(type, t) == [type |-> type, turn |-> t]

At(l, n, type, t) == {i \in 1..n : l[i] = TurnEvent(type, t)}

Some(S) == CHOOSE i \in S : TRUE

\* The position of an event of a turn among the first n of a log, 0 for none.
One(l, n, type, t) == IF At(l, n, type, t) = {} THEN 0
                      ELSE Some(At(l, n, type, t))

TurnOf(l, n, t) == [row       |-> One(l, n, "turn.started", t) > 0,
                    started   |-> One(l, n, "turn.started", t),
                    completed |-> One(l, n, "turn.completed", t)]

ProjectionOf(l, n) ==
    [row |-> n > 0, last |-> n,
     count |-> Cardinality({t \in Turns : TurnOf(l, n, t).row}),
     turns |-> [t \in Turns |-> TurnOf(l, n, t)]]

\* The turns a projection has, the table has too.
Covers(row, p) ==
    \A t \in Turns : p.turns[t].row =>
       /\ row.turns[t].started = p.turns[t].started
       /\ row.turns[t].completed >= p.turns[t].completed

\* The table of a session is the projection of what the rebuild has read of its
\* log, and where apply was called it has the turns of that projection.
Follows(r, s) ==
    LET p == ProjectionOf(log[s], rebuild[r].read[s]) IN
    /\ s \notin touched => db[s] = p
    /\ Covers(db[s], p)

\* An open transaction sees that table.
ProjectionInv == tx # 0 /\ ~cleared => \A s \in Sessions : Follows(tx, s)

IndexInv ==
    /\ TypeOK
    /\ LogInv
    /\ TransactionEnds
    /\ ReadInv
    /\ SourceInv
    /\ CountInv
    /\ ProjectionInv
-----------------------------------------------------------------------------
(* What applyInternal does to a row.                                       *)

TurnRow == [row : BOOLEAN, started : 0..MaxLog, completed : 0..MaxLog]

\* The row of a turn after one of its events.
TurnAfter(old, e, n) ==
    IF e.type = "turn.started"
    THEN [row |-> TRUE, started |-> IF old.started = 0 THEN n ELSE old.started,
          completed |-> old.completed]
    ELSE [row |-> TRUE, started |-> old.started, completed |-> n]

\* An event of the log, as apply gets it.
Sound(e) == e \in Event /\ (IsTurn(e) => e.turn \in Turns)

\* The three rows an empty index consists of are rows.
LEMMA EmptyRows == NoSession \in Row /\ Empty \in [Sessions -> Row]
<1>1. NoTurn \in TurnRow
  BY IndexAssumption DEF NoTurn, TurnRow
<1>2. [t \in Turns |-> NoTurn] \in [Turns -> TurnRow]
  BY <1>1, Zenon
<1>3. NoSession \in Row
  BY <1>2, IndexAssumption DEF NoSession, Row, TurnRow
<1> QED
  BY <1>3, Zenon DEF Empty

\* The row of a turn, as UpsertTurn writes it.
LEMMA TurnRowAfter ==
    ASSUME NEW old \in TurnRow, NEW e, NEW n \in 0..MaxLog
    PROVE  /\ TurnAfter(old, e, n) \in TurnRow
           /\ TurnAfter(old, e, n) =
                 (IF e.type = "turn.started"
                  THEN [old EXCEPT !.row = TRUE, !.started = IF @ = 0 THEN n ELSE @]
                  ELSE [old EXCEPT !.row = TRUE, !.completed = n])
<1>1. CASE e.type = "turn.started"
  BY <1>1 DEF TurnRow, TurnAfter
<1>2. CASE e.type # "turn.started"
  BY <1>2 DEF TurnRow, TurnAfter
<1> QED
  BY <1>1, <1>2

\* A row in which a turn and the count are replaced.
Replaced(row, k, t, c) == [row EXCEPT !.turns[k] = t, !.count = c]

\* What is replaced, and what is not.
LEMMA RowWith ==
    ASSUME NEW row \in Row, NEW k \in Turns, NEW t \in TurnRow, NEW c \in Nat
    PROVE  LET new == Replaced(row, k, t, c) IN
           /\ new \in Row
           /\ new.row = row.row
           /\ new.last = row.last
           /\ new.count = c
           /\ new.turns = [row.turns EXCEPT ![k] = t]
<1> DEFINE ts == [row.turns EXCEPT ![k] = t]
<1>1. row.turns \in [Turns -> TurnRow]
  BY DEF Row, TurnRow
<1>2. ts \in [Turns -> TurnRow]
  BY <1>1
<1>3. [row EXCEPT !.turns[k] = t, !.count = c]
        = [[row EXCEPT !.turns = ts] EXCEPT !.count = c]
  BY DEF Row
<1> HIDE DEF ts
<1>4. [row EXCEPT !.turns = ts] \in Row
  BY <1>2 DEF Row, TurnRow
<1>5. [[row EXCEPT !.turns = ts] EXCEPT !.count = c] \in Row
  BY <1>4 DEF Row
<1> QED
  BY <1>3, <1>4, <1>5 DEF Row, ts, Replaced

\* The upsert of a turn, column by column.
LEMMA UpsertTurnFields ==
    ASSUME NEW row \in Row, NEW e, Sound(e), IsTurn(e), NEW n \in 1..MaxLog
    PROVE  LET new == UpsertTurn(row, e, n) IN
           /\ new \in Row
           /\ new.row = row.row
           /\ new.last = row.last
           /\ new.count = IF row.turns[e.turn].row THEN row.count ELSE row.count + 1
           /\ new.turns = [row.turns EXCEPT ![e.turn] = TurnAfter(row.turns[e.turn], e, n)]
<1> DEFINE old == row.turns[e.turn]
           t == TurnAfter(old, e, n)
           c == IF old.row THEN row.count ELSE row.count + 1
<1>1. row.turns \in [Turns -> TurnRow] /\ row.count \in Nat
  BY DEF Row, TurnRow
<1>2. e.turn \in Turns
  BY DEF Sound
<1>3. old \in TurnRow /\ n \in 0..MaxLog
  BY <1>1, <1>2, IndexAssumption
<1>4. /\ t \in TurnRow
      /\ t = IF e.type = "turn.started"
             THEN [old EXCEPT !.row = TRUE, !.started = IF @ = 0 THEN n ELSE @]
             ELSE [old EXCEPT !.row = TRUE, !.completed = n]
  BY <1>3, TurnRowAfter
<1>5. c \in Nat
  BY <1>1
<1>6. UpsertTurn(row, e, n) = [row EXCEPT !.turns[e.turn] = t, !.count = c]
  BY <1>4, Zenon DEF UpsertTurn
<1> HIDE DEF t, c
<1>7. PICK k \in Turns : k = e.turn
  BY <1>2
<1>8. LET new == Replaced(row, k, t, c) IN
      /\ new \in Row
      /\ new.row = row.row
      /\ new.last = row.last
      /\ new.count = c
      /\ new.turns = [row.turns EXCEPT ![k] = t]
  <2>1. t \in TurnRow
    BY <1>4
  <2> QED
    BY <1>5, <2>1, RowWith
<1> QED
  BY <1>6, <1>7, <1>8, Zenon DEF c, t, Replaced

\* The upsert of the session, and the tail.
LEMMA SessionFields ==
    ASSUME NEW row \in Row, NEW n \in 1..MaxLog
    PROVE  /\ UpsertSession(row, n) \in Row
           /\ UpsertSession(row, n).row = TRUE
           /\ UpsertSession(row, n).count = row.count
           /\ UpsertSession(row, n).turns = row.turns
           /\ Touched(row, n) \in Row
           /\ Touched(row, n).row = row.row
           /\ Touched(row, n).last = (IF row.row THEN n ELSE row.last)
           /\ Touched(row, n).count = row.count
           /\ Touched(row, n).turns = row.turns
<1>1. n \in 0..MaxLog
  BY IndexAssumption
<1> QED
  BY <1>1 DEF Row, UpsertSession, Touched

\* The columns an event changes, with and without the tail.
Changed(row, e, n, new) ==
    /\ new \in Row
    /\ new.row = (row.row \/ e.type = "session.created")
    /\ IsTurn(e) =>
          /\ new.count = IF row.turns[e.turn].row THEN row.count ELSE row.count + 1
          /\ new.turns = [row.turns EXCEPT ![e.turn] = TurnAfter(row.turns[e.turn], e, n)]
    /\ ~IsTurn(e) => new.count = row.count /\ new.turns = row.turns

\* applyInternal keeps the types, and moves the tail of a session that has a row.
LEMMA AppliedFields ==
    ASSUME NEW row \in Row, NEW e, Sound(e), NEW n \in 1..MaxLog
    PROVE  /\ Changed(row, e, n, Upserted(row, e, n))
           /\ Changed(row, e, n, Applied(row, e, n))
           /\ Applied(row, e, n).row => Applied(row, e, n).last = n
           /\ ~Applied(row, e, n).row => Applied(row, e, n).last = row.last
<1>1. Changed(row, e, n, Upserted(row, e, n)) /\ Upserted(row, e, n) \in Row
  <2>1. CASE e.type = "session.created"
    <3>1. ~IsTurn(e)
      BY <2>1 DEF IsTurn
    <3>2. Upserted(row, e, n) = UpsertSession(row, n)
      BY <2>1, Zenon DEF Upserted
    <3>3. UpsertSession(row, n).row = (row.row \/ e.type = "session.created")
      BY <2>1, SessionFields
    <3>4. /\ UpsertSession(row, n) \in Row
          /\ UpsertSession(row, n).count = row.count
          /\ UpsertSession(row, n).turns = row.turns
      BY SessionFields
    <3> QED
      BY <3>1, <3>2, <3>3, <3>4 DEF Changed
  <2>2. CASE IsTurn(e)
    <3>1. e.type # "session.created"
      BY <2>2 DEF IsTurn
    <3>2. Upserted(row, e, n) = UpsertTurn(row, e, n)
      BY <2>2, <3>1, Zenon DEF Upserted
    <3>3. row.row \in BOOLEAN
      BY DEF Row
    <3> QED
      BY <2>2, <3>1, <3>2, <3>3, UpsertTurnFields DEF Changed
  <2>3. CASE e.type # "session.created" /\ ~IsTurn(e)
    <3>1. Upserted(row, e, n) = row
      BY <2>3, Zenon DEF Upserted
    <3>2. row.row \in BOOLEAN
      BY DEF Row
    <3> QED
      BY <2>3, <3>1, <3>2 DEF Changed
  <2> QED
    BY <2>1, <2>2, <2>3
<1>2. Applied(row, e, n) = Touched(Upserted(row, e, n), n)
  BY DEF Applied
<1> DEFINE up == Upserted(row, e, n)
<1> HIDE DEF up
<1>3. /\ Touched(up, n) \in Row
      /\ Touched(up, n).row = up.row
      /\ Touched(up, n).last = (IF up.row THEN n ELSE up.last)
      /\ Touched(up, n).count = up.count
      /\ Touched(up, n).turns = up.turns
  <2>1. up \in Row
    BY <1>1 DEF up
  <2> QED
    BY <2>1, SessionFields
<1>4. Changed(row, e, n, Applied(row, e, n))
  <2>1. Changed(row, e, n, up)
    BY <1>1 DEF up
  <2>2. Applied(row, e, n) = Touched(up, n)
    BY <1>2 DEF up
  <2> DEFINE new == Touched(up, n)
  <2>3. new \in Row /\ new.row = up.row /\ new.count = up.count /\ new.turns = up.turns
    BY <1>3
  <2> HIDE DEF new
  <2>4. Changed(row, e, n, new)
    BY <2>1, <2>3 DEF Changed
  <2> QED
    BY <2>2, <2>4 DEF new
<1>5. ~up.row => up.last = row.last
  <2> SUFFICES ASSUME ~up.row PROVE up.last = row.last
    OBVIOUS
  <2>1. e.type # "session.created" /\ row.row = FALSE
    BY <1>1 DEF Changed, up, Row
  <2>2. CASE IsTurn(e)
    <3>1. up = UpsertTurn(row, e, n)
      BY <2>1, <2>2, Zenon DEF Upserted, up
    <3>2. /\ UpsertTurn(row, e, n) \in Row
          /\ UpsertTurn(row, e, n).last = row.last
      <4>1. LET new == UpsertTurn(row, e, n) IN
            /\ new \in Row
            /\ new.row = row.row
            /\ new.last = row.last
            /\ new.count = IF row.turns[e.turn].row THEN row.count ELSE row.count + 1
            /\ new.turns = [row.turns EXCEPT ![e.turn] = TurnAfter(row.turns[e.turn], e, n)]
        BY <2>2, UpsertTurnFields
      <4> QED
        BY <4>1
    <3> QED
      BY <3>1, <3>2
  <2>3. CASE ~IsTurn(e)
    BY <2>1, <2>3, Zenon DEF Upserted, up
  <2> QED
    BY <2>2, <2>3
<1> QED
  BY <1>1, <1>2, <1>3, <1>4, <1>5 DEF up

-----------------------------------------------------------------------------
(* Counting.                                                               *)

RowsOf(row) == {t \in Turns : row.turns[t].row}

\* The rows of a session are finitely many, and none of an empty one.
LEMMA RowsFinite ==
    ASSUME NEW row
    PROVE  /\ IsFiniteSet(RowsOf(row))
           /\ Cardinality(RowsOf(row)) \in Nat
<1>1. IsFiniteSet(Turns)
  BY FS_Interval, IndexAssumption DEF Turns
<1>2. IsFiniteSet(RowsOf(row))
  BY <1>1, FS_Subset DEF RowsOf
<1> QED
  BY <1>2, FS_CardinalityType

\* apply keeps turn_count the number of rows: INSERT OR IGNORE reports whether
\* the turn is new.
LEMMA AppliedCounts ==
    ASSUME NEW row \in Row, NEW e, Sound(e), NEW n, NEW new, Changed(row, e, n, new),
           Counted(row)
    PROVE  Counted(new)
<1>1. CASE IsTurn(e)
  <2>1. e.turn \in Turns /\ row.turns \in [Turns -> TurnRow]
    BY <1>1 DEF Sound, Row, TurnRow
  <2>2. TurnAfter(row.turns[e.turn], e, n).row
    BY DEF TurnAfter
  <2>3. RowsOf(new) = RowsOf(row) \cup {e.turn}
    BY <1>1, <2>1, <2>2 DEF RowsOf, Changed
  <2>4. e.turn \in RowsOf(row) <=> row.turns[e.turn].row
    BY <2>1 DEF RowsOf
  <2>5. Cardinality(RowsOf(new)) = IF e.turn \in RowsOf(row) THEN Cardinality(RowsOf(row))
                                   ELSE Cardinality(RowsOf(row)) + 1
    BY <2>3, RowsFinite, FS_AddElement
  <2> QED
    BY <1>1, <2>4, <2>5 DEF Counted, RowsOf, Changed
<1>2. CASE ~IsTurn(e)
  BY <1>2 DEF Counted, Changed
<1> QED
  BY <1>1, <1>2

-----------------------------------------------------------------------------
(* Events of a log.                                                        *)

\* Where an event of a log is, and that apply can read it.
LEMMA LogEvents ==
    ASSUME TypeOK, LogInv, NEW s \in Sessions, NEW n \in DOMAIN log[s]
    PROVE  /\ log[s] \in Seq(Event)
           /\ DOMAIN log[s] = 1..Len(log[s])
           /\ Len(log[s]) \in Nat
           /\ log[s][n] \in Event
           /\ Sound(log[s][n])
           /\ n \in 1..MaxLog
<1>1. log[s] \in Seq(Event)
  BY DEF TypeOK
<1>2. DOMAIN log[s] = 1..Len(log[s]) /\ Len(log[s]) \in Nat /\ log[s][n] \in Event
  BY <1>1
<1>3. Len(log[s]) <= MaxLog
  BY DEF LogInv, LogOf, Ordered
<1>4. n \in 1..MaxLog
  BY <1>2, <1>3, IndexAssumption
<1>5. IsTurn(log[s][n]) => log[s][n].turn > 0
  BY DEF LogInv, LogOf, Ordered
<1>6. log[s][n].turn \in 0..MaxTurns
  BY <1>2 DEF Event
<1>7. Sound(log[s][n])
  BY <1>2, <1>5, <1>6, IndexAssumption DEF Sound, Turns
<1> QED
  BY <1>1, <1>2, <1>4, <1>7

\* Rows of the index whose columns come from events of their turn still do after
\* one more event.
LEMMA AppliedSourced ==
    ASSUME TypeOK, LogInv, NEW s \in Sessions, NEW n \in DOMAIN log[s],
           NEW row \in Row, Sourced(log[s], row), NEW new, Changed(row, log[s][n], n, new)
    PROVE  Sourced(log[s], new)
<1> DEFINE e == log[s][n]
<1>1. e \in Event /\ Sound(e)
  BY LogEvents
<1>2. CASE ~IsTurn(e)
  BY <1>2 DEF Sourced, Changed
<1>3. CASE IsTurn(e)
  <2>1. e.turn \in Turns /\ row.turns \in [Turns -> TurnRow]
    BY <1>1, <1>3 DEF Sound, Row, TurnRow
  <2>2. e.type \in {"turn.started", "turn.completed"} /\ e = [type |-> e.type, turn |-> e.turn]
    BY <1>1, <1>3 DEF IsTurn, Event
  <2> HIDE DEF e
  <2> SUFFICES ASSUME NEW t \in Turns
               PROVE  /\ new.turns[t].started # 0 =>
                           /\ new.turns[t].started \in DOMAIN log[s]
                           /\ log[s][new.turns[t].started] = [type |-> "turn.started", turn |-> t]
                      /\ new.turns[t].completed # 0 =>
                           /\ new.turns[t].completed \in DOMAIN log[s]
                           /\ log[s][new.turns[t].completed] = [type |-> "turn.completed", turn |-> t]
    BY DEF Sourced
  <2>3. new.turns[t] = IF t = e.turn THEN TurnAfter(row.turns[t], e, n) ELSE row.turns[t]
    BY <1>3, <2>1 DEF Changed, e
  <2>4. /\ row.turns[t].started # 0 =>
             /\ row.turns[t].started \in DOMAIN log[s]
             /\ log[s][row.turns[t].started] = [type |-> "turn.started", turn |-> t]
        /\ row.turns[t].completed # 0 =>
             /\ row.turns[t].completed \in DOMAIN log[s]
             /\ log[s][row.turns[t].completed] = [type |-> "turn.completed", turn |-> t]
    BY DEF Sourced
  <2>5. CASE t # e.turn
    BY <2>3, <2>4, <2>5
  <2>6. CASE t = e.turn
    <3>1. log[s][n] = e /\ n \in DOMAIN log[s] /\ e = [type |-> e.type, turn |-> t]
      BY <2>2, <2>6 DEF e
    <3>2. CASE e.type = "turn.started"
      <4>1. /\ new.turns[t].completed = row.turns[t].completed
            /\ new.turns[t].started \in {row.turns[t].started, n}
        BY <2>3, <2>6, <3>2 DEF TurnAfter
      <4> QED
        BY <2>4, <3>1, <3>2, <4>1
    <3>3. CASE e.type = "turn.completed"
      <4>1. /\ new.turns[t].started = row.turns[t].started
            /\ new.turns[t].completed \in {row.turns[t].completed, n}
        BY <2>3, <2>6, <3>3 DEF TurnAfter
      <4> QED
        BY <2>4, <3>1, <3>3, <4>1
    <3> QED
      BY <2>2, <3>2, <3>3
  <2> QED
    BY <2>5, <2>6
<1> QED
  BY <1>2, <1>3

-----------------------------------------------------------------------------
(* Initially.                                                              *)

\* An empty index counts nothing and has no sources.
LEMMA EmptyIndex ==
    ASSUME NEW s \in Sessions
    PROVE  Counted(Empty[s]) /\ \A l : Sourced(l, Empty[s])
<1>1. Empty[s] = NoSession
  BY DEF Empty
<1>2. RowsOf(NoSession) = {}
  BY DEF RowsOf, NoSession, NoTurn
<1>3. Counted(NoSession)
  BY <1>2, FS_EmptySet DEF Counted, RowsOf, NoSession
<1>4. \A l : Sourced(l, NoSession)
  BY DEF Sourced, NoSession, NoTurn
<1> QED
  BY <1>1, <1>3, <1>4

\* The invariant holds before anything is written or read.
LEMMA IndexInit == Init => IndexInv
<1> SUFFICES ASSUME Init PROVE IndexInv
  OBVIOUS
<1> USE DEF Init
<1>1. NotCalled \in [phase : {"none", "walking", "replaying", "done", "failed"},
                     files : SUBSET Sessions, todo : SUBSET Sessions,
                     now : SUBSET Sessions, read : [Sessions -> 0..MaxLog]]
  BY IndexAssumption DEF NotCalled
<1>2. TypeOK
  <2>1. log \in [Sessions -> Seq(Event)]
    BY EmptySeq
  <2>2. tx \in 0..MaxRebuilds /\ <<applies, resets>> \in (0..MaxApplies) \X (0..MaxResets)
    BY IndexAssumption
  <2> QED
    BY <1>1, <2>1, <2>2, EmptyRows DEF TypeOK
<1>3. LogInv
  <2>1. ASSUME NEW s \in Sessions
        PROVE  Started(s) = {} /\ Len(log[s]) = 0 /\ DOMAIN log[s] = {}
    <3>1. log[s] = <<>>
      OBVIOUS
    <3>2. Len(log[s]) = 0 /\ DOMAIN log[s] = {}
      BY <3>1
    <3>3. \A x : x \notin Started(s)
      <4> HIDE DEF Init
      <4> QED
        BY <3>2 DEF Started
    <3> QED
      BY <3>2, <3>3, Zenon
  <2>2. ASSUME NEW s \in Sessions PROVE Started(s) = 1..Cardinality(Started(s))
    <3>1. Started(s) = {} /\ Cardinality({}) = 0
      BY <2>1, FS_EmptySet, Zenon
    <3>2. 1..0 = {}
      OBVIOUS
    <3> QED
      BY <3>1, <3>2, Zenon
  <2> QED
    BY <2>1, <2>2, IndexAssumption DEF LogInv, LogOf, Ordered
<1>4. TransactionEnds
  BY DEF TransactionEnds, NotCalled, Rebuilds
<1>5. ReadInv
  BY DEF ReadInv, NotCalled
<1>6. SourceInv /\ CountInv
  BY EmptyIndex DEF SourceInv, CountInv
<1>7. ProjectionInv
  BY DEF ProjectionInv
<1> QED
  BY <1>2, <1>3, <1>4, <1>5, <1>6, <1>7 DEF IndexInv

-----------------------------------------------------------------------------
(* Types, and the open transaction.                                        *)

RebuildType == [phase : {"none", "walking", "replaying", "done", "failed"},
                files : SUBSET Sessions, todo : SUBSET Sessions,
                now : SUBSET Sessions, read : [Sessions -> 0..MaxLog]]

\* A rebuild that failed or is done holds nothing.
LEMMA EndedRebuild ==
    ASSUME NEW p \in {"none", "walking", "replaying", "done", "failed"}
    PROVE  /\ [NotCalled EXCEPT !.phase = p] \in RebuildType
           /\ [NotCalled EXCEPT !.phase = p].phase = p
           /\ [NotCalled EXCEPT !.phase = p].read = [s \in Sessions |-> 0]
<1>1. [s \in Sessions |-> 0] \in [Sessions -> 0..MaxLog]
  BY IndexAssumption
<1> QED
  BY <1>1 DEF NotCalled, RebuildType

\* An apply the foreign key lets through writes a row, from an event of the log.
LEMMA AppliedRow ==
    ASSUME TypeOK, LogInv, NEW s \in Sessions, NEW n \in DOMAIN log[s], NEW row \in Row
    PROVE  /\ Changed(row, log[s][n], n, Applied(row, log[s][n], n))
           /\ Changed(row, log[s][n], n, Upserted(row, log[s][n], n))
           /\ Applied(row, log[s][n], n) \in Row
<1>1. Sound(log[s][n]) /\ n \in 1..MaxLog
  BY LogEvents
<1>2. /\ Changed(row, log[s][n], n, Applied(row, log[s][n], n))
      /\ Changed(row, log[s][n], n, Upserted(row, log[s][n], n))
  BY <1>1, AppliedFields
<1>3. Applied(row, log[s][n], n) \in Row
  BY <1>2 DEF Changed
<1> QED
  BY <1>2, <1>3

\* What a kill leaves of an apply is a row too, its count apart.
LEMMA CutRow ==
    ASSUME TypeOK, LogInv, NEW s \in Sessions, NEW n \in DOMAIN log[s],
           NEW row \in CutShort(db[s], log[s][n], n), Sourced(log[s], db[s])
    PROVE  row \in Row /\ Sourced(log[s], row)
<1>1. db[s] \in Row
  BY DEF TypeOK
<1> DEFINE up == Upserted(db[s], log[s][n], n)
<1>2. Changed(db[s], log[s][n], n, up)
  BY <1>1, AppliedRow
<1>3. up \in Row /\ Sourced(log[s], up)
  BY <1>1, <1>2, AppliedSourced DEF Changed
<1>4. row \in {up, [up EXCEPT !.count = db[s].count]}
  BY DEF CutShort
<1>5. db[s].count \in Nat
  BY <1>1 DEF Row
<1> HIDE DEF up
<1>6. CASE row = up
  BY <1>3, <1>6
<1>7. CASE row = [up EXCEPT !.count = db[s].count]
  <2>1. row \in Row /\ row.turns = up.turns
    BY <1>3, <1>5, <1>7 DEF Row
  <2> QED
    BY <1>3, <2>1 DEF Sourced
<1> QED
  BY <1>4, <1>6, <1>7

\* TypeOK, with a name for what a call of rebuildFromEventLogs holds.
Typed ==
    /\ log \in [Sessions -> Seq(Event)]
    /\ db \in [Sessions -> Row]
    /\ saved \in [Sessions -> Row]
    /\ tx \in 0..MaxRebuilds
    /\ rebuild \in [Rebuilds -> RebuildType]
    /\ applies \in 0..MaxApplies
    /\ resets \in 0..MaxResets
    /\ touched \subseteq Sessions
    /\ torn \subseteq Sessions
    /\ cleared \in BOOLEAN

\* Each operation keeps the types.
LEMMA IndexTypeStep == IndexInv /\ [Next]_vars => TypeOK'
<1> SUFFICES ASSUME IndexInv, [Next]_vars PROVE TypeOK'
  OBVIOUS
<1>0. TypeOK /\ LogInv /\ SourceInv /\ ReadInv
  BY DEF IndexInv
<1>a. Typed
  BY <1>0 DEF Typed, TypeOK, RebuildType
<1>b. Typed' => TypeOK'
  BY DEF Typed, TypeOK, RebuildType
<1>1. ASSUME NEW s \in Sessions, NEW e \in Event, WriteLog(s, e) PROVE Typed'
  <2>1. log' \in [Sessions -> Seq(Event)]
    <3>1. Append(log[s], e) \in Seq(Event)
      BY <1>a DEF Typed
    <3> QED
      BY <1>0, <1>a, <1>1, <3>1 DEF Typed, WriteLog
  <2> QED
    BY <1>0, <1>a, <1>1, <2>1 DEF Typed, WriteLog, counters, history
<1>2. ASSUME NEW s \in Sessions, NEW n \in 1..MaxLog, Apply(s, n) PROVE Typed'
  <2>1. db' \in [Sessions -> Row] /\ touched' \subseteq Sessions
    <3>1. Applied(db[s], log[s][n], n) \in Row
      BY <1>0, <1>a, <1>2, AppliedRow DEF Typed, Apply
    <3> QED
      BY <1>0, <1>a, <1>2, <3>1 DEF Typed, Apply
  <2>2. applies' \in 0..MaxApplies
    BY <1>0, <1>a, <1>2, IndexAssumption DEF Typed, Apply
  <2> QED
    BY <1>0, <1>a, <1>2, <2>1, <2>2 DEF Typed, Apply
<1>3. ASSUME NEW s \in Sessions, NEW m \in 1..MaxLog, NEW n \in 1..MaxLog, ApplyMany(s, m, n)
      PROVE  Typed'
  <2>1. db' \in [Sessions -> Row] /\ touched' \subseteq Sessions
    <3>1. Applied(db[s], log[s][m], m) \in Row
      BY <1>0, <1>a, <1>3, AppliedRow DEF Typed, ApplyMany
    <3>2. Applied(Applied(db[s], log[s][m], m), log[s][n], n) \in Row
      BY <1>0, <1>a, <1>3, <3>1, AppliedRow DEF ApplyMany
    <3> QED
      BY <1>0, <1>a, <1>3, <3>2 DEF Typed, ApplyMany
  <2>2. applies' \in 0..MaxApplies
    BY <1>0, <1>a, <1>3, IndexAssumption DEF Typed, ApplyMany
  <2> QED
    BY <1>0, <1>a, <1>3, <2>1, <2>2 DEF Typed, ApplyMany
<1>4. ASSUME Reset PROVE Typed'
  <2>1. resets' \in 0..MaxResets
    BY <1>0, <1>a, <1>4, IndexAssumption DEF Typed, Reset
  <2> QED
    BY <1>0, <1>a, <1>4, <2>1, EmptyRows DEF Typed, Reset
<1>5. ASSUME Crash PROVE Typed'
  <2>1. db' \in [Sessions -> Row] /\ torn' \subseteq Sessions
    <3>1. CASE db' = (IF tx = 0 THEN db ELSE saved) /\ UNCHANGED torn
      BY <1>0, <1>a, <3>1 DEF Typed
    <3>2. ASSUME NEW s \in Sessions, NEW n \in DOMAIN log[s],
                 NEW row \in CutShort(db[s], log[s][n], n),
                 db' = [db EXCEPT ![s] = row], torn' = torn \cup {s}
          PROVE  db' \in [Sessions -> Row] /\ torn' \subseteq Sessions
      <4>1. row \in Row
        BY <1>0, <1>a, CutRow DEF SourceInv
      <4> QED
        BY <1>0, <1>a, <3>2, <4>1 DEF Typed
    <3> QED
      BY <1>5, <3>1, <3>2 DEF Crash
  <2>2. rebuild' \in [Rebuilds -> RebuildType]
    BY <1>0, <1>a, <1>5, EndedRebuild DEF Typed, Crash, RebuildType
  <2>3. resets' \in 0..MaxResets /\ tx' \in 0..MaxRebuilds
    BY <1>0, <1>a, <1>5, IndexAssumption DEF Typed, Crash
  <2> QED
    BY <1>0, <1>a, <1>5, <2>1, <2>2, <2>3, EmptyRows DEF Typed, Crash, RebuildType
<1>6. ASSUME NEW r \in Rebuilds, RebuildStep(r) PROVE Typed'
  <2>0. rebuild[r] \in RebuildType
    BY <1>a DEF Typed
  <2>1. CASE Rebuild(r)
    <3>1. rebuild' \in [Rebuilds -> RebuildType]
      BY <1>0, <1>a, <2>1 DEF Typed, Rebuild, HasLog, RebuildType
    <3> QED
      BY <1>0, <1>a, <2>1, <3>1 DEF Typed, Rebuild, counters, history
  <2>2. CASE NotBegun(r)
    <3>1. rebuild' \in [Rebuilds -> RebuildType]
      BY <1>0, <1>a, <2>2, EndedRebuild DEF Typed, NotBegun, RebuildType
    <3> QED
      BY <1>0, <1>a, <2>2, <3>1 DEF Typed, NotBegun, counters, history
  <2>3. CASE Begin(r)
    <3>1. rebuild' \in [Rebuilds -> RebuildType]
      <4>1. PICK files \in SUBSET HasLog :
               rebuild' = [rebuild EXCEPT ![r].phase = "replaying",
                                          ![r].files = files, ![r].todo = files]
        BY <2>3 DEF Begin
      <4>2. [rebuild[r] EXCEPT !.phase = "replaying", !.files = files, !.todo = files]
              \in RebuildType
        BY <2>0 DEF RebuildType, HasLog
      <4> QED
        BY <1>a, <4>1, <4>2 DEF Typed
    <3>2. tx' \in 0..MaxRebuilds
      BY <2>3, IndexAssumption DEF Begin, Rebuilds
    <3> QED
      BY <1>0, <1>a, <2>3, <3>1, <3>2, EmptyRows DEF Typed, Begin, counters
  <2>4. ASSUME NEW s \in Sessions, OpenFile(r, s) PROVE Typed'
    <3>1. [rebuild[r] EXCEPT !.now = {s}, !.todo = @ \ {s}] \in RebuildType
      BY <2>0 DEF RebuildType
    <3>2. rebuild' = [rebuild EXCEPT ![r] = [rebuild[r] EXCEPT !.now = {s}, !.todo = @ \ {s}]]
      BY <1>a, <2>4 DEF Typed, OpenFile
    <3>3. rebuild' \in [Rebuilds -> RebuildType]
      BY <1>a, <3>1, <3>2 DEF Typed
    <3> QED
      BY <1>0, <1>a, <2>4, <3>3 DEF Typed, OpenFile, counters, history
  <2>5. ASSUME NEW s \in Sessions, ReplayEvent(r, s) PROVE Typed'
    <3>1. NextOf(r, s) \in DOMAIN log[s] /\ NextOf(r, s) \in 1..MaxLog
      BY <1>0, <1>a, <2>5, LogEvents DEF ReplayEvent
    <3>2. rebuild[r].read[s] + 1 \in 0..MaxLog
      BY <3>1, IndexAssumption DEF NextOf
    <3>3. [rebuild[r] EXCEPT !.read[s] = @ + 1] \in RebuildType
      BY <2>0, <3>2 DEF RebuildType
    <3>4. rebuild' \in [Rebuilds -> RebuildType]
      BY <1>0, <1>a, <2>5, <3>3 DEF Typed, ReplayEvent, RebuildType
    <3>5. db' \in [Sessions -> Row]
      <4>1. Applied(db[s], log[s][NextOf(r, s)], NextOf(r, s)) \in Row
        BY <1>0, <1>a, <3>1, AppliedRow DEF Typed
      <4> QED
        BY <1>0, <1>a, <2>5, <4>1 DEF Typed, ReplayEvent
    <3> QED
      BY <1>0, <1>a, <2>5, <3>4, <3>5 DEF Typed, ReplayEvent, counters, history
  <2>6. ASSUME NEW s \in Sessions, FileDone(r, s) PROVE Typed'
    <3>1. rebuild' \in [Rebuilds -> RebuildType]
      BY <1>0, <1>a, <2>6 DEF Typed, FileDone, RebuildType
    <3> QED
      BY <1>0, <1>a, <2>6, <3>1 DEF Typed, FileDone, counters, history
  <2>7. CASE ReplayFails(r)
    <3>1. rebuild' \in [Rebuilds -> RebuildType]
      BY <1>0, <1>a, <2>7, EndedRebuild DEF Typed, ReplayFails, RebuildType
    <3>2. tx' \in 0..MaxRebuilds
      BY <2>7, IndexAssumption DEF ReplayFails
    <3> QED
      BY <1>0, <1>a, <2>7, <3>1, <3>2, EmptyRows
      DEF Typed, ReplayFails, counters, history
  <2>8. CASE Commit(r)
    <3>1. rebuild' \in [Rebuilds -> RebuildType]
      BY <1>0, <1>a, <2>8, EndedRebuild DEF Typed, Commit, RebuildType
    <3>2. tx' \in 0..MaxRebuilds
      BY <2>8, IndexAssumption DEF Commit
    <3> QED
      BY <1>0, <1>a, <2>8, <3>1, <3>2, EmptyRows DEF Typed, Commit, counters
  <2>9. CASE \E s \in Sessions : OpenFile(r, s) \/ ReplayEvent(r, s) \/ FileDone(r, s)
    BY <2>4, <2>5, <2>6, <2>9
  <2> QED
    BY <1>6, <2>1, <2>2, <2>3, <2>7, <2>8, <2>9 DEF RebuildStep
<1>7. CASE UNCHANGED vars
  BY <1>a, <1>b, <1>7 DEF Typed, vars, counters, history
<1> QED
  BY <1>b, <1>1, <1>2, <1>3, <1>4, <1>5, <1>6, <1>7 DEF Next, Call

\* A step of a rebuild is one of these.
LEMMA RebuildCases ==
    ASSUME NEW r \in Rebuilds, RebuildStep(r)
    PROVE  \/ Rebuild(r)
           \/ NotBegun(r)
           \/ Begin(r)
           \/ \E s \in Sessions : OpenFile(r, s)
           \/ \E s \in Sessions : ReplayEvent(r, s)
           \/ \E s \in Sessions : FileDone(r, s)
           \/ ReplayFails(r)
           \/ Commit(r)
BY DEF RebuildStep

\* Whatever way a replay ends, COMMIT, ROLLBACK or the end of the process, the
\* transaction it began ends with it, and no other is begun meanwhile.
LEMMA TransactionStep == IndexInv /\ [Next]_vars => TransactionEnds'
<1> SUFFICES ASSUME IndexInv, [Next]_vars PROVE TransactionEnds'
  OBVIOUS
<1>0. TransactionEnds /\ rebuild \in [Rebuilds -> RebuildType] /\ tx \in 0..MaxRebuilds
  BY DEF IndexInv, TypeOK, RebuildType
<1>1. CASE UNCHANGED <<tx, rebuild>>
  BY <1>0, <1>1 DEF TransactionEnds
<1>2. CASE Crash
  <2>1. \A r \in Rebuilds : rebuild'[r].phase # "replaying" /\ r # 0
    BY <1>2, EndedRebuild DEF Crash, Rebuilds
  <2> QED
    BY <1>2, <2>1 DEF TransactionEnds, Crash
<1>3. ASSUME NEW r \in Rebuilds, RebuildStep(r) PROVE TransactionEnds'
  <2>1. CASE UNCHANGED tx /\ rebuild[r].phase = rebuild'[r].phase
             /\ \A q \in Rebuilds \ {r} : rebuild'[q] = rebuild[q]
    BY <1>0, <2>1 DEF TransactionEnds
  <2>2. CASE Rebuild(r) \/ NotBegun(r)
    <3>1. /\ UNCHANGED tx
          /\ rebuild[r].phase # "replaying" /\ rebuild'[r].phase # "replaying"
          /\ \A q \in Rebuilds \ {r} : rebuild'[q] = rebuild[q]
      <4>1. CASE Rebuild(r)
        BY <1>0, <4>1 DEF Rebuild, RebuildType
      <4>2. CASE NotBegun(r)
        BY <1>0, <4>2, EndedRebuild DEF NotBegun
      <4> QED
        BY <2>2, <4>1, <4>2
    <3> QED
      BY <1>0, <3>1 DEF TransactionEnds
  <2>3. CASE Begin(r)
    <3>1. /\ tx = 0 /\ tx' = r
          /\ rebuild'[r].phase = "replaying"
          /\ \A q \in Rebuilds \ {r} : rebuild'[q] = rebuild[q]
      BY <1>0, <2>3 DEF Begin, RebuildType
    <3>2. \A q \in Rebuilds : q # 0
      BY DEF Rebuilds
    <3> QED
      BY <1>0, <3>1, <3>2 DEF TransactionEnds
  <2>4. ASSUME NEW s \in Sessions, OpenFile(r, s) \/ ReplayEvent(r, s) \/ FileDone(r, s)
        PROVE  TransactionEnds'
    <3>1. /\ UNCHANGED tx /\ rebuild[r].phase = rebuild'[r].phase
          /\ \A q \in Rebuilds \ {r} : rebuild'[q] = rebuild[q]
      <4>1. CASE OpenFile(r, s)
        BY <1>0, <4>1 DEF OpenFile, RebuildType
      <4>2. CASE ReplayEvent(r, s)
        BY <1>0, <4>2 DEF ReplayEvent, RebuildType
      <4>3. CASE FileDone(r, s)
        BY <1>0, <4>3 DEF FileDone, RebuildType
      <4> QED
        BY <2>4, <4>1, <4>2, <4>3
    <3> QED
      BY <2>1, <3>1
  <2>5. CASE ReplayFails(r) \/ Commit(r)
    <3>1. /\ rebuild[r].phase = "replaying" /\ tx' = 0
          /\ rebuild'[r].phase # "replaying"
          /\ \A q \in Rebuilds \ {r} : rebuild'[q] = rebuild[q]
      <4>1. CASE ReplayFails(r)
        BY <1>0, <4>1, EndedRebuild DEF ReplayFails
      <4>2. CASE Commit(r)
        BY <1>0, <4>2, EndedRebuild DEF Commit
      <4> QED
        BY <2>5, <4>1, <4>2
    <3>2. tx = r /\ \A q \in Rebuilds : q # 0
      BY <1>0, <3>1 DEF TransactionEnds, Rebuilds
    <3> QED
      BY <1>0, <3>1, <3>2 DEF TransactionEnds
  <2> QED
    BY <1>3, <2>2, <2>3, <2>4, <2>5, RebuildCases
<1>4. ASSUME Call PROVE TransactionEnds'
  BY <1>1, <1>4 DEF Call, Apply, ApplyMany, Reset
<1>5. ASSUME NEW s \in Sessions, NEW e \in Event, WriteLog(s, e) PROVE TransactionEnds'
  BY <1>1, <1>5 DEF WriteLog
<1>6. CASE UNCHANGED vars
  BY <1>1, <1>6 DEF vars
<1> QED
  BY <1>2, <1>3, <1>4, <1>5, <1>6 DEF Next

-----------------------------------------------------------------------------
(* What the logs hold.                                                     *)

\* A log that is appended to grows at its end.
LEMMA Grows ==
    ASSUME TypeOK, NEW s \in Sessions, NEW e \in Event, WriteLog(s, e)
    PROVE  /\ Len(log[s]) \in Nat
           /\ DOMAIN log[s] = 1..Len(log[s])
           /\ Len(log'[s]) = Len(log[s]) + 1
           /\ DOMAIN log'[s] = 1..(Len(log[s]) + 1)
           /\ \A i \in DOMAIN log[s] : log'[s][i] = log[s][i]
           /\ log'[s][Len(log[s]) + 1] = e
           /\ \A q \in Sessions \ {s} : log'[q] = log[q]
<1>1. log \in [Sessions -> Seq(Event)] /\ log' = [log EXCEPT ![s] = Append(@, e)]
  BY DEF TypeOK, WriteLog
<1>2. log'[s] = Append(log[s], e) /\ log[s] \in Seq(Event)
  BY <1>1
<1>3. \A q \in Sessions \ {s} : log'[q] = log[q]
  BY <1>1
<1> QED
  BY <1>2, <1>3

\* The turns of a log are finitely many.
LEMMA StartedFinite ==
    ASSUME TypeOK, NEW s \in Sessions
    PROVE  IsFiniteSet(Started(s)) /\ Cardinality(Started(s)) \in Nat
<1>1. log[s] \in Seq(Event)
  BY DEF TypeOK
<1>2. Started(s) \subseteq 0..MaxTurns
  <2>1. \A i \in DOMAIN log[s] : log[s][i] \in Event
    BY <1>1
  <2>2. \A e \in Event : e.turn \in 0..MaxTurns
    BY DEF Event
  <2> QED
    BY <2>1, <2>2 DEF Started
<1>3. IsFiniteSet(0..MaxTurns)
  BY FS_Interval, IndexAssumption
<1>4. IsFiniteSet(Started(s))
  BY <1>2, <1>3, FS_Subset
<1> QED
  BY <1>4, FS_CardinalityType

\* The turn of the event a log grows by.
LEMMA StartedGrows ==
    ASSUME TypeOK, NEW s \in Sessions, NEW e \in Event, WriteLog(s, e)
    PROVE  Started(s)' = Started(s) \cup ({e.turn} \ {0})
<1> DEFINE k == Len(log[s]) + 1
<1>1. /\ Len(log[s]) \in Nat
      /\ DOMAIN log[s] = 1..Len(log[s])
      /\ DOMAIN log'[s] = 1..k
      /\ \A i \in DOMAIN log[s] : log'[s][i] = log[s][i]
      /\ log'[s][k] = e
  BY Grows
<1>2. DOMAIN log'[s] = DOMAIN log[s] \cup {k}
  BY <1>1
<1> HIDE DEF k
<1>3. Started(s)' = {log'[s][i].turn : i \in DOMAIN log'[s]} \ {0}
  BY DEF Started
<1>4. {log'[s][i].turn : i \in DOMAIN log'[s]} = {log[s][i].turn : i \in DOMAIN log[s]} \cup {e.turn}
  <2>1. ASSUME NEW x
        PROVE  (\E i \in DOMAIN log'[s] : x = log'[s][i].turn)
                  <=> (\E i \in DOMAIN log[s] : x = log[s][i].turn) \/ x = e.turn
    BY <1>1, <1>2
  <2> QED
    BY <2>1
<1> QED
  BY <1>3, <1>4 DEF Started

\* The event that is written starts the next turn or completes the one under way.
LEMMA WrittenTurn ==
    ASSUME TypeOK, NEW s \in Sessions, LogOf(s), NEW e \in Event, WriteLog(s, e)
    PROVE  /\ LET c == Cardinality(Started(s)) IN
              /\ e.type = "turn.started" => e.turn = c + 1 /\ e.turn \notin Started(s)
              /\ e.type = "turn.completed" => e.turn \in Started(s) /\ e.turn > 0
              /\ ~IsTurn(e) => e.turn = 0
           /\ Started(s)' = 1..Cardinality(Started(s)')
           /\ e.type = "turn.completed" => \A i \in DOMAIN log[s] : log[s][i] # e
           /\ e.type = "session.created" <=> Len(log[s]) = 0
<1> DEFINE c == Cardinality(Started(s))
<1>1. c \in Nat /\ Started(s) = 1..c /\ IsFiniteSet(Started(s))
  BY StartedFinite DEF LogOf
<1>2. Started(s)' = Started(s) \cup ({e.turn} \ {0})
  BY StartedGrows
<1>3. /\ e.type = "turn.started" => e.turn = c + 1
      /\ e.type = "turn.completed" => e.turn = c /\ e.turn > 0
      /\ ~IsTurn(e) => e.turn = 0
      /\ e.type = "turn.completed" => e \notin {log[s][i] : i \in DOMAIN log[s]}
      /\ e.type = "session.created" <=> log[s] = <<>>
  BY DEF WriteLog, IsTurn
<1>4. log[s] = <<>> <=> Len(log[s]) = 0
  BY EmptySeq DEF TypeOK
<1> HIDE DEF c
<1>5. CASE e.type = "turn.started"
  <2>1. c + 1 \notin Started(s) /\ Started(s)' = Started(s) \cup {c + 1}
    BY <1>1, <1>2, <1>3, <1>5
  <2>2. Cardinality(Started(s)') = c + 1
    <3>1. Cardinality(Started(s) \cup {c + 1}) =
            IF c + 1 \in Started(s) THEN Cardinality(Started(s)) ELSE Cardinality(Started(s)) + 1
      BY <1>1, FS_AddElement
    <3> QED
      BY <2>1, <3>1 DEF c
  <2>3. Started(s)' = 1..(c + 1)
    BY <1>1, <2>1
  <2> QED
    BY <1>3, <1>4, <1>5, <2>1, <2>2, <2>3 DEF IsTurn, c
<1>6. CASE e.type # "turn.started"
  <2>1. e.turn \in Started(s) \/ e.turn = 0
    BY <1>1, <1>3, <1>6 DEF IsTurn
  <2>2. Started(s)' = Started(s)
    BY <1>2, <2>1
  <2> QED
    BY <1>1, <1>3, <1>4, <1>6, <2>2 DEF IsTurn, c
<1> QED
  BY <1>5, <1>6

\* Started turns have their turn.started.
LEMMA StartedOnFile ==
    ASSUME TypeOK, NEW s \in Sessions, LogOf(s), NEW t \in Started(s)
    PROVE  \E j \in DOMAIN log[s] : log[s][j] = [type |-> "turn.started", turn |-> t]
<1>1. DOMAIN log[s] = 1..Len(log[s]) /\ Len(log[s]) \in Nat
      /\ \A i \in DOMAIN log[s] : log[s][i] \in Event
  BY DEF TypeOK
<1>2. PICK i \in DOMAIN log[s] : log[s][i].turn = t /\ t # 0
  BY DEF Started
<1>3. log[s][i] \in Event /\ t \in 0..MaxTurns
  BY <1>1, <1>2 DEF Event
<1>4. IsTurn(log[s][i])
  <2>1. t > 0
    BY <1>2, <1>3, IndexAssumption
  <2> QED
    BY <1>2, <2>1 DEF LogOf, Ordered
<1>5. CASE log[s][i].type = "turn.started"
  BY <1>2, <1>3, <1>5 DEF Event
<1>6. CASE log[s][i].type = "turn.completed"
  <2>1. PICK j \in 1..(i - 1) : log[s][j] = [type |-> "turn.started", turn |-> t]
    BY <1>2, <1>6 DEF LogOf, Ordered
  <2>2. j \in DOMAIN log[s]
    BY <1>1, <1>2
  <2> QED
    BY <2>1, <2>2
<1> QED
  BY <1>4, <1>5, <1>6 DEF IsTurn

\* The session engine keeps a log in order.
LEMMA WriteKeepsLog ==
    ASSUME TypeOK, NEW s \in Sessions, LogOf(s), NEW e \in Event, WriteLog(s, e)
    PROVE  LogOf(s)'
<1> DEFINE n == Len(log[s])
<1>1. /\ n \in Nat
      /\ DOMAIN log[s] = 1..n
      /\ Len(log'[s]) = n + 1
      /\ DOMAIN log'[s] = 1..(n + 1)
      /\ \A i \in DOMAIN log[s] : log'[s][i] = log[s][i]
      /\ log'[s][n + 1] = e
  BY Grows
<1>2. n + 1 <= MaxLog
  BY <1>1, IndexAssumption DEF WriteLog
<1> HIDE DEF n
<1>3. /\ e.type = "turn.started" => e.turn \notin Started(s) /\ e.turn \in Nat /\ e.turn > 0
      /\ e.type = "turn.completed" => e.turn \in Started(s) /\ e.turn > 0
      /\ ~IsTurn(e) => e.turn = 0
      /\ e.type = "turn.completed" => \A i \in DOMAIN log[s] : log[s][i] # e
      /\ e.type = "session.created" <=> n = 0
  BY WrittenTurn, StartedFinite DEF n
<1>4. Started(s)' = 1..Cardinality(Started(s)')
  BY WrittenTurn
<1>5. IsTurn(e) => \A i \in DOMAIN log[s] : log[s][i] # e
  <2>1. ASSUME e.type = "turn.started", NEW i \in DOMAIN log[s], log[s][i] = e PROVE FALSE
    <3>1. e.turn \in {log[s][j].turn : j \in DOMAIN log[s]}
      BY <2>1
    <3> QED
      BY <1>3, <2>1, <3>1 DEF Started
  <2> QED
    BY <1>3, <2>1 DEF IsTurn
<1>6. ASSUME NEW i \in DOMAIN log'[s]
      PROVE  /\ IsTurn(log'[s][i]) <=> log'[s][i].turn > 0
             /\ log'[s][i].type = "session.created" <=> i = 1
  <2>1. CASE i \in DOMAIN log[s]
    BY <1>1, <2>1 DEF LogOf, Ordered
  <2>2. CASE i = n + 1
    BY <1>1, <1>3, <2>2 DEF IsTurn
  <2> QED
    BY <1>1, <2>1, <2>2
<1>7. ASSUME NEW i \in DOMAIN log'[s], NEW j \in DOMAIN log'[s],
             IsTurn(log'[s][i]), log'[s][j] = log'[s][i]
      PROVE  i = j
  <2>1. CASE i \in DOMAIN log[s] /\ j \in DOMAIN log[s]
    BY <1>1, <1>7, <2>1 DEF LogOf, Ordered
  <2>2. CASE i = n + 1 \/ j = n + 1
    <3>1. ~(i \in DOMAIN log[s] /\ j = n + 1)
      BY <1>1, <1>5, <1>7
    <3>2. ~(j \in DOMAIN log[s] /\ i = n + 1)
      BY <1>1, <1>5, <1>7
    <3> QED
      BY <1>1, <2>2, <3>1, <3>2
  <2> QED
    BY <1>1, <2>1, <2>2
<1>8. ASSUME NEW i \in DOMAIN log'[s], log'[s][i].type = "turn.completed"
      PROVE  \E j \in 1..(i - 1) :
                log'[s][j] = [type |-> "turn.started", turn |-> log'[s][i].turn]
  <2>1. CASE i \in DOMAIN log[s]
    <3>1. log'[s][i] = log[s][i]
      BY <1>1, <2>1
    <3>2. PICK j \in 1..(i - 1) :
             log[s][j] = [type |-> "turn.started", turn |-> log[s][i].turn]
      BY <1>8, <2>1, <3>1 DEF LogOf, Ordered
    <3>3. j \in DOMAIN log[s]
      BY <1>1, <2>1
    <3> QED
      BY <1>1, <3>1, <3>2, <3>3
  <2>2. CASE i = n + 1
    <3>1. e.turn \in Started(s) /\ log'[s][i] = e
      BY <1>1, <1>3, <1>8, <2>2
    <3>2. PICK j \in DOMAIN log[s] : log[s][j] = [type |-> "turn.started", turn |-> e.turn]
      BY <3>1, StartedOnFile
    <3>3. j \in 1..(i - 1)
      BY <1>1, <2>2
    <3> QED
      BY <1>1, <3>1, <3>2, <3>3
  <2> QED
    BY <1>1, <2>1, <2>2
<1> QED
  BY <1>1, <1>2, <1>4, <1>6, <1>7, <1>8 DEF LogOf, Ordered

\* The logs stay in order: only the session engine writes them.
LEMMA LogStep == IndexInv /\ [Next]_vars => LogInv'
<1> SUFFICES ASSUME IndexInv, [Next]_vars PROVE LogInv'
  OBVIOUS
<1>0. TypeOK /\ LogInv
  BY DEF IndexInv
<1>1. ASSUME log' = log PROVE LogInv'
  BY <1>0, <1>1 DEF LogInv, LogOf, Ordered, Started
<1>2. ASSUME NEW s \in Sessions, NEW e \in Event, WriteLog(s, e) PROVE LogInv'
  <2>1. LogOf(s)'
    BY <1>0, <1>2, WriteKeepsLog DEF LogInv
  <2>2. ASSUME NEW q \in Sessions \ {s} PROVE LogOf(q)'
    <3>1. LogOf(q) /\ log'[q] = log[q]
      BY <1>0, <1>2, <2>2, Grows DEF LogInv
    <3>2. Started(q)' = Started(q)
      BY <3>1 DEF Started
    <3>3. Len(log'[q]) <= MaxLog /\ Started(q)' = 1..Cardinality(Started(q)')
      BY <3>1, <3>2 DEF LogOf
    <3>4. Ordered(log'[q])
      BY <3>1 DEF LogOf
    <3> QED
      BY <3>3, <3>4 DEF LogOf
  <2>3. ASSUME NEW q \in Sessions PROVE LogOf(q)'
    <3>1. CASE q = s
      BY <2>1, <3>1
    <3>2. CASE q # s
      BY <2>2, <3>2
    <3> QED
      BY <3>1, <3>2
  <2> QED
    BY <2>3 DEF LogInv
<1>3. ASSUME Call \/ Crash PROVE LogInv'
  BY <1>1, <1>3 DEF Call, Apply, ApplyMany, Reset, Crash
<1>4. ASSUME NEW r \in Rebuilds, RebuildStep(r) PROVE LogInv'
  BY <1>1, <1>4, RebuildCases
  DEF Rebuild, NotBegun, Begin, OpenFile, ReplayEvent, FileDone, ReplayFails, Commit
<1> QED
  BY <1>1, <1>2, <1>3, <1>4 DEF Next, vars

\* How the logs change: not at all or at the end, so an event stays where it is.
LEMMA LogsGrow ==
    ASSUME IndexInv, [Next]_vars, NEW s \in Sessions
    PROVE  /\ Len(log[s]) \in Nat
           /\ Len(log[s]) <= Len(log'[s])
           /\ DOMAIN log[s] = 1..Len(log[s])
           /\ DOMAIN log[s] \subseteq DOMAIN log'[s]
           /\ \A i \in DOMAIN log[s] : log'[s][i] = log[s][i]
<1>0. TypeOK
  BY DEF IndexInv
<1>1. log[s] \in Seq(Event)
  BY <1>0 DEF TypeOK
<1>2. Len(log[s]) \in Nat /\ DOMAIN log[s] = 1..Len(log[s])
  BY <1>1
<1>3. CASE log'[s] = log[s]
  BY <1>2, <1>3
<1>4. ASSUME NEW q \in Sessions, NEW e \in Event, WriteLog(q, e), log'[s] # log[s]
      PROVE  /\ Len(log[s]) <= Len(log'[s])
             /\ DOMAIN log[s] \subseteq DOMAIN log'[s]
             /\ \A i \in DOMAIN log[s] : log'[s][i] = log[s][i]
  <2>1. q = s
    BY <1>0, <1>4, Grows
  <2>2. /\ Len(log'[s]) = Len(log[s]) + 1
        /\ DOMAIN log'[s] = 1..(Len(log[s]) + 1)
        /\ \A i \in DOMAIN log[s] : log'[s][i] = log[s][i]
    BY <1>0, <1>4, <2>1, Grows
  <2> QED
    BY <1>2, <2>2
<1>5. log' = log \/ \E q \in Sessions, e \in Event : WriteLog(q, e)
  <2>1. ASSUME NEW r \in Rebuilds, RebuildStep(r) PROVE log' = log
    BY <2>1, RebuildCases
    DEF Rebuild, NotBegun, Begin, OpenFile, ReplayEvent, FileDone, ReplayFails, Commit
  <2> QED
    BY <2>1 DEF Next, vars, Call, Apply, ApplyMany, Reset, Crash
<1> QED
  BY <1>2, <1>3, <1>4, <1>5

\* A rebuild reads on as far as the log goes, and forgets what it read when it ends.
LEMMA ReadStep == IndexInv /\ [Next]_vars => ReadInv'
<1> SUFFICES ASSUME IndexInv, [Next]_vars PROVE ReadInv'
  OBVIOUS
<1>0. TypeOK /\ LogInv /\ ReadInv /\ rebuild \in [Rebuilds -> RebuildType]
  BY DEF IndexInv, TypeOK, RebuildType
<1> DEFINE Good(r) ==
              /\ rebuild'[r].phase # "replaying" => rebuild'[r].now = {}
              /\ \A s \in Sessions :
                    /\ rebuild'[r].phase # "replaying" => rebuild'[r].read[s] = 0
                    /\ rebuild'[r].read[s] <= Len(log'[s])
<1>1. ASSUME NEW r \in Rebuilds, rebuild'[r] = rebuild[r] PROVE Good(r)
  <2>1. \A s \in Sessions : rebuild[r].read[s] \in Nat
    BY <1>0, IndexAssumption DEF RebuildType
  <2>2. \A s \in Sessions : Len(log[s]) \in Nat /\ Len(log[s]) <= Len(log'[s]) /\ Len(log'[s]) \in Nat
    BY LogsGrow, IndexTypeStep DEF TypeOK
  <2> QED
    BY <1>0, <1>1, <2>1, <2>2 DEF ReadInv
<1>2. ASSUME NEW r \in Rebuilds, NEW p \in {"none", "walking", "replaying", "done", "failed"},
             rebuild'[r] = [NotCalled EXCEPT !.phase = p]
      PROVE  Good(r)
  <2>1. \A s \in Sessions : 0 <= Len(log'[s])
    BY IndexTypeStep DEF TypeOK
  <2>2. /\ [NotCalled EXCEPT !.phase = p].read = [s \in Sessions |-> 0]
        /\ [NotCalled EXCEPT !.phase = p].now = {}
    BY DEF NotCalled
  <2> QED
    BY <1>2, <2>1, <2>2
<1>3. ASSUME NEW r \in Rebuilds, RebuildStep(r), NEW q \in Rebuilds \ {r} PROVE Good(q)
  <2>1. rebuild'[q] = rebuild[q]
    BY <1>0, <1>3, RebuildCases
    DEF Rebuild, NotBegun, Begin, OpenFile, ReplayEvent, FileDone, ReplayFails, Commit
  <2> QED
    BY <1>1, <2>1
<1>4. ASSUME NEW r \in Rebuilds, RebuildStep(r) PROVE Good(r)
  <2>0. /\ log' = log
        /\ \A s \in Sessions : Len(log[s]) \in Nat /\ DOMAIN log[s] = 1..Len(log[s])
    BY <1>4, LogsGrow, RebuildCases
    DEF Rebuild, NotBegun, Begin, OpenFile, ReplayEvent, FileDone, ReplayFails, Commit
  <2>1. CASE rebuild'[r].read = rebuild[r].read /\ rebuild[r].phase # "replaying"
             /\ rebuild'[r].now = rebuild[r].now
    BY <1>0, <2>0, <2>1 DEF ReadInv
  <2>2. CASE Rebuild(r) \/ Begin(r)
    <3>1. CASE Rebuild(r)
      BY <1>0, <2>1, <3>1 DEF Rebuild, RebuildType
    <3>2. CASE Begin(r)
      BY <1>0, <2>1, <3>2 DEF Begin, RebuildType
    <3> QED
      BY <2>2, <3>1, <3>2
  <2>3. CASE NotBegun(r) \/ ReplayFails(r) \/ Commit(r)
    BY <1>0, <1>2, <2>3 DEF NotBegun, ReplayFails, Commit
  <2>4. ASSUME NEW s \in Sessions, OpenFile(r, s) \/ FileDone(r, s) PROVE Good(r)
    <3>1. rebuild[r].phase = "replaying"
      BY <1>0, <2>4 DEF OpenFile, FileDone, ReadInv
    <3>2. rebuild'[r].read = rebuild[r].read /\ rebuild'[r].phase = "replaying"
      BY <1>0, <2>4, <3>1 DEF OpenFile, FileDone, RebuildType
    <3> QED
      BY <1>0, <2>0, <3>2 DEF ReadInv
  <2>5. ASSUME NEW s \in Sessions, ReplayEvent(r, s) PROVE Good(r)
    <3>1. rebuild[r].phase = "replaying"
      BY <1>0, <2>5 DEF ReplayEvent, ReadInv
    <3>2. /\ rebuild'[r].phase = "replaying"
          /\ rebuild'[r].read = [rebuild[r].read EXCEPT ![s] = @ + 1]
      BY <1>0, <2>5, <3>1 DEF ReplayEvent, RebuildType
    <3>3. rebuild[r].read[s] + 1 <= Len(log[s])
      BY <2>0, <2>5 DEF ReplayEvent, NextOf
    <3>4. rebuild[r].read \in [Sessions -> 0..MaxLog]
      BY <1>0 DEF RebuildType
    <3> QED
      BY <1>0, <2>0, <3>2, <3>3, <3>4 DEF ReadInv
  <2> QED
    BY <1>4, <2>2, <2>3, <2>4, <2>5, RebuildCases
<1>5. CASE Crash
  <2>1. ASSUME NEW r \in Rebuilds PROVE Good(r)
    <3>1. rebuild'[r] = rebuild[r] \/ rebuild'[r] = [NotCalled EXCEPT !.phase = "failed"]
      BY <1>5 DEF Crash
    <3> QED
      BY <1>1, <1>2, <3>1
  <2> QED
    BY <2>1 DEF ReadInv
<1>6. ASSUME rebuild' = rebuild PROVE ReadInv'
  BY <1>1, <1>6 DEF ReadInv
<1>7. ASSUME NEW r \in Rebuilds, RebuildStep(r) PROVE ReadInv'
  BY <1>3, <1>4, <1>7 DEF ReadInv
<1> QED
  BY <1>5, <1>6, <1>7 DEF Next, Call, WriteLog, Apply, ApplyMany, Reset, vars

\* Columns that come from events of a log still do when the log has grown.
LEMMA SourcedGrows ==
    ASSUME NEW l, NEW m, NEW row, Sourced(l, row), DOMAIN l \subseteq DOMAIN m,
           \A i \in DOMAIN l : m[i] = l[i]
    PROVE  Sourced(m, row)
BY DEF Sourced

\* The rows of an apply and of an applyMany that are not refused.
LEMMA AppliedTables ==
    ASSUME IndexInv, NEW s \in Sessions, NEW n \in DOMAIN log[s], NEW row \in Row,
           Sourced(log[s], row)
    PROVE  LET new == Applied(row, log[s][n], n) IN
           /\ new \in Row
           /\ Sourced(log[s], new)
           /\ Counted(row) => Counted(new)
<1>0. TypeOK /\ LogInv
  BY DEF IndexInv
<1>1. /\ Changed(row, log[s][n], n, Applied(row, log[s][n], n))
      /\ Applied(row, log[s][n], n) \in Row
  BY <1>0, AppliedRow
<1>2. Sourced(log[s], Applied(row, log[s][n], n))
  BY <1>0, <1>1, AppliedSourced
<1>3. Sound(log[s][n])
  BY <1>0, LogEvents
<1>4. Counted(row) => Counted(Applied(row, log[s][n], n))
  BY <1>1, <1>3, AppliedCounts
<1> QED
  BY <1>1, <1>2, <1>4

\* What a step may do to the tables of a session: leave them, apply events of its
\* log to them, empty them, roll them back, or tear an apply.
Applies(s) ==
    /\ db'[s] \in Row
    /\ Sourced(log[s], db'[s])
    /\ Counted(db[s]) => Counted(db'[s])

RollsBack(s) == db'[s] = saved[s] /\ tx' = 0

Tears(s) == Sourced(log[s], db'[s]) /\ s \in torn' /\ tx' = 0

\* What a step may do to the tables and to their copy.
TableStep(s) ==
    /\ Applies(s) \/ db'[s] = Empty[s] \/ RollsBack(s) \/ Tears(s)
    /\ saved'[s] \in {saved[s], Empty[s]} \/ (saved'[s] = db[s] /\ tx = 0)
    /\ torn \subseteq torn' \/ (tx # 0 /\ saved'[s] = Empty[s] /\ db'[s] = db[s])
    /\ tx' # 0 => tx # 0 \/ db'[s] = Empty[s]

\* The steps do no more to the tables.
LEMMA TableSteps ==
    ASSUME IndexInv, [Next]_vars, NEW s \in Sessions
    PROVE  TableStep(s)
<1>0. /\ TypeOK /\ LogInv /\ SourceInv /\ ReadInv /\ TransactionEnds
      /\ db \in [Sessions -> Row] /\ saved \in [Sessions -> Row]
  BY DEF IndexInv, TypeOK
<1>1. db[s] \in Row /\ Sourced(log[s], db[s])
  BY <1>0 DEF SourceInv
<1>2. ASSUME db'[s] = db[s], UNCHANGED <<saved, tx, torn>> PROVE TableStep(s)
  BY <1>1, <1>2 DEF TableStep, Applies
<1>3. ASSUME NEW q \in Sessions, NEW n \in DOMAIN log[q],
             db' = [db EXCEPT ![q] = Applied(@, log[q][n], n)], UNCHANGED <<saved, tx, torn>>
      PROVE  TableStep(s)
  <2>1. CASE q = s
    <3>1. db'[s] = Applied(db[s], log[s][n], n)
      BY <1>0, <1>3, <2>1
    <3>2. Applies(s)
      BY <1>1, <1>3, <2>1, <3>1, AppliedTables DEF Applies
    <3> QED
      BY <1>3, <3>2 DEF TableStep
  <2>2. CASE q # s
    BY <1>0, <1>2, <1>3, <2>2
  <2> QED
    BY <2>1, <2>2
<1>4. ASSUME NEW q \in Sessions, NEW n \in 1..MaxLog, Apply(q, n) PROVE TableStep(s)
  BY <1>2, <1>3, <1>4 DEF Apply
<1>5. ASSUME NEW q \in Sessions, NEW m \in 1..MaxLog, NEW n \in 1..MaxLog, ApplyMany(q, m, n)
      PROVE  TableStep(s)
  <2> DEFINE first == Applied(db[q], log[q][m], m)
  <2>0. m \in DOMAIN log[q] /\ n \in DOMAIN log[q] /\ UNCHANGED <<saved, tx, torn>>
    BY <1>5 DEF ApplyMany
  <2>1. db' = db \/ db' = [db EXCEPT ![q] = Applied(first, log[q][n], n)]
    BY <1>5 DEF ApplyMany
  <2>2. CASE q = s /\ db' # db
    <3>1. first \in Row /\ Sourced(log[s], first) /\ (Counted(db[s]) => Counted(first))
      BY <1>1, <2>0, <2>2, AppliedTables
    <3> HIDE DEF first
    <3>2. db'[s] = Applied(first, log[s][n], n)
      BY <1>0, <2>1, <2>2
    <3>3. Applies(s)
      BY <2>0, <2>2, <3>1, <3>2, AppliedTables DEF Applies
    <3> QED
      BY <2>0, <3>3 DEF TableStep
  <2>3. CASE q # s \/ db' = db
    BY <1>0, <1>2, <2>0, <2>1, <2>3
  <2> QED
    BY <2>2, <2>3
<1>6. CASE Reset
  BY <1>6 DEF Reset, TableStep
<1>7. CASE Crash
  <2>0. tx' = 0 /\ saved'[s] = Empty[s]
    BY <1>7 DEF Crash
  <2>1. CASE db' = (IF tx = 0 THEN db ELSE saved) /\ UNCHANGED torn
    <3>1. Applies(s) \/ RollsBack(s)
      BY <1>1, <2>0, <2>1 DEF Applies, RollsBack
    <3> QED
      BY <2>0, <2>1, <3>1 DEF TableStep
  <2>2. ASSUME NEW q \in Sessions, NEW n \in DOMAIN log[q],
               NEW row \in CutShort(db[q], log[q][n], n),
               db' = [db EXCEPT ![q] = row], torn' = torn \cup {q}
        PROVE  TableStep(s)
    <3>1. CASE q = s
      <4>1. db'[s] = row /\ Sourced(log[s], row)
        BY <1>0, <1>1, <2>2, <3>1, CutRow
      <4> QED
        BY <2>0, <2>2, <3>1, <4>1 DEF TableStep, Tears
    <3>2. CASE q # s
      <4>1. db'[s] = db[s]
        BY <1>0, <2>2, <3>2
      <4> QED
        BY <1>1, <2>0, <2>2, <4>1 DEF TableStep, Applies
    <3> QED
      BY <3>1, <3>2
  <2> QED
    BY <1>7, <2>1, <2>2 DEF Crash
<1>8. ASSUME NEW r \in Rebuilds, RebuildStep(r) PROVE TableStep(s)
  <2>1. CASE Rebuild(r) \/ NotBegun(r) \/ \E q \in Sessions : OpenFile(r, q) \/ FileDone(r, q)
    <3>1. UNCHANGED <<db, saved, tx, torn>>
      BY <2>1 DEF Rebuild, NotBegun, OpenFile, FileDone, history
    <3> QED
      BY <1>2, <3>1
  <2>2. CASE Begin(r)
    BY <2>2 DEF Begin, TableStep
  <2>3. ASSUME NEW q \in Sessions, ReplayEvent(r, q) PROVE TableStep(s)
    BY <1>3, <2>3 DEF ReplayEvent, history
  <2>4. CASE ReplayFails(r)
    BY <2>4 DEF ReplayFails, TableStep, RollsBack, history
  <2>5. CASE Commit(r)
    <3>1. tx # 0
      BY <1>0, <2>5 DEF Commit, TransactionEnds, Rebuilds
    <3> QED
      BY <1>1, <2>5, <3>1 DEF Commit, TableStep, Applies
  <2> QED
    BY <1>8, <2>1, <2>2, <2>3, <2>4, <2>5, RebuildCases
<1>9. CASE UNCHANGED vars \/ \E q \in Sessions, e \in Event : WriteLog(q, e)
  BY <1>2, <1>9 DEF vars, history, WriteLog
<1> QED
  BY <1>4, <1>5, <1>6, <1>7, <1>8, <1>9 DEF Next, Call

\* Rows are written from events of their log only, and copied and restored whole.
LEMMA SourceStep == IndexInv /\ [Next]_vars => SourceInv'
<1> SUFFICES ASSUME IndexInv, [Next]_vars, NEW s \in Sessions
             PROVE  Sourced(log'[s], db'[s]) /\ Sourced(log'[s], saved'[s])
  BY DEF SourceInv
<1>1. Sourced(log[s], db[s]) /\ Sourced(log[s], saved[s])
  BY DEF IndexInv, SourceInv
<1>2. TableStep(s)
  BY TableSteps
<1>3. Sourced(log[s], db'[s])
  BY <1>1, <1>2, EmptyIndex DEF TableStep, Applies, RollsBack, Tears
<1>4. Sourced(log[s], saved'[s])
  BY <1>1, <1>2, EmptyIndex DEF TableStep
<1> QED
  BY <1>3, <1>4, LogsGrow, SourcedGrows

\* A count and its rows are torn apart only by a kill outside of a transaction; a
\* rebuild starts from none, so what it commits is whole.
LEMMA CountStep == IndexInv /\ [Next]_vars => CountInv'
<1> SUFFICES ASSUME IndexInv, [Next]_vars, NEW s \in Sessions
             PROVE  /\ s \notin torn' \/ tx' # 0 => Counted(db'[s])
                    /\ s \notin torn' => Counted(saved'[s])
  BY DEF CountInv, Counted
<1>1. /\ s \notin torn \/ tx # 0 => Counted(db[s])
      /\ s \notin torn => Counted(saved[s])
  BY DEF IndexInv, CountInv
<1>2. TableStep(s)
  BY TableSteps
<1>3. Counted(Empty[s])
  BY EmptyIndex
<1> QED
  BY <1>1, <1>2, <1>3 DEF TableStep, Applies, RollsBack, Tears

-----------------------------------------------------------------------------
(* The projection of a log.                                                *)

TurnTypes == {"turn.started", "turn.completed"}

\* Projection, by its parts.
LEMMA ProjectionIs ==
    ASSUME NEW s, NEW n
    PROVE  Projection(s, n) = ProjectionOf(log[s], n)
BY Zenon DEF Projection, ProjectionOf, TurnOf, One, Some, At, TurnEvent

\* An event of a turn is in a log at one position at most.
LEMMA OneIs ==
    ASSUME NEW l, Ordered(l), NEW n \in Nat, 1..n \subseteq DOMAIN l,
           NEW type \in TurnTypes, NEW t
    PROVE  /\ One(l, n, type, t) \in 0..n
           /\ One(l, n, type, t) > 0 => l[One(l, n, type, t)] = TurnEvent(type, t)
           /\ \A i \in 1..n : l[i] = TurnEvent(type, t) => One(l, n, type, t) = i
<1> DEFINE A == At(l, n, type, t)
<1>1. \A i, j \in A : i = j
  <2> SUFFICES ASSUME NEW i \in A, NEW j \in A PROVE i = j
    OBVIOUS
  <2>1. i \in DOMAIN l /\ j \in DOMAIN l /\ l[i] = TurnEvent(type, t) /\ l[j] = l[i]
    BY DEF At
  <2>2. IsTurn(l[i])
    BY <2>1 DEF IsTurn, TurnEvent, TurnTypes
  <2> QED
    BY <2>1, <2>2 DEF Ordered
<1>2. \A i \in A : i \in 1..n /\ l[i] = TurnEvent(type, t)
  BY DEF At
<1>3. \A i \in 1..n : l[i] = TurnEvent(type, t) => i \in A
  BY DEF At
<1> HIDE DEF A
<1>4. CASE A = {}
  <2>1. One(l, n, type, t) = 0
    BY <1>4 DEF One, A
  <2> QED
    BY <1>3, <1>4, <2>1
<1>5. CASE A # {}
  <2>1. One(l, n, type, t) = CHOOSE i \in A : TRUE
    BY <1>5 DEF One, Some, A
  <2>2. One(l, n, type, t) \in A
    BY <1>5, <2>1
  <2> QED
    BY <1>1, <1>2, <1>3, <2>2
<1> QED
  BY <1>4, <1>5

\* Reading one event more finds it, and what was found before.
LEMMA OneNext ==
    ASSUME NEW l, Ordered(l), NEW n \in Nat, 1..(n + 1) \subseteq DOMAIN l,
           NEW type \in TurnTypes, NEW t
    PROVE  One(l, n + 1, type, t) = IF l[n + 1] = TurnEvent(type, t) THEN n + 1
                                    ELSE One(l, n, type, t)
<1>1. 1..n \subseteq DOMAIN l
  OBVIOUS
<1>2. CASE l[n + 1] = TurnEvent(type, t)
  BY <1>2, OneIs
<1>3. CASE l[n + 1] # TurnEvent(type, t)
  <2>1. At(l, n + 1, type, t) = At(l, n, type, t)
    <3>1. ASSUME NEW i PROVE i \in 1..(n + 1) <=> i \in 1..n \/ i = n + 1
      OBVIOUS
    <3> QED
      BY <1>3, <3>1 DEF At
  <2>2. One(l, n + 1, type, t) = One(l, n, type, t)
    BY <2>1 DEF One
  <2> QED
    BY <1>3, <2>2
<1> QED
  BY <1>2, <1>3

\* The projection depends on the events read, not on those that follow.
LEMMA ProjectionGrows ==
    ASSUME NEW l, NEW m, NEW n, \A i \in 1..n : m[i] = l[i]
    PROVE  ProjectionOf(m, n) = ProjectionOf(l, n)
<1>1. ASSUME NEW type, NEW t PROVE At(m, n, type, t) = At(l, n, type, t)
  BY DEF At
<1>2. ASSUME NEW type, NEW t PROVE One(m, n, type, t) = One(l, n, type, t)
  BY <1>1 DEF One
<1>3. ASSUME NEW t PROVE TurnOf(m, n, t) = TurnOf(l, n, t)
  BY <1>2, Zenon DEF TurnOf
<1>4. {t \in Turns : TurnOf(m, n, t).row} = {t \in Turns : TurnOf(l, n, t).row}
  BY <1>3
<1>5. [t \in Turns |-> TurnOf(m, n, t)] = [t \in Turns |-> TurnOf(l, n, t)]
  BY <1>3
<1> QED
  BY <1>4, <1>5, Zenon DEF ProjectionOf

\* A projection is a table row whose count is right.
LEMMA ProjectionRow ==
    ASSUME NEW l, Ordered(l), NEW n \in 0..MaxLog, 1..n \subseteq DOMAIN l
    PROVE  ProjectionOf(l, n) \in Row /\ Counted(ProjectionOf(l, n))
<1> DEFINE ts == [t \in Turns |-> TurnOf(l, n, t)]
           p == ProjectionOf(l, n)
<1>0. n \in Nat /\ \A i \in 0..n : i \in 0..MaxLog
  BY IndexAssumption
<1>1. ASSUME NEW t PROVE TurnOf(l, n, t) \in TurnRow
  <2>1. One(l, n, "turn.started", t) \in 0..n /\ One(l, n, "turn.completed", t) \in 0..n
    BY <1>0, OneIs DEF TurnTypes
  <2>2. One(l, n, "turn.started", t) \in 0..MaxLog /\ One(l, n, "turn.completed", t) \in 0..MaxLog
    BY <1>0, <2>1
  <2> QED
    BY <2>2 DEF TurnOf, TurnRow
<1>2. ts \in [Turns -> TurnRow]
  BY <1>1
<1>3. RowsOf(p) = {t \in Turns : TurnOf(l, n, t).row}
  BY DEF RowsOf, ProjectionOf
<1>4. p.count = Cardinality(RowsOf(p)) /\ p.count \in Nat
  BY <1>3, RowsFinite DEF ProjectionOf
<1> HIDE DEF ts
<1> DEFINE c == Cardinality({t \in Turns : TurnOf(l, n, t).row})
<1>5. c \in Nat /\ p = [row |-> n > 0, last |-> n, count |-> c, turns |-> ts]
  BY <1>3, <1>4 DEF ProjectionOf, ts
<1> HIDE DEF p, c
<1>6. p \in Row
  BY <1>2, <1>5 DEF Row, TurnRow
<1> QED
  BY <1>4, <1>6 DEF p, Counted, RowsOf

\* The turns of a projection when the log is read one event further.
LEMMA TurnsNext ==
    ASSUME NEW l, Ordered(l), NEW n \in Nat, 1..(n + 1) \subseteq DOMAIN l,
           l[n + 1] \in Event, NEW t \in Turns
    PROVE  LET e == l[n + 1] IN
           /\ ~(IsTurn(e) /\ e.turn = t) => TurnOf(l, n + 1, t) = TurnOf(l, n, t)
           /\ IsTurn(e) /\ e.turn = t => TurnOf(l, n + 1, t) = TurnAfter(TurnOf(l, n, t), e, n + 1)
           /\ e = TurnEvent("turn.started", t) => TurnOf(l, n, t).started = 0
                                                  /\ TurnOf(l, n, t).completed = 0
           /\ e = TurnEvent("turn.completed", t) => TurnOf(l, n, t).row
           /\ TurnOf(l, n, t).started \in 0..n /\ TurnOf(l, n, t).completed \in 0..n
<1> DEFINE e == l[n + 1]
           st == One(l, n, "turn.started", t)
           co == One(l, n, "turn.completed", t)
<1>1. /\ One(l, n + 1, "turn.started", t) = IF e = TurnEvent("turn.started", t) THEN n + 1 ELSE st
      /\ One(l, n + 1, "turn.completed", t) = IF e = TurnEvent("turn.completed", t) THEN n + 1 ELSE co
  BY OneNext DEF TurnTypes
<1>2. 1..n \subseteq DOMAIN l
  OBVIOUS
<1>3. /\ st \in 0..n /\ co \in 0..n
      /\ st > 0 => l[st] = TurnEvent("turn.started", t)
      /\ co > 0 => l[co] = TurnEvent("turn.completed", t)
      /\ \A i \in 1..n : l[i] = TurnEvent("turn.started", t) => st = i
  BY <1>2, OneIs DEF TurnTypes
<1>4. TurnOf(l, n, t) = [row |-> st > 0, started |-> st, completed |-> co]
  BY DEF TurnOf
<1>5. n + 1 \in DOMAIN l /\ \A i \in 1..n : i \in DOMAIN l /\ i # n + 1
  OBVIOUS
<1>6. TurnOf(l, n + 1, t) = [row |-> One(l, n + 1, "turn.started", t) > 0,
                             started |-> One(l, n + 1, "turn.started", t),
                             completed |-> One(l, n + 1, "turn.completed", t)]
  BY DEF TurnOf
<1> HIDE DEF st, co, e
<1>7. ASSUME NEW i \in DOMAIN l, NEW j \in DOMAIN l, IsTurn(l[i]), l[j] = l[i] PROVE i = j
  BY <1>7 DEF Ordered
<1>8. CASE e = TurnEvent("turn.started", t)
  <2>1. IsTurn(e) /\ e.turn = t /\ e.type = "turn.started"
    BY <1>8 DEF TurnEvent, IsTurn
  <2>2. st = 0
    <3> SUFFICES ASSUME st > 0 PROVE FALSE
      BY <1>3
    <3>1. st \in 1..n /\ l[st] = e
      BY <1>3, <1>8
    <3> QED
      BY <1>5, <1>7, <2>1, <3>1 DEF e
  <2>3. co = 0
    <3> SUFFICES ASSUME co > 0 PROVE FALSE
      BY <1>3
    <3>1. co \in 1..n /\ l[co] = TurnEvent("turn.completed", t)
      BY <1>3
    <3>2. l[co].type = "turn.completed" /\ l[co].turn = t /\ co \in DOMAIN l
      BY <1>5, <3>1 DEF TurnEvent
    <3>3. PICK j \in 1..(co - 1) : l[j] = [type |-> "turn.started", turn |-> t]
      BY <3>2 DEF Ordered
    <3>4. j \in 1..n /\ l[j] = e
      BY <1>8, <3>1, <3>3 DEF TurnEvent
    <3> QED
      BY <1>5, <1>7, <2>1, <3>4 DEF e
  <2>4. TurnOf(l, n + 1, t) = TurnAfter(TurnOf(l, n, t), e, n + 1)
    <3>1. One(l, n + 1, "turn.started", t) = n + 1 /\ One(l, n + 1, "turn.completed", t) = co
      BY <1>1, <1>8 DEF TurnEvent
    <3>2. n + 1 > 0
      OBVIOUS
    <3>3. TurnOf(l, n + 1, t) = [row |-> TRUE, started |-> n + 1, completed |-> co]
      BY <1>6, <3>1, <3>2
    <3>4. TurnOf(l, n, t).started = 0 /\ TurnOf(l, n, t).completed = co
      BY <1>4, <2>2
    <3> QED
      BY <2>1, <3>3, <3>4 DEF TurnAfter
  <2>5. e # TurnEvent("turn.completed", t)
    BY <1>8 DEF TurnEvent
  <2> QED
    BY <1>3, <1>4, <2>1, <2>2, <2>3, <2>4, <2>5 DEF e
<1>9. CASE e = TurnEvent("turn.completed", t)
  <2>1. IsTurn(e) /\ e.turn = t /\ e.type = "turn.completed"
    BY <1>9 DEF TurnEvent, IsTurn
  <2>2. st > 0
    <3>1. PICK j \in 1..(n + 1 - 1) : l[j] = [type |-> "turn.started", turn |-> t]
      BY <1>5, <2>1 DEF Ordered, e
    <3>2. j \in 1..n
      OBVIOUS
    <3> QED
      BY <1>3, <3>1, <3>2 DEF TurnEvent
  <2>3. TurnOf(l, n + 1, t) = TurnAfter(TurnOf(l, n, t), e, n + 1)
    <3>1. One(l, n + 1, "turn.started", t) = st /\ One(l, n + 1, "turn.completed", t) = n + 1
      BY <1>1, <1>9 DEF TurnEvent
    <3>2. TurnOf(l, n + 1, t) = [row |-> TRUE, started |-> st, completed |-> n + 1]
      BY <1>6, <2>2, <3>1
    <3>3. TurnOf(l, n, t).started = st
      BY <1>4
    <3> QED
      BY <2>1, <3>2, <3>3 DEF TurnAfter
  <2>4. e # TurnEvent("turn.started", t)
    BY <1>9 DEF TurnEvent
  <2>5. TurnOf(l, n, t).row
    <3>1. TurnOf(l, n, t) = [row |-> TRUE, started |-> st, completed |-> co]
      BY <1>4, <2>2
    <3> QED
      BY <3>1
  <2>6. TurnOf(l, n, t).started \in 0..n /\ TurnOf(l, n, t).completed \in 0..n
    BY <1>3, <1>4
  <2> QED
    BY <2>1, <2>3, <2>4, <2>5, <2>6 DEF e
<1>10. CASE e # TurnEvent("turn.started", t) /\ e # TurnEvent("turn.completed", t)
  <2>1. ~(IsTurn(e) /\ e.turn = t)
    <3>1. e = [type |-> e.type, turn |-> e.turn]
      BY DEF Event, e
    <3> QED
      BY <1>10, <3>1 DEF TurnEvent, IsTurn
  <2>2. TurnOf(l, n + 1, t) = TurnOf(l, n, t)
    BY <1>1, <1>4, <1>6, <1>10
  <2> QED
    BY <1>3, <1>4, <1>10, <2>1, <2>2 DEF e
<1> QED
  BY <1>8, <1>9, <1>10

\* Rows are equal if their columns are.
LEMMA SameRow ==
    ASSUME NEW a \in Row, NEW b \in Row, a.row = b.row, a.last = b.last,
           a.count = b.count, a.turns = b.turns
    PROVE  a = b
BY DEF Row

\* Applying the next event of a log to the projection of those before it gives
\* the projection of one more: what rebuildFromEventLogs relies on.
LEMMA ProjectionNext ==
    ASSUME NEW l, Ordered(l), NEW n \in Nat, n + 1 <= MaxLog, 1..(n + 1) \subseteq DOMAIN l,
           Sound(l[n + 1])
    PROVE  Applied(ProjectionOf(l, n), l[n + 1], n + 1) = ProjectionOf(l, n + 1)
<1> DEFINE e == l[n + 1]
           p == ProjectionOf(l, n)
           a == Applied(p, e, n + 1)
           b == ProjectionOf(l, n + 1)
<1>0. /\ 1..n \subseteq DOMAIN l /\ n \in 0..MaxLog
      /\ n + 1 \in 0..MaxLog /\ n + 1 \in 1..MaxLog /\ n + 1 \in DOMAIN l
  BY IndexAssumption
<1>1. p \in Row /\ Counted(p)
  BY <1>0, ProjectionRow
<1>2. b \in Row /\ Counted(b)
  BY <1>0, ProjectionRow
<1>3. /\ p.row = (n > 0) /\ p.turns = [t \in Turns |-> TurnOf(l, n, t)]
      /\ b.row = (n + 1 > 0) /\ b.last = n + 1
      /\ b.turns = [t \in Turns |-> TurnOf(l, n + 1, t)]
  BY DEF ProjectionOf
<1>4. e.type = "session.created" <=> n + 1 = 1
  BY <1>0 DEF Ordered
<1>5. Sound(e) /\ e \in Event
  BY DEF Sound
<1>6. ASSUME NEW t \in Turns
      PROVE  /\ ~(IsTurn(e) /\ e.turn = t) => TurnOf(l, n + 1, t) = TurnOf(l, n, t)
             /\ IsTurn(e) /\ e.turn = t => TurnOf(l, n + 1, t) = TurnAfter(TurnOf(l, n, t), e, n + 1)
  BY <1>5, TurnsNext
<1> HIDE DEF p, e, b
<1>7. Changed(p, e, n + 1, a) /\ (a.row => a.last = n + 1)
  BY <1>0, <1>1, <1>5, AppliedFields
<1> HIDE DEF a
<1>8. a.turns = b.turns
  <2>1. CASE IsTurn(e)
    <3>1. e.turn \in Turns
      BY <1>5, <2>1 DEF Sound
    <3>2. a.turns = [p.turns EXCEPT ![e.turn] = TurnAfter(p.turns[e.turn], e, n + 1)]
      BY <1>7, <2>1 DEF Changed
    <3> QED
      BY <1>3, <1>6, <2>1, <3>1, <3>2
  <2>2. CASE ~IsTurn(e)
    <3>1. a.turns = p.turns
      BY <1>7, <2>2 DEF Changed
    <3> QED
      BY <1>3, <1>6, <2>2, <3>1
  <2> QED
    BY <2>1, <2>2
<1>9. a \in Row
  BY <1>7 DEF Changed
<1>10. a.row = TRUE /\ b.row = TRUE
  <2>1. a.row = (p.row \/ e.type = "session.created")
    BY <1>7 DEF Changed
  <2>2. p.row = TRUE \/ e.type = "session.created"
    <3>1. CASE n = 0
      BY <1>4, <3>1
    <3>2. CASE n > 0
      BY <1>3, <3>2
    <3>3. n = 0 \/ n > 0
      OBVIOUS
    <3> QED
      BY <3>1, <3>2, <3>3
  <2>3. b.row = TRUE
    <3>1. n + 1 > 0
      OBVIOUS
    <3> QED
      BY <1>3, <3>1
  <2> QED
    BY <2>1, <2>2, <2>3
<1>11. a.last = b.last
  BY <1>3, <1>7, <1>10
<1>12. a.count = b.count
  <2>1. Counted(a)
    BY <1>1, <1>5, <1>7, AppliedCounts
  <2>2. RowsOf(a) = RowsOf(b)
    BY <1>8 DEF RowsOf
  <2> QED
    BY <1>2, <2>1, <2>2 DEF Counted, RowsOf
<1>13. a = b
  BY <1>2, <1>8, <1>9, <1>10, <1>11, <1>12, SameRow
<1> QED
  BY <1>13 DEF a, b, p, e

\* A table that has the turns of a projection has them after any event of the log
\* is applied once more.
LEMMA CoversApplied ==
    ASSUME NEW l, Ordered(l), NEW n \in 0..MaxLog, 1..n \subseteq DOMAIN l,
           NEW k \in DOMAIN l, k \in 1..MaxLog, Sound(l[k]),
           NEW row \in Row, Covers(row, ProjectionOf(l, n)),
           NEW new, Changed(row, l[k], k, new)
    PROVE  Covers(new, ProjectionOf(l, n))
<1> SUFFICES ASSUME NEW t \in Turns, TurnOf(l, n, t).row
             PROVE  /\ new.turns[t].started = TurnOf(l, n, t).started
                    /\ new.turns[t].completed >= TurnOf(l, n, t).completed
  BY DEF Covers, ProjectionOf
<1> DEFINE e == l[k]
           st == One(l, n, "turn.started", t)
           co == One(l, n, "turn.completed", t)
<1>1. /\ st \in 0..n /\ co \in 0..n
      /\ st > 0
      /\ TurnOf(l, n, t).started = st /\ TurnOf(l, n, t).completed = co
      /\ co > 0 => l[co] = TurnEvent("turn.completed", t) /\ co \in DOMAIN l
  <2>1. n \in Nat
    BY IndexAssumption
  <2>2. /\ st \in 0..n /\ co \in 0..n
        /\ co > 0 => l[co] = TurnEvent("turn.completed", t)
    BY <2>1, OneIs DEF TurnTypes
  <2>3. TurnOf(l, n, t) = [row |-> st > 0, started |-> st, completed |-> co]
    BY DEF TurnOf
  <2> HIDE DEF st, co
  <2>5. st > 0
    <3> SUFFICES ASSUME ~(st > 0) PROVE FALSE
      OBVIOUS
    <3>0. (st > 0) = FALSE
      OBVIOUS
    <3>1. TurnOf(l, n, t) = [row |-> FALSE, started |-> st, completed |-> co]
      BY <2>3, <3>0, Zenon
    <3>2. TurnOf(l, n, t).row = FALSE
      BY <3>1
    <3> QED
      BY <3>2
  <2> QED
    BY <2>2, <2>3, <2>5
<1>2. row.turns[t].started = st /\ row.turns[t].completed >= co
  BY <1>1 DEF Covers, ProjectionOf
<1>3. row.turns \in [Turns -> TurnRow]
  BY DEF Row, TurnRow
<1> HIDE DEF st, co
<1>4. CASE ~(IsTurn(e) /\ e.turn = t)
  <2>1. new.turns[t] = row.turns[t]
    BY <1>3, <1>4 DEF Changed, Sound
  <2> QED
    BY <1>1, <1>2, <2>1
<1>5. CASE IsTurn(e) /\ e.turn = t
  <2>1. new.turns[t] = TurnAfter(row.turns[t], e, k)
    BY <1>3, <1>5 DEF Changed
  <2>2. new.turns[t].started = st
    BY <1>1, <1>2, <1>5, <2>1 DEF TurnAfter, IsTurn
  <2>3. new.turns[t].completed >= co
    <3>1. CASE e.type = "turn.started"
      BY <1>2, <2>1, <3>1 DEF TurnAfter
    <3>2. CASE e.type = "turn.completed"
      <4>1. new.turns[t].completed = k
        BY <2>1, <3>2 DEF TurnAfter
      <4>2. e = TurnEvent("turn.completed", t)
        BY <1>5, <3>2 DEF Sound, Event, TurnEvent
      <4>3. co > 0 => co = k
        BY <1>1, <1>5, <4>2 DEF Ordered
      <4> QED
        BY <1>1, <4>1, <4>3
    <3> QED
      BY <1>5, <3>1, <3>2 DEF IsTurn
  <2> QED
    BY <1>1, <2>2, <2>3
<1> QED
  BY <1>4, <1>5

\* A table that has the turns of a projection has those of the next one after the
\* rebuild has applied the event in between, whatever apply did before it.
LEMMA CoversNext ==
    ASSUME NEW l, Ordered(l), NEW n \in Nat, n + 1 <= MaxLog, 1..(n + 1) \subseteq DOMAIN l,
           Sound(l[n + 1]), NEW row \in Row, Sourced(l, row), Covers(row, ProjectionOf(l, n)),
           NEW new, Changed(row, l[n + 1], n + 1, new)
    PROVE  Covers(new, ProjectionOf(l, n + 1))
<1> SUFFICES ASSUME NEW t \in Turns, TurnOf(l, n + 1, t).row
             PROVE  /\ new.turns[t].started = TurnOf(l, n + 1, t).started
                    /\ new.turns[t].completed >= TurnOf(l, n + 1, t).completed
  BY DEF Covers, ProjectionOf
<1> DEFINE e == l[n + 1]
           now == TurnOf(l, n, t)
           next == TurnOf(l, n + 1, t)
<1>1. Sound(e) /\ e \in Event /\ n + 1 \in DOMAIN l
  BY DEF Sound
<1>2. /\ ~(IsTurn(e) /\ e.turn = t) => next = now
      /\ IsTurn(e) /\ e.turn = t => next = TurnAfter(now, e, n + 1)
      /\ e = TurnEvent("turn.started", t) => now.started = 0 /\ now.completed = 0
      /\ e = TurnEvent("turn.completed", t) => now.row
  BY <1>1, TurnsNext
<1>3. row.turns \in [Turns -> TurnRow]
  BY DEF Row, TurnRow
<1>4. now.row => row.turns[t].started = now.started /\ row.turns[t].completed >= now.completed
  BY DEF Covers, ProjectionOf
<1> HIDE DEF e, now, next
<1>5. CASE ~(IsTurn(e) /\ e.turn = t)
  <2>1. new.turns[t] = row.turns[t]
    BY <1>3, <1>5 DEF Changed, Sound, e
  <2>2. next = now /\ next.row
    BY <1>2, <1>5 DEF next
  <2> QED
    BY <1>4, <2>1, <2>2 DEF next
<1>6. CASE IsTurn(e) /\ e.turn = t
  <2>1. /\ new.turns[t] = TurnAfter(row.turns[t], e, n + 1)
        /\ next = TurnAfter(now, e, n + 1)
    BY <1>2, <1>3, <1>6 DEF Changed, e
  <2>2. e = TurnEvent(e.type, t) /\ e.type \in TurnTypes
    BY <1>1, <1>6 DEF Event, TurnEvent, IsTurn, TurnTypes
  <2>3. CASE e.type = "turn.started"
    <3>1. now.started = 0 /\ now.completed = 0
      BY <1>2, <2>2, <2>3
    <3>2. next.started = n + 1 /\ next.completed = 0
      BY <2>1, <2>3, <3>1 DEF TurnAfter
    <3>3. row.turns[t].started # 0 => row.turns[t].started = n + 1
      <4> SUFFICES ASSUME row.turns[t].started # 0 PROVE row.turns[t].started = n + 1
        OBVIOUS
      <4>1. row.turns[t].started \in DOMAIN l /\ l[row.turns[t].started] = e
        BY <2>2, <2>3 DEF Sourced, TurnEvent
      <4> QED
        BY <1>1, <1>6, <4>1 DEF Ordered, e
    <3>4. row.turns[t].completed \in 0..MaxLog
      BY <1>3 DEF TurnRow
    <3>5. new.turns[t].started = n + 1 /\ new.turns[t].completed >= 0
      BY <2>1, <2>3, <3>3, <3>4, IndexAssumption DEF TurnAfter
    <3> QED
      BY <3>2, <3>5 DEF next
  <2>4. CASE e.type = "turn.completed"
    <3>1. row.turns[t].started = now.started
      BY <1>2, <1>4, <2>2, <2>4
    <3>2. /\ next.started = now.started /\ next.completed = n + 1
          /\ new.turns[t].started = row.turns[t].started /\ new.turns[t].completed = n + 1
      BY <2>1, <2>4 DEF TurnAfter
    <3> QED
      BY <3>1, <3>2 DEF next
  <2> QED
    BY <2>2, <2>3, <2>4 DEF TurnTypes
<1> QED
  BY <1>5, <1>6

\* A rebuild that has read nothing has projected nothing.
LEMMA NothingRead ==
    ASSUME NEW l, Ordered(l)
    PROVE  ProjectionOf(l, 0) = NoSession /\ Covers(NoSession, ProjectionOf(l, 0))
<1>1. ASSUME NEW t PROVE TurnOf(l, 0, t) = NoTurn
  <2>1. \A type : At(l, 0, type, t) = {}
    BY DEF At
  <2>2. One(l, 0, "turn.started", t) = 0 /\ One(l, 0, "turn.completed", t) = 0
    BY <2>1, Zenon DEF One
  <2>3. (0 > 0) = FALSE
    OBVIOUS
  <2> QED
    BY <2>2, <2>3, Zenon DEF TurnOf, NoTurn
<1>2. {t \in Turns : TurnOf(l, 0, t).row} = {}
  BY <1>1 DEF NoTurn
<1>3. [t \in Turns |-> TurnOf(l, 0, t)] = [t \in Turns |-> NoTurn]
  BY <1>1
<1>4. (0 > 0) = FALSE /\ Cardinality({}) = 0
  BY FS_EmptySet
<1>5. ProjectionOf(l, 0) = NoSession
  BY <1>2, <1>3, <1>4, Zenon DEF ProjectionOf, NoSession
<1>6. \A t \in Turns : ~NoSession.turns[t].row
  BY DEF NoSession, NoTurn
<1> QED
  BY <1>5, <1>6 DEF Covers

-----------------------------------------------------------------------------
(* The open transaction sees the projection of what has been read.         *)

\* The state of one session and of the rebuild is the same after a step.
LEMMA FollowsOn ==
    ASSUME NEW s, NEW r, Follows(r, s), UNCHANGED touched, db'[s] = db[s],
           rebuild'[r].read[s] = rebuild[r].read[s],
           \A i \in 1..rebuild[r].read[s] : log'[s][i] = log[s][i]
    PROVE  Follows(r, s)'
<1>1. ProjectionOf(log'[s], rebuild[r].read[s]) = ProjectionOf(log[s], rebuild[r].read[s])
  BY ProjectionGrows
<1> QED
  BY <1>1 DEF Follows

\* Where a rebuild is in the log of a session.
LEMMA ReadSoFar ==
    ASSUME IndexInv, NEW r \in Rebuilds, NEW s \in Sessions
    PROVE  LET n == rebuild[r].read[s] IN
           /\ n \in Nat /\ n \in 0..MaxLog /\ n <= Len(log[s])
           /\ 1..n \subseteq DOMAIN log[s]
           /\ Ordered(log[s])
           /\ DOMAIN log[s] = 1..Len(log[s]) /\ Len(log[s]) \in Nat
<1>1. /\ rebuild \in [Rebuilds -> RebuildType] /\ log[s] \in Seq(Event)
      /\ rebuild[r].read[s] <= Len(log[s]) /\ Ordered(log[s])
  BY DEF IndexInv, TypeOK, RebuildType, ReadInv, LogInv, LogOf
<1>2. rebuild[r].read[s] \in 0..MaxLog
  BY <1>1 DEF RebuildType
<1>3. DOMAIN log[s] = 1..Len(log[s]) /\ Len(log[s]) \in Nat
  BY <1>1
<1> DEFINE n == rebuild[r].read[s]
           m == Len(log[s])
<1> HIDE DEF n, m
<1>4. n \in Nat /\ n \in 0..MaxLog /\ n <= m /\ m \in Nat /\ 1..n \subseteq 1..m
  BY <1>1, <1>2, <1>3, IndexAssumption DEF n, m
<1> QED
  BY <1>1, <1>3, <1>4 DEF n, m

\* An apply of any event of the log leaves the turns the rebuild has projected.
LEMMA ApplyFollows ==
    ASSUME IndexInv, NEW r \in Rebuilds, NEW s \in Sessions, NEW k \in DOMAIN log[s],
           NEW row \in Row, Covers(row, ProjectionOf(log[s], rebuild[r].read[s]))
    PROVE  Covers(Applied(row, log[s][k], k), ProjectionOf(log[s], rebuild[r].read[s]))
<1>1. TypeOK /\ LogInv
  BY DEF IndexInv
<1>2. Sound(log[s][k]) /\ k \in 1..MaxLog
  BY <1>1, LogEvents
<1>3. Changed(row, log[s][k], k, Applied(row, log[s][k], k))
  BY <1>1, AppliedRow
<1> QED
  BY <1>2, <1>3, ReadSoFar, CoversApplied

\* The rebuild applies the next event of a log.
LEMMA ReplayFollows ==
    ASSUME IndexInv, NEW r \in Rebuilds, NEW s \in Sessions, ReplayEvent(r, s), Follows(r, s)
    PROVE  Follows(r, s)'
<1> DEFINE n == rebuild[r].read[s]
           e == log[s][n + 1]
<1>1. /\ TypeOK /\ LogInv /\ SourceInv
      /\ rebuild \in [Rebuilds -> RebuildType] /\ db \in [Sessions -> Row]
  BY DEF IndexInv, TypeOK, RebuildType
<1>2. /\ n + 1 \in DOMAIN log[s]
      /\ db'[s] = Applied(db[s], e, n + 1)
      /\ log' = log /\ touched' = touched
      /\ rebuild' = [rebuild EXCEPT ![r].read[s] = @ + 1]
  BY <1>1 DEF ReplayEvent, NextOf, history
<1>3. rebuild'[r].read[s] = n + 1
  <2>1. rebuild[r].read \in [Sessions -> 0..MaxLog]
    BY <1>1 DEF RebuildType
  <2> QED
    BY <1>1, <1>2, <2>1 DEF RebuildType
<1>4. /\ n \in Nat /\ Ordered(log[s])
      /\ DOMAIN log[s] = 1..Len(log[s]) /\ Len(log[s]) \in Nat
  BY ReadSoFar
<1>5. Sound(e) /\ n + 1 \in 1..MaxLog
  BY <1>1, <1>2, LogEvents
<1>6. 1..(n + 1) \subseteq DOMAIN log[s] /\ n + 1 <= MaxLog
  <2>1. n + 1 <= Len(log[s])
    BY <1>2, <1>4
  <2> QED
    BY <1>4, <1>5, <2>1, IndexAssumption
<1>7. Changed(db[s], e, n + 1, Applied(db[s], e, n + 1)) /\ db[s] \in Row
  BY <1>1, <1>2, AppliedRow
<1>8. Sourced(log[s], db[s])
  BY <1>1 DEF SourceInv
<1> HIDE DEF n
<1>9. Covers(db'[s], ProjectionOf(log[s], n + 1))
  BY <1>2, <1>4, <1>5, <1>6, <1>7, <1>8, CoversNext DEF Follows, n
<1>10. s \notin touched' => db'[s] = ProjectionOf(log[s], n + 1)
  BY <1>2, <1>4, <1>5, <1>6, ProjectionNext DEF Follows, n
<1> QED
  BY <1>2, <1>3, <1>9, <1>10 DEF Follows

\* Whatever runs on the connection while a rebuild replays, its transaction sees
\* the projection of what it has read.
LEMMA ProjectionStep == IndexInv /\ [Next]_vars => ProjectionInv'
<1> SUFFICES ASSUME IndexInv, [Next]_vars, tx' # 0, ~cleared', NEW s \in Sessions
             PROVE  Follows(tx, s)'
  BY DEF ProjectionInv
<1>0. /\ TypeOK /\ LogInv /\ SourceInv /\ ReadInv /\ TransactionEnds
      /\ rebuild \in [Rebuilds -> RebuildType] /\ db \in [Sessions -> Row]
      /\ tx \in 0..MaxRebuilds
  BY DEF IndexInv, TypeOK, RebuildType
<1>1. ASSUME tx # 0, ~cleared PROVE tx \in Rebuilds /\ \A q \in Sessions : Follows(tx, q)
  <2>1. tx \in Rebuilds
    BY <1>0, <1>1, IndexAssumption DEF Rebuilds
  <2> QED
    BY <1>1, <2>1 DEF IndexInv, ProjectionInv
<1>2. ASSUME tx # 0, ~cleared, UNCHANGED <<tx, touched>>, db'[s] = db[s],
             rebuild'[tx].read = rebuild[tx].read
      PROVE  Follows(tx, s)'
  <2>1. tx \in Rebuilds /\ Follows(tx, s)
    BY <1>1, <1>2
  <2>2. \A i \in 1..rebuild[tx].read[s] : log'[s][i] = log[s][i]
    BY <2>1, LogsGrow, ReadSoFar
  <2>3. PICK r \in Rebuilds : r = tx
    BY <2>1
  <2>4. Follows(r, s)'
    BY <1>2, <2>1, <2>2, <2>3, FollowsOn
  <2> QED
    BY <1>2, <2>3, <2>4 DEF Follows
<1>3. ASSUME NEW q \in Sessions, NEW n \in 1..MaxLog, Apply(q, n) PROVE Follows(tx, s)'
  <2>0. tx # 0 /\ ~cleared /\ UNCHANGED <<log, tx, rebuild>>
    BY <1>3 DEF Apply
  <2>1. CASE UNCHANGED <<db, touched>>
    BY <1>2, <2>0, <2>1
  <2>2. CASE db' = [db EXCEPT ![q] = Applied(@, log[q][n], n)] /\ touched' = touched \cup {q}
    <3>1. CASE q = s
      <4>1. PICK r \in Rebuilds : r = tx /\ Follows(r, s)
        BY <1>1, <2>0
      <4>2. db'[s] = Applied(db[s], log[s][n], n) /\ n \in DOMAIN log[s] /\ db[s] \in Row
        BY <1>0, <1>3, <2>2, <3>1 DEF Apply
      <4>3. Covers(db'[s], ProjectionOf(log[s], rebuild[r].read[s]))
        BY <4>1, <4>2, ApplyFollows DEF Follows
      <4> QED
        BY <2>0, <2>2, <3>1, <4>1, <4>3 DEF Follows
    <3>2. CASE q # s
      <4>1. Follows(tx, s) /\ db'[s] = db[s] /\ (s \in touched' <=> s \in touched)
        BY <1>0, <1>1, <2>0, <2>2, <3>2
      <4> QED
        BY <2>0, <4>1 DEF Follows
    <3> QED
      BY <3>1, <3>2
  <2> QED
    BY <1>3, <2>1, <2>2 DEF Apply
<1>4. ASSUME NEW q \in Sessions, NEW m \in 1..MaxLog, NEW n \in 1..MaxLog, ApplyMany(q, m, n)
      PROVE  Follows(tx, s)'
  <2> DEFINE first == Applied(db[q], log[q][m], m)
  <2>0. /\ tx # 0 /\ ~cleared /\ UNCHANGED <<log, tx, rebuild>>
        /\ m \in DOMAIN log[q] /\ n \in DOMAIN log[q]
    BY <1>4 DEF ApplyMany
  <2>1. CASE UNCHANGED <<db, touched>>
    BY <1>2, <2>0, <2>1
  <2>2. CASE db' = [db EXCEPT ![q] = Applied(first, log[q][n], n)] /\ touched' = touched \cup {q}
    <3>1. CASE q = s
      <4>1. PICK r \in Rebuilds : r = tx /\ Follows(r, s)
        BY <1>1, <2>0
      <4>2. first \in Row /\ Covers(first, ProjectionOf(log[s], rebuild[r].read[s]))
        BY <1>0, <2>0, <3>1, <4>1, ApplyFollows, AppliedRow DEF Follows
      <4> HIDE DEF first
      <4>3. db'[s] = Applied(first, log[s][n], n)
        BY <1>0, <2>2, <3>1
      <4>4. Covers(db'[s], ProjectionOf(log[s], rebuild[r].read[s]))
        BY <2>0, <3>1, <4>2, <4>3, ApplyFollows
      <4> QED
        BY <2>0, <2>2, <3>1, <4>1, <4>4 DEF Follows
    <3>2. CASE q # s
      <4>1. Follows(tx, s) /\ db'[s] = db[s] /\ (s \in touched' <=> s \in touched)
        BY <1>0, <1>1, <2>0, <2>2, <3>2
      <4> QED
        BY <2>0, <4>1 DEF Follows
    <3> QED
      BY <3>1, <3>2
  <2> QED
    BY <1>4, <2>1, <2>2 DEF ApplyMany
<1>5. ASSUME NEW r \in Rebuilds, RebuildStep(r) PROVE Follows(tx, s)'
  <2>1. CASE Rebuild(r) \/ NotBegun(r)
    <3>1. rebuild[r].phase # "replaying" /\ UNCHANGED <<db, tx, touched, cleared>>
      BY <2>1 DEF Rebuild, NotBegun, history
    <3>2. tx # r
      BY <1>0, <3>1 DEF TransactionEnds
    <3>3. rebuild'[tx] = rebuild[tx]
      BY <1>0, <1>1, <2>1, <3>1, <3>2 DEF Rebuild, NotBegun
    <3> QED
      BY <1>2, <3>1, <3>3
  <2>2. CASE Begin(r)
    <3>1. /\ db' = Empty /\ tx' = r /\ log' = log
          /\ rebuild'[r].read = rebuild[r].read /\ rebuild[r].phase = "walking"
      BY <1>0, <2>2 DEF Begin, RebuildType
    <3>2. rebuild'[r].read[s] = 0 /\ Ordered(log[s]) /\ db'[s] = NoSession
      BY <1>0, <3>1 DEF ReadInv, LogInv, LogOf, Empty
    <3> QED
      BY <3>1, <3>2, NothingRead DEF Follows
  <2>3. ASSUME NEW q \in Sessions, OpenFile(r, q) \/ FileDone(r, q) PROVE Follows(tx, s)'
    <3>1. UNCHANGED <<db, tx, touched, cleared>> /\ rebuild'[tx].read = rebuild[tx].read
      <4>1. CASE OpenFile(r, q)
        BY <1>0, <1>1, <4>1 DEF OpenFile, RebuildType, history
      <4>2. CASE FileDone(r, q)
        BY <1>0, <1>1, <4>2 DEF FileDone, RebuildType, history
      <4> QED
        BY <2>3, <4>1, <4>2
    <3> QED
      BY <1>2, <3>1
  <2>4. ASSUME NEW q \in Sessions, ReplayEvent(r, q) PROVE Follows(tx, s)'
    <3>1. UNCHANGED <<log, tx, touched, cleared>> /\ rebuild[r].phase = "replaying"
      BY <1>0, <2>4 DEF ReplayEvent, history, ReadInv
    <3>2. tx = r /\ Follows(r, s)
      BY <1>0, <1>1, <3>1 DEF TransactionEnds
    <3>3. Follows(r, s)'
      <4>1. CASE q = s
        BY <2>4, <3>2, <4>1, ReplayFollows
      <4>2. CASE q # s
        <5>1. db'[s] = db[s] /\ rebuild'[r].read[s] = rebuild[r].read[s]
          BY <1>0, <2>4, <4>2 DEF ReplayEvent, RebuildType
        <5> QED
          BY <3>1, <3>2, <5>1 DEF Follows
      <4> QED
        BY <4>1, <4>2
    <3> QED
      BY <3>1, <3>2, <3>3 DEF Follows
  <2>5. ~(ReplayFails(r) \/ Commit(r))
    BY DEF ReplayFails, Commit
  <2> QED
    BY <1>5, <2>1, <2>2, <2>3, <2>4, <2>5, RebuildCases
<1>6. CASE UNCHANGED vars \/ \E q \in Sessions, e \in Event : WriteLog(q, e)
  BY <1>2, <1>6 DEF vars, WriteLog, history
<1>7. ~Reset /\ ~Crash
  BY DEF Reset, Crash
<1> QED
  BY <1>3, <1>4, <1>5, <1>6, <1>7 DEF Next, Call

-----------------------------------------------------------------------------
(* The theorems.                                                           *)

\* The invariant is inductive.
LEMMA IndexInvariant == Spec => []IndexInv
<1>1. IndexInv /\ [Next]_vars => IndexInv'
  BY IndexTypeStep, TransactionStep, LogStep, ReadStep, SourceStep, CountStep, ProjectionStep
  DEF IndexInv
<1> QED
  BY <1>1, IndexInit, PTL DEF Spec

\* The types of the tables, the transaction and the rebuilds.
THEOREM IndexTypes == Spec => []TypeOK
<1>1. IndexInv => TypeOK
  BY DEF IndexInv
<1> QED
  BY <1>1, IndexInvariant, PTL

\* rebuildFromEventLogs: a transaction is open exactly while the rebuild that began
\* it replays, for any number of rebuilds that overlap, fail or are cut by a crash.
THEOREM TransactionsEnd == Spec => []TransactionEnds
<1>1. IndexInv => TransactionEnds
  BY DEF IndexInv
<1> QED
  BY <1>1, IndexInvariant, PTL

\* applyInternal: turn_count is the number of rows in turns, for any calls of apply
\* and applyMany in any order, any rebuilds and resets; only a session an apply of
\* which was killed half way is excepted, and only until a rebuild commits.
THEOREM CountsMatchTurns == Spec => []CountMatchesTurns
<1>1. IndexInv => CountMatchesTurns
  BY DEF IndexInv, CountInv, CountMatchesTurns, Counted
<1> QED
  BY <1>1, IndexInvariant, PTL

\* rebuildFromEventLogs: the index a rebuild commits is the projection of what it
\* has read of the logs; calls of apply in between lose no turn of it.
THEOREM RebuildsProject == Spec => RebuildIsProjection
<1>1. ASSUME IndexInv, [Next]_vars, NEW r \in Rebuilds, rebuild[r].phase = "replaying",
             rebuild'[r].phase = "done", ~cleared, NEW s \in Sessions
      PROVE  LET p == Projection(s, rebuild[r].read[s]) IN
             /\ s \notin touched => db'[s] = p
             /\ \A t \in Turns : p.turns[t].row =>
                   /\ db'[s].turns[t].started = p.turns[t].started
                   /\ db'[s].turns[t].completed >= p.turns[t].completed
  <2>0. rebuild \in [Rebuilds -> RebuildType] /\ TransactionEnds /\ ProjectionInv /\ ReadInv
    BY <1>1 DEF IndexInv, TypeOK, RebuildType
  <2>1. tx = r /\ tx # 0
    BY <1>1, <2>0 DEF TransactionEnds, Rebuilds
  <2>2. /\ s \notin touched => db[s] = Projection(s, rebuild[r].read[s])
        /\ Covers(db[s], Projection(s, rebuild[r].read[s]))
    BY <1>1, <2>0, <2>1, ProjectionIs DEF ProjectionInv, Follows
  <2>3. db' = db
    <3>1. ASSUME NEW q \in Rebuilds, RebuildStep(q) PROVE Commit(q)
      <4>1. CASE q = r
        <5>1. ~(Rebuild(r) \/ NotBegun(r) \/ Begin(r))
          BY <1>1 DEF Rebuild, NotBegun, Begin
        <5>2. ~(ReplayFails(r) \/ \E c \in Sessions : OpenFile(r, c) \/ ReplayEvent(r, c) \/ FileDone(r, c))
          <6>1. ~ReplayFails(r)
            BY <1>1, <2>0, EndedRebuild DEF ReplayFails
          <6>2. ASSUME NEW c \in Sessions, OpenFile(r, c) \/ ReplayEvent(r, c) \/ FileDone(r, c)
                PROVE  FALSE
            <7>1. rebuild'[r].phase = rebuild[r].phase
              BY <2>0, <6>2 DEF OpenFile, ReplayEvent, FileDone, RebuildType
            <7> QED
              BY <1>1, <7>1
          <6> QED
            BY <6>1, <6>2
        <5> QED
          BY <3>1, <4>1, <5>1, <5>2, RebuildCases
      <4>2. CASE q # r
        <5>1. rebuild'[r] = rebuild[r]
          BY <2>0, <3>1, <4>2, RebuildCases
          DEF Rebuild, NotBegun, Begin, OpenFile, ReplayEvent, FileDone, ReplayFails, Commit
        <5> QED
          BY <1>1, <5>1
      <4> QED
        BY <4>1, <4>2
    <3>2. ASSUME Crash PROVE FALSE
      <4>1. rebuild'[r].phase = "failed"
        BY <1>1, <3>2, EndedRebuild DEF Crash
      <4> QED
        BY <1>1, <4>1
    <3>3. rebuild' # rebuild
      BY <1>1
    <3> QED
      BY <1>1, <3>1, <3>2, <3>3 DEF Next, Call, WriteLog, Apply, ApplyMany, Reset, Commit, vars
  <2> QED
    BY <2>2, <2>3 DEF Covers
<1>2. IndexInv /\ [Next]_vars =>
        [\A r \in Rebuilds :
            rebuild[r].phase = "replaying" /\ rebuild'[r].phase = "done" /\ ~cleared =>
               \A s \in Sessions :
                  LET p == Projection(s, rebuild[r].read[s]) IN
                  /\ s \notin touched => db'[s] = p
                  /\ \A t \in Turns : p.turns[t].row =>
                        /\ db'[s].turns[t].started = p.turns[t].started
                        /\ db'[s].turns[t].completed >= p.turns[t].completed]_vars
  BY <1>1
<1> QED
  BY <1>2, IndexInvariant, PTL DEF Spec, RebuildIsProjection
=============================================================================
