---------------------------- MODULE SessionIndex ----------------------------
(***************************************************************************)
(* The SQLite projection of the event logs                                 *)
(* (packages/storage/src/session-index.ts): apply, applyMany,              *)
(* rebuildFromEventLogs and reset on one connection.                       *)
(*                                                                         *)
(* log      the authoritative JSONL log of each session                    *)
(* db       the tables as statements of the connection see them            *)
(* saved    the tables a ROLLBACK or a crash restores while a transaction  *)
(*          is open                                                        *)
(* tx       the rebuild whose transaction is open, 0 for none              *)
(* rebuild  the calls of rebuildFromEventLogs                              *)
(*                                                                         *)
(* A rebuild awaits the log reader inside its transaction, and whatever    *)
(* is called meanwhile runs on the same connection.  The remaining         *)
(* variables are history.                                                  *)
(***************************************************************************)
EXTENDS Naturals, Sequences, FiniteSets

CONSTANTS
    Sessions,
    MaxLog,       \* bound: events of a log
    MaxTurns,     \* bound: turns of a log
    MaxRebuilds,  \* bound: calls of rebuildFromEventLogs
    MaxApplies,   \* bound: calls of apply and applyMany
    MaxResets     \* bound: calls of reset and crashes

ASSUME IndexAssumption ==
    /\ MaxLog \in Nat
    /\ MaxTurns \in Nat
    /\ MaxRebuilds \in Nat
    /\ MaxApplies \in Nat
    /\ MaxResets \in Nat

VARIABLES log, db, saved, tx, rebuild,
          applies,  \* number of calls of apply and applyMany
          resets,   \* number of calls of reset and crashes
          touched,  \* sessions apply changed since the last BEGIN
          cleared,  \* was reset called since the last BEGIN?
          torn      \* sessions an apply of which was cut by a crash

counters == <<applies, resets>>
history  == <<touched, cleared, torn>>
vars == <<log, db, saved, tx, rebuild, counters, history>>

Turns    == 1..MaxTurns
Rebuilds == 1..MaxRebuilds

Event == [type : {"session.created", "turn.started", "turn.completed", "other"},
          turn : 0..MaxTurns]

\* A row of turns holds the sequences of the events its columns come from.
NoTurn == [row |-> FALSE, started |-> 0, completed |-> 0]
NoSession == [row |-> FALSE, last |-> 0, count |-> 0,
              turns |-> [t \in Turns |-> NoTurn]]
Empty == [s \in Sessions |-> NoSession]

NotCalled == [phase |-> "none", files |-> {}, todo |-> {}, now |-> {},
              read |-> [s \in Sessions |-> 0]]
-----------------------------------------------------------------------------
(* applyInternal.                                                          *)

\* INSERT INTO sessions ... ON CONFLICT DO UPDATE keeps the tail and the count.
UpsertSession(row, n) == IF row.row THEN row ELSE [row EXCEPT !.row = TRUE, !.last = n]

\* Mutant of UpsertTurn: the turn is counted whenever it starts.
UpsertTurnCountsStarts(row, e, n) ==
    LET old == row.turns[e.turn]
        new == IF e.type = "turn.started"
               THEN [old EXCEPT !.row = TRUE, !.started = IF @ = 0 THEN n ELSE @]
               ELSE [old EXCEPT !.row = TRUE, !.completed = n]
    IN [row EXCEPT !.turns[e.turn] = new,
                   !.count = IF e.type = "turn.started" THEN @ + 1 ELSE @]

\* INSERT OR IGNORE counts the turn if it is new, else the row is updated.
UpsertTurn(row, e, n) ==
    LET old == row.turns[e.turn]
        new == IF e.type = "turn.started"
               THEN [old EXCEPT !.row = TRUE, !.started = IF @ = 0 THEN n ELSE @]
               ELSE [old EXCEPT !.row = TRUE, !.completed = n]
    IN [row EXCEPT !.turns[e.turn] = new, !.count = IF old.row THEN @ ELSE @ + 1]

IsTurn(e) == e.type \in {"turn.started", "turn.completed"}

\* The foreign key refuses a turn of a session that has no row.
Refused(row, e) == IsTurn(e) /\ ~row.row

Upserted(row, e, n) ==
    IF e.type = "session.created" THEN UpsertSession(row, n)
    ELSE IF IsTurn(e) THEN UpsertTurn(row, e, n)
    ELSE row

\* touchSessionTail, which changes no row where there is none.
Touched(row, n) == IF row.row THEN [row EXCEPT !.last = n] ELSE row

Applied(row, e, n) == Touched(Upserted(row, e, n), n)

\* What a crash between the statements of an apply leaves outside of a
\* transaction: the turn without its count, or all but the tail.
CutShort(row, e, n) ==
    {Upserted(row, e, n), [Upserted(row, e, n) EXCEPT !.count = row.count]}
-----------------------------------------------------------------------------
Init ==
    /\ log = [s \in Sessions |-> <<>>]
    /\ db = Empty
    /\ saved = Empty
    /\ tx = 0
    /\ rebuild = [r \in Rebuilds |-> NotCalled]
    /\ applies = 0
    /\ resets = 0
    /\ touched = {}
    /\ cleared = FALSE
    /\ torn = {}

Started(s) == {log[s][i].turn : i \in DOMAIN log[s]} \ {0}

\* The session engine appends: session.created first, then turns one at a time.
WriteLog(s, e) ==
    /\ Len(log[s]) < MaxLog
    /\ (e.type = "session.created") <=> (log[s] = <<>>)
    /\ CASE e.type = "turn.started"   -> e.turn = Cardinality(Started(s)) + 1
         [] e.type = "turn.completed" ->
                /\ e.turn = Cardinality(Started(s))
                /\ e.turn > 0
                /\ e \notin {log[s][i] : i \in DOMAIN log[s]}
         [] OTHER -> e.turn = 0
    /\ log' = [log EXCEPT ![s] = Append(@, e)]
    /\ UNCHANGED <<db, saved, tx, rebuild, counters, history>>

\* apply of an event of a log, in any order and any number of times.
Apply(s, n) ==
    /\ applies < MaxApplies
    /\ n \in DOMAIN log[s]
    /\ applies' = applies + 1
    /\ \/ /\ Refused(db[s], log[s][n])
          /\ UNCHANGED <<db, touched>>
       \/ /\ ~Refused(db[s], log[s][n])
          /\ db' = [db EXCEPT ![s] = Applied(@, log[s][n], n)]
          /\ touched' = touched \cup {s}
    /\ UNCHANGED <<log, saved, tx, rebuild, resets, cleared, torn>>

\* applyMany of two events: a transaction, or a savepoint inside an open one;
\* if one of them is refused none is kept.
ApplyMany(s, m, n) ==
    LET first == Applied(db[s], log[s][m], m)
        fails == Refused(db[s], log[s][m]) \/ Refused(first, log[s][n])
    IN  /\ applies < MaxApplies
        /\ m \in DOMAIN log[s] /\ n \in DOMAIN log[s]
        /\ applies' = applies + 1
        /\ \/ /\ fails
              /\ UNCHANGED <<db, touched>>
           \/ /\ ~fails
              /\ db' = [db EXCEPT ![s] = Applied(first, log[s][n], n)]
              /\ touched' = touched \cup {s}
        /\ UNCHANGED <<log, saved, tx, rebuild, resets, cleared, torn>>

Reset ==
    /\ resets < MaxResets
    /\ resets' = resets + 1
    /\ db' = Empty
    /\ cleared' = TRUE
    /\ UNCHANGED <<log, saved, tx, rebuild, applies, touched, torn>>

\* The process ends, or close() drops the connection; an open transaction is
\* undone.  A kill may come between two statements of an apply.
Crash ==
    /\ resets < MaxResets
    /\ resets' = resets + 1
    /\ \/ /\ db' = IF tx = 0 THEN db ELSE saved
          /\ UNCHANGED torn
       \/ /\ tx = 0
          /\ \E s \in Sessions : \E n \in DOMAIN log[s] :
                /\ ~Refused(db[s], log[s][n])
                /\ \E row \in CutShort(db[s], log[s][n], n) : db' = [db EXCEPT ![s] = row]
                /\ torn' = torn \cup {s}
    /\ tx' = 0
    /\ saved' = Empty
    /\ rebuild' = [r \in Rebuilds |->
                      IF rebuild[r].phase \in {"walking", "replaying"}
                      THEN [NotCalled EXCEPT !.phase = "failed"] ELSE rebuild[r]]
    /\ UNCHANGED <<log, applies, touched, cleared>>
-----------------------------------------------------------------------------
(* rebuildFromEventLogs.                                                   *)

HasLog == {s \in Sessions : log[s] # <<>>}

\* collectJsonlFiles is called; it finds at least the files there are by now.
Rebuild(r) ==
    /\ rebuild[r].phase = "none"
    /\ rebuild' = [rebuild EXCEPT ![r].phase = "walking", ![r].files = HasLog]
    /\ UNCHANGED <<log, db, saved, tx, counters, history>>

\* The walk throws, or BEGIN does because a transaction is open: the tables and
\* the open transaction are left alone.
NotBegun(r) ==
    /\ rebuild[r].phase = "walking"
    /\ rebuild' = [rebuild EXCEPT ![r] = [NotCalled EXCEPT !.phase = "failed"]]
    /\ UNCHANGED <<log, db, saved, tx, counters, history>>

\* Mutant of Begin: the rows are left for the upserts to replace.
BeginKeepsRows(r) ==
    /\ rebuild[r].phase = "walking"
    /\ tx = 0
    /\ \E files \in SUBSET HasLog :
          /\ rebuild[r].files \subseteq files
          /\ rebuild' = [rebuild EXCEPT ![r].phase = "replaying",
                                        ![r].files = files, ![r].todo = files]
    /\ saved' = db
    /\ tx' = r
    /\ touched' = {}
    /\ cleared' = FALSE
    /\ UNCHANGED <<log, db, counters, torn>>

\* BEGIN and the DELETEs.  A file created during the walk may be missed.
Begin(r) ==
    /\ rebuild[r].phase = "walking"
    /\ tx = 0
    /\ \E files \in SUBSET HasLog :
          /\ rebuild[r].files \subseteq files
          /\ rebuild' = [rebuild EXCEPT ![r].phase = "replaying",
                                        ![r].files = files, ![r].todo = files]
    /\ saved' = db
    /\ db' = Empty
    /\ tx' = r
    /\ touched' = {}
    /\ cleared' = FALSE
    /\ UNCHANGED <<log, counters, torn>>

\* The replay of the next file.
OpenFile(r, s) ==
    /\ rebuild[r].phase = "replaying"
    /\ rebuild[r].now = {}
    /\ s \in rebuild[r].todo
    /\ rebuild' = [rebuild EXCEPT ![r].now = {s}, ![r].todo = @ \ {s}]
    /\ UNCHANGED <<log, db, saved, tx, counters, history>>

NextOf(r, s) == rebuild[r].read[s] + 1

ReplayEvent(r, s) ==
    /\ s \in rebuild[r].now
    /\ NextOf(r, s) \in DOMAIN log[s]
    /\ ~Refused(db[s], log[s][NextOf(r, s)])
    /\ db' = [db EXCEPT ![s] = Applied(@, log[s][NextOf(r, s)], NextOf(r, s))]
    /\ rebuild' = [rebuild EXCEPT ![r].read[s] = @ + 1]
    /\ UNCHANGED <<log, saved, tx, counters, history>>

FileDone(r, s) ==
    /\ s \in rebuild[r].now
    /\ NextOf(r, s) \notin DOMAIN log[s]
    /\ rebuild' = [rebuild EXCEPT ![r].now = {}]
    /\ UNCHANGED <<log, db, saved, tx, counters, history>>

\* Mutant of ReplayFails: the error is passed on without ROLLBACK.
ReplayFailsOpen(r) ==
    /\ rebuild[r].phase = "replaying"
    /\ rebuild' = [rebuild EXCEPT ![r] = [NotCalled EXCEPT !.phase = "failed"]]
    /\ UNCHANGED <<log, db, saved, tx, counters, history>>

\* The reader throws (a corrupt line, an I/O error) or the foreign key does.
ReplayFails(r) ==
    /\ rebuild[r].phase = "replaying"
    /\ rebuild' = [rebuild EXCEPT ![r] = [NotCalled EXCEPT !.phase = "failed"]]
    /\ db' = saved
    /\ saved' = Empty
    /\ tx' = 0
    /\ UNCHANGED <<log, counters, history>>

Commit(r) ==
    /\ rebuild[r].phase = "replaying"
    /\ rebuild[r].now = {} /\ rebuild[r].todo = {}
    /\ rebuild' = [rebuild EXCEPT ![r] = [NotCalled EXCEPT !.phase = "done"]]
    /\ saved' = Empty
    /\ tx' = 0
    /\ torn' = {}
    /\ UNCHANGED <<log, db, counters, touched, cleared>>
-----------------------------------------------------------------------------
Call ==
    \/ \E s \in Sessions, n \in 1..MaxLog : Apply(s, n)
    \/ \E s \in Sessions, m, n \in 1..MaxLog : ApplyMany(s, m, n)
    \/ Reset

RebuildStep(r) ==
    \/ Rebuild(r)
    \/ NotBegun(r)
    \/ Begin(r)
    \/ \E s \in Sessions : OpenFile(r, s) \/ ReplayEvent(r, s) \/ FileDone(r, s)
    \/ ReplayFails(r)
    \/ Commit(r)

Next ==
    \/ \E s \in Sessions, e \in Event : WriteLog(s, e)
    \/ Call
    \/ \E r \in Rebuilds : RebuildStep(r)
    \/ Crash

Spec == Init /\ [][Next]_vars
-----------------------------------------------------------------------------
(* Properties.                                                             *)

Row == [row : BOOLEAN, last : 0..MaxLog, count : Nat,
        turns : [Turns -> [row : BOOLEAN, started : 0..MaxLog, completed : 0..MaxLog]]]

\* The types of the tables, the transaction and the rebuilds.
TypeOK ==
    /\ log \in [Sessions -> Seq(Event)]
    /\ db \in [Sessions -> Row]
    /\ saved \in [Sessions -> Row]
    /\ tx \in 0..MaxRebuilds
    /\ rebuild \in [Rebuilds -> [phase : {"none", "walking", "replaying", "done", "failed"},
                                 files : SUBSET Sessions, todo : SUBSET Sessions,
                                 now : SUBSET Sessions, read : [Sessions -> 0..MaxLog]]]
    /\ <<applies, resets>> \in (0..MaxApplies) \X (0..MaxResets)
    /\ {touched, torn} \subseteq SUBSET Sessions
    /\ cleared \in BOOLEAN

\* A transaction is open only while the rebuild that began it still replays:
\* one that fails, whatever the error and whatever ran in between, leaves none
\* in which later writes would wait for a COMMIT that never comes.
TransactionEnds == \A r \in Rebuilds : rebuild[r].phase = "replaying" <=> tx = r

\* turn_count is the number of rows in turns, however events are repeated,
\* reordered, replayed by a rebuild or rolled back.  A kill between the
\* statements of apply breaks it until the next rebuild.
CountMatchesTurns ==
    \A s \in Sessions \ torn :
        db[s].count = Cardinality({t \in Turns : db[s].turns[t].row})

\* The index of the first n events of a log.
Projection(s, n) ==
    LET at(type, t) == {i \in 1..n : log[s][i] = [type |-> type, turn |-> t]}
        one(type, t) == IF at(type, t) = {} THEN 0 ELSE CHOOSE i \in at(type, t) : TRUE
        turn(t) == [row       |-> one("turn.started", t) > 0,
                    started   |-> one("turn.started", t),
                    completed |-> one("turn.completed", t)]
    IN [row |-> n > 0, last |-> n,
        count |-> Cardinality({t \in Turns : turn(t).row}),
        turns |-> [t \in Turns |-> turn(t)]]

\* A rebuild that commits has made the index the projection of the logs it
\* read, and where apply was called meanwhile the index still has the turns of
\* that projection; reset alone undoes it.  A second rebuild that starts in
\* between does not disturb the first.
RebuildIsProjection ==
    [][\A r \in Rebuilds :
          rebuild[r].phase = "replaying" /\ rebuild'[r].phase = "done" /\ ~cleared =>
             \A s \in Sessions :
                LET p == Projection(s, rebuild[r].read[s]) IN
                /\ s \notin touched => db'[s] = p
                /\ \A t \in Turns : p.turns[t].row =>
                      /\ db'[s].turns[t].started = p.turns[t].started
                      /\ db'[s].turns[t].completed >= p.turns[t].completed]_vars
=============================================================================
