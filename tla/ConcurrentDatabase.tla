------------------------- MODULE ConcurrentDatabase -------------------------
(***************************************************************************)
(* Database::execute called by several threads, and take_snapshot by one   *)
(* more, in a database created empty.  A statement is logged under the     *)
(* mutex of the log and then executed under the locks of the executor, and *)
(* nothing holds the two together; take_snapshot holds no lock over its    *)
(* steps at all.  The process may end in any state: Rebuilt is what the    *)
(* next one rebuilds from the files of this state.                         *)
(*                                                                         *)
(* A statement is known by its number, which also stands for the rows that *)
(* an INSERT adds.  An INSERT that is not whole has a row that does not    *)
(* fit the columns: the rows before it stay, and it is answered with an    *)
(* error.  (One whose first row does not fit changes nothing, whenever it  *)
(* is executed, and is left out.)  All CREATEs of a table have the same    *)
(* columns, and the rows of an INSERT are added in one step; Executor has  *)
(* them one by one.                                                        *)
(***************************************************************************)
EXTENDS Naturals, Sequences, FiniteSets

CONSTANTS
  Threads,       \* callers of execute
  Names,         \* the tables they use
  MaxStmts,      \* bound on the statements
  MaxSnapshots   \* bound on the snapshots

ASSUME ConcurrentAssumption == MaxStmts \in Nat /\ MaxSnapshots \in Nat

VARIABLES
  tables,      \* Executor::tables_: is there such a table, and its rows
  records,     \* wal.log: LSN and statement of each record
  nextLsn,     \* WALWriter::next_lsn_
  snap,        \* snapshot.dat: LSN, number of tables, tables
  tpc, cur,    \* where each thread is, and its statement
  saving,      \* where take_snapshot is
  image,       \* what it has written to snapshot.dat.tmp
  known,       \* the tables when it started to write them
  snapshots,   \* snapshots begun
  stmts,       \* history: every statement, with its effect so far
  after,       \* history: the statements that had returned when it began
  overlapped   \* history: the statements executed while a snapshot was taken

database == <<tables, records, nextLsn, snap>>
snapshotter == <<saving, image, known, snapshots>>
dbVars == <<database, tpc, cur, snapshotter, stmts, after, overlapped>>

NoTables == [t \in Names |-> [exists |-> FALSE, rows |-> <<>>]]
NoImage == [lsn |-> 0, count |-> 0, parts |-> <<>>]
Record(lsn, id) == [lsn |-> lsn, id |-> id]
Part(t, rows) == [table |-> t, rows |-> rows]

DbInit ==
  /\ tables = NoTables /\ records = <<>> /\ nextLsn = 1 /\ snap = NoImage
  /\ tpc = [h \in Threads |-> "idle"] /\ cur = [h \in Threads |-> 0]
  /\ saving = "idle" /\ image = NoImage /\ known = {} /\ snapshots = 0
  /\ stmts = <<>> /\ after = <<>> /\ overlapped = {}

InFlight == {cur[h] : h \in {h \in Threads : tpc[h] # "idle"}}
Existing(db) == {t \in Names : db[t].exists}

-----------------------------------------------------------------------------
(* Executor::execute_sql on tables db                                      *)

(* Does it find what it needs?                                             *)
Succeeds(db, s) == db[s.table].exists = (s.op = "insert")

Executed(db, s, id) ==
  IF ~Succeeds(db, s) THEN db
  ELSE IF s.op = "create" THEN [db EXCEPT ![s.table].exists = TRUE]
  ELSE [db EXCEPT ![s.table].rows = Append(@, id)]

-----------------------------------------------------------------------------
(* Database::execute                                                       *)

Call(h, op, whole, t) ==
  LET id == Len(stmts) + 1 IN
  /\ tpc[h] = "idle" /\ Len(stmts) < MaxStmts
  /\ stmts' = Append(stmts, [op |-> op, whole |-> whole, table |-> t, effect |-> "none"])
  /\ after' = Append(after, {i \in 1..Len(stmts) : stmts[i].effect # "none"})
  /\ overlapped' = IF saving = "idle" THEN overlapped ELSE overlapped \cup {id}
  /\ cur' = [cur EXCEPT ![h] = id] /\ tpc' = [tpc EXCEPT ![h] = "log"]
  /\ UNCHANGED <<database, snapshotter>>

(* wal_writer_->append                                                     *)
Log(h) ==
  /\ tpc[h] = "log"
  /\ records' = Append(records, Record(nextLsn, cur[h])) /\ nextLsn' = nextLsn + 1
  /\ tpc' = [tpc EXCEPT ![h] = "execute"]
  /\ UNCHANGED <<tables, snap, cur, snapshotter, stmts, after, overlapped>>

(* executor_.execute_sql, and the return to the caller                     *)
Apply(h) ==
  LET s == stmts[cur[h]] IN
  /\ tpc[h] = "execute"
  /\ tables' = Executed(tables, s, cur[h])
  /\ stmts' = [stmts EXCEPT ![cur[h]].effect = IF Succeeds(tables, s) THEN "done" ELSE "nothing"]
  /\ tpc' = [tpc EXCEPT ![h] = "idle"] /\ cur' = [cur EXCEPT ![h] = 0]
  /\ UNCHANGED <<records, nextLsn, snap, snapshotter, after, overlapped>>

-----------------------------------------------------------------------------
(* Database::take_snapshot and Snapshot::save                              *)

ReadLsn ==
  /\ saving = "idle" /\ snapshots < MaxSnapshots
  /\ image' = [NoImage EXCEPT !.lsn = nextLsn - 1]
  /\ snapshots' = snapshots + 1
  /\ overlapped' = overlapped \cup InFlight
  /\ saving' = "header"
  /\ UNCHANGED <<database, tpc, cur, known, stmts, after>>

(* The header has the number of the tables there are now.                  *)
WriteHeader ==
  /\ saving = "header"
  /\ known' = Existing(tables)
  /\ image' = [image EXCEPT !.count = Cardinality(known')]
  /\ saving' = "walk"
  /\ UNCHANGED <<database, tpc, cur, snapshots, stmts, after, overlapped>>

(* The rows of one table, under its lock.  The walk over tables_ has none: *)
(* it may or may not come across a table that is created meanwhile.        *)
WriteTable(t) ==
  /\ saving = "walk" /\ tables[t].exists
  /\ \A i \in 1..Len(image.parts) : image.parts[i].table # t
  /\ image' = [image EXCEPT !.parts = Append(@, Part(t, tables[t].rows))]
  /\ UNCHANGED <<database, tpc, cur, saving, known, snapshots, stmts, after, overlapped>>

Rename ==
  /\ saving = "walk" /\ known \subseteq {image.parts[i].table : i \in 1..Len(image.parts)}
  /\ snap' = image
  /\ image' = NoImage /\ known' = {}
  /\ saving' = "truncate"
  /\ UNCHANGED <<tables, records, nextLsn, tpc, cur, snapshots, stmts, after, overlapped>>

Truncate ==
  /\ saving = "truncate"
  /\ records' = <<>>
  /\ saving' = "idle"
  /\ UNCHANGED <<tables, nextLsn, snap, tpc, cur, image, known, snapshots, stmts, after,
                 overlapped>>

DbNext ==
  \/ \E h \in Threads : \/ \E t \in Names : \/ Call(h, "create", TRUE, t)
                                           \/ \E whole \in BOOLEAN : Call(h, "insert", whole, t)
                        \/ Log(h) \/ Apply(h)
  \/ ReadLsn \/ WriteHeader \/ Rename \/ Truncate
  \/ \E t \in Names : WriteTable(t)

DbSpec == DbInit /\ [][DbNext]_dbVars

-----------------------------------------------------------------------------
(* Database::recover: the tables of the snapshot, as many as its header    *)
(* says, then the records of the log beyond its LSN.                       *)

Loaded ==
  [t \in Names |->
     LET is == {i \in 1..snap.count : snap.parts[i].table = t} IN
     IF is = {} THEN NoTables[t]
     ELSE [exists |-> TRUE, rows |-> snap.parts[CHOOSE i \in is : TRUE].rows]]

(* Mutant: the record with the LSN of the snapshot is replayed.            *)
SkippedBelow(r) == r.lsn < snap.lsn

Skipped(r) == r.lsn <= snap.lsn

(* The tables after the first n records of a log.                          *)
Replayed(log) ==
  LET db[n \in 0..Len(log)] ==
        IF n = 0 THEN Loaded
        ELSE IF Skipped(log[n]) THEN db[n - 1]
        ELSE Executed(db[n - 1], stmts[log[n].id], log[n].id)
  IN  db[Len(log)]

(* Mutant: every CREATE is replayed before the first INSERT.               *)
RebuiltCreatesFirst ==
  Replayed(SelectSeq(records, LAMBDA r : stmts[r.id].op = "create")
             \o SelectSeq(records, LAMBDA r : stmts[r.id].op = "insert"))

Rebuilt == Replayed(records)

-----------------------------------------------------------------------------
(* a and b run one after the other in any execution.                       *)
Before(a, b) == a \in after[b]
Ordered(a, b) == Before(a, b) \/ Before(b, a)

Ids == 1..Len(stmts)
Creates(t) == {c \in Ids : stmts[c].op = "create" /\ stmts[c].table = t}

(* A CREATE that is executed while a snapshot is taken can cost any table. *)
NoCreateInSnapshot == \A t \in Names : Creates(t) \cap overlapped = {}

(* An INSERT that ran neither while a snapshot was taken nor together with *)
(* a CREATE of its table.                                                  *)
Calm(i) ==
  /\ stmts[i].op = "insert" /\ i \notin overlapped
  /\ \A c \in Creates(stmts[i].table) : Ordered(c, i)

(* The INSERT i was acknowledged, or answered with an error: the table was *)
(* not found, or not all its rows were accepted.                           *)
Acked(i) == stmts[i].op = "insert" /\ stmts[i].effect = "done" /\ stmts[i].whole
Refused(i) ==
  /\ stmts[i].op = "insert"
  /\ stmts[i].effect = "nothing" \/ (stmts[i].effect = "done" /\ ~stmts[i].whole)

(* Where the rows of i are in its table, now and when it is rebuilt.       *)
Present(i) == LET rows == tables[stmts[i].table].rows IN {k \in 1..Len(rows) : rows[k] = i}
Places(i) == LET rows == Rebuilt[stmts[i].table].rows IN {k \in 1..Len(rows) : rows[k] = i}

(* Every acknowledged INSERT survives the end of the process, once, and    *)
(* behind the rows acknowledged before it was called, though other threads *)
(* log and execute theirs in different orders and a crash may come between *)
(* the rename of a snapshot and the truncation of the log.  What can be    *)
(* lost or doubled is what Calm leaves out.                                *)
CalmAckedSurvive ==
  NoCreateInSnapshot =>
    \A i \in Ids : Acked(i) /\ Calm(i) =>
      /\ Cardinality(Places(i)) = 1
      /\ \A j \in after[i] : stmts[j].table = stmts[i].table =>
           \A k \in Places(i), l \in Places(j) : l < k

(* An INSERT that was answered with an error leaves the same behind after  *)
(* a recovery as it did before: nothing when there was no table, and, once *)
(* and no more, the rows that precede the one refused.                     *)
RefusedLeaveTheSame ==
  NoCreateInSnapshot =>
    \A i \in Ids : Refused(i) /\ Calm(i) => Cardinality(Places(i)) = Cardinality(Present(i))

(* DesignDoc.md:935: "WAL provides crash safety".  Every acknowledged      *)
(* INSERT survives, whoever else was running.                              *)
EveryAckedSurvives ==
  \A i \in Ids : Acked(i) => Cardinality(Places(i)) = 1
=============================================================================
