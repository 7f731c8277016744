------------------------------ MODULE Database ------------------------------
(***************************************************************************)
(* Database (server/database.cpp) with its write-ahead log and snapshot,   *)
(* used by one caller: execute, take_snapshot, the destructor and the      *)
(* recovery of the constructor, each split at the points where the files   *)
(* change, and a process that may die between any two of them.             *)
(*                                                                         *)
(* wal and snap are the contents of wal.log and snapshot.dat and survive a *)
(* crash; pc, tables, nextLsn, snapLsn, stream, pos, pending and closing   *)
(* are the state of the process.  acked, cur, before and covered record    *)
(* history: cur is kept through a crash as the statement whose outcome the *)
(* caller never learnt.                                                    *)
(***************************************************************************)
EXTENDS WAL

CONSTANTS
  Frontend,   \* "library": callers use Database::execute;
              \* "server": main.cpp hands db.executor() to TCPServer
  Faults,     \* what may go wrong: "torn", "power", "full"
  MaxStmts    \* bound on the statements issued

ASSUME DatabaseAssumption ==
  /\ Frontend \in {"library", "server"}
  /\ Faults \subseteq {"torn", "power", "full"}
  /\ MaxStmts \in Nat

VARIABLES
  wal,        \* records of wal.log
  snap,       \* snapshot.dat: absent, whole, or corrupt
  pc,         \* where the process is; "down" when there is none
  tables,     \* Executor::tables_
  nextLsn,    \* WALWriter::next_lsn_
  snapLsn,    \* Database::snapshot_lsn_
  stream,     \* WALWriter::file_: once "bad" it ignores every write
  pos,        \* the record the replay loop reads next
  cur,        \* the statement being executed
  pending,    \* what Snapshot::save has put in snapshot.dat.tmp
  closing,    \* snapshots still to be taken by a clean shutdown
  acked,      \* the tables after every acknowledged statement
  before,     \* before[i]: the tables when wal[i] was appended
  covered,    \* how many records of wal are contained in snap
  issued      \* statements issued so far

disk == <<wal, snap>>
process == <<pc, tables, nextLsn, snapLsn, stream, pos, pending, closing>>
history == <<acked, before, covered>>
vars == <<disk, process, cur, history, issued>>

Image(state, lsn, contents) ==
  [state |-> state, lsn |-> lsn, tables |-> contents]
NoImage == Image("absent", 0, NoTables)

(* Snapshot::load succeeds on a whole file only; otherwise recovery goes   *)
(* on with no tables and snapshot_lsn_ = 0.                                *)
LoadedLsn(s)    == IF s.state = "whole" THEN s.lsn ELSE 0
LoadedTables(s) == IF s.state = "whole" THEN s.tables ELSE NoTables

Init ==
  /\ wal = <<>> /\ snap = NoImage
  /\ pc = "down" /\ tables = NoTables
  /\ nextLsn = 1 /\ snapLsn = 0 /\ stream = "good"
  /\ pos = 1 /\ pending = NoImage /\ closing = 0
  /\ cur = NoStmt
  /\ acked = NoTables /\ before = <<>> /\ covered = 0
  /\ issued = 0

-----------------------------------------------------------------------------
(* Recovery: the constructor calls recover, then opens the WALWriter.      *)

(* Mutant: the LSN of the snapshot is not kept.                             *)
LoadSnapshotForgettingLsn ==
  /\ pc = "down"
  /\ tables' = LoadedTables(snap)
  /\ pos' = 1
  /\ pc' = "replay"
  /\ UNCHANGED <<disk, nextLsn, snapLsn, stream, cur, pending, closing, history,
                 issued>>

LoadSnapshot ==
  /\ pc = "down"
  /\ tables' = LoadedTables(snap)
  /\ snapLsn' = LoadedLsn(snap)
  /\ pos' = 1
  /\ pc' = "replay"
  /\ UNCHANGED <<disk, nextLsn, stream, cur, pending, closing, history, issued>>

(* Mutant: < for <=, the last covered record is replayed.                   *)
ReplayRecordFromSnapshotLsn ==
  /\ pc = "replay"
  /\ Delivered(wal, pos)
  /\ tables' = IF wal[pos].lsn < snapLsn
                 THEN tables
                 ELSE ExecSql(tables, wal[pos].sql)
  /\ pos' = pos + 1
  /\ UNCHANGED <<disk, pc, nextLsn, snapLsn, stream, cur, pending, closing,
                 history, issued>>

ReplayRecord ==
  /\ pc = "replay"
  /\ Delivered(wal, pos)
  /\ tables' = IF wal[pos].lsn <= snapLsn
                 THEN tables
                 ELSE ExecSql(tables, wal[pos].sql)
  /\ pos' = pos + 1
  /\ UNCHANGED <<disk, pc, nextLsn, snapLsn, stream, cur, pending, closing,
                 history, issued>>

OpenWriter ==
  /\ pc = "replay"
  /\ ~Delivered(wal, pos)
  /\ nextLsn' = NextLsn(wal)
  /\ pc' = "idle"
  /\ cur' = NoStmt
  /\ acked' = tables
  /\ UNCHANGED <<disk, tables, snapLsn, stream, pos, pending, closing,
                 before, covered, issued>>

-----------------------------------------------------------------------------
(* Database::execute                                                       *)

Execute(s) ==
  /\ pc = "idle" /\ closing = 0
  /\ issued < MaxStmts
  /\ issued' = issued + 1
  /\ cur' = s
  /\ pc' = "executing"
  /\ UNCHANGED <<disk, tables, nextLsn, snapLsn, stream, pos, pending,
                 closing, history>>

(* TCPServer::handle_client calls Executor::execute_sql itself.            *)
GoesThroughWAL(s) == Frontend = "library" /\ IsMutating(s)

(* append takes the next LSN and writes the record; whether the stream     *)
(* accepted it is never looked at.                                         *)
AppendWritten ==
  /\ stream = "good"
  /\ wal' = Append(wal, Record(nextLsn, cur))
  /\ before' = Append(before, tables)
  /\ UNCHANGED stream

AppendCutShort ==
  /\ stream = "good" /\ "full" \in Faults
  /\ wal' = Append(wal, Partial(nextLsn, cur))
  /\ before' = Append(before, tables)
  /\ stream' = "bad"

AppendIgnored ==
  /\ stream = "bad"
  /\ UNCHANGED <<wal, before, stream>>

LogStatement ==
  /\ pc = "executing" /\ GoesThroughWAL(cur)
  /\ AppendWritten \/ AppendCutShort \/ AppendIgnored
  /\ nextLsn' = nextLsn + 1
  /\ pc' = "logged"
  /\ UNCHANGED <<snap, tables, snapLsn, pos, cur, pending, closing, acked,
                 covered, issued>>

(* execute_sql, and the return to the caller, which is the acknowledgement *)
ApplyStatement ==
  /\ \/ pc = "logged"
     \/ pc = "executing" /\ ~GoesThroughWAL(cur)
  /\ tables' = ExecSql(tables, cur)
  /\ acked' = ExecSql(acked, cur)
  /\ cur' = NoStmt
  /\ pc' = "idle"
  /\ UNCHANGED <<disk, nextLsn, snapLsn, stream, pos, pending, closing,
                 before, covered, issued>>

-----------------------------------------------------------------------------
(* Database::take_snapshot, called by the user or by a clean shutdown      *)

(* Mutant: the snapshot carries the LSN of the previous one.                *)
TakeSnapshotWithOldLsn ==
  /\ pc = "idle"
  /\ pending' = Image("whole", snapLsn, tables)
  /\ pc' = "saving"
  /\ UNCHANGED <<disk, tables, nextLsn, snapLsn, stream, pos, cur, closing,
                 history, issued>>

TakeSnapshot ==
  /\ pc = "idle"
  /\ pending' = Image("whole", nextLsn - 1, tables)
  /\ pc' = "saving"
  /\ UNCHANGED <<disk, tables, nextLsn, snapLsn, stream, pos, cur, closing,
                 history, issued>>

(* The return of take_snapshot: a clean shutdown goes on to its next final *)
(* snapshot, whatever this one returned.                                   *)
SnapshotReturns ==
  /\ closing' = IF closing = 0 THEN 0 ELSE closing - 1
  /\ pc' = IF closing = 1 THEN "exiting" ELSE "idle"

(* The temporary file cannot be opened, or cannot be renamed.              *)
SnapshotFails ==
  /\ pc = "saving"
  /\ SnapshotReturns
  /\ UNCHANGED <<disk, tables, nextLsn, snapLsn, stream, pos, cur, pending,
                 history, issued>>

(* save renames whatever the unchecked stream managed to write.            *)
RenameSnapshot ==
  /\ pc = "saving"
  /\ \/ snap' = pending /\ covered' = Len(wal)
     \/ /\ "full" \in Faults
        /\ snap' = Image("corrupt", 0, NoTables)
        /\ covered' = 0
  /\ pc' = "saved"
  /\ UNCHANGED <<wal, tables, nextLsn, snapLsn, stream, pos, cur, pending,
                 closing, acked, before, issued>>

(* snapshot_lsn_ = lsn; truncate empties the file and reopens the stream.  *)
TruncateWAL ==
  /\ pc = "saved"
  /\ wal' = <<>> /\ before' = <<>> /\ covered' = 0
  /\ stream' = "good"
  /\ snapLsn' = pending.lsn
  /\ SnapshotReturns
  /\ UNCHANGED <<snap, tables, nextLsn, pos, cur, pending, acked, issued>>

(* ~Database takes a final snapshot; main takes one more before that.      *)
Shutdown ==
  /\ pc = "idle" /\ closing = 0
  /\ closing' = IF Frontend = "server" THEN 2 ELSE 1
  /\ UNCHANGED <<disk, pc, tables, nextLsn, snapLsn, stream, pos, cur,
                 pending, history, issued>>

-----------------------------------------------------------------------------
(* The end of the process: its memory is gone.                             *)
Die ==
  /\ pc' = "down" /\ tables' = NoTables
  /\ nextLsn' = 1 /\ snapLsn' = 0 /\ stream' = "good"
  /\ pos' = 1 /\ pending' = NoImage /\ closing' = 0

Exit ==
  /\ pc = "exiting"
  /\ Die
  /\ UNCHANGED <<disk, cur, history, issued>>

(* What was flushed is in the OS and survives the death of the process.    *)
KeepLog == UNCHANGED <<wal, before, covered>>

(* The process dies while append writes the record.                        *)
TearLastRecord ==
  /\ "torn" \in Faults
  /\ pc = "executing" /\ GoesThroughWAL(cur) /\ stream = "good"
  /\ wal' = Append(wal, Partial(nextLsn, cur))
  /\ before' = Append(before, tables)
  /\ UNCHANGED covered

(* append flushes but never fsyncs: a power failure may lose any tail.     *)
LoseTail ==
  /\ "power" \in Faults
  /\ \E n \in 0..Len(wal) :
       /\ wal' = SubSeq(wal, 1, n)
       /\ before' = SubSeq(before, 1, n)
       /\ covered' = IF covered > n THEN n ELSE covered

Crash ==
  /\ pc # "down"
  /\ KeepLog \/ TearLastRecord \/ LoseTail
  /\ Die
  /\ UNCHANGED <<snap, cur, acked, issued>>

Next ==
  \/ LoadSnapshot
  \/ ReplayRecord
  \/ OpenWriter
  \/ \E s \in Stmt : Execute(s)
  \/ LogStatement
  \/ ApplyStatement
  \/ TakeSnapshot
  \/ SnapshotFails
  \/ RenameSnapshot
  \/ TruncateWAL
  \/ Shutdown
  \/ Exit
  \/ Crash

Spec == Init /\ [][Next]_vars

-----------------------------------------------------------------------------
Serving == pc \notin {"down", "replay"}

(* The state of the process, of its files and of the recorded history      *)
(* stays within the values the code's types allow.                         *)
Images == [state : {"absent", "whole", "corrupt"}, lsn : Nat, tables : Tables]
TypeOK ==
  /\ wal \in Seq(WALRecord) /\ snap \in Images
  /\ pc \in {"down", "replay", "idle", "executing", "logged", "saving",
             "saved", "exiting"}
  /\ tables \in Tables
  /\ nextLsn \in Nat \ {0} /\ snapLsn \in Nat /\ stream \in {"good", "bad"}
  /\ pos \in Nat \ {0} /\ pending \in Images /\ closing \in 0..2
  /\ cur \in Stmt \union {NoStmt}
  /\ acked \in Tables /\ before \in Seq(Tables) /\ Len(before) = Len(wal)
  /\ covered \in 0..Len(wal)
  /\ issued \in 0..MaxStmts

(* No statement is applied twice: after a crash between the rename of the  *)
(* snapshot and the truncation of the log, or at any other point, recovery *)
(* skips every record whose effect the loaded snapshot already contains    *)
(* (Database::recover, rec.lsn <= snapshot_lsn_).                          *)
NoDoubleReplay ==
  \A i \in 1..covered : Delivered(wal, i) => wal[i].lsn <= LoadedLsn(snap)

(* No statement is skipped: recovery replays every record it can read that *)
(* the loaded snapshot does not contain.                                   *)
NoSkippedRecord ==
  \A i \in covered + 1 .. Len(wal) :
    Delivered(wal, i) => wal[i].lsn > LoadedLsn(snap)

(* The records recovery can read carry consecutive LSNs, and the LSN the   *)
(* writer will hand out next is larger than all of them, across any number *)
(* of restarts, torn records and snapshots (WALWriter).                    *)
LsnsInOrder ==
  \A i \in 1..Len(wal) : Delivered(wal, i) =>
    /\ wal[i].lsn = wal[1].lsn + i - 1
    /\ Serving => wal[i].lsn < nextLsn

(* When recovery is complete the tables hold every acknowledged statement, *)
(* and of the statement in flight at the crash all or nothing.             *)
RecoveryDone == pc = "replay" /\ ~Delivered(wal, pos)
AckedSurvive == RecoveryDone => tables \in {acked, ExecSql(acked, cur)}

(* A mutation is acknowledged only when its record is in the log, readable *)
(* (database.h, wal.h: "logged to disk BEFORE being acknowledged").        *)
LoggedBeforeAck ==
  [][ApplyStatement /\ IsMutating(cur) =>
       \E i \in 1..Len(wal) :
         wal[i].whole /\ wal[i].sql = cur /\ wal[i].lsn = nextLsn - 1]_vars

-----------------------------------------------------------------------------
(* The steps after which recovery still sees everything that was           *)
(* acknowledged: a mutation goes through the log, its record is readable   *)
(* and above the snapshot's LSN, a snapshot is written out whole, and the  *)
(* log loses nothing but by truncation.                                    *)
RecoveryCanSee ==
  /\ ApplyStatement => pc = "logged" \/ ~IsMutating(cur)
  /\ LogStatement =>
       /\ Len(wal') = Len(wal) + 1
       /\ Delivered(wal', Len(wal'))
       /\ nextLsn > LoadedLsn(snap)
  /\ snap'.state # "corrupt"
  /\ pc # "saved" \/ pc' = "down" => Len(wal') >= Len(wal)

SpecVisible == Init /\ [][Next /\ RecoveryCanSee]_vars

(* The behaviours in which no snapshot is taken: every stop is a crash.    *)
SpecCrashOnly == Init /\ [][Next /\ pc' # "saving"]_vars

(* The abstract store: its contents are the acknowledged tables.           *)
Store == INSTANCE DurableStore WITH
  Exec <- ExecSql, Empty <- NoTables, db <- acked, op <- cur, up <- Serving

(* The database implements the store whose acknowledged statements survive *)
(* every crash (README.md:73).                                             *)
ImplementsDurableStore == Store!Spec

-----------------------------------------------------------------------------
(* The inductive strengthening of NoDoubleReplay and LsnsInOrder: an open  *)
(* writer whose log is readable to its end continues it, a snapshot being  *)
(* saved carries the LSN before the next one, and the replay loop has only *)
(* passed records it could read.                                           *)
OrderInv ==
  /\ TypeOK
  /\ LsnsInOrder
  /\ NoDoubleReplay
  /\ pc = "replay" => Delivered(wal, pos - 1)
  /\ Serving /\ stream = "good" /\ Len(wal) > 0 /\ Delivered(wal, Len(wal)) =>
       nextLsn = wal[Len(wal)].lsn + 1
  /\ pc \in {"saving", "saved"} =>
       pending.state = "whole" /\ pending.lsn = nextLsn - 1
  /\ pc \in {"executing", "logged"} => cur \in Stmt
  /\ pc \in {"idle", "saving", "saved", "exiting"} => cur = NoStmt

(* What recovery has rebuilt after reading n records: the snapshot's       *)
(* tables and the statements of the records it does not contain.           *)
Rebuilt(n) ==
  IF n > covered THEN ExecSql(before[n], wal[n].sql) ELSE LoadedTables(snap)

LastDelivered(n) == Delivered(wal, n) /\ ~Delivered(wal, n + 1)

(* The snapshot and each readable record continue one history of the       *)
(* tables.                                                                 *)
OneHistory ==
  /\ snap.state # "corrupt"
  /\ NoSkippedRecord
  /\ \A i \in covered + 1 .. Len(wal) - 1 :
       Delivered(wal, i + 1) => before[i + 1] = ExecSql(before[i], wal[i].sql)
  /\ Delivered(wal, covered + 1) => before[covered + 1] = LoadedTables(snap)

(* What recovery would rebuild from the files at this instant is what was  *)
(* acknowledged, give or take the statement in flight.                     *)
FilesHoldAcked ==
  \A n \in 0..Len(wal) : LastDelivered(n) =>
    /\ ~Serving => Rebuilt(n) \in {acked, ExecSql(acked, cur)}
    /\ Serving /\ pc # "logged" => Rebuilt(n) = acked

(* The inductive strengthening of AckedSurvive under SpecVisible.          *)
DurableInv ==
  /\ OrderInv
  /\ OneHistory
  /\ FilesHoldAcked
  /\ stream = "good"
  /\ pc = "logged" =>
       /\ Len(wal) > covered /\ Delivered(wal, Len(wal))
       /\ before[Len(wal)] = acked /\ wal[Len(wal)].sql = cur
  /\ Serving => tables = acked
  /\ pc = "replay" => tables = Rebuilt(pos - 1) /\ snapLsn = LoadedLsn(snap)
  /\ pc \in {"saving", "saved"} => pending.tables = acked
  /\ pc = "saved" => snap = pending /\ covered = Len(wal)
=============================================================================
