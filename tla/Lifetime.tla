------------------------------ MODULE Lifetime ------------------------------
(***************************************************************************)
(* How long a row is seen.  CREATE TABLE gives every table the default     *)
(* time to live (common.h:188), so three parts of the system decide        *)
(* together whether a SELECT still shows a row: the expiry that Table      *)
(* stores with it and TTLManager sweeps by, the LRU cache, which holds     *)
(* answers until the next INSERT, and recovery, which inserts the rows of  *)
(* the snapshot and of the log again.  One SELECT per table; the library   *)
(* front end, which logs every INSERT.  A caller runs its statement in     *)
(* steps, between which the clock, the sweeper, the other callers and a    *)
(* crash come in.                                                          *)
(***************************************************************************)
EXTENDS TTLManager, Filter

CONSTANTS
  Callers,      \* the threads that execute statements
  MaxRestarts   \* bound on the restarts

ASSUME LifeAssumption == IsFiniteSet(TableNames) /\ MaxRestarts \in Nat

VARIABLES
  caller,     \* where each caller is, and what it has read
  cache,      \* cache[t]: the cached answer to the SELECT on t, or NoAnswer
  snapshot,   \* snapshot.dat: the rows of each table
  snapLsn,    \* and the LSN it covers
  wal,        \* wal.log: the INSERTs since, with their LSNs
  walLsn,     \* WALWriter::next_lsn_
  answer,     \* the answer given by the last step, or NoAnswer
  restarts,   \* restarts so far
  restarted   \* when the last one was (history)

files == <<snapshot, snapLsn, wal, walLsn, restarts, restarted>>
lifeVars == <<caller, cache, answer, files>>
allVars == <<vars, lifeVars>>

(* A row is told apart by the second in which it was born; an answer keeps *)
(* the second of its scan (history).                                       *)
Born(rs) == [i \in 1..Len(rs) |-> rs[i].born]
NoAnswer == [table |-> "none", rows |-> <<>>, time |-> 0]
At(label, found) == [at |-> label, found |-> found]
Idle == At("idle", NoAnswer)

(* The tables were created, one record each, and a snapshot was taken.     *)
LifeInit ==
  /\ Init
  /\ caller = [c \in Callers |-> Idle]
  /\ cache = [t \in TableNames |-> NoAnswer]
  /\ snapshot = [t \in TableNames |-> <<>>] /\ snapLsn = Cardinality(TableNames)
  /\ wal = <<>> /\ walLsn = Cardinality(TableNames) + 1
  /\ answer = NoAnswer /\ restarts = 0 /\ restarted = 0

-----------------------------------------------------------------------------
(* exec_insert: the log record (WALWriter::append) and the row.  A crash   *)
(* between the two leaves the files of a crash after both.                 *)
InsertRow(c, t) ==
  /\ caller[c].at = "idle"
  /\ Insert(t)
  /\ wal' = Append(wal, [lsn |-> walLsn, table |-> t, born |-> now])
  /\ walLsn' = walLsn + 1
  /\ caller' = [caller EXCEPT ![c] = At("inserted", [NoAnswer EXCEPT !.table = t])]
  /\ answer' = NoAnswer
  /\ UNCHANGED <<cache, snapshot, snapLsn, restarts, restarted>>

(* and then drops the answers about the table.                             *)
Invalidate(c) ==
  /\ caller[c].at = "inserted"
  /\ cache' = [cache EXCEPT ![caller[c].found.table] = NoAnswer]
  /\ caller' = [caller EXCEPT ![c] = Idle]
  /\ answer' = NoAnswer
  /\ UNCHANGED <<vars, files>>

(* exec_select: the answer comes from the cache,                           *)
LookUp(c, t) ==
  /\ caller[c].at = "idle"
  /\ answer' = cache[t]
  /\ caller' = [caller EXCEPT ![c] =
                  IF cache[t] # NoAnswer THEN Idle
                  ELSE At("scan", [NoAnswer EXCEPT !.table = t])]
  /\ UNCHANGED <<vars, cache, files>>

(* Mutant: every row that was not swept is shown.                           *)
ScanUnswept(t) == Kept(rows[t], {i \in 1..Len(rows[t]) : rows[t][i].valid = 1})

(* Table::scan_all                                                         *)
scan_all(t) == Kept(rows[t], Visible(t))

(* or from a scan,                                                         *)
Scan(c) ==
  LET t == caller[c].found.table
  IN  /\ caller[c].at = "scan"
      /\ caller' = [caller EXCEPT ![c] =
                      At("put", [table |-> t, rows |-> Born(scan_all(t)), time |-> now])]
      /\ answer' = NoAnswer
      /\ UNCHANGED <<vars, cache, files>>

(* whose result is cached and returned, whatever was inserted meanwhile.   *)
Put(c) ==
  /\ caller[c].at = "put"
  /\ cache' = [cache EXCEPT ![caller[c].found.table] = caller[c].found]
  /\ answer' = caller[c].found
  /\ caller' = [caller EXCEPT ![c] = Idle]
  /\ UNCHANGED <<vars, files>>

-----------------------------------------------------------------------------
(* take_snapshot: the rows a scan returns, without their expiry, and the   *)
(* LSN of the last record; the log is emptied and goes on counting.  Both  *)
(* callers in the program (~Database, and main after run) call it when no  *)
(* statement is running; ConcurrentDatabase is about the others.           *)
TakeSnapshot ==
  /\ \A c \in Callers : caller[c].at = "idle"
  /\ snapshot' = [t \in TableNames |-> Born(scan_all(t))]
  /\ snapLsn' = walLsn - 1
  /\ wal' = <<>>
  /\ answer' = NoAnswer
  /\ UNCHANGED <<vars, caller, cache, walLsn, restarts, restarted>>

(* The records of t that recover executes again: it skips those that, by   *)
(* their LSNs, the snapshot covers.                                        *)
ToReplay(t) == {i \in 1..Len(wal) : wal[i].table = t /\ wal[i].lsn > snapLsn}

(* Mutant: recovery reads the snapshot only.                                *)
RecoveredFromSnapshot(t) == snapshot[t]

(* recover inserts the rows of the snapshot, then those of the log.        *)
Recovered(t) == snapshot[t] \o Born(Kept(wal, ToReplay(t)))

(* WALWriter: one more than the last record's, or 1 when the log is empty. *)
FirstLsn == IF wal = <<>> THEN 1 ELSE wal[Len(wal)].lsn + 1

(* The process ends and is started again: everything but the files is new. *)
Restart ==
  /\ restarts < MaxRestarts
  /\ rows' = [t \in TableNames |->
                [i \in 1..Len(Recovered(t)) |-> NewRow(t, Recovered(t)[i])]]
  /\ rowCount' = [t \in TableNames |-> Len(Recovered(t))]
  /\ registered' = {} /\ running' = FALSE /\ todo' = {}
  /\ opc' = "idle" /\ spc' = "none" /\ starts' = 0
  /\ caller' = [c \in Callers |-> Idle]
  /\ cache' = [t \in TableNames |-> NoAnswer] /\ answer' = NoAnswer
  /\ walLsn' = FirstLsn
  /\ restarts' = restarts + 1 /\ restarted' = now
  /\ UNCHANGED <<now, snapshot, snapLsn, wal>>

CallerStep(c) ==
  \/ \E t \in TableNames : InsertRow(c, t) \/ LookUp(c, t)
  \/ Invalidate(c) \/ Scan(c) \/ Put(c)

LifeNext ==
  \/ ManagerStep /\ answer' = NoAnswer /\ UNCHANGED <<caller, cache, files>>
  \/ \E c \in Callers : CallerStep(c)
  \/ TakeSnapshot
  \/ Restart

LifeSpec == LifeInit /\ [][LifeNext]_allVars

(* The fairness of TTLManager.                                             *)
LifeFairSpec ==
  LifeSpec /\ WF_vars(Sweeper) /\ SF_vars(Timeout) /\ WF_vars(Stop)

-----------------------------------------------------------------------------
(* The rows of t born at b that a scan returns, and those whose record     *)
(* recovery would skip.                                                    *)
Shown(t, b) == Cardinality({i \in Visible(t) : rows[t][i].born = b})
Hidden(t, b) ==
  Cardinality({i \in 1..Len(wal) :
                 wal[i].table = t /\ wal[i].born = b /\ wal[i].lsn <= snapLsn})

(* Only time takes a row away.  As long as the clock stands still, neither *)
(* a statement nor a sweep nor a snapshot removes a row that a scan would  *)
(* still return, and a restart loses no more of them than the log holds    *)
(* under LSNs the snapshot already covers (is_row_valid, cleanup_expired,  *)
(* Snapshot::save, WALWriter, recover): those are lost, since the LSNs     *)
(* start again from 1 when the log is empty.                               *)
NothingLiveLost ==
  [][now' = now => \A t \in TableNames, b \in 1..MaxTime :
       Shown(t, b) <= Shown(t, b)' + (IF restarts' = restarts THEN 0 ELSE Hidden(t, b))
    ]_allVars

(* No SELECT, from the cache or not, shows a row that in the second of its *)
(* scan was older than the time to live, counted from the INSERT or, for a *)
(* row recovered since, from the restart: recovery renews every row it     *)
(* inserts, and what was cached before it is gone.                         *)
ShownInTime ==
  answer.table # "none" /\ Ttl[answer.table] > 0 =>
    \A i \in 1..Len(answer.rows) :
      \/ answer.time <= answer.rows[i] + Ttl[answer.table]
      \/ restarts > 0 /\ answer.time <= restarted + Ttl[answer.table]

(* DesignDoc.md:860: "Scans skip expired rows at read time".  No SELECT    *)
(* returns a row after its time.                                           *)
ExpiredNotShown ==
  answer.table # "none" /\ Ttl[answer.table] > 0 =>
    \A i \in 1..Len(answer.rows) : now <= answer.rows[i] + Ttl[answer.table]
=============================================================================
