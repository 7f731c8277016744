--------------------------- MODULE DatabaseProofs ---------------------------
(***************************************************************************)
(* Proofs about Database for every choice of tables, rows, statements,     *)
(* faults and bounds, and about ThreadPool for every number of threads.    *)
(***************************************************************************)
EXTENDS Database, ThreadPool, FiniteSetTheorems, SequenceTheorems, WellFoundedInduction, TLAPS

(* Most leaves are first-order, and Zenon is the quicker on those.         *)
USE ZenonT(5), SMTT(20)

(* Every non-empty set of naturals has a least element.                    *)
LEMMA LeastNat ==
  ASSUME NEW T \in SUBSET Nat, T # {}
  PROVE  \E m \in T : \A k \in T : m <= k
<1>1. PICK m \in T : \A k \in T : ~(<<k, m>> \in OpToRel(<, Nat))
  <2>1. IsWellFoundedOn(OpToRel(<, Nat), Nat)
    BY NatLessThanWellFounded
  <2>2. QED BY <2>1, WFMin
<1>2. \A k \in T : ~(k < m)
  BY <1>1 DEF OpToRel
<1>3. QED BY <1>2

(* exec_insert accepts exactly the rows before the first rejected one.     *)
LEMMA AcceptedRows ==
  ASSUME NEW b \in Seq(Rows \union {BadRow})
  PROVE  /\ Accepted(b) \in 0..Len(b)
         /\ \A i \in 1..Accepted(b) : b[i] # BadRow
<1> DEFINE Q(n) == /\ \A i \in 1..n : b[i] # BadRow
                   /\ n < Len(b) => b[n + 1] = BadRow
           T == {i \in 1..Len(b) : b[i] = BadRow}
<1>1. Len(b) \in Nat
  OBVIOUS
<1>2. \E n \in 0..Len(b) : Q(n)
  <2>1. CASE T = {}
    <3>1. Q(Len(b))
      BY <1>1, <2>1
    <3>2. QED BY <1>1, <3>1
  <2>2. CASE T # {}
    <3>1. PICK m \in T : \A k \in T : m <= k
      <4>1. T \in SUBSET Nat
        BY <1>1
      <4> HIDE DEF T
      <4>2. QED BY <2>2, <4>1, LeastNat
    <3>2. m - 1 \in 0..Len(b) /\ Q(m - 1)
      BY <1>1, <3>1
    <3>3. QED BY <3>2
  <2>3. QED BY <2>1, <2>2
<1>3. Accepted(b) \in 0..Len(b) /\ Q(Accepted(b))
  <2> HIDE DEF Q
  <2>1. Accepted(b) = CHOOSE n \in 0..Len(b) : Q(n)
    BY DEF Accepted, Q
  <2>2. QED BY <1>2, <2>1
<1>4. QED BY <1>3

(* A statement turns tables into tables.                                   *)
LEMMA ExecSqlType ==
  ASSUME NEW d \in Tables, NEW s \in Stmt \union {NoStmt}
  PROVE  ExecSql(d, s) \in Tables
<1>1. CASE s.op = "create"
  <2>1. s.table \in TableNames
    BY <1>1 DEF Stmt, CreateStmt, InsertStmt, SelectStmt, Malformed, NoStmt
  <2>2. QED BY <1>1, <2>1 DEF ExecSql, ExecCreate, Tables
<1>2. CASE s.op = "insert"
  <2>1. s.table \in TableNames /\ s.batch \in Seq(Rows \union {BadRow})
    BY <1>2, StatementAssumption
    DEF Stmt, CreateStmt, InsertStmt, SelectStmt, Malformed, NoStmt
  <2> DEFINE n == Accepted(s.batch)
  <2>2. n \in 0..Len(s.batch) /\ \A i \in 1..n : s.batch[i] # BadRow
    BY <2>1, AcceptedRows
  <2>3. \A i \in 1..n : s.batch[i] \in Rows
    BY <2>1, <2>2
  <2>4. SubSeq(s.batch, 1, n) \in Seq(Rows)
    <3> HIDE DEF n
    <3> QED BY <2>1, <2>2, <2>3, SubSeqProperties
  <2>5. d[s.table].rows \o SubSeq(s.batch, 1, n) \in Seq(Rows)
    <3> HIDE DEF n
    <3> QED BY <2>1, <2>4, ConcatProperties DEF Tables
  <2>6. QED BY <1>2, <2>1, <2>5 DEF ExecSql, ExecInsert, Tables
<1>3. CASE s.op \notin {"create", "insert"}
  BY <1>3 DEF ExecSql
<1>4. QED BY <1>1, <1>2, <1>3

(* A statement that is not logged leaves the tables alone.                 *)
LEMMA UnloggedIsReadOnly ==
  ASSUME NEW d \in Tables, NEW s, ~IsMutating(s)
  PROVE  ExecSql(d, s) = d
BY DEF ExecSql, IsMutating

-----------------------------------------------------------------------------
(* What the log reader delivers.                                           *)

(* The delivered records form a prefix.                                    *)
LEMMA DeliveredDown ==
  ASSUME NEW log \in Seq(WALRecord), NEW n, Delivered(log, n), NEW m \in 0..n
  PROVE  Delivered(log, m)
BY DEF Delivered

(* Appending a record changes nothing for the records before it, and the   *)
(* new record is delivered if it and all of them are readable.             *)
LEMMA DeliveredAppend ==
  ASSUME NEW log \in Seq(WALRecord), NEW r \in WALRecord
  PROVE  LET new == Append(log, r) IN
         /\ new \in Seq(WALRecord)
         /\ Len(new) = Len(log) + 1
         /\ \A i \in 1..Len(log) : new[i] = log[i]
         /\ new[Len(log) + 1] = r
         /\ \A i \in 0..Len(log) : Delivered(new, i) <=> Delivered(log, i)
         /\ Delivered(new, Len(log) + 1) <=>
              Delivered(log, Len(log)) /\ Readable(r)
<1> DEFINE new == Append(log, r)
<1>1. /\ Len(log) \in Nat
      /\ new \in Seq(WALRecord)
      /\ Len(new) = Len(log) + 1
      /\ \A i \in 1..Len(log) : new[i] = log[i]
      /\ new[Len(log) + 1] = r
  BY AppendProperties
<1> HIDE DEF new
<1>2. \A i \in 0..Len(log) : Delivered(new, i) <=> Delivered(log, i)
  BY <1>1 DEF Delivered
<1>3. Delivered(new, Len(log) + 1) <=>
        Delivered(log, Len(log)) /\ Readable(r)
  BY <1>1 DEF Delivered
<1>4. QED BY <1>1, <1>2, <1>3 DEF new

(* What the log `new` keeps of `log` when it is `log` and one record more.  *)
OneMore(new, log, r) ==
  /\ \A i \in 1..Len(log) : new[i] = log[i]
  /\ new[Len(log) + 1] = r
  /\ \A i \in 0..Len(log) : Delivered(new, i) <=> Delivered(log, i)
  /\ Delivered(new, Len(log) + 1) => Delivered(log, Len(log))

(* The same facts in the form the steps of Next use them: the log after     *)
(* WAL::append wrote its record.                                            *)
LEMMA AppendedLog ==
  ASSUME NEW log \in Seq(WALRecord), NEW r \in WALRecord, NEW new,
         new = Append(log, r)
  PROVE  OneMore(new, log, r)
BY DeliveredAppend DEF OneMore

(* Losing a tail of the log loses the delivery of that tail only.          *)
LEMMA DeliveredSubSeq ==
  ASSUME NEW log \in Seq(WALRecord), NEW n \in 0..Len(log)
  PROVE  LET new == SubSeq(log, 1, n) IN
         /\ new \in Seq(WALRecord)
         /\ Len(new) = n
         /\ \A i \in 1..n : new[i] = log[i]
         /\ \A i \in 0..n : Delivered(new, i) <=> Delivered(log, i)
<1> DEFINE new == SubSeq(log, 1, n)
<1>1. /\ Len(log) \in Nat
      /\ new \in Seq(WALRecord)
      /\ Len(new) = n
      /\ \A i \in 1..n : new[i] = log[i]
  <2>1. \A i \in 1..n : log[i] \in WALRecord
    BY ElementOfSeq
  <2>2. QED BY <2>1, SubSeqProperties
<1> HIDE DEF new
<1>2. \A i \in 0..n : Delivered(new, i) <=> Delivered(log, i)
  BY <1>1 DEF Delivered
<1>3. QED BY <1>1, <1>2 DEF new

(* read_all returns the records up to the first unreadable one.            *)
LEMMA ReadCountIs ==
  ASSUME NEW log \in Seq(WALRecord), NEW n,
         Delivered(log, n), ~Delivered(log, n + 1)
  PROVE  ReadCount(log) = n
<1> DEFINE Q(m) == Delivered(log, m) /\ ~Delivered(log, m + 1)
<1>1. n \in 0..Len(log) /\ Q(n)
  BY DEF Delivered
<1>2. ASSUME NEW m \in 0..Len(log), Q(m)
      PROVE  m = n
  <2>1. CASE m < n
    BY <1>1, <1>2, <2>1, DeliveredDown
  <2>2. CASE n < m
    BY <1>1, <1>2, <2>2, DeliveredDown
  <2>3. QED BY <1>1, <2>1, <2>2
<1>3. ReadCount(log) = CHOOSE m \in 0..Len(log) : Q(m)
  BY DEF ReadCount
<1> HIDE DEF Q
<1>4. QED BY <1>1, <1>2, <1>3

-----------------------------------------------------------------------------
(* Type correctness.                                                       *)

(* The empty tables and the image of none.                                 *)
LEMMA EmptyTypes == NoTables \in Tables /\ NoImage \in Images
<1>1. NoTables \in Tables
  BY DEF NoTables, Tables
<1>2. QED BY <1>1 DEF NoImage, Image, Images

(* What a snapshot is read back as.                                        *)
LEMMA LoadedTypes ==
  ASSUME NEW s \in Images
  PROVE  LoadedLsn(s) \in Nat /\ LoadedTables(s) \in Tables
BY EmptyTypes DEF LoadedLsn, LoadedTables, Images

(* TypeOK holds before the process first starts.                           *)
LEMMA TypeInit == Init => TypeOK
BY EmptyTypes, DatabaseAssumption
DEF Init, TypeOK, Stmt, NoStmt

(* TypeOK holds after every step.                                          *)
LEMMA TypeStep == OrderInv /\ [Next]_vars => TypeOK'
<1> SUFFICES ASSUME OrderInv, [Next]_vars PROVE TypeOK'
  OBVIOUS
<1> USE DatabaseAssumption
<1>0. TypeOK
  BY DEF OrderInv
<1>1. CASE LoadSnapshot
  BY <1>0, <1>1, LoadedTypes DEF LoadSnapshot, TypeOK, disk, history
<1>2. CASE ReplayRecord
  <2>1. wal[pos].sql \in Stmt
    <3>1. pos \in 1..Len(wal)
      BY <1>0, <1>2 DEF ReplayRecord, Delivered, TypeOK
    <3>2. wal[pos] \in WALRecord
      BY <1>0, <3>1, ElementOfSeq DEF TypeOK
    <3>3. QED BY <3>2 DEF WALRecord
  <2>2. ExecSql(tables, wal[pos].sql) \in Tables
    BY <1>0, <2>1, ExecSqlType DEF TypeOK
  <2>3. QED BY <1>0, <1>2, <2>2 DEF ReplayRecord, TypeOK, disk, history
<1>3. CASE OpenWriter
  <2>1. pos \in Nat \ {0} /\ pos - 1 \in 0..Len(wal)
        /\ Delivered(wal, pos - 1) /\ ~Delivered(wal, (pos - 1) + 1)
    BY <1>0, <1>3 DEF OpenWriter, OrderInv, TypeOK, Delivered
  <2>2. ReadCount(wal) = pos - 1
    BY <1>0, <2>1, ReadCountIs DEF TypeOK
  <2>3. NextLsn(wal) \in Nat \ {0}
    <3>1. CASE pos = 1
      BY <2>2, <3>1 DEF NextLsn
    <3>2. CASE pos # 1
      <4>1. pos - 1 \in 1..Len(wal)
        BY <2>1, <3>2
      <4>2. wal[pos - 1] \in WALRecord
        BY <1>0, <4>1, ElementOfSeq DEF TypeOK
      <4>3. QED BY <2>1, <2>2, <3>2, <4>2 DEF NextLsn, WALRecord
    <3>3. QED BY <3>1, <3>2
  <2>4. QED BY <1>0, <1>3, <2>3 DEF OpenWriter, TypeOK, disk
<1>4. ASSUME NEW s \in Stmt, Execute(s) PROVE TypeOK'
  BY <1>0, <1>4 DEF Execute, TypeOK, disk, history
<1>5. CASE LogStatement
  <2>1. cur \in Stmt
    BY <1>5 DEF LogStatement, OrderInv
  <2>2. Record(nextLsn, cur) \in WALRecord /\ Partial(nextLsn, cur) \in WALRecord
    BY <1>0, <2>1 DEF TypeOK, WALRecord, Record, Partial
  <2>3. \A r \in WALRecord : Append(wal, r) \in Seq(WALRecord)
                              /\ Len(Append(wal, r)) = Len(wal) + 1
    BY <1>0, DeliveredAppend DEF TypeOK
  <2>4. Append(before, tables) \in Seq(Tables)
        /\ Len(Append(before, tables)) = Len(before) + 1
    BY <1>0, AppendProperties DEF TypeOK
  <2>5. /\ wal' \in Seq(WALRecord) /\ before' \in Seq(Tables)
        /\ Len(before') = Len(wal') /\ Len(wal) <= Len(wal')
        /\ stream' \in {"good", "bad"} /\ Len(wal') \in Nat
    <3> Len(wal) \in Nat /\ Len(before) = Len(wal)
      BY <1>0 DEF TypeOK
    <3>1. CASE AppendWritten
      BY <1>0, <2>2, <2>3, <2>4, <3>1 DEF AppendWritten, TypeOK
    <3>2. CASE AppendCutShort
      BY <1>0, <2>2, <2>3, <2>4, <3>2 DEF AppendCutShort, TypeOK
    <3>3. CASE AppendIgnored
      BY <1>0, <3>3 DEF AppendIgnored, TypeOK
    <3>4. QED BY <1>5, <3>1, <3>2, <3>3 DEF LogStatement
  <2>6. QED BY <1>0, <1>5, <2>5 DEF LogStatement, TypeOK
<1>6. CASE ApplyStatement
  <2>1. ExecSql(tables, cur) \in Tables /\ ExecSql(acked, cur) \in Tables
    BY <1>0, ExecSqlType DEF TypeOK
  <2>2. QED BY <1>0, <1>6, <2>1 DEF ApplyStatement, TypeOK, disk
<1>7. CASE TakeSnapshot
  <2>1. Image("whole", nextLsn - 1, tables) \in Images
    BY <1>0 DEF TypeOK, Image, Images
  <2>2. QED BY <1>0, <1>7, <2>1 DEF TakeSnapshot, TypeOK, disk, history
<1>8. CASE SnapshotFails
  BY <1>0, <1>8 DEF SnapshotFails, SnapshotReturns, TypeOK, disk, history
<1>9. CASE RenameSnapshot
  <2>1. Image("corrupt", 0, NoTables) \in Images
    BY EmptyTypes DEF Image, Images
  <2>2. QED BY <1>0, <1>9, <2>1 DEF RenameSnapshot, TypeOK
<1>10. CASE TruncateWAL
  BY <1>0, <1>10 DEF TruncateWAL, SnapshotReturns, TypeOK, Images
<1>11. CASE Shutdown
  BY <1>0, <1>11 DEF Shutdown, TypeOK, disk, history
<1>12. CASE Exit
  BY <1>0, <1>12, EmptyTypes DEF Exit, Die, TypeOK, disk, history
<1>13. CASE Crash
  <2>1. /\ wal' \in Seq(WALRecord) /\ before' \in Seq(Tables)
        /\ Len(before') = Len(wal') /\ covered' \in 0..Len(wal')
    <3>1. CASE KeepLog
      BY <1>0, <3>1 DEF KeepLog, TypeOK
    <3>2. CASE TearLastRecord
      <4>1. Partial(nextLsn, cur) \in WALRecord
        BY <1>0, <3>2 DEF TearLastRecord, OrderInv, TypeOK, WALRecord, Partial
      <4>2. wal' \in Seq(WALRecord) /\ Len(wal') = Len(wal) + 1
        BY <1>0, <3>2, <4>1, DeliveredAppend DEF TearLastRecord, TypeOK
      <4>3. before' \in Seq(Tables) /\ Len(before') = Len(before) + 1
        BY <1>0, <3>2, AppendProperties DEF TearLastRecord, TypeOK
      <4>4. QED BY <1>0, <3>2, <4>2, <4>3 DEF TearLastRecord, TypeOK
    <3>3. CASE LoseTail
      <4>1. PICK n \in 0..Len(wal) :
              /\ wal' = SubSeq(wal, 1, n)
              /\ before' = SubSeq(before, 1, n)
              /\ covered' = IF covered > n THEN n ELSE covered
        BY <3>3 DEF LoseTail
      <4>2. wal' \in Seq(WALRecord) /\ Len(wal') = n
        BY <1>0, <4>1, DeliveredSubSeq DEF TypeOK
      <4>3. before' \in Seq(Tables) /\ Len(before') = n
        <5>1. n \in Nat /\ \A i \in 1..n : before[i] \in Tables
          BY <1>0, ElementOfSeq DEF TypeOK
        <5>2. QED BY <4>1, <5>1, SubSeqProperties
      <4>4. QED BY <1>0, <4>1, <4>2, <4>3 DEF TypeOK
    <3>4. QED BY <1>13, <3>1, <3>2, <3>3 DEF Crash
  <2>2. QED BY <1>0, <1>13, <2>1, EmptyTypes DEF Crash, Die, TypeOK
<1>14. CASE UNCHANGED vars
  BY <1>0, <1>14 DEF vars, disk, process, history, TypeOK
<1>15. QED
  BY <1>1, <1>2, <1>3, <1>4, <1>5, <1>6, <1>7, <1>8, <1>9, <1>10, <1>11,
     <1>12, <1>13, <1>14 DEF Next

-----------------------------------------------------------------------------
(* The order of the log, and the records the snapshot contains.            *)

(* OrderInv holds before the process first starts.                         *)
LEMMA OrderInit == Init => OrderInv
<1> SUFFICES ASSUME Init PROVE OrderInv
  OBVIOUS
<1>1. TypeOK
  BY TypeInit
<1>2. QED BY <1>1 DEF Init, OrderInv, LsnsInOrder, NoDoubleReplay

(* A step that leaves the log and the snapshot alone and does not lower    *)
(* the next LSN preserves the order.                                       *)
LEMMA OrderKept ==
  ASSUME OrderInv, UNCHANGED <<wal, snap, covered>>,
         Serving' => Serving /\ nextLsn' = nextLsn
  PROVE  LsnsInOrder' /\ NoDoubleReplay'
<1>1. LsnsInOrder'
  BY DEF OrderInv, LsnsInOrder, Serving, Delivered
<1>2. NoDoubleReplay'
  BY DEF OrderInv, NoDoubleReplay, Delivered
<1>3. QED BY <1>1, <1>2

(* So does appending one record, if a readable record extends a readable   *)
(* log by the next LSN.                                                    *)
LEMMA OrderAppended ==
  ASSUME OrderInv, NEW r \in WALRecord, wal' = Append(wal, r),
         UNCHANGED <<snap, covered>>,
         Readable(r) => r.lsn = nextLsn /\ Serving /\ stream = "good",
         Serving' => Serving /\ nextLsn' = nextLsn + 1
  PROVE  LsnsInOrder' /\ NoDoubleReplay'
<1>0. wal \in Seq(WALRecord) /\ Len(wal) \in Nat /\ covered \in 0..Len(wal)
      /\ nextLsn \in Nat
  BY DEF OrderInv, TypeOK
<1>1. /\ wal' \in Seq(WALRecord) /\ Len(wal') = Len(wal) + 1
      /\ \A i \in 1..Len(wal) : wal'[i] = wal[i]
      /\ wal'[Len(wal) + 1] = r
      /\ \A i \in 0..Len(wal) : Delivered(wal', i) <=> Delivered(wal, i)
      /\ Delivered(wal', Len(wal) + 1) <=>
           Delivered(wal, Len(wal)) /\ Readable(r)
  BY <1>0, DeliveredAppend
<1>2. ASSUME NEW i \in 1..Len(wal'), Delivered(wal', i)
      PROVE  /\ wal'[i].lsn = wal'[1].lsn + i - 1
             /\ Serving' => wal'[i].lsn < nextLsn'
  <2>0. \A j \in 1..Len(wal) : wal[j].lsn \in Nat
    <3>1. \A j \in 1..Len(wal) : wal[j] \in WALRecord
      BY <1>0, ElementOfSeq
    <3>2. QED BY <3>1 DEF WALRecord
  <2>1. CASE i \in 1..Len(wal)
    <3>1. Delivered(wal, i)
      BY <1>1, <1>2, <2>1
    <3>2. wal[i].lsn = wal[1].lsn + i - 1 /\ (Serving => wal[i].lsn < nextLsn)
      BY <2>1, <3>1 DEF OrderInv, LsnsInOrder
    <3>3. QED BY <1>0, <1>1, <2>0, <2>1, <3>2
  <2>2. CASE i = Len(wal) + 1
    <3>1. Delivered(wal, Len(wal)) /\ Readable(r)
      BY <1>1, <1>2, <2>2
    <3>2. r.lsn = nextLsn /\ Serving /\ stream = "good"
      BY <3>1
    <3>3. CASE Len(wal) = 0
      BY <1>0, <1>1, <2>2, <3>2, <3>3
    <3>4. CASE Len(wal) > 0
      <4>1. nextLsn = wal[Len(wal)].lsn + 1
        BY <3>1, <3>2, <3>4 DEF OrderInv
      <4>2. wal[Len(wal)].lsn = wal[1].lsn + Len(wal) - 1
        BY <1>0, <3>1, <3>4 DEF OrderInv, LsnsInOrder
      <4>3. wal'[i] = r /\ wal'[1] = wal[1] /\ wal[1].lsn \in Nat
        BY <1>0, <1>1, <2>0, <2>2, <3>4
      <4>4. r.lsn = wal[1].lsn + Len(wal)
        BY <1>0, <3>2, <4>1, <4>2, <4>3
      <4>5. QED BY <1>0, <2>2, <3>2, <4>3, <4>4
    <3>5. QED BY <1>0, <3>3, <3>4
  <2>3. QED BY <1>0, <1>1, <2>1, <2>2
<1>3. LsnsInOrder'
  BY <1>2 DEF LsnsInOrder
<1>4. NoDoubleReplay'
  <2>1. ASSUME NEW i \in 1..covered, Delivered(wal', i)
        PROVE  wal'[i].lsn <= LoadedLsn(snap)
    BY <1>0, <1>1, <2>1 DEF OrderInv, NoDoubleReplay
  <2>2. QED BY <2>1 DEF NoDoubleReplay
<1>5. QED BY <1>3, <1>4

(* OrderInv is inductive.                                                  *)
LEMMA OrderStep == OrderInv /\ [Next]_vars => OrderInv'
<1> SUFFICES ASSUME OrderInv, [Next]_vars PROVE OrderInv'
  OBVIOUS
<1>a. TypeOK /\ TypeOK'
  BY TypeStep DEF OrderInv
<1>b. wal \in Seq(WALRecord) /\ Len(wal) \in Nat /\ nextLsn \in Nat \ {0}
  BY <1>a DEF TypeOK
<1>1. CASE LoadSnapshot
  <2>1. LsnsInOrder' /\ NoDoubleReplay'
    BY <1>1, OrderKept DEF LoadSnapshot, Serving, disk, history
  <2>2. Delivered(wal, 0)
    BY <1>b DEF Delivered
  <2>3. QED BY <1>a, <1>1, <2>1, <2>2
    DEF LoadSnapshot, OrderInv, Serving, disk, history
<1>2. CASE ReplayRecord
  <2>1. LsnsInOrder' /\ NoDoubleReplay'
    BY <1>2, OrderKept DEF ReplayRecord, Serving, disk, history
  <2>2. Delivered(wal, pos' - 1)
    BY <1>a, <1>2 DEF ReplayRecord, TypeOK
  <2>3. QED BY <1>a, <1>2, <2>1, <2>2
    DEF ReplayRecord, OrderInv, Serving, disk, history
<1>3. CASE OpenWriter
  <2>1. pos \in Nat \ {0} /\ pos - 1 \in 0..Len(wal)
        /\ Delivered(wal, pos - 1) /\ ~Delivered(wal, (pos - 1) + 1)
    BY <1>a, <1>3 DEF OpenWriter, OrderInv, TypeOK, Delivered
  <2>2. ReadCount(wal) = pos - 1
    BY <1>b, <2>1, ReadCountIs
  <2>3. ASSUME NEW i \in 1..Len(wal), Delivered(wal, i)
        PROVE  /\ i <= pos - 1 /\ pos # 1
               /\ nextLsn' = wal[1].lsn + (pos - 1)
               /\ wal[i].lsn = wal[1].lsn + i - 1
               /\ wal[1].lsn \in Nat
    <3>1. i <= pos - 1
      <4>1. CASE i > pos - 1
        BY <1>b, <2>1, <2>3, <4>1, DeliveredDown
      <4>2. QED BY <2>1, <4>1
    <3>2. nextLsn' = wal[pos - 1].lsn + 1
      BY <1>3, <2>1, <2>2, <3>1 DEF OpenWriter, NextLsn
    <3>3. /\ wal[pos - 1].lsn = wal[1].lsn + (pos - 1) - 1
          /\ wal[i].lsn = wal[1].lsn + i - 1
      <4>1. \A k \in 1..Len(wal) : Delivered(wal, k) => wal[k].lsn = wal[1].lsn + k - 1
        BY DEF OrderInv, LsnsInOrder
      <4>2. pos - 1 \in 1..Len(wal)
        BY <2>1, <2>3, <3>1
      <4>3. wal[pos - 1].lsn = wal[1].lsn + (pos - 1) - 1
        BY <2>1, <4>1, <4>2, Zenon
      <4>4. wal[i].lsn = wal[1].lsn + i - 1
        BY <2>3, <4>1, Zenon
      <4>5. QED BY <4>3, <4>4
    <3>4. wal[1] \in WALRecord
      BY <1>b, <2>1, <3>1, ElementOfSeq
    <3>5. wal[1].lsn \in Nat
      BY <3>4 DEF WALRecord
    <3>6. PICK first \in Nat : first = wal[1].lsn
      BY <3>5
    <3>7. nextLsn' = first + (pos - 1)
      BY <2>1, <3>2, <3>3, <3>6
    <3>8. pos # 1
      BY <2>1, <3>1
    <3>9. QED BY <3>1, <3>3, <3>6, <3>7, <3>8
  <2>4. LsnsInOrder'
    <3>1. wal' = wal
      BY <1>3 DEF OpenWriter, disk
    <3>2. QED BY <2>1, <2>3, <3>1 DEF LsnsInOrder
  <2>5. NoDoubleReplay'
    BY <1>3 DEF OpenWriter, OrderInv, NoDoubleReplay, disk
  <2>6. Len(wal) > 0 /\ Delivered(wal, Len(wal)) =>
          nextLsn' = wal[Len(wal)].lsn + 1
    <3>1. SUFFICES ASSUME Len(wal) > 0, Delivered(wal, Len(wal))
                   PROVE  nextLsn' = wal[Len(wal)].lsn + 1
      OBVIOUS
    <3>2. Len(wal) = pos - 1
      BY <1>b, <2>1, <2>3, <3>1
    <3>3. QED BY <1>b, <2>1, <2>3, <3>1, <3>2
  <2>7. QED BY <1>a, <1>3, <2>4, <2>5, <2>6 DEF OpenWriter, OrderInv, disk
<1>4. ASSUME NEW s \in Stmt, Execute(s) PROVE OrderInv'
  <2>1. LsnsInOrder' /\ NoDoubleReplay'
    BY <1>4, OrderKept DEF Execute, Serving, disk, history
  <2>2. QED BY <1>a, <1>4, <2>1 DEF Execute, OrderInv, Serving, disk, history
<1>5. CASE LogStatement
  <2>0. cur \in Stmt /\ Serving
    BY <1>5 DEF LogStatement, OrderInv, Serving
  <2>1. CASE AppendWritten
    <3> DEFINE r == Record(nextLsn, cur)
    <3>1. r \in WALRecord /\ r.lsn = nextLsn
      BY <1>b, <2>0 DEF WALRecord, Record
    <3>2. wal' = Append(wal, r) /\ nextLsn' = nextLsn + 1
          /\ UNCHANGED <<snap, covered>> /\ stream = "good" /\ Serving'
      BY <1>5, <2>1 DEF LogStatement, AppendWritten, Serving
    <3> HIDE DEF r
    <3>3. LsnsInOrder' /\ NoDoubleReplay'
      BY <2>0, <3>1, <3>2, OrderAppended
    <3>4. Len(wal') = Len(wal) + 1 /\ wal'[Len(wal')] = r
      BY <1>b, <3>1, <3>2, DeliveredAppend
    <3>5. QED BY <1>a, <1>b, <1>5, <2>0, <3>1, <3>2, <3>3, <3>4
      DEF LogStatement, OrderInv
  <2>2. CASE AppendCutShort
    <3> DEFINE r == Partial(nextLsn, cur)
    <3>1. r \in WALRecord /\ ~Readable(r)
      BY <1>b, <2>0 DEF WALRecord, Partial, Readable
    <3>2. wal' = Append(wal, r) /\ nextLsn' = nextLsn + 1
          /\ UNCHANGED <<snap, covered>> /\ stream' = "bad"
      BY <1>5, <2>2 DEF LogStatement, AppendCutShort
    <3> HIDE DEF r
    <3>3. LsnsInOrder' /\ NoDoubleReplay'
      BY <2>0, <3>1, <3>2, OrderAppended
    <3>4. QED BY <1>a, <1>5, <2>0, <3>2, <3>3 DEF LogStatement, OrderInv
  <2>3. CASE AppendIgnored
    <3>1. /\ UNCHANGED <<wal, snap, covered, stream>> /\ stream = "bad"
          /\ nextLsn' = nextLsn + 1
      BY <1>5, <2>3 DEF LogStatement, AppendIgnored
    <3>2. \A i \in 1..Len(wal) : wal[i].lsn \in Nat
      <4>1. \A i \in 1..Len(wal) : wal[i] \in WALRecord
        BY <1>b, ElementOfSeq
      <4>2. QED BY <4>1 DEF WALRecord
    <3>3. LsnsInOrder'
      BY <1>b, <2>0, <3>1, <3>2 DEF OrderInv, LsnsInOrder
    <3>4. NoDoubleReplay'
      BY <3>1 DEF OrderInv, NoDoubleReplay
    <3>5. QED BY <1>a, <1>5, <2>0, <3>1, <3>3, <3>4 DEF LogStatement, OrderInv
  <2>4. QED BY <1>5, <2>1, <2>2, <2>3 DEF LogStatement
<1>6. CASE ApplyStatement
  <2>1. LsnsInOrder' /\ NoDoubleReplay'
    BY <1>6, OrderKept DEF ApplyStatement, Serving, disk
  <2>2. QED BY <1>a, <1>6, <2>1 DEF ApplyStatement, OrderInv, Serving, disk
<1>7. CASE TakeSnapshot
  <2>1. LsnsInOrder' /\ NoDoubleReplay'
    BY <1>7, OrderKept DEF TakeSnapshot, Serving, disk, history
  <2>2. QED BY <1>a, <1>7, <2>1
    DEF TakeSnapshot, Image, OrderInv, Serving, disk, history
<1>8. CASE SnapshotFails
  <2>1. LsnsInOrder' /\ NoDoubleReplay'
    BY <1>8, OrderKept DEF SnapshotFails, SnapshotReturns, Serving, disk, history
  <2>2. QED BY <1>a, <1>8, <2>1
    DEF SnapshotFails, SnapshotReturns, OrderInv, Serving, disk, history
<1>9. CASE RenameSnapshot
  <2>0. UNCHANGED <<wal, nextLsn, stream, pending>> /\ Serving /\ Serving'
    BY <1>9 DEF RenameSnapshot, Serving
  <2>1. LsnsInOrder'
    BY <2>0 DEF OrderInv, LsnsInOrder
  <2>2. NoDoubleReplay'
    <3>1. CASE snap' = pending /\ covered' = Len(wal)
      <4>1. LoadedLsn(snap') = nextLsn - 1
        BY <1>9, <3>1 DEF RenameSnapshot, OrderInv, LoadedLsn
      <4>2. \A i \in 1..Len(wal) : wal[i].lsn \in Nat
        <5>1. \A i \in 1..Len(wal) : wal[i] \in WALRecord
          BY <1>b, ElementOfSeq
        <5>2. QED BY <5>1 DEF WALRecord
      <4>3. \A i \in 1..Len(wal) :
              Delivered(wal, i) => wal[i].lsn <= nextLsn - 1
        BY <1>b, <2>0, <4>2 DEF OrderInv, LsnsInOrder
      <4>4. QED BY <2>0, <3>1, <4>1, <4>3 DEF NoDoubleReplay
    <3>2. CASE covered' = 0
      BY <3>2 DEF NoDoubleReplay
    <3>3. QED BY <1>9, <3>1, <3>2 DEF RenameSnapshot
  <2>3. QED BY <1>a, <1>9, <2>0, <2>1, <2>2 DEF RenameSnapshot, OrderInv
<1>10. CASE TruncateWAL
  <2>1. /\ wal' = <<>> /\ covered' = 0 /\ pc' \in {"exiting", "idle"}
        /\ cur' = NoStmt
    BY <1>10 DEF TruncateWAL, SnapshotReturns, OrderInv
  <2>2. LsnsInOrder' /\ NoDoubleReplay'
    BY <2>1 DEF LsnsInOrder, NoDoubleReplay
  <2>3. QED BY <1>a, <2>1, <2>2 DEF OrderInv
<1>11. CASE Shutdown
  <2>1. LsnsInOrder' /\ NoDoubleReplay'
    BY <1>11, OrderKept DEF Shutdown, Serving, disk, history
  <2>2. QED BY <1>a, <1>11, <2>1 DEF Shutdown, OrderInv, Serving, disk, history
<1>12. CASE Exit
  <2>1. LsnsInOrder' /\ NoDoubleReplay'
    BY <1>12, OrderKept DEF Exit, Die, Serving, disk, history
  <2>2. QED BY <1>a, <1>12, <2>1 DEF Exit, Die, OrderInv, Serving
<1>13. CASE Crash
  <2>0. pc' = "down" /\ ~Serving' /\ UNCHANGED snap
    BY <1>13 DEF Crash, Die, Serving
  <2>1. LsnsInOrder' /\ NoDoubleReplay'
    <3>1. CASE KeepLog
      BY <2>0, <3>1, OrderKept DEF KeepLog
    <3>2. CASE TearLastRecord
      <4> DEFINE r == Partial(nextLsn, cur)
      <4>1. r \in WALRecord /\ ~Readable(r)
        BY <1>b, <3>2 DEF TearLastRecord, OrderInv, WALRecord, Partial, Readable
      <4>2. wal' = Append(wal, r) /\ UNCHANGED covered
        BY <3>2 DEF TearLastRecord
      <4> HIDE DEF r
      <4>3. QED BY <2>0, <4>1, <4>2, OrderAppended
    <3>3. CASE LoseTail
      <4>1. PICK n \in 0..Len(wal) :
              /\ wal' = SubSeq(wal, 1, n)
              /\ covered' = IF covered > n THEN n ELSE covered
        BY <3>3 DEF LoseTail
      <4>2. /\ Len(wal') = n
            /\ \A i \in 1..n : wal'[i] = wal[i]
            /\ \A i \in 0..n : Delivered(wal', i) <=> Delivered(wal, i)
        BY <1>b, <4>1, DeliveredSubSeq
      <4>3. covered \in 0..Len(wal) /\ covered' \in 0..n /\ covered' <= covered
        BY <1>a, <1>b, <4>1 DEF TypeOK
      <4>4. LsnsInOrder'
        BY <1>b, <2>0, <4>2 DEF OrderInv, LsnsInOrder
      <4>5. NoDoubleReplay'
        BY <1>b, <2>0, <4>2, <4>3 DEF OrderInv, NoDoubleReplay
      <4>6. QED BY <4>4, <4>5
    <3>4. QED BY <1>13, <3>1, <3>2, <3>3 DEF Crash
  <2>2. QED BY <1>a, <2>0, <2>1 DEF OrderInv
<1>14. CASE UNCHANGED vars
  <2>1. LsnsInOrder' /\ NoDoubleReplay'
    BY <1>14, OrderKept DEF vars, disk, process, history, Serving
  <2>2. QED BY <1>a, <1>14, <2>1
    DEF vars, disk, process, history, OrderInv, Serving
<1>15. QED
  BY <1>1, <1>2, <1>3, <1>4, <1>5, <1>6, <1>7, <1>8, <1>9, <1>10, <1>11,
     <1>12, <1>13, <1>14 DEF Next

(* In every behaviour of the database, under every fault, the process and  *)
(* its files keep the types of the code.                                   *)
THEOREM DatabaseTypeOK == Spec => []TypeOK
<1>1. Spec => []OrderInv
  BY OrderInit, OrderStep, PTL DEF Spec
<1>2. OrderInv => TypeOK
  BY DEF OrderInv
<1>3. QED BY <1>1, <1>2, PTL

(* In every behaviour, under torn records, lost tails and full disks, no   *)
(* record contained in the snapshot is ever replayed (Database::recover).  *)
THEOREM DatabaseNoDoubleReplay == Spec => []NoDoubleReplay
<1>1. Spec => []OrderInv
  BY OrderInit, OrderStep, PTL DEF Spec
<1>2. OrderInv => NoDoubleReplay
  BY DEF OrderInv
<1>3. QED BY <1>1, <1>2, PTL

(* In every behaviour the records recovery can read carry consecutive LSNs *)
(* below the next one (WALWriter).                                         *)
THEOREM DatabaseLsnsInOrder == Spec => []LsnsInOrder
<1>1. Spec => []OrderInv
  BY OrderInit, OrderStep, PTL DEF Spec
<1>2. OrderInv => LsnsInOrder
  BY DEF OrderInv
<1>3. QED BY <1>1, <1>2, PTL

-----------------------------------------------------------------------------
(* Durability, in the behaviours whose steps recovery can see.             *)

(* DurableInv holds before the process first starts.                       *)
LEMMA DurableInit == Init => DurableInv
<1> SUFFICES ASSUME Init PROVE DurableInv
  OBVIOUS
<1>1. OrderInv
  BY OrderInit
<1>2. OneHistory
  BY DEF Init, OneHistory, NoSkippedRecord, NoImage, Image, Delivered
<1>3. FilesHoldAcked
  <2>1. \A n \in 0..Len(wal) : Rebuilt(n) = acked
    BY DEF Init, Rebuilt, LoadedTables, NoImage, Image
  <2>2. QED BY <2>1 DEF Init, FilesHoldAcked, Serving
<1>4. QED BY <1>1, <1>2, <1>3 DEF Init, DurableInv, Serving

(* What depends on the files alone is kept when they are.                  *)
LEMMA FilesKept ==
  ASSUME OneHistory, UNCHANGED <<wal, snap, before, covered>>
  PROVE  /\ OneHistory'
         /\ \A n : Rebuilt(n)' = Rebuilt(n)
         /\ \A n : LastDelivered(n)' <=> LastDelivered(n)
<1>1. OneHistory'
  BY DEF OneHistory, NoSkippedRecord
<1>2. \A n : Rebuilt(n)' = Rebuilt(n)
  BY DEF Rebuilt
<1>3. \A n : LastDelivered(n)' <=> LastDelivered(n)
  BY DEF LastDelivered
<1>4. QED BY <1>1, <1>2, <1>3

(* A record that no reader delivers changes nothing for recovery.          *)
LEMMA FilesTorn ==
  ASSUME OneHistory, TypeOK, NEW r \in WALRecord, ~Readable(r),
         wal' = Append(wal, r), before' = Append(before, tables),
         UNCHANGED <<snap, covered>>
  PROVE  /\ OneHistory'
         /\ \A n \in 0..Len(wal) : Rebuilt(n)' = Rebuilt(n)
         /\ \A n \in 0..Len(wal') :
              LastDelivered(n)' => n \in 0..Len(wal) /\ LastDelivered(n)
<1>0. /\ wal \in Seq(WALRecord) /\ Len(wal) \in Nat /\ covered \in 0..Len(wal)
      /\ before \in Seq(Tables) /\ Len(before) = Len(wal) /\ tables \in Tables
  BY DEF TypeOK
<1>1. /\ Len(wal') = Len(wal) + 1
      /\ \A i \in 1..Len(wal) : wal'[i] = wal[i]
      /\ \A i \in 0..Len(wal) : Delivered(wal', i) <=> Delivered(wal, i)
      /\ ~Delivered(wal', Len(wal) + 1)
  BY <1>0, DeliveredAppend
<1>2. \A i \in 1..Len(wal) : before'[i] = before[i]
  BY <1>0, AppendProperties
<1>3. OneHistory'
  <2>0. Len(wal) \in Nat /\ covered \in Nat /\ covered <= Len(wal)
    BY <1>0
  <2>1. NoSkippedRecord'
    <3>1. ASSUME NEW i \in covered + 1 .. Len(wal'), Delivered(wal', i)
          PROVE  wal'[i].lsn > LoadedLsn(snap)
      <4>1. i # Len(wal) + 1
        BY <1>1, <3>1
      <4>2. i \in covered + 1 .. Len(wal) /\ i \in 1..Len(wal) /\ i \in 0..Len(wal)
        BY <1>1, <2>0, <4>1
      <4>3. Delivered(wal, i) /\ wal'[i] = wal[i]
        BY <1>1, <3>1, <4>2
      <4>4. QED BY <4>2, <4>3 DEF OneHistory, NoSkippedRecord
    <3>2. QED BY <3>1 DEF NoSkippedRecord
  <2>2. ASSUME NEW i \in covered + 1 .. Len(wal') - 1, Delivered(wal', i + 1)
        PROVE  before'[i + 1] = ExecSql(before'[i], wal'[i].sql)
    <3>0. i + 1 # Len(wal) + 1
      BY <1>1, <2>2
    <3>1. /\ i \in 1..Len(wal) /\ i + 1 \in 1..Len(wal) /\ i + 1 \in 0..Len(wal)
          /\ i \in covered + 1 .. Len(wal) - 1
      BY <1>1, <2>0, <3>0
    <3>2. Delivered(wal, i + 1)
      BY <1>1, <2>2, <3>1
    <3>3. before[i + 1] = ExecSql(before[i], wal[i].sql)
      BY <3>1, <3>2 DEF OneHistory
    <3>4. before'[i + 1] = before[i + 1] /\ before'[i] = before[i] /\ wal'[i] = wal[i]
      BY <1>1, <1>2, <3>1
    <3>5. QED BY <3>3, <3>4
  <2>3. Delivered(wal', covered + 1) => before'[covered + 1] = LoadedTables(snap)
    <3>1. SUFFICES ASSUME Delivered(wal', covered + 1)
                   PROVE  before'[covered + 1] = LoadedTables(snap)
      OBVIOUS
    <3>2. covered + 1 # Len(wal) + 1
      BY <1>1, <3>1
    <3>3. covered + 1 \in 1..Len(wal) /\ covered + 1 \in 0..Len(wal)
      BY <2>0, <3>2
    <3>4. Delivered(wal, covered + 1) /\ before'[covered + 1] = before[covered + 1]
      BY <1>1, <1>2, <3>1, <3>3
    <3>5. QED BY <3>4 DEF OneHistory
  <2>4. QED BY <2>1, <2>2, <2>3 DEF OneHistory
<1>4. ASSUME NEW n \in 0..Len(wal) PROVE Rebuilt(n)' = Rebuilt(n)
  <2>1. CASE n > covered
    <3>1. n \in 1..Len(wal)
      BY <1>0, <2>1
    <3>2. wal'[n] = wal[n] /\ before'[n] = before[n]
      BY <1>1, <1>2, <3>1
    <3>3. QED BY <2>1, <3>2 DEF Rebuilt
  <2>2. CASE ~(n > covered)
    BY <2>2 DEF Rebuilt
  <2>3. QED BY <2>1, <2>2
<1>5. \A n \in 0..Len(wal') :
        LastDelivered(n)' => n \in 0..Len(wal) /\ LastDelivered(n)
  <2>1. ~Delivered(wal, Len(wal) + 1)
    BY <1>0 DEF Delivered
  <2>2. QED BY <1>0, <1>1, <2>1 DEF LastDelivered
<1>6. QED BY <1>3, <1>4, <1>5

(* When the replay loop ends, it has read all the records a reader gets.   *)
LEMMA ReplayEnd ==
  ASSUME DurableInv, pc = "replay", ~Delivered(wal, pos)
  PROVE  LastDelivered(pos - 1) /\ pos - 1 \in 0..Len(wal)
<1>1. pos \in Nat \ {0} /\ Delivered(wal, pos - 1)
  BY DEF DurableInv, OrderInv, TypeOK
<1>2. (pos - 1) + 1 = pos
  BY <1>1
<1>3. LastDelivered(pos - 1)
  BY <1>1, <1>2 DEF LastDelivered
<1>4. pos - 1 \in 0..Len(wal)
  BY <1>1 DEF Delivered
<1>5. QED BY <1>3, <1>4

(* DurableInv is inductive as long as recovery can see the log.            *)
LEMMA DurableStep == DurableInv /\ [Next /\ RecoveryCanSee]_vars => DurableInv'
<1> SUFFICES ASSUME DurableInv, [Next /\ RecoveryCanSee]_vars PROVE DurableInv'
  OBVIOUS
<1>a. OrderInv /\ OrderInv'
  <2>1. [Next]_vars
    OBVIOUS
  <2>2. QED BY <2>1, OrderStep DEF DurableInv
<1>b. TypeOK /\ TypeOK' /\ OneHistory /\ FilesHoldAcked /\ stream = "good"
  BY <1>a DEF DurableInv, OrderInv
<1>c. /\ wal \in Seq(WALRecord) /\ Len(wal) \in Nat /\ covered \in 0..Len(wal)
      /\ before \in Seq(Tables) /\ Len(before) = Len(wal)
      /\ tables \in Tables /\ acked \in Tables
      /\ cur \in Stmt \union {NoStmt}
  BY <1>b DEF TypeOK
<1>e. Len(wal) \in Nat /\ covered \in Nat /\ covered <= Len(wal)
  BY <1>c
<1>d. ASSUME NEW n \in 0..Len(wal), LastDelivered(n)
      PROVE  /\ Rebuilt(n) \in {acked, ExecSql(acked, cur)}
             /\ pc = "logged" => Rebuilt(n) = ExecSql(acked, cur)
  <2>1. CASE pc = "logged"
    <3>1. /\ Len(wal) > covered /\ Delivered(wal, Len(wal))
          /\ before[Len(wal)] = acked /\ wal[Len(wal)].sql = cur
      BY <2>1 DEF DurableInv
    <3>2. n = Len(wal)
      <4>1. n + 1 \in 0..Len(wal) => Delivered(wal, n + 1)
        BY <1>c, <3>1, DeliveredDown
      <4>2. QED BY <1>c, <1>d, <4>1 DEF LastDelivered
    <3>3. QED BY <3>1, <3>2 DEF Rebuilt
  <2>2. QED BY <1>b, <1>d, <2>1 DEF FilesHoldAcked
<1>1. CASE LoadSnapshot
  <2>0. /\ UNCHANGED <<wal, snap, before, covered, acked, cur, stream>>
        /\ pc = "down" /\ pc' = "replay" /\ pos' = 1
        /\ tables' = LoadedTables(snap) /\ snapLsn' = LoadedLsn(snap)
    BY <1>1 DEF LoadSnapshot, disk, history
  <2>1. /\ OneHistory' /\ \A n : Rebuilt(n)' = Rebuilt(n)
        /\ \A n : LastDelivered(n)' <=> LastDelivered(n)
    BY <1>b, <2>0, FilesKept
  <2>2. FilesHoldAcked'
    BY <1>b, <2>0, <2>1 DEF FilesHoldAcked, Serving
  <2>3. tables' = Rebuilt(pos - 1)'
    BY <1>c, <2>0 DEF Rebuilt
  <2>4. QED BY <1>a, <1>b, <2>0, <2>1, <2>2, <2>3 DEF DurableInv, Serving
<1>2. CASE ReplayRecord
  <2>0. /\ UNCHANGED <<wal, snap, before, covered, acked, cur, stream, snapLsn>>
        /\ pc = "replay" /\ pc' = "replay" /\ pos' = pos + 1
        /\ Delivered(wal, pos)
        /\ tables' = IF wal[pos].lsn <= snapLsn
                       THEN tables ELSE ExecSql(tables, wal[pos].sql)
    BY <1>2 DEF ReplayRecord, disk, history
  <2>a. tables = Rebuilt(pos - 1) /\ snapLsn = LoadedLsn(snap)
    BY <2>0 DEF DurableInv
  <2>b. pos \in Nat /\ pos >= 1 /\ pos <= Len(wal)
    <3>1. pos \in Nat \ {0}
      BY <1>b DEF TypeOK
    <3>2. QED BY <1>e, <2>0, <3>1 DEF Delivered
  <2>c. /\ (pos - 1) + 1 = pos /\ (pos + 1) - 1 = pos
        /\ pos \in 1..Len(wal) /\ pos \in 0..Len(wal)
    BY <1>e, <2>b
  <2>1. /\ OneHistory' /\ \A n : Rebuilt(n)' = Rebuilt(n)
        /\ \A n : LastDelivered(n)' <=> LastDelivered(n)
    BY <1>b, <2>0, FilesKept
  <2>2. FilesHoldAcked'
    BY <1>b, <2>0, <2>1 DEF FilesHoldAcked, Serving
  <2>3. wal[pos].lsn \in Nat /\ LoadedLsn(snap) \in Nat
    <3>1. wal[pos] \in WALRecord
      BY <1>c, <2>c, ElementOfSeq
    <3>2. snap \in Images
      BY <1>b DEF TypeOK
    <3>3. QED BY <3>1, <3>2, LoadedTypes DEF WALRecord
  <2>4. tables' = Rebuilt(pos)
    <3>1. CASE pos <= covered
      <4>1. pos \in 1..covered
        BY <1>e, <2>b, <3>1
      <4>2. wal[pos].lsn <= snapLsn
        BY <1>a, <2>0, <2>a, <4>1 DEF OrderInv, NoDoubleReplay
      <4>3. tables' = tables
        BY <2>0, <4>2
      <4>4. ~(pos > covered) /\ ~(pos - 1 > covered)
        BY <1>e, <2>b, <3>1
      <4>5. QED BY <2>a, <4>3, <4>4 DEF Rebuilt
    <3>2. CASE pos > covered
      <4>1. pos \in covered + 1 .. Len(wal)
        BY <1>e, <2>b, <3>2
      <4>2. wal[pos].lsn > snapLsn
        BY <1>b, <2>0, <2>a, <4>1 DEF OneHistory, NoSkippedRecord
      <4>3. ~(wal[pos].lsn <= snapLsn)
        BY <2>3, <2>a, <4>2
      <4>4. tables' = ExecSql(tables, wal[pos].sql)
        BY <2>0, <4>3
      <4>5. Rebuilt(pos - 1) = before[pos]
        <5>1. CASE pos - 1 = covered
          <6>1. covered + 1 = pos /\ ~(pos - 1 > covered)
            BY <1>e, <2>b, <5>1
          <6>2. before[pos] = LoadedTables(snap)
            BY <1>b, <2>0, <6>1 DEF OneHistory
          <6>3. QED BY <6>1, <6>2 DEF Rebuilt
        <5>2. CASE pos - 1 > covered
          <6>1. pos - 1 \in covered + 1 .. Len(wal) - 1
            BY <1>e, <2>b, <5>2
          <6>2. Delivered(wal, (pos - 1) + 1)
            BY <2>0, <2>c
          <6>3. before[(pos - 1) + 1]
                  = ExecSql(before[pos - 1], wal[pos - 1].sql)
            BY <1>b, <6>1, <6>2 DEF OneHistory
          <6>4. QED BY <2>c, <5>2, <6>3 DEF Rebuilt
        <5>3. pos - 1 = covered \/ pos - 1 > covered
          BY <1>e, <2>b, <3>2
        <5>4. QED BY <5>1, <5>2, <5>3
      <4>6. QED BY <2>a, <3>2, <4>4, <4>5 DEF Rebuilt
    <3>3. pos <= covered \/ pos > covered
      BY <1>e, <2>b
    <3>4. QED BY <3>1, <3>2, <3>3
  <2>5. tables' = Rebuilt(pos - 1)'
    <3>1. Rebuilt(pos - 1)' = Rebuilt(pos)
      BY <2>0, <2>c DEF Rebuilt
    <3>2. QED BY <2>4, <3>1
  <2>6. snapLsn' = LoadedLsn(snap)'
    BY <2>0, <2>a
  <2>7. QED BY <1>a, <1>b, <2>0, <2>1, <2>2, <2>5, <2>6 DEF DurableInv, Serving
<1>3. CASE OpenWriter
  <2>0. /\ UNCHANGED <<wal, snap, before, covered, tables, stream>>
        /\ pc = "replay" /\ pc' = "idle" /\ acked' = tables
        /\ LastDelivered(pos - 1) /\ pos - 1 \in 0..Len(wal)
        /\ tables = Rebuilt(pos - 1)
    <3>1. /\ UNCHANGED <<wal, snap, before, covered, tables, stream>>
          /\ pc = "replay" /\ pc' = "idle" /\ acked' = tables
          /\ ~Delivered(wal, pos)
      BY <1>3 DEF OpenWriter, disk
    <3>2. LastDelivered(pos - 1) /\ pos - 1 \in 0..Len(wal)
      BY <3>1, ReplayEnd
    <3>3. tables = Rebuilt(pos - 1)
      BY <3>1 DEF DurableInv
    <3>4. QED BY <3>1, <3>2, <3>3
  <2>1. /\ OneHistory' /\ \A n : Rebuilt(n)' = Rebuilt(n)
        /\ \A n : LastDelivered(n)' <=> LastDelivered(n)
    BY <1>b, <2>0, FilesKept
  <2>2. ASSUME NEW n \in 0..Len(wal), LastDelivered(n)
        PROVE  n = pos - 1
    <3>1. ReadCount(wal) = n
      BY <1>c, <2>2, ReadCountIs DEF LastDelivered
    <3>2. ReadCount(wal) = pos - 1
      BY <1>c, <2>0, ReadCountIs DEF LastDelivered
    <3>3. QED BY <3>1, <3>2
  <2>3. FilesHoldAcked'
    BY <2>0, <2>1, <2>2 DEF FilesHoldAcked, Serving
  <2>4. QED BY <1>a, <1>b, <2>0, <2>1, <2>3 DEF DurableInv, Serving
<1>4. ASSUME NEW s \in Stmt, Execute(s) PROVE DurableInv'
  <2>0. /\ UNCHANGED <<wal, snap, before, covered, tables, acked, stream>>
        /\ pc = "idle" /\ pc' = "executing"
    BY <1>4 DEF Execute, disk, history
  <2>1. /\ OneHistory' /\ \A n : Rebuilt(n)' = Rebuilt(n)
        /\ \A n : LastDelivered(n)' <=> LastDelivered(n)
    BY <1>b, <2>0, FilesKept
  <2>2. FilesHoldAcked'
    BY <1>b, <2>0, <2>1 DEF FilesHoldAcked, Serving
  <2>3. QED BY <1>a, <1>b, <2>0, <2>1, <2>2 DEF DurableInv, Serving
<1>5. CASE LogStatement
  <2>0. /\ UNCHANGED <<snap, tables, acked, covered, cur>>
        /\ pc = "executing" /\ pc' = "logged" /\ Serving /\ cur \in Stmt
        /\ nextLsn \in Nat
        /\ tables = acked
    BY <1>a, <1>5 DEF LogStatement, DurableInv, OrderInv, Serving, TypeOK
  <2>1. /\ Len(wal') = Len(wal) + 1
        /\ Delivered(wal', Len(wal'))
        /\ nextLsn > LoadedLsn(snap)
    BY <1>5, <2>0 DEF RecoveryCanSee, vars, process
  <2>2. Record(nextLsn, cur) \in WALRecord /\ Partial(nextLsn, cur) \in WALRecord
    BY <2>0 DEF Record, Partial, WALRecord
  <2>3. AppendWritten
    <3>1. ~AppendIgnored
      BY <1>b DEF AppendIgnored
    <3>2. ~AppendCutShort
      <4>1. ~Readable(Partial(nextLsn, cur))
        BY DEF Partial, Readable
      <4>2. ~Delivered(Append(wal, Partial(nextLsn, cur)), Len(wal) + 1)
        BY <1>c, <2>2, <4>1, DeliveredAppend
      <4>3. QED BY <2>1, <4>2 DEF AppendCutShort
    <3>3. QED BY <1>5, <3>1, <3>2 DEF LogStatement
  <2>4. /\ \A i \in 1..Len(wal) : wal'[i] = wal[i]
        /\ wal'[Len(wal) + 1] = Record(nextLsn, cur)
        /\ \A i \in 0..Len(wal) : Delivered(wal', i) <=> Delivered(wal, i)
        /\ Delivered(wal, Len(wal))
    <3>1. wal' = Append(wal, Record(nextLsn, cur))
      BY <2>3 DEF AppendWritten
    <3> DEFINE rec == Record(nextLsn, cur)
    <3>2. wal \in Seq(WALRecord) /\ rec \in WALRecord /\ wal' = Append(wal, rec)
      BY <1>c, <2>2, <3>1
    <3> HIDE DEF rec
    <3>3. OneMore(wal', wal, rec)
      BY <3>2, AppendedLog
    <3>4. /\ \A i \in 1..Len(wal) : wal'[i] = wal[i]
          /\ wal'[Len(wal) + 1] = rec
          /\ \A i \in 0..Len(wal) : Delivered(wal', i) <=> Delivered(wal, i)
          /\ Delivered(wal', Len(wal) + 1) => Delivered(wal, Len(wal))
      BY <3>3 DEF OneMore
    <3>5. Delivered(wal, Len(wal))
      BY <2>1, <3>4
    <3>6. wal'[Len(wal) + 1] = Record(nextLsn, cur)
      BY <3>4 DEF rec
    <3>7. QED BY <3>4, <3>5, <3>6
  <2>5. /\ \A i \in 1..Len(wal) : before'[i] = before[i]
        /\ before'[Len(wal) + 1] = tables
        /\ stream' = "good"
    BY <1>b, <1>c, <2>3, AppendProperties DEF AppendWritten
  <2>6. Rebuilt(Len(wal)) = tables
    <3>0. Len(wal) + 1 \notin 0..Len(wal)
      BY <1>e
    <3>1. LastDelivered(Len(wal))
      BY <2>4, <3>0 DEF LastDelivered, Delivered
    <3>2. QED BY <1>b, <1>c, <2>0, <3>1 DEF FilesHoldAcked
  <2>7. OneHistory'
    <3>1. snap'.state # "corrupt"
      BY <1>b, <2>0 DEF OneHistory
    <3>2. ASSUME NEW i \in covered + 1 .. Len(wal'), Delivered(wal', i)
          PROVE  wal'[i].lsn > LoadedLsn(snap')
      <4>1. CASE i = Len(wal) + 1
        <5>0. wal'[i] = Record(nextLsn, cur)
          BY <2>4, <4>1
        <5>1. wal'[i].lsn = nextLsn
          <6>1. Record(nextLsn, cur).lsn = nextLsn
            BY DEF Record
          <6>2. QED BY <5>0, <6>1
        <5>2. LoadedLsn(snap') = LoadedLsn(snap)
          BY <2>0
        <5>3. QED BY <2>1, <5>1, <5>2
      <4>2. CASE i # Len(wal) + 1
        <5>1. i \in covered + 1 .. Len(wal) /\ i \in 1..Len(wal) /\ i \in 0..Len(wal)
          BY <1>e, <2>1, <4>2
        <5>2. Delivered(wal, i) /\ wal'[i] = wal[i]
          BY <2>4, <3>2, <5>1
        <5>3. wal[i].lsn > LoadedLsn(snap)
          BY <1>b, <5>1, <5>2 DEF OneHistory, NoSkippedRecord
        <5>4. LoadedLsn(snap') = LoadedLsn(snap)
          BY <2>0
        <5>5. QED BY <5>2, <5>3, <5>4
      <4>3. QED BY <4>1, <4>2
    <3>3. ASSUME NEW i \in covered + 1 .. Len(wal') - 1, Delivered(wal', i + 1)
          PROVE  before'[i + 1] = ExecSql(before'[i], wal'[i].sql)
      <4>1. CASE i = Len(wal)
        <5>1. i > covered /\ i \in 1..Len(wal)
          BY <1>e, <2>1, <4>1
        <5>2. Rebuilt(i) = ExecSql(before[i], wal[i].sql)
          BY <5>1 DEF Rebuilt
        <5>3. before'[i + 1] = tables /\ before'[i] = before[i] /\ wal'[i] = wal[i]
          BY <2>4, <2>5, <4>1, <5>1
        <5>4. QED BY <2>6, <4>1, <5>2, <5>3
      <4>2. CASE i \in covered + 1 .. Len(wal) - 1
        <5>1. i \in 1..Len(wal) /\ i + 1 \in 1..Len(wal) /\ Delivered(wal, i + 1)
          BY <1>c, <2>4, <3>3, <4>2
        <5>2. QED BY <1>b, <2>4, <2>5, <4>2, <5>1 DEF OneHistory
      <4>3. QED BY <1>c, <2>1, <4>1, <4>2
    <3>4. ASSUME Delivered(wal', covered + 1)
          PROVE  before'[covered + 1] = LoadedTables(snap)
      <4>1. CASE covered = Len(wal)
        BY <1>c, <2>5, <2>6, <4>1 DEF Rebuilt
      <4>2. CASE covered < Len(wal)
        <5>1. covered + 1 \in 1..Len(wal) /\ Delivered(wal, covered + 1)
          BY <1>c, <2>4, <3>4, <4>2
        <5>2. QED BY <1>b, <2>5, <5>1 DEF OneHistory
      <4>3. QED BY <1>c, <4>1, <4>2
    <3>5. QED BY <2>0, <3>1, <3>2, <3>3, <3>4 DEF OneHistory, NoSkippedRecord
  <2>8. FilesHoldAcked'
    BY <2>0 DEF FilesHoldAcked, Serving
  <2>9. /\ Len(wal') > covered'
        /\ before'[Len(wal')] = acked' /\ wal'[Len(wal')].sql = cur'
    <3>1. Len(wal') > covered'
      BY <1>e, <2>0, <2>1
    <3>2. wal'[Len(wal')].sql = cur
      BY <2>1, <2>4 DEF Record
    <3>3. QED BY <2>0, <2>1, <2>5, <3>1, <3>2
  <2>10. QED BY <1>a, <2>0, <2>1, <2>5, <2>7, <2>8, <2>9 DEF DurableInv, Serving
<1>6. CASE ApplyStatement
  <2>0. /\ UNCHANGED <<wal, snap, before, covered, stream>>
        /\ pc \in {"logged", "executing"} /\ pc' = "idle" /\ Serving
        /\ tables' = ExecSql(tables, cur) /\ acked' = ExecSql(acked, cur)
        /\ tables = acked
    BY <1>6 DEF ApplyStatement, disk, DurableInv, Serving
  <2>1. /\ OneHistory' /\ \A n : Rebuilt(n)' = Rebuilt(n)
        /\ \A n : LastDelivered(n)' <=> LastDelivered(n)
    BY <1>b, <2>0, FilesKept
  <2>2. pc = "logged" \/ ExecSql(acked, cur) = acked
    <3>1. pc = "logged" \/ ~IsMutating(cur)
      BY <1>6, <2>0 DEF RecoveryCanSee, vars, process
    <3>2. QED BY <1>c, <3>1, UnloggedIsReadOnly
  <2>3. ASSUME NEW n \in 0..Len(wal), LastDelivered(n)
        PROVE  Rebuilt(n) = ExecSql(acked, cur)
    BY <1>d, <2>2, <2>3
  <2>4. FilesHoldAcked'
    BY <2>0, <2>1, <2>3 DEF FilesHoldAcked, Serving
  <2>5. QED BY <1>a, <1>b, <2>0, <2>1, <2>4 DEF DurableInv, Serving
<1>7. CASE TakeSnapshot
  <2>0. /\ UNCHANGED <<wal, snap, before, covered, stream, acked, tables, cur>>
        /\ pc = "idle" /\ pc' = "saving" /\ pending'.tables = tables
    BY <1>7 DEF TakeSnapshot, disk, history, Image
  <2>1. /\ OneHistory' /\ \A n : Rebuilt(n)' = Rebuilt(n)
        /\ \A n : LastDelivered(n)' <=> LastDelivered(n)
    BY <1>b, <2>0, FilesKept
  <2>2. FilesHoldAcked'
    BY <1>b, <2>0, <2>1 DEF FilesHoldAcked, Serving
  <2>3. QED BY <1>a, <1>b, <2>0, <2>1, <2>2 DEF DurableInv, Serving
<1>8. CASE SnapshotFails
  <2>0. /\ UNCHANGED <<wal, snap, before, covered, stream, acked, tables, cur>>
        /\ pc = "saving" /\ pc' \in {"idle", "exiting"}
    BY <1>8 DEF SnapshotFails, SnapshotReturns, disk, history
  <2>1. /\ OneHistory' /\ \A n : Rebuilt(n)' = Rebuilt(n)
        /\ \A n : LastDelivered(n)' <=> LastDelivered(n)
    BY <1>b, <2>0, FilesKept
  <2>2. FilesHoldAcked'
    BY <1>b, <2>0, <2>1 DEF FilesHoldAcked, Serving
  <2>3. QED BY <1>a, <1>b, <2>0, <2>1, <2>2 DEF DurableInv, Serving
<1>9. CASE RenameSnapshot
  <2>0. /\ UNCHANGED <<wal, tables, stream, pending, acked, before, cur>>
        /\ pc = "saving" /\ pc' = "saved"
        /\ pending.state = "whole" /\ pending.tables = acked /\ tables = acked
    BY <1>a, <1>9 DEF RenameSnapshot, DurableInv, OrderInv, Serving
  <2>1. snap' = pending /\ covered' = Len(wal)
    <3>1. snap'.state # "corrupt"
      BY <1>9, <2>0 DEF RecoveryCanSee, vars, process
    <3>2. QED BY <1>9, <3>1 DEF RenameSnapshot, Image
  <2>2. OneHistory'
    <3>1. /\ covered' + 1 .. Len(wal') = {} /\ covered' + 1 .. Len(wal') - 1 = {}
          /\ covered' + 1 \notin 0..Len(wal')
      BY <1>e, <2>0, <2>1
    <3>2. ~Delivered(wal', covered' + 1)
      BY <3>1 DEF Delivered
    <3>3. snap'.state # "corrupt"
      BY <2>0, <2>1
    <3>4. QED BY <3>1, <3>2, <3>3 DEF OneHistory, NoSkippedRecord
  <2>3. \A n \in 0..Len(wal) : Rebuilt(n)' = acked
    BY <1>c, <2>0, <2>1 DEF Rebuilt, LoadedTables
  <2>4. FilesHoldAcked'
    BY <2>0, <2>3 DEF FilesHoldAcked, Serving
  <2>5. QED BY <1>a, <1>b, <2>0, <2>1, <2>2, <2>4 DEF DurableInv, Serving
<1>10. CASE TruncateWAL
  <2>0. /\ UNCHANGED <<snap, tables, acked, pending, cur>>
        /\ wal' = <<>> /\ before' = <<>> /\ covered' = 0 /\ stream' = "good"
        /\ pc = "saved" /\ pc' \in {"idle", "exiting"}
        /\ snap.state = "whole" /\ snap.tables = acked /\ tables = acked
    BY <1>a, <1>10
    DEF TruncateWAL, SnapshotReturns, DurableInv, OrderInv, Serving
  <2>1. OneHistory'
    BY <2>0 DEF OneHistory, NoSkippedRecord, Delivered
  <2>2. \A n \in 0..Len(wal') : Rebuilt(n)' = acked
    BY <2>0 DEF Rebuilt, LoadedTables
  <2>3. FilesHoldAcked'
    BY <2>0, <2>2 DEF FilesHoldAcked, Serving
  <2>4. QED BY <1>a, <2>0, <2>1, <2>3 DEF DurableInv, Serving
<1>11. CASE Shutdown
  <2>0. /\ UNCHANGED <<wal, snap, before, covered, stream, acked, tables, cur, pc>>
        /\ pc = "idle"
    BY <1>11 DEF Shutdown, disk, history
  <2>1. /\ OneHistory' /\ \A n : Rebuilt(n)' = Rebuilt(n)
        /\ \A n : LastDelivered(n)' <=> LastDelivered(n)
    BY <1>b, <2>0, FilesKept
  <2>2. FilesHoldAcked'
    BY <1>b, <2>0, <2>1 DEF FilesHoldAcked, Serving
  <2>3. QED BY <1>a, <1>b, <2>0, <2>1, <2>2 DEF DurableInv, Serving
<1>12. CASE Exit
  <2>0. /\ UNCHANGED <<wal, snap, before, covered, acked, cur>>
        /\ pc = "exiting" /\ pc' = "down" /\ stream' = "good"
    BY <1>12 DEF Exit, Die, disk, history
  <2>1. /\ OneHistory' /\ \A n : Rebuilt(n)' = Rebuilt(n)
        /\ \A n : LastDelivered(n)' <=> LastDelivered(n)
    BY <1>b, <2>0, FilesKept
  <2>2. FilesHoldAcked'
    BY <1>d, <2>0, <2>1 DEF FilesHoldAcked, Serving
  <2>3. QED BY <1>a, <1>b, <2>0, <2>1, <2>2 DEF DurableInv, Serving
<1>13. CASE Crash
  <2>0. /\ UNCHANGED <<snap, acked, cur>>
        /\ pc # "down" /\ pc' = "down" /\ stream' = "good"
    BY <1>13 DEF Crash, Die
  <2>1. OneHistory' /\ FilesHoldAcked'
    <3>1. CASE UNCHANGED <<wal, before, covered>>
      <4>1. /\ OneHistory' /\ \A n : Rebuilt(n)' = Rebuilt(n)
            /\ \A n : LastDelivered(n)' <=> LastDelivered(n)
        BY <1>b, <2>0, <3>1, FilesKept
      <4>2. QED BY <1>d, <2>0, <3>1, <4>1 DEF FilesHoldAcked, Serving
    <3>2. CASE TearLastRecord
      <4>0. cur \in Stmt /\ nextLsn \in Nat
        BY <1>a, <1>b, <3>2 DEF TearLastRecord, OrderInv, TypeOK
      <4>1. /\ Partial(nextLsn, cur) \in WALRecord
            /\ ~Readable(Partial(nextLsn, cur))
        BY <4>0 DEF Partial, WALRecord, Readable
      <4>2. /\ OneHistory'
            /\ \A n \in 0..Len(wal) : Rebuilt(n)' = Rebuilt(n)
            /\ \A n \in 0..Len(wal') :
                 LastDelivered(n)' => n \in 0..Len(wal) /\ LastDelivered(n)
        BY <1>b, <2>0, <3>2, <4>1, FilesTorn DEF TearLastRecord
      <4>3. QED BY <1>d, <2>0, <4>2 DEF FilesHoldAcked, Serving
    <3>3. CASE LoseTail
      <4>1. PICK n \in 0..Len(wal) :
                   /\ wal' = SubSeq(wal, 1, n)
                   /\ before' = SubSeq(before, 1, n)
                   /\ covered' = IF covered > n THEN n ELSE covered
        BY <3>3 DEF LoseTail
      <4>2. Len(wal') = n
        BY <1>c, <4>1, DeliveredSubSeq
      <4>3. Len(wal') >= Len(wal)
        BY <1>13, <2>0 DEF RecoveryCanSee, vars, process
      <4>4. n = Len(wal)
        BY <1>c, <4>1, <4>2, <4>3
      <4>5. SubSeq(wal, 1, Len(wal)) = wal /\ SubSeq(before, 1, Len(before)) = before
        BY <1>c, SubSeqFull
      <4>6. wal' = wal /\ before' = before
        BY <1>c, <4>1, <4>4, <4>5
      <4>7. covered' = covered
        BY <1>c, <4>1, <4>4
      <4>8. QED BY <3>1, <4>6, <4>7
    <3>4. QED BY <1>13, <3>1, <3>2, <3>3 DEF Crash, KeepLog
  <2>2. QED BY <1>a, <2>0, <2>1 DEF DurableInv, Serving
<1>14. CASE UNCHANGED vars
  <2>0. UNCHANGED <<wal, snap, before, covered, stream, acked, tables, cur, pc,
                    pos, snapLsn, pending>>
    BY <1>14 DEF vars, disk, process, history
  <2>1. /\ OneHistory' /\ \A n : Rebuilt(n)' = Rebuilt(n)
        /\ \A n : LastDelivered(n)' <=> LastDelivered(n)
    BY <1>b, <2>0, FilesKept
  <2>2. FilesHoldAcked'
    BY <1>b, <2>0, <2>1 DEF FilesHoldAcked, Serving
  <2>3. Rebuilt(pos - 1)' = Rebuilt(pos - 1)
    BY <2>0 DEF Rebuilt
  <2>4. /\ pc' = "replay" => tables' = Rebuilt(pos - 1)' /\ snapLsn' = LoadedLsn(snap')
        /\ pc' = "logged" =>
             /\ Len(wal') > covered' /\ Delivered(wal', Len(wal'))
             /\ before'[Len(wal')] = acked' /\ wal'[Len(wal')].sql = cur'
    BY <2>0, <2>3 DEF DurableInv
  <2>5. QED BY <1>a, <1>b, <2>0, <2>1, <2>2, <2>4 DEF DurableInv, Serving
<1>15. QED
  BY <1>1, <1>2, <1>3, <1>4, <1>5, <1>6, <1>7, <1>8, <1>9, <1>10, <1>11,
     <1>12, <1>13, <1>14 DEF Next

(* In every behaviour whose steps recovery can see, a finished recovery    *)
(* holds every acknowledged statement and the one in flight at the crash   *)
(* entirely or not at all (Database::recover, Database::execute).          *)
THEOREM DatabaseAckedSurvive == SpecVisible => []AckedSurvive
<1>1. SpecVisible => []DurableInv
  BY DurableInit, DurableStep, PTL DEF SpecVisible
<1>2. DurableInv => AckedSurvive
  <2> SUFFICES ASSUME DurableInv, RecoveryDone
               PROVE  tables \in {acked, ExecSql(acked, cur)}
    BY DEF AckedSurvive
  <2>1. LastDelivered(pos - 1) /\ pos - 1 \in 0..Len(wal)
    BY ReplayEnd DEF RecoveryDone
  <2>2. QED BY <2>1 DEF DurableInv, FilesHoldAcked, RecoveryDone, Serving
<1>3. QED BY <1>1, <1>2, PTL

(* Each such step is a step of the store or leaves it unchanged.           *)
LEMMA StoreStep ==
  DurableInv /\ [Next /\ RecoveryCanSee]_vars => [Store!Next]_(Store!vars)
<1> SUFFICES ASSUME DurableInv, [Next /\ RecoveryCanSee]_vars
             PROVE  [Store!Next]_(Store!vars)
  OBVIOUS
<1> USE DEF Store!Next, Store!vars, Serving
<1>1. CASE LoadSnapshot
  BY <1>1 DEF LoadSnapshot, history
<1>2. CASE ReplayRecord
  BY <1>2 DEF ReplayRecord, history
<1>3. CASE OpenWriter
  <2>1. RecoveryDone
    BY <1>3 DEF OpenWriter, RecoveryDone
  <2>2. LastDelivered(pos - 1) /\ pos - 1 \in 0..Len(wal)
    BY <2>1, ReplayEnd DEF RecoveryDone
  <2>3. tables \in {acked, ExecSql(acked, cur)}
    BY <2>1, <2>2 DEF DurableInv, FilesHoldAcked, RecoveryDone
  <2>4. Store!Restart
    BY <1>3, <2>3 DEF OpenWriter, Store!Restart
  <2>5. QED BY <2>4
<1>4. ASSUME NEW s \in Stmt, Execute(s) PROVE Store!Next
  <2>1. cur = NoStmt
    BY <1>4 DEF Execute, DurableInv, OrderInv
  <2>2. Store!Call(s)
    BY <1>4, <2>1 DEF Execute, Store!Call, history
  <2>3. QED BY <2>2
<1>5. CASE LogStatement
  BY <1>5 DEF LogStatement
<1>6. CASE ApplyStatement
  <2>1. cur # NoStmt
    <3>1. cur \in Stmt
      BY <1>6 DEF ApplyStatement, DurableInv, OrderInv
    <3>2. cur.op # "none"
      BY <3>1 DEF Stmt, CreateStmt, InsertStmt, SelectStmt, Malformed
    <3>3. QED BY <3>2 DEF NoStmt
  <2>2. Store!Acknowledge
    BY <1>6, <2>1 DEF ApplyStatement, Store!Acknowledge
  <2>3. QED BY <2>2
<1>7. CASE TakeSnapshot
  BY <1>7 DEF TakeSnapshot, history
<1>8. CASE SnapshotFails
  BY <1>8 DEF SnapshotFails, SnapshotReturns, history
<1>9. CASE RenameSnapshot
  BY <1>9 DEF RenameSnapshot
<1>10. CASE TruncateWAL
  BY <1>10 DEF TruncateWAL, SnapshotReturns
<1>11. CASE Shutdown
  BY <1>11 DEF Shutdown, history
<1>12. CASE Exit
  <2>1. Store!Stop
    BY <1>12 DEF Exit, Die, history, Store!Stop
  <2>2. QED BY <2>1
<1>13. CASE Crash
  <2>1. CASE pc = "replay"
    BY <1>13, <2>1 DEF Crash, Die
  <2>2. CASE pc # "replay"
    <3>1. Store!Stop
      BY <1>13, <2>2 DEF Crash, Die, Store!Stop
    <3>2. QED BY <3>1
  <2>3. QED BY <2>1, <2>2
<1>14. CASE UNCHANGED vars
  BY <1>14 DEF vars, process, history
<1>15. QED
  BY <1>1, <1>2, <1>3, <1>4, <1>5, <1>6, <1>7, <1>8, <1>9, <1>10, <1>11,
     <1>12, <1>13, <1>14 DEF Next

(* In those behaviours the database implements a store that loses nothing  *)
(* it acknowledged (README.md:73).                                         *)
THEOREM DatabaseImplementsStore == SpecVisible => ImplementsDurableStore
<1>1. Init => Store!Init
  BY DEF Init, Store!Init, Serving
<1>2. SpecVisible => []DurableInv
  BY DurableInit, DurableStep, PTL DEF SpecVisible
<1>3. QED
  BY <1>1, <1>2, StoreStep, PTL
  DEF SpecVisible, ImplementsDurableStore, Store!Spec

-----------------------------------------------------------------------------
(* ThreadPool                                                              *)

Labels == {"lock", "test", "wait", "asleep", "run", "left"}
Fates  == {"new", "submitted", "refused", "queued", "taken", "done"}

(* What the threads hold and where they are.                               *)
Shape ==
  /\ queue \in Seq(Tasks) /\ stop \in BOOLEAN /\ state \in [Tasks -> Fates]
  /\ wpc \in [Workers -> Labels] /\ running \in [Workers -> Tasks \union {NoTask}]
  /\ cpc \in [Clients -> {"idle", "push", "notify"}]
  /\ mine \in [Clients -> Tasks \union {NoTask}]
  /\ waiting = {w \in Workers : wpc[w] = "asleep"}
  /\ \A w \in Workers : wpc[w] = "run" <=> running[w] \in Tasks
  /\ \A c \in Clients : cpc[c] = "push" => mine[c] \in Tasks

(* A task that is queued or taken is where its state says.                 *)
Placed ==
  \A t \in Tasks :
    /\ state[t] = "queued" => \E i \in 1..Len(queue) : queue[i] = t
    /\ state[t] = "taken" => \E w \in Workers : running[w] = t

(* Workers leave a stopped and empty pool only, and are joined after that. *)
Leaving ==
  /\ \A w \in Workers : wpc[w] = "left" => stop /\ queue = <<>>
  /\ joined \subseteq {w \in Workers : wpc[w] = "left"}
  /\ spc = "returned" => joined = Workers

Inv == Shape /\ Placed /\ Leaving

(* What is queued, taken or about to be pushed is there once, and in the   *)
(* state that says so.                                                     *)
QueuedOnce ==
  /\ \A i \in 1..Len(queue) : state[queue[i]] = "queued"
  /\ \A i, j \in 1..Len(queue) : queue[i] = queue[j] => i = j
TakenOnce ==
  /\ \A w \in Workers : running[w] \in Tasks => state[running[w]] = "taken"
  /\ \A v, w \in Workers : running[v] \in Tasks /\ running[v] = running[w] => v = w
SubmittedOnce ==
  /\ \A c \in Clients : cpc[c] = "push" => state[mine[c]] = "submitted"
  /\ \A c, d \in Clients : cpc[c] = "push" /\ cpc[d] = "push" /\ mine[c] = mine[d] => c = d
Once == QueuedOnce /\ TakenOnce /\ SubmittedOnce

(* The constructor establishes the invariant.                              *)
LEMMA InvInit == PoolInit => Inv
<1> SUFFICES ASSUME PoolInit PROVE Inv
  OBVIOUS
<1>1. Shape
  <2>1. waiting = {w \in Workers : wpc[w] = "asleep"}
    BY DEF PoolInit
  <2>2. \A w \in Workers : wpc[w] = "lock" /\ running[w] = NoTask
    BY DEF PoolInit
  <2>3. \A w \in Workers : wpc[w] = "run" <=> running[w] \in Tasks
    BY <2>2, PoolAssumption
  <2>4. queue \in Seq(Tasks) /\ state \in [Tasks -> Fates]
    BY DEF PoolInit, Fates
  <2>5. stop \in BOOLEAN
    BY DEF PoolInit
  <2>6. /\ wpc \in [Workers -> Labels] /\ running \in [Workers -> Tasks \union {NoTask}]
        /\ cpc \in [Clients -> {"idle", "push", "notify"}]
        /\ mine \in [Clients -> Tasks \union {NoTask}]
        /\ \A c \in Clients : cpc[c] # "push"
    BY DEF PoolInit, Labels
  <2> QED BY <2>1, <2>3, <2>4, <2>5, <2>6 DEF Shape
<1>2. Placed /\ Leaving
  BY DEF PoolInit, Placed, Leaving
<1> QED BY <1>1, <1>2 DEF Inv

(* A worker that locks, decides to wait, waits or wakes moves no task.     *)
LEMMA InvMove ==
  ASSUME Inv, NEW w \in Workers,
         LockQueue(w) \/ DecideToWait(w) \/ Wait(w) \/ WakeSpuriously(w)
  PROVE  Inv'
<1>1. /\ UNCHANGED <<queue, stop, running, client, closer, state>>
      /\ wpc[w] \in {"lock", "test", "wait", "asleep"}
      /\ \E l \in {"lock", "test", "wait", "asleep"} : wpc' = [wpc EXCEPT ![w] = l]
  BY DEF LockQueue, DecideToWait, Wait, WakeSpuriously, WGoto, Inv, Shape
<1>2. waiting' = {v \in Workers : wpc'[v] = "asleep"}
  BY DEF LockQueue, DecideToWait, Wait, WakeSpuriously, WGoto, Inv, Shape, Labels
<1>3. Shape'
  BY <1>1, <1>2 DEF Inv, Shape, Labels, client
<1>4. Placed'
  BY <1>1 DEF Inv, Placed
<1>5. Leaving'
  BY <1>1 DEF Inv, Shape, Leaving, closer
<1> QED BY <1>3, <1>4, <1>5 DEF Inv

(* The task at the head of the queue moves to the worker.                  *)
LEMMA InvTake ==
  ASSUME Inv, NEW w \in Workers, TakeTask(w)
  PROVE  Inv'
<1> DEFINE t == Head(queue)
<1>1. /\ wpc[w] = "test" /\ queue # <<>> /\ queue \in Seq(Tasks)
      /\ running' = [running EXCEPT ![w] = t] /\ queue' = Tail(queue)
      /\ state' = [state EXCEPT ![t] = "taken"] /\ wpc' = [wpc EXCEPT ![w] = "run"]
      /\ UNCHANGED <<stop, waiting, cpc, mine, spc, joined>>
  BY DEF TakeTask, WGoto, client, closer, Inv, Shape
<1>2. t \in Tasks /\ Tail(queue) \in Seq(Tasks)
  BY <1>1
<1>3. \A i \in 1..Len(queue) : queue[i] = t \/ \E j \in 1..Len(queue') : queue'[j] = queue[i]
  <2> SUFFICES ASSUME NEW i \in 1..Len(queue), i # 1
               PROVE  \E j \in 1..Len(queue') : queue'[j] = queue[i]
    BY <1>1
  <2>1. i - 1 \in 1..Len(queue') /\ queue'[i - 1] = queue[i]
    BY <1>1
  <2> QED BY <2>1
<1> HIDE DEF t
<1>4. Shape'
  BY <1>1, <1>2, PoolAssumption DEF Inv, Shape, Labels, Fates
<1>5. Placed'
  <2> SUFFICES ASSUME NEW u \in Tasks
               PROVE  /\ state'[u] = "queued" => \E i \in 1..Len(queue') : queue'[i] = u
                      /\ state'[u] = "taken" => \E v \in Workers : running'[v] = u
    BY DEF Placed
  <2>1. CASE u = t
    BY <2>1, <1>1, <1>2 DEF Inv, Shape
  <2>2. CASE u # t
    <3>1. state'[u] = state[u]
      BY <2>2, <1>1 DEF Inv, Shape
    <3>2. \A v \in Workers : running[v] = u => running'[v] = u
      BY <1>1, PoolAssumption DEF Inv, Shape
    <3> QED BY <2>2, <3>1, <3>2, <1>3 DEF Inv, Placed
  <2> QED BY <2>1, <2>2
<1>6. Leaving'
  BY <1>1 DEF Inv, Shape, Leaving
<1> QED BY <1>4, <1>5, <1>6 DEF Inv

(* A worker leaves a stopped, empty pool.                                  *)
LEMMA InvLeave ==
  ASSUME Inv, NEW w \in Workers, Leave(w)
  PROVE  Inv'
<1>1. Shape'
  BY PoolAssumption DEF Leave, WGoto, client, Inv, Shape, Labels
<1>2. Placed' /\ Leaving'
  BY DEF Leave, WGoto, closer, Inv, Shape, Placed, Leaving
<1> QED BY <1>1, <1>2 DEF Inv

(* A task that has run is nowhere any more.                                *)
LEMMA InvRun ==
  ASSUME Inv, NEW w \in Workers, RunTask(w)
  PROVE  Inv'
<1>1. /\ wpc[w] = "run" /\ running[w] \in Tasks
      /\ UNCHANGED <<queue, stop, waiting, cpc, mine, spc, joined>>
      /\ state' = [state EXCEPT ![running[w]] = "done"]
      /\ running' = [running EXCEPT ![w] = NoTask] /\ wpc' = [wpc EXCEPT ![w] = "lock"]
  BY DEF RunTask, WGoto, client, closer, Inv, Shape
<1>2. Shape'
  BY <1>1, PoolAssumption DEF Inv, Shape, Labels, Fates
<1>3. Placed'
  BY <1>1 DEF Inv, Shape, Placed
<1>4. Leaving'
  BY <1>1 DEF Inv, Shape, Leaving
<1> QED BY <1>2, <1>3, <1>4 DEF Inv

(* A client enters submit, and notifies when it has pushed.                *)
LEMMA InvClient ==
  ASSUME Inv, NEW c \in Clients, NotifyOne(c) \/ \E t \in Tasks : Submit(c, t)
  PROVE  Inv'
<1>1. CASE NotifyOne(c)
  <2>1. /\ UNCHANGED <<queue, stop, running, mine, spc, joined, state>>
        /\ cpc' = [cpc EXCEPT ![c] = "idle"]
    BY <1>1 DEF NotifyOne, CGoto, closer
  <2>2. /\ waiting' = {v \in Workers : wpc'[v] = "asleep"}
        /\ \/ wpc' = wpc
           \/ \E w \in Workers : wpc[w] = "asleep" /\ wpc' = [wpc EXCEPT ![w] = "lock"]
    BY <1>1 DEF NotifyOne, WGoto, Inv, Shape
  <2>3. Shape'
    BY <2>1, <2>2 DEF Inv, Shape, Labels
  <2>4. Placed' /\ Leaving'
    BY <2>1, <2>2 DEF Inv, Shape, Placed, Leaving
  <2> QED BY <2>3, <2>4 DEF Inv
<1>2. ASSUME NEW t \in Tasks, Submit(c, t) PROVE Inv'
  <2>1. /\ UNCHANGED <<queue, stop, waiting, wpc, running, spc, joined>>
        /\ mine' = [mine EXCEPT ![c] = t] /\ cpc' = [cpc EXCEPT ![c] = "push"]
        /\ state' = [state EXCEPT ![t] = "submitted"]
    BY <1>2 DEF Submit, CGoto, worker, closer
  <2>2. Shape'
    BY <2>1 DEF Inv, Shape, Fates
  <2>3. Placed' /\ Leaving'
    BY <2>1 DEF Inv, Shape, Placed, Leaving
  <2> QED BY <2>2, <2>3 DEF Inv
<1> QED BY <1>1, <1>2

(* submit queues its task at the end, or throws when the pool is stopped.  *)
LEMMA InvPush ==
  ASSUME Inv, NEW c \in Clients, Push(c)
  PROVE  Inv'
<1> DEFINE t == mine[c]
<1>1. /\ t \in Tasks /\ queue \in Seq(Tasks)
      /\ UNCHANGED <<stop, waiting, wpc, running, spc, joined>>
      /\ mine' = [mine EXCEPT ![c] = NoTask]
  BY DEF Push, worker, closer, Inv, Shape
<1>2. CASE stop
  <2>1. /\ queue' = queue /\ cpc' = [cpc EXCEPT ![c] = "idle"]
        /\ state' = [state EXCEPT ![t] = "refused"]
    BY <1>2 DEF Push, CGoto
  <2>2. Shape'
    BY <1>1, <2>1 DEF Inv, Shape, Fates
  <2>3. Placed' /\ Leaving'
    BY <1>1, <2>1 DEF Inv, Shape, Placed, Leaving
  <2> QED BY <2>2, <2>3 DEF Inv
<1>3. CASE ~stop
  <2>1. /\ queue' = Append(queue, t) /\ cpc' = [cpc EXCEPT ![c] = "notify"]
        /\ state' = [state EXCEPT ![t] = "queued"]
    BY <1>3 DEF Push, CGoto
  <2> HIDE DEF t
  <2>2. Shape'
    BY <1>1, <2>1 DEF Inv, Shape, Fates
  <2>3. Len(queue') = Len(queue) + 1 /\ Len(queue) \in Nat /\ queue'[Len(queue) + 1] = t
    BY <1>1, <2>1
  <2>4. \A i \in 1..Len(queue) : i \in 1..Len(queue') /\ queue'[i] = queue[i]
    BY <1>1, <2>1
  <2>5. \A u \in Tasks : state'[u] = "queued" => \E i \in 1..Len(queue') : queue'[i] = u
    <3> SUFFICES ASSUME NEW u \in Tasks, state'[u] = "queued"
                 PROVE  \E i \in 1..Len(queue') : queue'[i] = u
      OBVIOUS
    <3>1. CASE u = t
      BY <3>1, <2>3
    <3>2. CASE u # t
      BY <3>2, <1>1, <2>1, <2>4 DEF Inv, Shape, Placed
    <3> QED BY <3>1, <3>2
  <2>6. Placed'
    BY <1>1, <2>1, <2>5 DEF Inv, Shape, Placed
  <2>7. Leaving'
    BY <1>1, <1>3 DEF Inv, Leaving
  <2> QED BY <2>2, <2>6, <2>7 DEF Inv
<1> QED BY <1>2, <1>3

(* shutdown stores stop_, notifies and joins.                              *)
LEMMA InvCloser ==
  ASSUME Inv, StoreStop \/ CloserStep
  PROVE  Inv'
<1>1. CASE StoreStop
  <2>1. Shape'
    BY <1>1 DEF StoreStop, worker, client, Inv, Shape
  <2>2. Placed' /\ Leaving'
    BY <1>1 DEF StoreStop, worker, Inv, Placed, Leaving
  <2> QED BY <2>1, <2>2 DEF Inv
<1>2. CASE NotifyAll
  <2>1. \A w \in Workers : wpc'[w] = IF wpc[w] = "asleep" THEN "lock" ELSE wpc[w]
    BY <1>2 DEF NotifyAll, Inv, Shape
  <2>2. Shape'
    BY <1>2, <2>1 DEF NotifyAll, client, Inv, Shape, Labels
  <2>3. Placed'
    BY <1>2 DEF NotifyAll, Inv, Placed
  <2>4. Leaving'
    BY <1>2, <2>1 DEF NotifyAll, Inv, Leaving
  <2> QED BY <2>2, <2>3, <2>4 DEF Inv
<1>3. ASSUME NEW w \in Workers, Join(w) PROVE Inv'
  BY <1>3 DEF Join, worker, client, Inv, Shape, Placed, Leaving
<1>4. CASE ShutdownReturns
  BY <1>4 DEF ShutdownReturns, worker, client, Inv, Shape, Placed, Leaving
<1> QED BY <1>1, <1>2, <1>3, <1>4 DEF CloserStep

(* Every step keeps the invariant.                                         *)
LEMMA InvStep == Inv /\ [PoolNext]_poolVars => Inv'
<1> SUFFICES ASSUME Inv, [PoolNext]_poolVars PROVE Inv'
  OBVIOUS
<1>1. CASE UNCHANGED poolVars
  BY <1>1 DEF poolVars, Inv, Shape, Placed, Leaving
<1>2. CASE PoolNext
  BY <1>2, InvMove, InvTake, InvLeave, InvRun, InvClient, InvPush, InvCloser
  DEF PoolNext, WorkerStep, ClientStep
<1> QED BY <1>1, <1>2

-----------------------------------------------------------------------------
(* The invariant that the pool's locking and waiting preserve (worker loop, *)
(* submit, shutdown), for every number of threads and tasks.               *)
LEMMA InvAlways == PoolSpec => []Inv
BY InvInit, InvStep, PTL DEF PoolSpec

(* When shutdown has returned, every task that submit accepted has been    *)
(* run (thread_pool.h:46).                                                 *)
THEOREM PoolShutdownDrains == PoolSpec => []ShutdownDrains
<1>1. Inv => ShutdownDrains
  <2> SUFFICES ASSUME Inv, spc = "returned", NEW t \in Tasks
               PROVE  state[t] \notin {"queued", "taken"}
    BY DEF ShutdownDrains
  <2>1. \A w \in Workers : wpc[w] = "left" /\ queue = <<>> /\ running[w] \notin Tasks
    BY DEF Inv, Shape, Leaving
  <2>2. queue = <<>>
    BY <2>1, PoolAssumption
  <2> QED BY <2>1, <2>2 DEF Inv, Placed
<1> QED BY <1>1, InvAlways, PTL

(* Taking the head of the queue: no other place holds it.                  *)
LEMMA OnceTake ==
  ASSUME Inv, Once, NEW w \in Workers, TakeTask(w)
  PROVE  Once'
<1> DEFINE t == Head(queue)
<1>1. /\ wpc[w] = "test" /\ queue # <<>> /\ queue \in Seq(Tasks)
      /\ running \in [Workers -> Tasks \union {NoTask}]
      /\ running' = [running EXCEPT ![w] = t] /\ queue' = Tail(queue)
      /\ state \in [Tasks -> Fates] /\ state' = [state EXCEPT ![t] = "taken"]
      /\ UNCHANGED <<cpc, mine>>
  BY DEF TakeTask, client, Inv, Shape
<1>2. t \in Tasks /\ t = queue[1] /\ 1 \in 1..Len(queue) /\ state[t] = "queued"
  BY <1>1 DEF Once, QueuedOnce
<1>3. \A i \in 1..Len(queue') : /\ i + 1 \in 1..Len(queue) /\ i + 1 # 1
                               /\ queue'[i] = queue[i + 1] /\ queue[i + 1] \in Tasks
  BY <1>1
<1> HIDE DEF t
<1>4. \A i \in 1..Len(queue') : queue'[i] # t /\ queue'[i] \in Tasks /\ state[queue'[i]] = "queued"
  BY <1>2, <1>3 DEF Once, QueuedOnce
<1>5. \A u \in Tasks : u # t => state'[u] = state[u]
  BY <1>1
<1>6. \A i \in 1..Len(queue') : state'[queue'[i]] = "queued"
  BY <1>4, <1>5
<1>7. \A i, j \in 1..Len(queue') : queue'[i] = queue'[j] => i = j
  <2> SUFFICES ASSUME NEW i \in 1..Len(queue'), NEW j \in 1..Len(queue'), queue'[i] = queue'[j]
               PROVE  i = j
    OBVIOUS
  <2>1. i + 1 = j + 1
    BY <1>3 DEF Once, QueuedOnce
  <2> QED BY <2>1
<1>8. state'[t] = "taken" /\ running'[w] = t
  BY <1>1, <1>2
<1>9. \A v \in Workers : v # w => running'[v] = running[v] /\ running[v] # t
  BY <1>1, <1>2 DEF Once, TakenOnce
<1>10. \A v \in Workers : running'[v] \in Tasks => state'[running'[v]] = "taken"
  BY <1>5, <1>8, <1>9 DEF Once, TakenOnce
<1>11. \A v, x \in Workers : running'[v] \in Tasks /\ running'[v] = running'[x] => v = x
  BY <1>8, <1>9 DEF Once, TakenOnce
<1>12. \A c \in Clients : cpc[c] = "push" => mine[c] \in Tasks /\ mine[c] # t
  BY <1>2 DEF Inv, Shape, Once, SubmittedOnce
<1>13. \A c \in Clients : cpc'[c] = "push" => state'[mine'[c]] = "submitted"
  BY <1>1, <1>5, <1>12 DEF Once, SubmittedOnce
<1> QED
  BY <1>1, <1>6, <1>7, <1>10, <1>11, <1>13
  DEF Once, QueuedOnce, TakenOnce, SubmittedOnce

(* The worker's task is done; nobody else has it.                          *)
LEMMA OnceRun ==
  ASSUME Inv, Once, NEW w \in Workers, RunTask(w)
  PROVE  Once'
<1> DEFINE t == running[w]
<1>1. /\ t \in Tasks /\ queue \in Seq(Tasks) /\ running \in [Workers -> Tasks \union {NoTask}]
      /\ running' = [running EXCEPT ![w] = NoTask] /\ UNCHANGED <<queue, cpc, mine>>
      /\ state \in [Tasks -> Fates] /\ state' = [state EXCEPT ![t] = "done"]
  BY DEF RunTask, client, Inv, Shape
<1>2. state[t] = "taken" /\ \A u \in Tasks : u # t => state'[u] = state[u]
  BY <1>1 DEF Once, TakenOnce
<1>3. \A v \in Workers : running'[v] \in Tasks => running'[v] = running[v] /\ running[v] # t
  BY <1>1, PoolAssumption DEF Once, TakenOnce
<1>4. \A i \in 1..Len(queue) : queue[i] \in Tasks /\ queue[i] # t
  BY <1>1, <1>2 DEF Once, QueuedOnce
<1>5. \A c \in Clients : cpc[c] = "push" => mine[c] \in Tasks /\ mine[c] # t
  BY <1>2 DEF Inv, Shape, Once, SubmittedOnce
<1> HIDE DEF t
<1>6. QueuedOnce'
  BY <1>1, <1>2, <1>4 DEF Once, QueuedOnce
<1>7. TakenOnce'
  BY <1>1, <1>2, <1>3 DEF Once, TakenOnce
<1>8. SubmittedOnce'
  BY <1>1, <1>2, <1>5 DEF Once, SubmittedOnce
<1> QED BY <1>6, <1>7, <1>8 DEF Once

(* A new task is nowhere yet.                                              *)
LEMMA OnceSubmit ==
  ASSUME Inv, Once, NEW c \in Clients, NEW t \in Tasks, Submit(c, t)
  PROVE  Once'
<1>1. /\ queue \in Seq(Tasks) /\ UNCHANGED <<queue, running>>
      /\ cpc \in [Clients -> {"idle", "push", "notify"}] /\ cpc' = [cpc EXCEPT ![c] = "push"]
      /\ mine \in [Clients -> Tasks \union {NoTask}] /\ mine' = [mine EXCEPT ![c] = t]
      /\ state \in [Tasks -> Fates] /\ state[t] = "new"
      /\ state' = [state EXCEPT ![t] = "submitted"]
  BY DEF Submit, CGoto, worker, Inv, Shape
<1>2. /\ \A u \in Tasks : u # t => state'[u] = state[u]
      /\ \A i \in 1..Len(queue) : queue[i] \in Tasks /\ queue[i] # t
      /\ \A w \in Workers : running[w] # t
  BY <1>1 DEF Once, QueuedOnce, TakenOnce
<1>3. \A d \in Clients : d # c /\ cpc'[d] = "push" =>
        cpc[d] = "push" /\ mine'[d] = mine[d] /\ mine[d] \in Tasks /\ mine[d] # t
  BY <1>1 DEF Inv, Shape, Once, SubmittedOnce
<1>4. cpc'[c] = "push" /\ mine'[c] = t /\ state'[t] = "submitted"
  BY <1>1
<1>5. \A d \in Clients : cpc'[d] = "push" => state'[mine'[d]] = "submitted"
  <2> SUFFICES ASSUME NEW d \in Clients, d # c, cpc'[d] = "push"
               PROVE  state'[mine'[d]] = "submitted"
    BY <1>4
  <2>1. cpc[d] = "push" /\ mine'[d] = mine[d] /\ state'[mine[d]] = state[mine[d]]
    BY <1>2, <1>3
  <2> QED BY <2>1 DEF Once, SubmittedOnce
<1>6. \A d, e \in Clients : cpc'[d] = "push" /\ cpc'[e] = "push" /\ mine'[d] = mine'[e] => d = e
  BY <1>3, <1>4 DEF Once, SubmittedOnce
<1>7. QueuedOnce'
  BY <1>1, <1>2 DEF Once, QueuedOnce
<1>8. TakenOnce'
  BY <1>1, <1>2 DEF Once, TakenOnce
<1> QED BY <1>5, <1>6, <1>7, <1>8 DEF Once, SubmittedOnce

(* A submitted task enters the queue it was not in.                        *)
LEMMA OncePush ==
  ASSUME Inv, Once, NEW c \in Clients, Push(c)
  PROVE  Once'
<1> DEFINE t == mine[c]
<1>1. /\ t \in Tasks /\ queue \in Seq(Tasks) /\ UNCHANGED running
      /\ cpc \in [Clients -> {"idle", "push", "notify"}] /\ state \in [Tasks -> Fates]
      /\ mine \in [Clients -> Tasks \union {NoTask}] /\ mine' = [mine EXCEPT ![c] = NoTask]
      /\ cpc[c] = "push" /\ state[t] = "submitted"
  BY DEF Push, worker, Inv, Shape, Once, SubmittedOnce
<1>2. /\ cpc' = [cpc EXCEPT ![c] = IF stop THEN "idle" ELSE "notify"]
      /\ state' = [state EXCEPT ![t] = IF stop THEN "refused" ELSE "queued"]
      /\ queue' = IF stop THEN queue ELSE Append(queue, t)
  BY DEF Push, CGoto
<1>3. /\ \A u \in Tasks : u # t => state'[u] = state[u]
      /\ \A i \in 1..Len(queue) : queue[i] \in Tasks /\ queue[i] # t
      /\ \A w \in Workers : running[w] # t
  BY <1>1, <1>2 DEF Once, QueuedOnce, TakenOnce
<1>4. \A d \in Clients : cpc'[d] = "push" =>
        d # c /\ cpc[d] = "push" /\ mine'[d] = mine[d] /\ mine[d] \in Tasks /\ mine[d] # t
  <2>1. /\ cpc'[c] # "push"
        /\ \A d \in Clients : d # c => cpc'[d] = cpc[d] /\ mine'[d] = mine[d]
    BY <1>1, <1>2
  <2> QED BY <1>1, <2>1 DEF Inv, Shape, Once, SubmittedOnce
<1>5. state'[t] = IF stop THEN "refused" ELSE "queued"
  BY <1>1, <1>2
<1> HIDE DEF t
<1>6. /\ \A d \in Clients : cpc'[d] = "push" => state'[mine'[d]] = "submitted"
      /\ \A d, e \in Clients : cpc'[d] = "push" /\ cpc'[e] = "push" /\ mine'[d] = mine'[e] => d = e
  BY <1>3, <1>4 DEF Once, SubmittedOnce
<1>7. /\ \A w \in Workers : running'[w] \in Tasks => state'[running'[w]] = "taken"
      /\ \A v, w \in Workers : running'[v] \in Tasks /\ running'[v] = running'[w] => v = w
  BY <1>1, <1>3 DEF Once, TakenOnce
<1>8. CASE stop
  <2>1. QueuedOnce'
    BY <1>2, <1>3, <1>8 DEF Once, QueuedOnce
  <2> QED BY <1>6, <1>7, <2>1 DEF Once, TakenOnce, SubmittedOnce
<1>9. CASE ~stop
  <2>1. /\ Len(queue) \in Nat /\ Len(queue') = Len(queue) + 1
        /\ \A i \in 1..Len(queue') : queue'[i] = IF i = Len(queue) + 1 THEN t ELSE queue[i]
    BY <1>1, <1>2, <1>9
  <2>2. \A i \in 1..Len(queue') : i = Len(queue) + 1 \/ i \in 1..Len(queue)
    BY <2>1
  <2>3. \A i \in 1..Len(queue') : state'[queue'[i]] = "queued"
    <3> SUFFICES ASSUME NEW i \in 1..Len(queue') PROVE state'[queue'[i]] = "queued"
      OBVIOUS
    <3>1. CASE i = Len(queue) + 1
      BY <3>1, <1>5, <1>9, <2>1
    <3>2. CASE i \in 1..Len(queue)
      <4>1. queue'[i] = queue[i] /\ state'[queue[i]] = state[queue[i]]
        BY <3>2, <1>3, <2>1
      <4> QED BY <3>2, <4>1 DEF Once, QueuedOnce
    <3> QED BY <3>1, <3>2, <2>2
  <2>4. \A i, j \in 1..Len(queue') : queue'[i] = queue'[j] => i = j
    BY <1>3, <2>1, <2>2 DEF Once, QueuedOnce
  <2> QED BY <1>6, <1>7, <2>3, <2>4 DEF Once, QueuedOnce, TakenOnce, SubmittedOnce
<1> QED BY <1>8, <1>9

(* Every step keeps tasks in one place each.                               *)
LEMMA OnceStep == Inv /\ Once /\ [PoolNext]_poolVars => Once'
<1> SUFFICES ASSUME Inv, Once, [PoolNext]_poolVars PROVE Once'
  OBVIOUS
<1>1. ASSUME UNCHANGED <<queue, running, state, cpc, mine>> PROVE Once'
  BY <1>1 DEF Once, QueuedOnce, TakenOnce, SubmittedOnce
<1>2. ASSUME NEW w \in Workers,
             LockQueue(w) \/ DecideToWait(w) \/ Wait(w) \/ Leave(w) \/ WakeSpuriously(w)
      PROVE  Once'
  BY <1>1, <1>2 DEF LockQueue, DecideToWait, Wait, Leave, WakeSpuriously, client
<1>3. ASSUME StoreStop \/ CloserStep \/ UNCHANGED poolVars PROVE Once'
  BY <1>1, <1>3 DEF StoreStop, CloserStep, NotifyAll, Join, ShutdownReturns, worker, client, poolVars
<1>4. ASSUME NEW c \in Clients, NotifyOne(c) PROVE Once'
  BY <1>4 DEF NotifyOne, CGoto, Inv, Shape, Once, QueuedOnce, TakenOnce, SubmittedOnce
<1> QED
  BY <1>2, <1>3, <1>4, OnceTake, OnceRun, OnceSubmit, OncePush DEF PoolNext, WorkerStep, ClientStep

(* A task is in one place: queued once, or with one worker, or neither; so *)
(* the pool loses no accepted task and runs none twice.                    *)
THEOREM PoolEachTaskOnce == PoolSpec => []EachTaskOnce
<1>1. PoolInit => Once
  BY PoolAssumption DEF PoolInit, Once, QueuedOnce, TakenOnce, SubmittedOnce
<1>2. PoolSpec => []Once
  BY <1>1, OnceStep, InvAlways, PTL DEF PoolSpec
<1>3. Inv /\ Once => EachTaskOnce
  <2> SUFFICES ASSUME Inv, Once, NEW t \in Tasks
               PROVE  Cardinality({i \in 1..Len(queue) : queue[i] = t}
                                    \union {w \in Workers : running[w] = t})
                        = IF state[t] \in {"queued", "taken"} THEN 1 ELSE 0
    BY DEF EachTaskOnce
  <2> DEFINE Q == {i \in 1..Len(queue) : queue[i] = t}
             W == {w \in Workers : running[w] = t}
  <2>1. CASE state[t] = "queued"
    <3>1. PICK i \in 1..Len(queue) : queue[i] = t
      BY <2>1 DEF Inv, Placed
    <3>2. Q = {i} /\ W = {}
      BY <2>1, <3>1 DEF Once, QueuedOnce, TakenOnce
    <3>3. Q \union W = {i}
      BY <3>2
    <3> QED BY <2>1, <3>3, FS_Singleton
  <2>2. CASE state[t] = "taken"
    <3>1. PICK w \in Workers : running[w] = t
      BY <2>2 DEF Inv, Placed
    <3>2. Q = {} /\ W = {w}
      BY <2>2, <3>1 DEF Once, QueuedOnce, TakenOnce
    <3>3. Q \union W = {w}
      BY <3>2
    <3> QED BY <2>2, <3>3, FS_Singleton
  <2>3. CASE state[t] \notin {"queued", "taken"}
    <3>1. Q \union W = {}
      BY <2>3 DEF Once, QueuedOnce, TakenOnce
    <3> QED BY <2>3, <3>1, FS_EmptySet
  <2> QED BY <2>1, <2>2, <2>3
<1> QED BY <1>2, <1>3, InvAlways, PTL

(* Every step of the pool is a step of WorkPool, or leaves it alone.       *)
LEMMA StepIsPoolStep ==
  ASSUME Inv, [PoolNext]_poolVars
  PROVE  [Pool!PoolNext]_Pool!poolVars
<1> DEFINE left == {w \in Workers : wpc[w] = "left"}
<1>1. ASSUME UNCHANGED <<queue, running, stop, left>> PROVE UNCHANGED Pool!poolVars
  BY <1>1 DEF Pool!poolVars
<1>2. ASSUME NEW w \in Workers,
             LockQueue(w) \/ DecideToWait(w) \/ Wait(w) \/ WakeSpuriously(w)
      PROVE  UNCHANGED <<queue, running, stop, left>>
  BY <1>2 DEF LockQueue, DecideToWait, Wait, WakeSpuriously, WGoto, Inv, Shape
<1>3. ASSUME NEW w \in Workers, TakeTask(w) PROVE Pool!Take(w)
  BY <1>3, PoolAssumption
  DEF TakeTask, WGoto, Pool!Take, Pool!Free, Pool!NoTask, NoTask, Inv, Shape
<1>4. ASSUME NEW w \in Workers, RunTask(w) PROVE Pool!Finish(w)
  BY <1>4, PoolAssumption DEF RunTask, WGoto, Pool!Finish, Pool!NoTask, NoTask, Inv, Shape
<1>5. ASSUME NEW w \in Workers, Leave(w) PROVE Pool!Retire(w)
  BY <1>5, PoolAssumption
  DEF Leave, WGoto, Pool!Retire, Pool!Free, Pool!NoTask, NoTask, Inv, Shape
<1>6. ASSUME NEW c \in Clients, NotifyOne(c) \/ \E t \in Tasks : Submit(c, t)
      PROVE  UNCHANGED <<queue, running, stop, left>>
  BY <1>6 DEF NotifyOne, Submit, WGoto, worker, Inv, Shape
<1>7. ASSUME NEW c \in Clients, Push(c)
      PROVE  UNCHANGED <<queue, running, stop, left>> \/ \E t \in Tasks : Pool!Accept(t)
  BY <1>7 DEF Push, worker, Pool!Accept, Inv, Shape
<1>8. ASSUME StoreStop PROVE Pool!Close
  BY <1>8 DEF StoreStop, worker, Pool!Close
<1>9. ASSUME CloserStep PROVE UNCHANGED <<queue, running, stop, left>>
  BY <1>9 DEF CloserStep, NotifyAll, Join, ShutdownReturns, worker, Inv, Shape
<1>10. ASSUME UNCHANGED poolVars PROVE UNCHANGED <<queue, running, stop, left>>
  BY <1>10 DEF poolVars
<1> HIDE DEF left
<1> QED
  BY <1>1, <1>2, <1>3, <1>4, <1>5, <1>6, <1>7, <1>8, <1>9, <1>10
  DEF PoolNext, WorkerStep, ClientStep, Pool!PoolNext

(* The thread pool implements WorkPool: behind the mutex and the condition *)
(* variable, accepted tasks are taken in order and once, and workers leave *)
(* only a closed and drained pool.                                         *)
THEOREM PoolIsWorkPool == PoolSpec => IsWorkPool
<1>1. PoolInit => Pool!PoolInit
  BY DEF PoolInit, Pool!PoolInit, Pool!NoTask, NoTask
<1>2. Inv /\ [PoolNext]_poolVars => [Pool!PoolNext]_Pool!poolVars
  BY StepIsPoolStep
<1> QED BY <1>1, <1>2, InvAlways, PTL DEF PoolSpec, IsWorkPool, Pool!PoolSpec
=============================================================================
