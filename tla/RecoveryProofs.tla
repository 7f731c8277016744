--------------------------- MODULE RecoveryProofs ---------------------------
(***************************************************************************)
(* What a restart makes of the files.  Of Lifetime: rows live no longer    *)
(* than they may, and those that live are not lost.  Of ConcurrentDatabase:*)
(* the files hold what was acknowledged, whenever the process ends.        *)
(***************************************************************************)
EXTENDS Lifetime, ConcurrentProofs, FilterProofs

(* Most leaves are first-order, and Zenon is the quicker on those.         *)
USE ZenonT(5), SMTT(20)

-----------------------------------------------------------------------------
(* Lifetime                                                                *)

Row == [expiry : Nat, valid : {0, 1}, born : Nat]
RowRecord == [lsn : Nat, table : TableNames, born : Nat]

Shape ==
  /\ now \in Nat /\ restarts \in Nat /\ restarted \in Nat
  /\ rows \in [TableNames -> Seq(Row)]
  /\ snapshot \in [TableNames -> Seq(Nat)] /\ wal \in Seq(RowRecord)
  /\ snapLsn \in Nat /\ walLsn \in Nat \ {0}
  /\ caller = [c \in Callers |-> caller[c]] /\ cache = [t \in TableNames |-> cache[t]]
  /\ \A c \in Callers : caller[c].at # "idle" => caller[c].found.table \in TableNames

(* The sweeper has tables to visit only while it sweeps.                   *)
SweepInv == NoSweepAfterStop /\ (spc # "sweep" => todo = {})

(* A row expires in time, counted from its birth or the last restart.      *)
InTime(t, row) ==
  Ttl[t] > 0 =>
    /\ row.expiry > 0
    /\ \/ row.expiry <= row.born + Ttl[t]
       \/ restarts > 0 /\ row.expiry <= restarted + Ttl[t]
RowsInTime == \A t \in TableNames : \A i \in 1..Len(rows[t]) : InTime(t, rows[t][i])

(* What a scan has returned was in time, wherever it has got to.           *)
FoundInTime(a) ==
  a.table # "none" /\ Ttl[a.table] > 0 =>
    \A i \in 1..Len(a.rows) :
      \/ a.time <= a.rows[i] + Ttl[a.table]
      \/ restarts > 0 /\ a.time <= restarted + Ttl[a.table]
AnswersInTime ==
  /\ FoundInTime(answer)
  /\ \A t \in TableNames : FoundInTime(cache[t])
  /\ \A c \in Callers : FoundInTime(caller[c].found)

(* The rows a scan shows are in the snapshot or have a record in the log.  *)
RecordsAt(t, b) == {i \in 1..Len(wal) : wal[i].table = t /\ wal[i].born = b}
InFiles ==
  \A t \in TableNames : \A b \in Nat :
    Shown(t, b) <= Count(snapshot[t], b) + Cardinality(RecordsAt(t, b))

LifeInv == Shape /\ SweepInv /\ RowsInTime /\ AnswersInTime /\ InFiles

-----------------------------------------------------------------------------
(* How a step changes the rows: not at all, by time passing, by a sweep,   *)
(* an INSERT or a restart.                                                 *)
Others == <<caller, cache, files>>
Quiet == UNCHANGED <<now, rows, Others>> /\ answer' = NoAnswer
TickStep == Tick /\ answer' = NoAnswer /\ UNCHANGED Others
SweepStep(u) == SweepTable(u) /\ answer' = NoAnswer /\ UNCHANGED Others
Reading(c) == Invalidate(c) \/ Scan(c) \/ Put(c) \/ \E u \in TableNames : LookUp(c, u)

(* What the steps of the manager, and the other operations, come down to.  *)
LEMMA Cases ==
  ASSUME [LifeNext]_allVars
  PROVE  \/ Quiet \/ TickStep \/ \E u \in TableNames : SweepStep(u)
         \/ \E c \in Callers : Reading(c) \/ \E u \in TableNames : InsertRow(c, u)
         \/ TakeSnapshot \/ Restart
         \/ UNCHANGED allVars
<1>1. CASE ManagerStep /\ answer' = NoAnswer /\ UNCHANGED <<caller, cache, files>>
  BY <1>1 DEF ManagerStep, Register, Unregister, Start, ClearRunning, Stop, NotifyAll, Join,
       Sweeper, TestLoop, TestPredicate, Wait, Timeout, TestAfterWait, EndSweep, SGoto,
       WakeSpuriously, data, Quiet, TickStep, SweepStep, Others
<1>2. CASE \E c \in Callers : CallerStep(c)
  BY <1>2 DEF CallerStep, Reading
<1> QED BY <1>1, <1>2 DEF LifeNext

(* A SELECT, and the end of an INSERT, touch neither the rows nor the      *)
(* files.                                                                  *)
LEMMA ReadingKeeps ==
  ASSUME NEW c, Reading(c)
  PROVE  UNCHANGED <<vars, files>>
  BY DEF Reading, Invalidate, Scan, Put, LookUp

(* An empty sequence, and a new row.                                       *)
LEMMA NewRowType ==
  ASSUME now \in Nat, NEW t \in TableNames, NEW b \in Nat
  PROVE  /\ NewRow(t, b) \in Row /\ NewRow(t, b).born = b
         /\ is_row_valid(NewRow(t, b))
<1>1. Ttl[t] \in Nat
  BY TTLAssumption
<1>2. Expiry(t) \in Nat /\ ~(Expiry(t) > 0 /\ now > Expiry(t))
  BY <1>1 DEF Expiry
<1> QED BY <1>2 DEF NewRow, Row, is_row_valid, Expired

(* What a scan returns.                                                    *)
LEMMA ScanType ==
  ASSUME Shape, NEW t \in TableNames
  PROVE  /\ scan_all(t) \in Seq(Row) /\ Born(scan_all(t)) \in Seq(Nat)
         /\ Len(Born(scan_all(t))) = Len(scan_all(t))
         /\ \A j \in 1..Len(scan_all(t)) :
              /\ Born(scan_all(t))[j] = scan_all(t)[j].born
              /\ \E i \in Visible(t) : scan_all(t)[j] = rows[t][i]
<1>1. rows[t] \in Seq(Row) /\ Visible(t) \in SUBSET (1..Len(rows[t]))
  BY DEF Shape, Visible
<1>2. /\ scan_all(t) \in Seq(Row)
      /\ \A j \in 1..Len(scan_all(t)) : \E i \in Visible(t) : scan_all(t)[j] = rows[t][i]
  BY <1>1, KeptElements DEF scan_all
<1> DEFINE k == scan_all(t)
<1>3. Len(k) \in Nat /\ \A j \in 1..Len(k) : k[j].born \in Nat
  <2>1. \A r \in Row : r.born \in Nat
    BY DEF Row
  <2>2. Len(k) \in Nat /\ \A j \in 1..Len(k) : k[j] \in Row
    <3> HIDE DEF k
    <3>1. k \in Seq(Row)
      BY <1>2 DEF k
    <3> QED BY <3>1
  <2> QED BY <2>1, <2>2
<1>4. Born(k) \in Seq(Nat) /\ Len(Born(k)) = Len(k)
  <2> HIDE DEF k
  <2> QED BY <1>3 DEF Born
<1>5. \A j \in 1..Len(k) : Born(k)[j] = k[j].born
  BY DEF Born
<1> QED BY <1>2, <1>4, <1>5

-----------------------------------------------------------------------------
(* The tables the callers are at.                                          *)
LEMMA CallerShape ==
  ASSUME Shape, NEW c \in Callers, NEW x, caller' = [caller EXCEPT ![c] = x],
         x.at # "idle" => x.found.table \in TableNames
  PROVE  /\ caller' = [d \in Callers |-> caller'[d]]
         /\ \A d \in Callers : caller'[d].at # "idle" => caller'[d].found.table \in TableNames
<1>1. /\ DOMAIN caller = Callers
      /\ \A d \in Callers : caller[d].at # "idle" => caller[d].found.table \in TableNames
  BY DEF Shape
<1>2. caller' = [d \in Callers |-> IF d = c THEN x ELSE caller[d]]
  BY <1>1
<1> QED BY <1>1, <1>2

(* A SELECT, and the end of an INSERT.                                     *)
LEMMA ReadingShape == ASSUME Shape, NEW c \in Callers, Reading(c) PROVE Shape'
<1> DEFINE CallersOk ==
             /\ caller = [d \in Callers |-> caller[d]]
             /\ \A d \in Callers : caller[d].at # "idle" => caller[d].found.table \in TableNames
<1>1. UNCHANGED <<now, restarts, restarted, rows, snapshot, wal, snapLsn, walLsn>>
  BY ReadingKeeps DEF vars, files
<1>2. DOMAIN cache = TableNames
  BY DEF Shape
<1>3. cache' = [t \in TableNames |-> cache'[t]]
  <2>1. CASE cache' = cache
    BY <2>1 DEF Shape
  <2>2. ASSUME NEW x, NEW u, cache' = [cache EXCEPT ![u] = x]
        PROVE  cache' = [t \in TableNames |-> cache'[t]]
    BY <1>2, <2>2
  <2>3. CASE Invalidate(c) \/ Put(c)
    BY <2>2, <2>3 DEF Invalidate, Put
  <2>4. CASE Scan(c) \/ \E u \in TableNames : LookUp(c, u)
    BY <2>1, <2>4 DEF Scan, LookUp
  <2> QED BY <2>3, <2>4 DEF Reading
<1>4. CallersOk'
  <2>1. ASSUME NEW x, caller' = [caller EXCEPT ![c] = x],
               x.at # "idle" => x.found.table \in TableNames
        PROVE  CallersOk'
    BY <2>1, CallerShape
  <2> HIDE DEF CallersOk
  <2>2. Idle.at = "idle"
    BY DEF Idle, At
  <2>3. CASE Invalidate(c) \/ Put(c)
    BY <2>1, <2>2, <2>3 DEF Invalidate, Put
  <2>4. ASSUME NEW u \in TableNames, LookUp(c, u) PROVE CallersOk'
    <3> DEFINE y == At("scan", [NoAnswer EXCEPT !.table = u])
               x == IF cache[u] # NoAnswer THEN Idle ELSE y
    <3>1. y.found.table \in TableNames
      BY DEF At, NoAnswer
    <3>2. caller' = [caller EXCEPT ![c] = x]
      BY <2>4 DEF LookUp
    <3>3. x.at # "idle" => x.found.table \in TableNames
      BY <2>2, <3>1
    <3> HIDE DEF x
    <3> QED BY <2>1, <3>2, <3>3
  <2>5. CASE Scan(c)
    <3> DEFINE u == caller[c].found.table
               x == At("put", [table |-> u, rows |-> Born(scan_all(u)), time |-> now])
    <3>1. caller' = [caller EXCEPT ![c] = x] /\ caller[c].at = "scan"
      BY <2>5 DEF Scan
    <3>2. x.found.table \in TableNames
      BY <3>1 DEF Shape, At
    <3> HIDE DEF x
    <3> QED BY <2>1, <3>1, <3>2
  <2> QED BY <2>3, <2>4, <2>5 DEF Reading
<1> QED BY <1>1, <1>3, <1>4 DEF Shape

(* What recovery inserts.                                                  *)
LEMMA RecoveredType ==
  ASSUME Shape, NEW t \in TableNames
  PROVE  /\ Born(Kept(wal, ToReplay(t))) \in Seq(Nat) /\ Recovered(t) \in Seq(Nat)
         /\ Len(Born(Kept(wal, ToReplay(t)))) = Len(Kept(wal, ToReplay(t)))
         /\ Kept(wal, ToReplay(t)) \in Seq(RowRecord)
         /\ \A j \in 1..Len(Kept(wal, ToReplay(t))) :
              Born(Kept(wal, ToReplay(t)))[j] = Kept(wal, ToReplay(t))[j].born
<1> DEFINE k == Kept(wal, ToReplay(t))
<1>1. k \in Seq(RowRecord)
  <2>1. wal \in Seq(RowRecord) /\ ToReplay(t) \in SUBSET (1..Len(wal))
    BY DEF Shape, ToReplay
  <2> QED BY <2>1, KeptElements
<1>2. \A r \in RowRecord : r.born \in Nat
  BY DEF RowRecord
<1>3. snapshot[t] \in Seq(Nat) /\ Recovered(t) = snapshot[t] \o Born(k)
  BY DEF Shape, Recovered
<1> HIDE DEF k
<1>4. Len(k) \in Nat /\ \A j \in 1..Len(k) : k[j].born \in Nat
  BY <1>1, <1>2
<1>5. Born(k) \in Seq(Nat) /\ Len(Born(k)) = Len(k) /\ \A j \in 1..Len(k) : Born(k)[j] = k[j].born
  BY <1>4 DEF Born
<1>6. Recovered(t) \in Seq(Nat)
  BY <1>3, <1>5
<1> QED BY <1>1, <1>5, <1>6 DEF k

(* Every step leaves the data in its shape.                                *)
LEMMA ShapeStep == ASSUME Shape, [LifeNext]_allVars PROVE Shape'
<1> USE DEF files, Others
<1>1. CASE Quiet
  BY <1>1 DEF Quiet, Shape
<1>2. CASE TickStep
  BY <1>2 DEF TickStep, Tick, Shape
<1>3. ASSUME NEW u \in TableNames, SweepStep(u) PROVE Shape'
  <2> DEFINE r == [i \in 1..Len(rows[u]) |->
                     IF i \in Stale(u) THEN [rows[u][i] EXCEPT !.valid = 0] ELSE rows[u][i]]
  <2>1. rows' = [rows EXCEPT ![u] = r] /\ UNCHANGED <<now, caller, cache, files>>
    BY <1>3 DEF SweepStep, SweepTable, cleanup_expired
  <2>2. rows[u] \in Seq(Row) /\ Len(rows[u]) \in Nat /\ \A i \in 1..Len(rows[u]) : rows[u][i] \in Row
    BY DEF Shape
  <2>3. \A x \in Row : [x EXCEPT !.valid = 0] \in Row
    BY DEF Row
  <2>4. r \in Seq(Row)
    BY <2>2, <2>3
  <2> HIDE DEF r
  <2>5. rows' \in [TableNames -> Seq(Row)]
    BY <2>1, <2>4 DEF Shape
  <2> QED BY <2>1, <2>5 DEF Shape
<1>4. ASSUME NEW c \in Callers, NEW u \in TableNames, InsertRow(c, u) PROVE Shape'
  <2> DEFINE x == At("inserted", [NoAnswer EXCEPT !.table = u])
             w == [lsn |-> walLsn, table |-> u, born |-> now]
  <2>1. /\ rows' = [rows EXCEPT ![u] = Append(@, NewRow(u, now))]
        /\ wal' = Append(wal, w) /\ walLsn' = walLsn + 1
        /\ caller' = [caller EXCEPT ![c] = x]
        /\ UNCHANGED <<now, cache, snapshot, snapLsn, restarts, restarted>>
    BY <1>4 DEF InsertRow, Insert
  <2>2. NewRow(u, now) \in Row
    BY NewRowType DEF Shape
  <2>3. rows' \in [TableNames -> Seq(Row)]
    BY <2>1, <2>2 DEF Shape
  <2>4. w \in RowRecord
    BY DEF Shape, RowRecord
  <2>5. x.found.table \in TableNames
    BY DEF At, NoAnswer
  <2> HIDE DEF x, w
  <2>6. wal' \in Seq(RowRecord) /\ walLsn' \in Nat \ {0}
    BY <2>1, <2>4 DEF Shape
  <2>7. /\ caller' = [d \in Callers |-> caller'[d]]
        /\ \A d \in Callers : caller'[d].at # "idle" => caller'[d].found.table \in TableNames
    BY <2>1, <2>5, CallerShape
  <2> QED BY <2>1, <2>3, <2>6, <2>7 DEF Shape
<1>5. ASSUME NEW c \in Callers, Reading(c) PROVE Shape'
  BY <1>5, ReadingShape
<1>6. CASE TakeSnapshot
  <2>1. /\ snapshot' = [t \in TableNames |-> Born(scan_all(t))]
        /\ wal' = <<>> /\ snapLsn' = walLsn - 1
        /\ UNCHANGED <<now, rows, caller, cache, walLsn, restarts, restarted>>
    BY <1>6 DEF TakeSnapshot, vars
  <2>2. snapshot' \in [TableNames -> Seq(Nat)]
    BY <2>1, ScanType
  <2>3. wal' \in Seq(RowRecord) /\ snapLsn' \in Nat
    BY <2>1 DEF Shape
  <2> QED BY <2>1, <2>2, <2>3 DEF Shape
<1>7. CASE Restart
  <2>1. /\ rows' = [t \in TableNames |->
                [i \in 1..Len(Recovered(t)) |-> NewRow(t, Recovered(t)[i])]]
        /\ cache' = [t \in TableNames |-> NoAnswer] /\ caller' = [c \in Callers |-> Idle]
        /\ walLsn' = FirstLsn /\ restarts' = restarts + 1 /\ restarted' = now
        /\ UNCHANGED <<now, snapshot, snapLsn, wal>>
    BY <1>7 DEF Restart
  <2>2. ASSUME NEW t \in TableNames PROVE rows'[t] \in Seq(Row)
    <3> DEFINE k == Recovered(t)
    <3>1. k \in Seq(Nat) /\ rows'[t] = [i \in 1..Len(k) |-> NewRow(t, k[i])]
      BY <2>1, RecoveredType
    <3> HIDE DEF k
    <3>2. Len(k) \in Nat /\ \A i \in 1..Len(k) : k[i] \in Nat
      BY <3>1
    <3>3. \A i \in 1..Len(k) : NewRow(t, k[i]) \in Row
      BY <3>2, NewRowType DEF Shape
    <3> QED BY <3>1, <3>2, <3>3
  <2>3. rows' \in [TableNames -> Seq(Row)]
    BY <2>1, <2>2
  <2>4. FirstLsn \in Nat \ {0}
    <3>1. CASE wal = <<>>
      BY <3>1 DEF FirstLsn
    <3>2. CASE wal # <<>>
      <4>1. wal \in Seq(RowRecord) /\ Len(wal) \in 1..Len(wal)
        BY <3>2 DEF Shape
      <4>2. wal[Len(wal)] \in RowRecord
        BY <4>1
      <4>3. wal[Len(wal)].lsn \in Nat
        BY <4>2 DEF RowRecord
      <4> QED BY <3>2, <4>3 DEF FirstLsn
    <3> QED BY <3>1, <3>2
  <2>5. /\ cache' = [t \in TableNames |-> cache'[t]] /\ caller' = [c \in Callers |-> caller'[c]]
        /\ \A c \in Callers : caller'[c].at = "idle"
    BY <2>1 DEF Idle, At
  <2>6. now \in Nat /\ restarts' \in Nat
    BY <2>1 DEF Shape
  <2> QED BY <2>1, <2>3, <2>4, <2>5, <2>6 DEF Shape
<1>8. CASE UNCHANGED allVars
  BY <1>8 DEF allVars, vars, lifeVars, Shape
<1> QED BY <1>1, <1>2, <1>3, <1>4, <1>5, <1>6, <1>7, <1>8, Cases

(* start, stop, the sweeper and a restart.                                 *)
LEMMA SweepStepInv == ASSUME SweepInv, [LifeNext]_allVars PROVE SweepInv'
<1> USE DEF SweepInv, NoSweepAfterStop
<1>1. CASE ManagerStep
  <2>1. CASE Start \/ ClearRunning \/ NotifyAll \/ Join
    BY <2>1 DEF Start, ClearRunning, NotifyAll, Join
  <2>2. CASE TestLoop \/ TestPredicate \/ Wait \/ Timeout \/ EndSweep \/ WakeSpuriously
    BY <2>2 DEF TestLoop, TestPredicate, Wait, Timeout, EndSweep, WakeSpuriously, SGoto
  <2>3. CASE TestAfterWait
    BY <2>3 DEF TestAfterWait
  <2>4. ASSUME NEW t \in TableNames, SweepTable(t) PROVE SweepInv'
    BY <2>4 DEF SweepTable
  <2>5. CASE Tick \/ \E t \in TableNames : Register(t) \/ Unregister(t)
    BY <2>5 DEF Tick, Register, Unregister
  <2> QED BY <1>1, <2>1, <2>2, <2>3, <2>4, <2>5 DEF ManagerStep, Sweeper, Stop
<1>2. CASE Restart
  BY <1>2 DEF Restart
<1>3. CASE TakeSnapshot \/ \E c \in Callers : Reading(c) \/ \E t \in TableNames : InsertRow(c, t)
  BY <1>3, ReadingKeeps DEF TakeSnapshot, InsertRow, Insert, vars
<1>4. CASE UNCHANGED allVars
  BY <1>4 DEF allVars, vars
<1> QED BY <1>1, <1>2, <1>3, <1>4 DEF LifeNext, CallerStep, Reading

-----------------------------------------------------------------------------
(* Every row gets its expiry when it is stored, and keeps it.              *)
LEMMA RowsStep == ASSUME Shape, RowsInTime, [LifeNext]_allVars PROVE RowsInTime'
<1> USE DEF files, Others
<1> SUFFICES ASSUME NEW t \in TableNames, NEW i \in 1..Len(rows'[t])
             PROVE  InTime(t, rows[t][i])'
  BY DEF RowsInTime
<1>1. ASSUME UNCHANGED <<restarts, restarted>>, i \in 1..Len(rows[t]),
             rows'[t][i].expiry = rows[t][i].expiry, rows'[t][i].born = rows[t][i].born
      PROVE  InTime(t, rows[t][i])'
  BY <1>1 DEF RowsInTime, InTime
<1>2. CASE rows' = rows /\ UNCHANGED <<restarts, restarted>>
  BY <1>1, <1>2
<1>3. CASE Quiet \/ TickStep \/ TakeSnapshot \/ UNCHANGED allVars \/ \E c \in Callers : Reading(c)
  BY <1>2, <1>3, ReadingKeeps DEF Quiet, TickStep, Tick, TakeSnapshot, vars, allVars, lifeVars
<1>4. ASSUME NEW u \in TableNames, SweepStep(u) PROVE InTime(t, rows[t][i])'
  <2>1. UNCHANGED <<restarts, restarted>>
    BY <1>4 DEF SweepStep
  <2>2. CASE u # t
    <3>1. rows'[t] = rows[t]
      BY <1>4, <2>2 DEF SweepStep, SweepTable, cleanup_expired, Shape
    <3> QED BY <1>1, <2>1, <3>1
  <2>3. CASE u = t
    <3>1. rows'[t] = [k \in 1..Len(rows[t]) |->
                       IF k \in Stale(t) THEN [rows[t][k] EXCEPT !.valid = 0] ELSE rows[t][k]]
      BY <1>4, <2>3 DEF SweepStep, SweepTable, cleanup_expired, Shape
    <3>2. rows[t] \in Seq(Row) /\ Len(rows[t]) \in Nat
      BY DEF Shape
    <3>3. Len(rows'[t]) = Len(rows[t])
      BY <3>1, <3>2
    <3>4. rows[t][i] \in Row
      BY <3>2, <3>3
    <3>5. /\ rows'[t][i].expiry = rows[t][i].expiry
          /\ rows'[t][i].born = rows[t][i].born
      BY <3>1, <3>3, <3>4 DEF Row
    <3> QED BY <1>1, <2>1, <3>3, <3>5
  <2> QED BY <2>2, <2>3
<1>5. ASSUME NEW c \in Callers, NEW u \in TableNames, InsertRow(c, u) PROVE InTime(t, rows[t][i])'
  <2>1. UNCHANGED <<restarts, restarted>> /\ rows[t] \in Seq(Row)
        /\ rows' = [rows EXCEPT ![u] = Append(@, NewRow(u, now))] /\ now \in Nat /\ Ttl[t] \in Nat
    BY <1>5, TTLAssumption DEF InsertRow, Insert, Shape
  <2>2. CASE i \in 1..Len(rows[t])
    <3>1. rows'[t][i] = rows[t][i]
      BY <2>1, <2>2 DEF Shape
    <3> QED BY <1>1, <2>1, <2>2, <3>1
  <2>3. CASE i \notin 1..Len(rows[t])
    <3>1. CASE t # u
      <4>1. rows'[t] = rows[t]
        BY <2>1, <3>1 DEF Shape
      <4> QED BY <2>3, <4>1
    <3>2. CASE t = u
      <4>1. rows'[t] = Append(rows[t], NewRow(t, now)) /\ Len(rows[t]) \in Nat
        BY <2>1, <3>2 DEF Shape
      <4>2. rows'[t][i] = NewRow(t, now)
        BY <2>3, <4>1
      <4> QED BY <2>1, <4>2 DEF InTime, NewRow, Expiry
    <3> QED BY <3>1, <3>2
  <2> QED BY <2>2, <2>3
<1>6. CASE Restart
  <2>1. /\ rows'[t] = [k \in 1..Len(Recovered(t)) |-> NewRow(t, Recovered(t)[k])]
        /\ restarts' = restarts + 1 /\ restarted' = now /\ restarts \in Nat /\ now \in Nat
        /\ Ttl[t] \in Nat
    BY <1>6, TTLAssumption DEF Restart, Shape
  <2>2. Recovered(t) \in Seq(Nat) /\ Len(Recovered(t)) \in Nat
    BY RecoveredType
  <2>3. rows'[t][i] = NewRow(t, Recovered(t)[i])
    BY <2>1, <2>2
  <2> QED BY <2>1, <2>3 DEF InTime, NewRow, Expiry
<1> QED BY <1>3, <1>4, <1>5, <1>6, Cases

(* An answer is in time when it is read, and is kept as it is.             *)
LEMMA AnswersStep ==
  ASSUME Shape, RowsInTime, AnswersInTime, [LifeNext]_allVars
  PROVE  AnswersInTime'
<1> USE DEF files, Others
<1>1. /\ DOMAIN cache = TableNames /\ DOMAIN caller = Callers
      /\ FoundInTime(answer) /\ FoundInTime(NoAnswer) /\ FoundInTime(NoAnswer)'
      /\ \A t \in TableNames : FoundInTime(cache[t])
      /\ \A c \in Callers : FoundInTime(caller[c].found)
  BY DEF Shape, AnswersInTime, FoundInTime, NoAnswer
<1>2. CASE UNCHANGED <<restarts, restarted>>
  <2>1. \A a : FoundInTime(a)' <=> FoundInTime(a)
    BY <1>2 DEF FoundInTime
  <2>2. ASSUME answer' = answer \/ answer' = NoAnswer, UNCHANGED <<caller, cache>>
        PROVE  AnswersInTime'
    BY <1>1, <2>1, <2>2 DEF AnswersInTime
  <2>3. ASSUME NEW c \in Callers, NEW x, caller' = [caller EXCEPT ![c] = x], FoundInTime(x.found)
        PROVE  \A d \in Callers : FoundInTime(caller'[d].found)
    BY <1>1, <2>3
  <2>4. ASSUME NEW u, NEW x, cache' = [cache EXCEPT ![u] = x], FoundInTime(x)
        PROVE  \A t \in TableNames : FoundInTime(cache'[t])
    BY <1>1, <2>4
  <2>5. ASSUME FoundInTime(answer'), \A t \in TableNames : FoundInTime(cache'[t]),
               \A d \in Callers : FoundInTime(caller'[d].found)
        PROVE  AnswersInTime'
    BY <2>1, <2>5 DEF AnswersInTime
  <2>6. FoundInTime(Idle.found) /\ \A l, u : FoundInTime(At(l, [NoAnswer EXCEPT !.table = u]).found)
    BY DEF FoundInTime, Idle, At, NoAnswer
  <2>7. ASSUME NEW c \in Callers, NEW u \in TableNames, InsertRow(c, u) PROVE AnswersInTime'
    BY <1>1, <2>3, <2>5, <2>6, <2>7 DEF InsertRow
  <2>8. ASSUME NEW c \in Callers, Invalidate(c) PROVE AnswersInTime'
    BY <1>1, <2>3, <2>4, <2>5, <2>6, <2>8 DEF Invalidate
  <2>9. ASSUME NEW c \in Callers, NEW u \in TableNames, LookUp(c, u) PROVE AnswersInTime'
    <3>1. FoundInTime(answer') /\ \A t \in TableNames : FoundInTime(cache'[t])
      BY <1>1, <2>9 DEF LookUp
    <3>2. \A d \in Callers : FoundInTime(caller'[d].found)
      <4>1. CASE cache[u] # NoAnswer
        BY <2>3, <2>6, <2>9, <4>1 DEF LookUp
      <4>2. CASE ~(cache[u] # NoAnswer)
        BY <2>3, <2>6, <2>9, <4>2 DEF LookUp
      <4> QED BY <4>1, <4>2
    <3> QED BY <2>5, <3>1, <3>2
  <2>10. ASSUME NEW c \in Callers, Put(c) PROVE AnswersInTime'
    BY <1>1, <2>3, <2>4, <2>5, <2>6, <2>10 DEF Put
  <2>11. ASSUME NEW c \in Callers, Scan(c) PROVE AnswersInTime'
    <3> DEFINE u == caller[c].found.table
               a == [table |-> u, rows |-> Born(scan_all(u)), time |-> now]
    <3>1. caller' = [caller EXCEPT ![c] = At("put", a)] /\ answer' = NoAnswer /\ cache' = cache
      BY <2>11 DEF Scan
    <3>2. u \in TableNames
      BY <2>11 DEF Scan, Shape
    <3>3. FoundInTime(a)
      <4> SUFFICES ASSUME Ttl[u] > 0, NEW j \in 1..Len(Born(scan_all(u)))
                   PROVE  \/ now <= Born(scan_all(u))[j] + Ttl[u]
                          \/ restarts > 0 /\ now <= restarted + Ttl[u]
        BY DEF FoundInTime
      <4> HIDE DEF u
      <4>1. PICK i \in Visible(u) : Born(scan_all(u))[j] = rows[u][i].born
        BY <3>2, ScanType
      <4>2. i \in 1..Len(rows[u]) /\ is_row_valid(rows[u][i])
        BY DEF Visible
      <4>3. rows[u][i] \in Row
        BY <3>2, <4>2 DEF Shape
      <4>4. /\ rows[u][i].expiry \in Nat /\ rows[u][i].born \in Nat /\ now \in Nat
            /\ Ttl[u] \in Nat /\ restarted \in Nat
        BY <3>2, <4>3, TTLAssumption DEF Row, Shape
      <4>5. InTime(u, rows[u][i])
        BY <3>2, <4>2 DEF RowsInTime
      <4>6. rows[u][i].expiry > 0 /\ ~(now > rows[u][i].expiry)
        BY <4>2, <4>5 DEF InTime, is_row_valid, Expired
      <4> QED BY <4>1, <4>4, <4>5, <4>6 DEF InTime
    <3>4. At("put", a).found = a
      BY DEF At
    <3> HIDE DEF a
    <3>5. \A d \in Callers : FoundInTime(caller'[d].found)
      BY <2>3, <3>1, <3>3, <3>4
    <3> QED BY <1>1, <2>5, <3>1, <3>5
  <2>12. CASE Quiet \/ TickStep \/ TakeSnapshot \/ UNCHANGED allVars
                \/ \E u \in TableNames : SweepStep(u)
    BY <2>2, <2>12 DEF Quiet, TickStep, TakeSnapshot, SweepStep, allVars, lifeVars
  <2>13. ASSUME NEW c \in Callers, Reading(c) PROVE AnswersInTime'
    BY <2>8, <2>9, <2>10, <2>11, <2>13 DEF Reading
  <2>14. CASE Restart
    <3>1. restarts' = restarts + 1 /\ restarts \in Nat
      BY <2>14 DEF Restart, Shape
    <3> QED BY <1>2, <3>1
  <2> QED BY <2>7, <2>12, <2>13, <2>14, Cases
<1>3. CASE Restart
  BY <1>1, <1>3 DEF Restart, AnswersInTime, Idle, At
<1>4. CASE Quiet \/ TickStep \/ TakeSnapshot \/ UNCHANGED allVars
             \/ \E u \in TableNames : SweepStep(u)
  BY <1>2, <1>4 DEF Quiet, TickStep, TakeSnapshot, SweepStep, allVars, lifeVars
<1>5. CASE \E c \in Callers : Reading(c) \/ \E u \in TableNames : InsertRow(c, u)
  BY <1>2, <1>5, ReadingKeeps DEF InsertRow
<1> QED BY <1>3, <1>4, <1>5, Cases

-----------------------------------------------------------------------------
(* The rows born at b that a scan of t shows.                              *)
ShownAt(t, b) == {i \in Visible(t) : rows[t][i].born = b}

(* There are finitely many, before and after a step.                       *)
LEMMA ShownFinite ==
  ASSUME Shape, NEW t \in TableNames, NEW b
  PROVE  IsFiniteSet(ShownAt(t, b)) /\ Shown(t, b) \in Nat
<1>1. Len(rows[t]) \in Nat
  BY DEF Shape
<1>2. IsFiniteSet(1..Len(rows[t]))
  BY <1>1, FS_Interval
<1>3. ShownAt(t, b) \in SUBSET (1..Len(rows[t]))
  BY DEF ShownAt, Visible
<1>4. IsFiniteSet(ShownAt(t, b))
  BY <1>2, <1>3, FS_Subset
<1> QED BY <1>4, FS_CardinalityType DEF Shown, ShownAt

(* A step that leaves the rows, or makes some invisible.                   *)
LEMMA ShownFewer ==
  ASSUME Shape, NEW t \in TableNames, NEW b,
         \A i \in Visible(t)' : i \in Visible(t) /\ rows'[t][i].born = rows[t][i].born
  PROVE  Shown(t, b)' <= Shown(t, b) /\ Shown(t, b)' \in Nat
<1>1. ShownAt(t, b)' \in SUBSET ShownAt(t, b)
  BY DEF ShownAt
<1>2. IsFiniteSet(ShownAt(t, b))
  BY ShownFinite
<1>3. Cardinality(ShownAt(t, b)') <= Cardinality(ShownAt(t, b)) /\ IsFiniteSet(ShownAt(t, b)')
  BY <1>1, <1>2, FS_Subset
<1>4. Cardinality(ShownAt(t, b)') \in Nat
  BY <1>3, FS_CardinalityType
<1> QED BY <1>3, <1>4 DEF Shown, ShownAt

(* Time only makes rows invisible.                                         *)
LEMMA TickVisible ==
  ASSUME Shape, Tick, NEW t \in TableNames
  PROVE  \A i \in Visible(t)' : i \in Visible(t) /\ rows'[t][i].born = rows[t][i].born
<1>1. rows' = rows /\ now' = now + 1
  BY DEF Tick
<1>2. ASSUME NEW i \in 1..Len(rows[t]), ~Expired(rows[t][i])' PROVE ~Expired(rows[t][i])
  <2>1. rows[t][i] \in Row
    BY DEF Shape
  <2>2. rows[t][i].expiry \in Nat /\ now \in Nat
    BY <2>1 DEF Row, Shape
  <2> QED BY <1>1, <1>2, <2>2 DEF Expired
<1> QED BY <1>1, <1>2 DEF Visible, is_row_valid

(* A sweep makes none invisible that was visible.                          *)
LEMMA SweepShown ==
  ASSUME Shape, NEW u \in TableNames, SweepTable(u), NEW t \in TableNames, NEW b
  PROVE  Shown(t, b)' = Shown(t, b)
<1>1. now' = now
  BY DEF SweepTable
<1>2. rows[t] \in Seq(Row) /\ Len(rows[t]) \in Nat /\ DOMAIN rows = TableNames
  BY DEF Shape
<1>3. Len(rows'[t]) = Len(rows[t]) /\ \A i \in 1..Len(rows[t]) :
        rows'[t][i] = IF t = u /\ i \in Stale(t) THEN [rows[t][i] EXCEPT !.valid = 0]
                      ELSE rows[t][i]
  <2>1. CASE t = u
    <3>1. rows'[t] = [k \in 1..Len(rows[t]) |->
                       IF k \in Stale(t) THEN [rows[t][k] EXCEPT !.valid = 0] ELSE rows[t][k]]
      BY <1>2, <2>1 DEF SweepTable, cleanup_expired
    <3> QED BY <1>2, <2>1, <3>1
  <2>2. CASE t # u
    BY <1>2, <2>2 DEF SweepTable, cleanup_expired
  <2> QED BY <2>1, <2>2
<1>4. ASSUME NEW i \in 1..Len(rows[t])
      PROVE  /\ is_row_valid(rows[t][i])' <=> is_row_valid(rows[t][i])
             /\ rows'[t][i].born = rows[t][i].born
  <2>1. rows[t][i] \in Row
    BY <1>2
  <2>2. CASE t = u /\ i \in Stale(t)
    <3>1. rows'[t][i].valid = 0 /\ rows'[t][i].born = rows[t][i].born /\ Expired(rows[t][i])
      BY <1>3, <2>1, <2>2 DEF Row, Stale
    <3> QED BY <3>1 DEF is_row_valid
  <2>3. CASE ~(t = u /\ i \in Stale(t))
    BY <1>1, <1>3, <2>3 DEF is_row_valid, Expired
  <2> QED BY <2>2, <2>3
<1>5. ShownAt(t, b)' = ShownAt(t, b)
  BY <1>3, <1>4 DEF ShownAt, Visible
<1> QED BY <1>5 DEF Shown, ShownAt

(* An INSERT shows one row more.                                           *)
LEMMA InsertShown ==
  ASSUME Shape, NEW u \in TableNames, Insert(u), NEW t \in TableNames, NEW b
  PROVE  Shown(t, b)' = IF t = u /\ b = now THEN Shown(t, b) + 1 ELSE Shown(t, b)
<1>1. now' = now /\ rows' = [rows EXCEPT ![u] = Append(@, NewRow(u, now))]
  BY DEF Insert
<1>2. rows[t] \in Seq(Row) /\ Len(rows[t]) \in Nat /\ DOMAIN rows = TableNames /\ now \in Nat
  BY DEF Shape
<1>3. CASE t # u
  <2>1. rows'[t] = rows[t]
    BY <1>1, <1>2, <1>3
  <2>2. ShownAt(t, b)' = ShownAt(t, b)
    BY <1>1, <2>1 DEF ShownAt, Visible, is_row_valid, Expired
  <2> QED BY <1>3, <2>2 DEF Shown, ShownAt
<1>4. CASE t = u
  <2> DEFINE n == Len(rows[t]) + 1
             r == NewRow(t, now)
  <2>1. r \in Row /\ r.born = now /\ is_row_valid(r)
    BY <1>2, NewRowType
  <2>2. rows'[t] = Append(rows[t], r)
    BY <1>1, <1>2, <1>4
  <2>3. /\ Len(rows'[t]) = n /\ rows'[t][n] = r
        /\ \A i \in 1..Len(rows[t]) : rows'[t][i] = rows[t][i]
    BY <1>2, <2>1, <2>2
  <2>4. n \notin ShownAt(t, b)
    BY <1>2 DEF ShownAt, Visible
  <2>5. \A i : i \in 1..Len(rows'[t]) <=> i \in 1..Len(rows[t]) \/ i = n
    BY <1>2, <2>3
  <2>6. \A x : is_row_valid(x)' <=> is_row_valid(x)
    BY <1>1 DEF is_row_valid, Expired
  <2> HIDE DEF n, r
  <2>7. ASSUME NEW i
        PROVE  i \in ShownAt(t, b)' <=> i \in ShownAt(t, b) \/ (i = n /\ b = now)
    BY <2>1, <2>3, <2>5, <2>6 DEF ShownAt, Visible
  <2>8. ShownAt(t, b)' = IF b = now THEN ShownAt(t, b) \union {n} ELSE ShownAt(t, b)
    <3>1. CASE b = now
      BY <2>7, <3>1
    <3>2. CASE b # now
      BY <2>7, <3>2
    <3> QED BY <3>1, <3>2
  <2>9. Cardinality(ShownAt(t, b)') =
          IF b = now THEN Cardinality(ShownAt(t, b)) + 1 ELSE Cardinality(ShownAt(t, b))
    BY <2>4, <2>8, ShownFinite, FS_AddElement
  <2> QED BY <1>4, <2>9 DEF Shown, ShownAt
<1> QED BY <1>3, <1>4

(* A restart shows what the files hold.                                    *)
LEMMA RestartShown ==
  ASSUME Shape, Restart, NEW t \in TableNames, NEW b
  PROVE  Shown(t, b)' = Count(Recovered(t), b)
<1> DEFINE k == Recovered(t)
<1>1. /\ k \in Seq(Nat) /\ Len(k) \in Nat /\ \A i \in 1..Len(k) : k[i] \in Nat
  <2>1. k \in Seq(Nat)
    BY RecoveredType
  <2> HIDE DEF k
  <2> QED BY <2>1
<1>2. rows'[t] = [i \in 1..Len(k) |-> NewRow(t, k[i])] /\ now' = now /\ now \in Nat
  BY DEF Restart, Shape
<1> HIDE DEF k
<1>3. Len(rows'[t]) = Len(k) /\ \A i \in 1..Len(k) : rows'[t][i] = NewRow(t, k[i])
  BY <1>1, <1>2
<1>4. \A i \in 1..Len(k) : rows'[t][i].born = k[i] /\ is_row_valid(rows'[t][i])
  BY <1>1, <1>2, <1>3, NewRowType
<1>5. \A x : is_row_valid(x)' <=> is_row_valid(x)
  BY <1>2 DEF is_row_valid, Expired
<1>6. ShownAt(t, b)' = {i \in 1..Len(k) : k[i] = b}
  BY <1>3, <1>4, <1>5 DEF ShownAt, Visible
<1> QED BY <1>6 DEF Shown, ShownAt, Count, k

(* A scan returns what is shown.                                           *)
LEMMA ScanShown ==
  ASSUME Shape, NEW t \in TableNames, NEW b
  PROVE  Count(Born(scan_all(t)), b) = Shown(t, b)
<1> DEFINE W == {r \in Row : r.born = b}
           k == scan_all(t)
<1>1. rows[t] \in Seq(Row) /\ Visible(t) \in SUBSET (1..Len(rows[t]))
  BY DEF Shape, Visible
<1>2. Cardinality(Hits(k, 1..Len(k), W)) = Cardinality(Hits(rows[t], Visible(t), W))
  <2> HIDE DEF W
  <2> QED BY <1>1, KeptCount DEF scan_all
<1>3. Hits(rows[t], Visible(t), W) = ShownAt(t, b)
  <2>1. \A i \in Visible(t) : rows[t][i] \in Row
    BY <1>1
  <2> QED BY <2>1 DEF ShownAt, Hits
<1>4. Hits(k, 1..Len(k), W) = {j \in 1..Len(Born(k)) : Born(k)[j] = b}
  <2>1. /\ k \in Seq(Row) /\ Len(Born(k)) = Len(k)
        /\ \A j \in 1..Len(k) : Born(k)[j] = k[j].born
    BY ScanType
  <2> HIDE DEF k
  <2>2. \A j \in 1..Len(k) : k[j] \in Row
    BY <2>1
  <2> QED BY <2>1, <2>2 DEF Hits
<1> HIDE DEF W, k
<1> QED BY <1>2, <1>3, <1>4 DEF Shown, ShownAt, Count, k

-----------------------------------------------------------------------------
(* A step that leaves the rows and the clock alone shows the same rows.    *)
LEMMA SameShown ==
  ASSUME UNCHANGED <<now, rows>>, NEW t, NEW b
  PROVE  Shown(t, b)' = Shown(t, b)
  BY DEF Shown, Visible, is_row_valid, Expired

(* The records of an empty log, of an unchanged one, and of a longer one.  *)
LEMMA RecordsFinite ==
  ASSUME Shape, NEW t, NEW b
  PROVE  /\ IsFiniteSet(RecordsAt(t, b)) /\ Cardinality(RecordsAt(t, b)) \in Nat
<1>1. Len(wal) \in Nat
  BY DEF Shape
<1>2. IsFiniteSet(1..Len(wal))
  BY <1>1, FS_Interval
<1>3. RecordsAt(t, b) \in SUBSET (1..Len(wal))
  BY DEF RecordsAt
<1>4. IsFiniteSet(RecordsAt(t, b))
  BY <1>2, <1>3, FS_Subset
<1> QED BY <1>4, FS_CardinalityType

(* An INSERT adds one record.                                              *)
LEMMA InsertRecords ==
  ASSUME Shape, NEW c \in Callers, NEW u \in TableNames, InsertRow(c, u), NEW t, NEW b
  PROVE  Cardinality(RecordsAt(t, b))' =
           IF t = u /\ b = now THEN Cardinality(RecordsAt(t, b)) + 1 ELSE Cardinality(RecordsAt(t, b))
<1> DEFINE w == [lsn |-> walLsn, table |-> u, born |-> now]
           n == Len(wal) + 1
<1>1. wal' = Append(wal, w) /\ w \in RowRecord /\ w.table = u /\ w.born = now
  BY DEF InsertRow, Shape, RowRecord
<1>2. wal \in Seq(RowRecord) /\ Len(wal) \in Nat
  BY DEF Shape
<1> HIDE DEF w
<1>3. /\ Len(wal') = n /\ wal'[n] = w
      /\ \A i \in 1..Len(wal) : wal'[i] = wal[i]
  BY <1>1, <1>2
<1>4. n \notin RecordsAt(t, b) /\ \A i : i \in 1..n <=> i \in 1..Len(wal) \/ i = n
  BY <1>2 DEF RecordsAt
<1> HIDE DEF n
<1>5. \A i : i \in RecordsAt(t, b)' <=> i \in RecordsAt(t, b) \/ (i = n /\ t = u /\ b = now)
  BY <1>1, <1>3, <1>4 DEF RecordsAt
<1>6. CASE t = u /\ b = now
  <2>1. RecordsAt(t, b)' = RecordsAt(t, b) \union {n}
    BY <1>5, <1>6
  <2>2. Cardinality(RecordsAt(t, b)') = Cardinality(RecordsAt(t, b)) + 1
    BY <1>4, <2>1, RecordsFinite, FS_AddElement
  <2> QED BY <1>6, <2>2
<1>7. CASE ~(t = u /\ b = now)
  <2>1. RecordsAt(t, b)' = RecordsAt(t, b)
    BY <1>5, <1>7
  <2> QED BY <1>7, <2>1
<1> QED BY <1>6, <1>7

(* Occurrences in a concatenation.                                         *)
LEMMA JoinedCount ==
  ASSUME NEW S, NEW x \in Seq(S), NEW y \in Seq(S), NEW b
  PROVE  Count(x \o y, b) = Count(x, b) + Count(y, b)
<1> DEFINE m == Len(x)
           n == Len(y)
           z == x \o y
           A == {i \in 1..m : x[i] = b}
           B == {j \in 1..n : y[j] = b}
           C == {m + j : j \in B}
           f == [j \in B |-> m + j]
<1>1. /\ m \in Nat /\ n \in Nat /\ Len(z) = m + n
      /\ (\A i \in 1..m : z[i] = x[i]) /\ (\A j \in 1..n : z[m + j] = y[j])
  BY Joined
<1> HIDE DEF m, n, z
<1>2. IsFiniteSet(1..m) /\ IsFiniteSet(1..n)
  <2>1. 1 \in Int /\ m \in Int /\ n \in Int
    BY <1>1
  <2>2. IsFiniteSet(1..m)
    BY <2>1, FS_Interval, Zenon
  <2>3. IsFiniteSet(1..n)
    BY <2>1, FS_Interval, Zenon
  <2> QED BY <2>2, <2>3
<1>3. IsFiniteSet(A) /\ IsFiniteSet(B)
  <2>1. A \subseteq 1..m /\ B \subseteq 1..n
    OBVIOUS
  <2>2. IsFiniteSet(A)
    BY <1>2, <2>1, FS_Subset, Zenon
  <2>3. IsFiniteSet(B)
    BY <1>2, <2>1, FS_Subset, Zenon
  <2> QED BY <2>2, <2>3
<1>4. f \in Bijection(B, C)
  <2>1. \A i, j \in B : m + i = m + j => i = j
    BY <1>1
  <2>2. f \in [B -> C] /\ (\A i, j \in B : f[i] = f[j] => i = j) /\ \A k \in C : \E j \in B : f[j] = k
    BY <2>1
  <2> HIDE DEF f, B, C
  <2> QED BY <2>2 DEF Bijection, Injection, Surjection, IsInjective
<1>5. IsFiniteSet(C) /\ Cardinality(C) = Cardinality(B)
  <2>1. ExistsBijection(B, C)
    BY <1>4 DEF ExistsBijection
  <2> HIDE DEF B, C
  <2> QED BY <1>3, <2>1, FS_Bijection
<1>6. A \cap C = {}
  BY <1>1
<1>7. {i \in 1..Len(z) : z[i] = b} = A \union C
  <2>1. ASSUME NEW i \in 1..Len(z), z[i] = b PROVE i \in A \union C
    <3>1. CASE i <= m
      BY <1>1, <2>1, <3>1
    <3>2. CASE ~(i <= m)
      <4>1. i - m \in 1..n /\ m + (i - m) = i
        BY <1>1, <3>2
      <4>2. y[i - m] = b
        BY <1>1, <2>1, <4>1
      <4> QED BY <4>1, <4>2
    <3> QED BY <3>1, <3>2
  <2>2. A \subseteq {i \in 1..Len(z) : z[i] = b}
    BY <1>1
  <2>3. ASSUME NEW j \in B PROVE m + j \in 1..Len(z) /\ z[m + j] = b
    BY <1>1
  <2> QED BY <2>1, <2>2, <2>3
<1> HIDE DEF C, A, B
<1>8. Cardinality(A \union C) = Cardinality(A) + Cardinality(C) - Cardinality({})
  BY <1>3, <1>5, <1>6, FS_Union
<1>9. Cardinality(A) \in Nat /\ Cardinality(C) \in Nat /\ Cardinality({}) = 0
  BY <1>3, <1>5, FS_CardinalityType, FS_EmptySet
<1>10. Cardinality(A \union C) = Cardinality(A) + Cardinality(B)
  BY <1>5, <1>8, <1>9
<1> QED BY <1>7, <1>10 DEF Count, A, B, m, n, z

(* The positions of the records that recovery skips.                       *)
HiddenAt(t, b) ==
  {i \in 1..Len(wal) : wal[i].table = t /\ wal[i].born = b /\ wal[i].lsn <= snapLsn}

(* What recovery finds: the snapshot, and the log but for what it skips.   *)
LEMMA RecoveredCount ==
  ASSUME Shape, NEW t \in TableNames, NEW b \in Nat
  PROVE  /\ Count(Recovered(t), b) + Hidden(t, b)
              = Count(snapshot[t], b) + Cardinality(RecordsAt(t, b))
         /\ Count(Recovered(t), b) \in Nat /\ Hidden(t, b) \in Nat
<1> DEFINE k == Kept(wal, ToReplay(t))
           W == {r \in RowRecord : r.born = b}
           R == {i \in ToReplay(t) : wal[i].born = b}
<1>1. wal \in Seq(RowRecord) /\ ToReplay(t) \in SUBSET (1..Len(wal)) /\ snapLsn \in Nat
  BY DEF Shape, ToReplay
<1>2. Cardinality(Hits(k, 1..Len(k), W)) = Cardinality(Hits(wal, ToReplay(t), W))
  <2> HIDE DEF W
  <2> QED BY <1>1, KeptCount
<1>3. Hits(wal, ToReplay(t), W) = R
  <2>1. \A i \in ToReplay(t) : wal[i] \in RowRecord
    BY <1>1
  <2> QED BY <2>1 DEF Hits
<1>4. Hits(k, 1..Len(k), W) = {j \in 1..Len(Born(k)) : Born(k)[j] = b}
  <2>1. /\ k \in Seq(RowRecord) /\ Len(Born(k)) = Len(k)
        /\ \A j \in 1..Len(k) : Born(k)[j] = k[j].born
    BY RecoveredType
  <2> HIDE DEF k
  <2>2. \A j \in 1..Len(k) : k[j] \in RowRecord
    BY <2>1
  <2> QED BY <2>1, <2>2 DEF Hits
<1>5. Count(Born(k), b) = Cardinality(R)
  <2> HIDE DEF W, k, R
  <2> QED BY <1>2, <1>3, <1>4 DEF Count
<1>6. /\ R \in SUBSET RecordsAt(t, b) /\ HiddenAt(t, b) \in SUBSET RecordsAt(t, b)
      /\ R \union HiddenAt(t, b) = RecordsAt(t, b) /\ R \cap HiddenAt(t, b) = {}
  <2>1. \A i \in 1..Len(wal) : wal[i].lsn \in Nat
    <3>1. \A r \in RowRecord : r.lsn \in Nat
      BY DEF RowRecord
    <3> QED BY <1>1, <3>1
  <2>2. \A i \in 1..Len(wal) : wal[i].lsn > snapLsn <=> ~(wal[i].lsn <= snapLsn)
    BY <1>1, <2>1
  <2> QED BY <2>2 DEF RecordsAt, HiddenAt, ToReplay
<1> HIDE DEF R
<1>7. IsFiniteSet(R) /\ IsFiniteSet(HiddenAt(t, b))
  BY <1>6, RecordsFinite, FS_Subset
<1>8. Cardinality(RecordsAt(t, b)) = Cardinality(R) + Cardinality(HiddenAt(t, b)) - Cardinality({})
  BY <1>6, <1>7, FS_Union
<1>9. Cardinality(R) \in Nat /\ Cardinality(HiddenAt(t, b)) \in Nat /\ Cardinality({}) = 0
  BY <1>7, FS_CardinalityType, FS_EmptySet
<1>10. Hidden(t, b) = Cardinality(HiddenAt(t, b))
  BY DEF Hidden, HiddenAt
<1>11. snapshot[t] \in Seq(Nat) /\ Born(k) \in Seq(Nat) /\ Recovered(t) = snapshot[t] \o Born(k)
  BY RecoveredType DEF Shape, Recovered
<1> HIDE DEF k
<1>12. Count(Recovered(t), b) = Count(snapshot[t], b) + Count(Born(k), b)
  BY <1>11, JoinedCount
<1>13. Count(snapshot[t], b) \in Nat
  BY <1>11, AppendCount
<1> QED BY <1>5, <1>8, <1>9, <1>10, <1>12, <1>13

(* The files: an INSERT is logged before it is stored, a snapshot holds    *)
(* what is shown, and a restart shows what they hold.                      *)
LEMMA InFilesStep == ASSUME Shape, InFiles, [LifeNext]_allVars PROVE InFiles'
<1> USE DEF files, Others
<1> DEFINE Held(t, b) == Count(snapshot[t], b) + Cardinality(RecordsAt(t, b))
<1> SUFFICES ASSUME NEW t \in TableNames, NEW b \in Nat
             PROVE  Shown(t, b)' <= Held(t, b)'
  BY DEF InFiles
<1>1. Shown(t, b) <= Held(t, b) /\ Shown(t, b) \in Nat
  BY ShownFinite DEF InFiles
<1>2. Count(snapshot[t], b) \in Nat /\ Cardinality(RecordsAt(t, b)) \in Nat
  <2>1. snapshot[t] \in Seq(Nat)
    BY DEF Shape
  <2> QED BY <2>1, AppendCount, RecordsFinite
<1>3. Held(t, b) \in Nat
  BY <1>2
<1>4. ASSUME UNCHANGED <<snapshot, wal>>, Shown(t, b)' <= Shown(t, b), Shown(t, b)' \in Nat
      PROVE  Shown(t, b)' <= Held(t, b)'
  <2>1. Held(t, b)' = Held(t, b)
    BY <1>4 DEF RecordsAt, Count
  <2> HIDE DEF Held
  <2> QED BY <1>1, <1>3, <1>4, <2>1
<1>5. CASE Quiet \/ UNCHANGED allVars \/ \E c \in Callers : Reading(c)
  <2>1. UNCHANGED <<now, rows, snapshot, wal>>
    BY <1>5, ReadingKeeps DEF Quiet, allVars, lifeVars, vars
  <2>2. Shown(t, b)' = Shown(t, b)
    BY <2>1, SameShown
  <2> HIDE DEF Held
  <2> QED BY <1>1, <1>4, <2>1, <2>2
<1>6. CASE TickStep
  <2>1. Shown(t, b)' <= Shown(t, b) /\ Shown(t, b)' \in Nat
    BY <1>6, TickVisible, ShownFewer DEF TickStep
  <2> HIDE DEF Held
  <2> QED BY <1>4, <1>6, <2>1 DEF TickStep
<1>7. ASSUME NEW u \in TableNames, SweepStep(u) PROVE Shown(t, b)' <= Held(t, b)'
  <2>1. Shown(t, b)' = Shown(t, b)
    BY <1>7, SweepShown DEF SweepStep
  <2> HIDE DEF Held
  <2> QED BY <1>1, <1>4, <1>7, <2>1 DEF SweepStep
<1>8. ASSUME NEW c \in Callers, NEW u \in TableNames, InsertRow(c, u)
      PROVE  Shown(t, b)' <= Held(t, b)'
  <2>1. Shown(t, b)' = IF t = u /\ b = now THEN Shown(t, b) + 1 ELSE Shown(t, b)
    BY <1>8, InsertShown DEF InsertRow
  <2>2. Cardinality(RecordsAt(t, b))' =
          IF t = u /\ b = now THEN Cardinality(RecordsAt(t, b)) + 1 ELSE Cardinality(RecordsAt(t, b))
    BY <1>8, InsertRecords
  <2>3. Count(snapshot[t], b)' = Count(snapshot[t], b)
    BY <1>8 DEF InsertRow, Count
  <2>4. PICK s, l, n : s = Shown(t, b) /\ l = Cardinality(RecordsAt(t, b)) /\ n = Count(snapshot[t], b)
    OBVIOUS
  <2>5. s \in Nat /\ l \in Nat /\ n \in Nat /\ s <= n + l
    BY <1>1, <1>2, <2>4
  <2>6. CASE t = u /\ b = now
    <3>1. Shown(t, b)' = s + 1 /\ Held(t, b)' = n + (l + 1)
      BY <2>1, <2>2, <2>3, <2>4, <2>6
    <3> HIDE DEF Held
    <3> QED BY <2>5, <3>1
  <2>7. CASE ~(t = u /\ b = now)
    <3>1. Shown(t, b)' = s /\ Held(t, b)' = n + l
      BY <2>1, <2>2, <2>3, <2>4, <2>7
    <3> HIDE DEF Held
    <3> QED BY <2>5, <3>1
  <2> QED BY <2>6, <2>7
<1>9. CASE TakeSnapshot
  <2>1. snapshot'[t] = Born(scan_all(t)) /\ wal' = <<>> /\ UNCHANGED <<now, rows>>
    BY <1>9 DEF TakeSnapshot, vars
  <2>2. Count(snapshot[t], b)' = Shown(t, b)
    BY <2>1, ScanShown DEF Count
  <2>3. RecordsAt(t, b)' = {} /\ Cardinality({}) = 0
    BY <2>1, FS_EmptySet DEF RecordsAt
  <2>4. Held(t, b)' = Shown(t, b) + 0
    BY <2>2, <2>3
  <2>5. Shown(t, b)' = Shown(t, b)
    BY <2>1, SameShown
  <2> HIDE DEF Held
  <2> QED BY <1>1, <2>4, <2>5
<1>10. CASE Restart
  <2>1. Held(t, b)' = Held(t, b)
    BY <1>10 DEF Restart, RecordsAt, Count
  <2>2. Shown(t, b)' = Count(Recovered(t), b)
    BY <1>10, RestartShown
  <2>3. /\ Count(Recovered(t), b) + Hidden(t, b) = Held(t, b)
        /\ Count(Recovered(t), b) \in Nat /\ Hidden(t, b) \in Nat
    BY RecoveredCount
  <2> HIDE DEF Held
  <2> QED BY <1>3, <2>1, <2>2, <2>3
<1> HIDE DEF Held
<1> QED BY <1>5, <1>6, <1>7, <1>8, <1>9, <1>10, Cases

-----------------------------------------------------------------------------
(* There is nothing to show at first.                                      *)
LEMMA LifeInvInit == LifeInit => LifeInv
<1> SUFFICES ASSUME LifeInit PROVE LifeInv
  OBVIOUS
<1> USE DEF LifeInit, Init
<1>1. Shape
  <2>1. Cardinality(TableNames) \in Nat
    BY LifeAssumption, FS_CardinalityType
  <2>2. \A c \in Callers : caller[c].at = "idle"
    BY DEF Idle, At
  <2>3. wal \in Seq(RowRecord) /\ snapshot \in [TableNames -> Seq(Nat)] /\ rows \in [TableNames -> Seq(Row)]
    OBVIOUS
  <2>4. snapLsn \in Nat /\ walLsn \in Nat \ {0}
    BY <2>1
  <2> QED BY <2>2, <2>3, <2>4 DEF Shape
<1>2. SweepInv /\ RowsInTime
  BY DEF SweepInv, NoSweepAfterStop, RowsInTime
<1>3. AnswersInTime
  BY DEF AnswersInTime, FoundInTime, NoAnswer, Idle, At
<1>4. InFiles
  <2> SUFFICES ASSUME NEW t \in TableNames, NEW b \in Nat
               PROVE  Shown(t, b) <= Count(snapshot[t], b) + Cardinality(RecordsAt(t, b))
    BY DEF InFiles
  <2>1. rows[t] = <<>> /\ snapshot[t] = <<>> /\ wal = <<>>
    OBVIOUS
  <2>2. Shown(t, b) = Cardinality({})
    BY <2>1 DEF Shown, Visible
  <2>3. Count(snapshot[t], b) = Cardinality({}) /\ RecordsAt(t, b) = {}
    BY <2>1 DEF Count, RecordsAt
  <2> QED BY <2>2, <2>3, FS_EmptySet
<1> QED BY <1>1, <1>2, <1>3, <1>4 DEF LifeInv

(* The inductive invariant holds of every behaviour.                       *)
THEOREM LifeInvAlways == LifeSpec => []LifeInv
<1>1. LifeInv /\ [LifeNext]_allVars => LifeInv'
  BY ShapeStep, SweepStepInv, RowsStep, AnswersStep, InFilesStep DEF LifeInv
<1> QED BY <1>1, LifeInvInit, PTL DEF LifeSpec

(* When TTLManager::stop has returned, or the process was restarted, there *)
(* is no sweeper that could touch a table.                                 *)
THEOREM LifetimeNoSweepAfterStop == LifeSpec => []NoSweepAfterStop
<1>1. LifeInv => NoSweepAfterStop
  BY DEF LifeInv, SweepInv
<1> QED BY <1>1, LifeInvAlways, PTL

(* exec_select, from the cache or by a scan, shows no row that was past    *)
(* its time to live when it was scanned, counted from its INSERT or from   *)
(* the restart that recovered it.                                          *)
THEOREM LifetimeShownInTime == LifeSpec => []ShownInTime
<1>1. LifeInv => ShownInTime
  BY DEF LifeInv, AnswersInTime, FoundInTime, ShownInTime
<1> QED BY <1>1, LifeInvAlways, PTL

(* While the clock stands still no statement, sweep or snapshot takes away *)
(* a row that a scan would still return, and a restart takes only rows     *)
(* whose records have LSNs that the snapshot covers.                       *)
THEOREM LifetimeNothingLiveLost == LifeSpec => NothingLiveLost
<1> DEFINE Lost(t, b) == IF restarts' = restarts THEN 0 ELSE Hidden(t, b)
           Kind == now' = now => \A t \in TableNames, b \in 1..MaxTime :
                                   Shown(t, b) <= Shown(t, b)' + Lost(t, b)
<1>1. LifeInv /\ [LifeNext]_allVars => [Kind]_allVars
  <2> SUFFICES ASSUME LifeInv, [LifeNext]_allVars, now' = now, NEW t \in TableNames,
                      NEW b \in 1..MaxTime
               PROVE  Shown(t, b) <= Shown(t, b)' + Lost(t, b)
    OBVIOUS
  <2> HIDE DEF Kind
  <2>1. /\ Shape /\ b \in Nat
        /\ Shown(t, b) <= Count(snapshot[t], b) + Cardinality(RecordsAt(t, b))
    BY TTLAssumption DEF LifeInv, InFiles
  <2>2. /\ Shown(t, b) \in Nat /\ Count(Recovered(t), b) \in Nat /\ Hidden(t, b) \in Nat
        /\ Shown(t, b) <= Count(Recovered(t), b) + Hidden(t, b)
    BY <2>1, ShownFinite, RecoveredCount
  <2>3. Lost(t, b) \in Nat
    BY <2>2
  <2>4. ASSUME Shown(t, b) <= Shown(t, b)', Shown(t, b)' \in Nat
        PROVE  Shown(t, b) <= Shown(t, b)' + Lost(t, b)
    <3> HIDE DEF Lost
    <3> QED BY <2>2, <2>3, <2>4
  <2>5. CASE rows' = rows
    <3>1. Shown(t, b)' = Shown(t, b)
      BY <2>5, SameShown
    <3> HIDE DEF Lost
    <3> QED BY <2>2, <2>4, <3>1
  <2>6. ASSUME NEW u \in TableNames, SweepStep(u) PROVE Shown(t, b) <= Shown(t, b)' + Lost(t, b)
    <3>1. Shown(t, b)' = Shown(t, b)
      BY <2>1, <2>6, SweepShown DEF SweepStep
    <3> HIDE DEF Lost
    <3> QED BY <2>2, <2>4, <3>1
  <2>7. ASSUME NEW c \in Callers, NEW u \in TableNames, InsertRow(c, u)
        PROVE  Shown(t, b) <= Shown(t, b)' + Lost(t, b)
    <3>1. Shown(t, b)' = IF t = u /\ b = now THEN Shown(t, b) + 1 ELSE Shown(t, b)
      BY <2>1, <2>7, InsertShown DEF InsertRow
    <3> HIDE DEF Lost
    <3>2. Shown(t, b) <= Shown(t, b)' /\ Shown(t, b)' \in Nat
      BY <2>2, <3>1
    <3> QED BY <2>4, <3>2
  <2>8. CASE Restart
    <3>1. restarts' # restarts
      BY <2>1, <2>8 DEF Restart, Shape
    <3>2. Lost(t, b) = Hidden(t, b)
      BY <3>1
    <3>3. Shown(t, b)' = Count(Recovered(t), b)
      BY <2>1, <2>8, RestartShown
    <3> HIDE DEF Lost
    <3> QED BY <2>2, <3>2, <3>3
  <2>9. CASE Quiet \/ TickStep \/ TakeSnapshot \/ UNCHANGED allVars \/ \E c \in Callers : Reading(c)
    <3>1. rows' = rows
      BY <2>9, ReadingKeeps DEF Quiet, TickStep, Tick, TakeSnapshot, vars, allVars
    <3> QED BY <2>5, <3>1
  <2> HIDE DEF Lost
  <2> QED BY <2>6, <2>7, <2>8, <2>9, Cases
<1> QED BY <1>1, LifeInvAlways, PTL DEF LifeSpec, NothingLiveLost

-----------------------------------------------------------------------------
(* Database::recover                                                       *)

(* As many tables as parts.                                                *)
LEMMA PartTables ==
  ASSUME NEW parts \in Seq(TablePart),
         \A m, n \in 1..Len(parts) : parts[m].table = parts[n].table => m = n
  PROVE  Cardinality({parts[m].table : m \in 1..Len(parts)}) = Len(parts)
<1> DEFINE N == Len(parts)
           T == {parts[m].table : m \in 1..N}
           f == [m \in 1..N |-> parts[m].table]
<1>1. N \in Nat
  OBVIOUS
<1>2. f \in [1..N -> T] /\ \A x \in T : \E m \in 1..N : f[m] = x
  OBVIOUS
<1>3. \A m, n \in 1..N : f[m] = f[n] => m = n
  OBVIOUS
<1>4. f \in Bijection(1..N, T)
  <2> HIDE DEF f, T, N
  <2> QED BY <1>2, <1>3 DEF Bijection, Injection, Surjection, IsInjective
<1>5. ExistsBijection(1..N, T)
  BY <1>4 DEF ExistsBijection
<1> HIDE DEF T, N
<1>6. Cardinality(T) = N
  BY <1>1, <1>5, FS_CountingElements
<1> QED BY <1>6 DEF T, N

(* The tables of the snapshot have rows of the tables of the process.      *)
LEMMA LoadedTables ==
  ASSUME ConcurrentInv, WholeInv
  PROVE  /\ Loaded \in Database
         /\ \A t \in Names :
              /\ Loaded[t].exists <=> Covered(t)
              /\ \A k \in 1..Len(Loaded[t].rows) :
                   /\ Holds(t, Loaded[t].rows[k])
                   /\ k \in 1..Len(tables[t].rows) /\ Loaded[t].rows[k] = tables[t].rows[k]
              /\ \A i : Holds(t, i) => \E k \in 1..Len(Loaded[t].rows) : Loaded[t].rows[k] = i
<1> DEFINE N == Len(snap.parts)
           Is(t) == {m \in 1..N : snap.parts[m].table = t}
<1>1. snap.count = N /\ N \in Nat /\ \A m \in 1..N : snap.parts[m] \in TablePart
  <2>1. snap.parts \in Seq(TablePart) /\ PartsInv(snap.parts)
    BY DEF ConcurrentInv, DbTypes, IsFile
  <2>2. snap.count = N
    <3>1. Cardinality(TablesOf(snap.parts)) = N
      BY <2>1, PartTables DEF PartsInv, TablesOf
    <3>2. NoImage.count = 0 /\ Len(NoImage.parts) = 0
      BY DEF NoImage
    <3> QED BY <3>1, <3>2 DEF WholeInv
  <2> QED BY <2>1, <2>2
<1>2. /\ DOMAIN Loaded = Names /\ Loaded = [t \in Names |-> Loaded[t]]
      /\ \A t \in Names :
           Loaded[t] = IF Is(t) = {} THEN [exists |-> FALSE, rows |-> <<>>]
                       ELSE [exists |-> TRUE, rows |-> snap.parts[CHOOSE m \in Is(t) : TRUE].rows]
  BY <1>1 DEF Loaded, NoTables
<1>3. ASSUME NEW t \in Names
      PROVE  /\ Loaded[t] \in [exists : BOOLEAN, rows : Seq(Nat)]
             /\ Loaded[t].exists <=> Covered(t)
             /\ \A k \in 1..Len(Loaded[t].rows) :
                  /\ Holds(t, Loaded[t].rows[k])
                  /\ k \in 1..Len(tables[t].rows) /\ Loaded[t].rows[k] = tables[t].rows[k]
             /\ \A i : Holds(t, i) => \E k \in 1..Len(Loaded[t].rows) : Loaded[t].rows[k] = i
  <2>1. CASE Is(t) = {}
    <3>1. Loaded[t] = [exists |-> FALSE, rows |-> <<>>] /\ <<>> \in Seq(Nat) /\ Len(<<>>) = 0
      BY <1>2, <2>1
    <3>2. ~Covered(t) /\ \A i : ~Holds(t, i)
      BY <2>1 DEF Covered, Holds
    <3> QED BY <3>1, <3>2
  <2>2. CASE Is(t) # {}
    <3>1. PICK m : m = CHOOSE n \in Is(t) : TRUE
      OBVIOUS
    <3>2. m \in 1..N /\ snap.parts[m].table = t
      BY <2>2, <3>1
    <3>3. Loaded[t] = [exists |-> TRUE, rows |-> snap.parts[m].rows]
      BY <1>2, <2>2, <3>1
    <3>4. snap.parts[m].rows \in Seq(Nat)
      BY <1>1, <3>2 DEF TablePart
    <3>5. \A n \in 1..N : snap.parts[n].table = t => n = m
      BY <3>2 DEF ConcurrentInv, PartsInv
    <3>6. Covered(t)
      BY <3>2 DEF Covered
    <3>7. \A i : Holds(t, i) <=> \E k \in 1..Len(snap.parts[m].rows) : snap.parts[m].rows[k] = i
      BY <3>2, <3>5 DEF Holds
    <3>8. \A k \in 1..Len(snap.parts[m].rows) :
            k \in 1..Len(tables[t].rows) /\ snap.parts[m].rows[k] = tables[t].rows[k]
      BY <3>2, PartRows
    <3>9. /\ Loaded[t].exists /\ Loaded[t].rows = snap.parts[m].rows
          /\ Loaded[t] \in [exists : BOOLEAN, rows : Seq(Nat)]
      BY <3>3, <3>4
    <3> QED BY <3>6, <3>7, <3>8, <3>9
  <2> QED BY <2>1, <2>2
<1>4. Loaded \in Database
  BY <1>2, <1>3 DEF Database
<1> QED BY <1>3, <1>4

(* The tables of recover after n records of the log.                       *)
IsReplay(db) ==
  /\ db \in [0..Len(records) -> Database] /\ db[0] = Loaded /\ Rebuilt = db[Len(records)]
  /\ \A n \in 1..Len(records) :
       db[n] = IF Skipped(records[n]) THEN db[n - 1]
               ELSE Executed(db[n - 1], stmts[records[n].id], records[n].id)

(* The loop of recover runs over the whole log.                            *)
LEMMA ReplayRuns == ASSUME ConcurrentInv, WholeInv PROVE \E db : IsReplay(db)
<1> DEFINE N == Len(records)
           Step(n, d) == IF Skipped(records[n]) THEN d
                         ELSE Executed(d, stmts[records[n].id], records[n].id)
           Body(f) == [n \in 0..N |-> IF n = 0 THEN Loaded
                         ELSE IF Skipped(records[n]) THEN f[n - 1]
                         ELSE Executed(f[n - 1], stmts[records[n].id], records[n].id)]
           step == [n \in 1..N |-> [d \in Database |-> Step(n, d)]]
<1>1. N \in Nat /\ Loaded \in Database /\ N \in 0..N
  BY LoadedTables DEF ConcurrentInv, DbTypes
<1>2. ASSUME NEW n \in 1..N, NEW d \in Database PROVE Step(n, d) \in Database
  <2>1. records[n].id \in Ids /\ records[n].id \in Nat
    BY DEF ConcurrentInv, LogInv, Ids, DbTypes
  <2>2. stmts[records[n].id] \in Statement
    BY <2>1 DEF ConcurrentInv, DbTypes, Ids
  <2>3. Executed(d, stmts[records[n].id], records[n].id) \in Database
    <3>1. stmts[records[n].id].table \in Names
      BY <2>2 DEF Statement
    <3> QED BY <2>1, <2>2, <3>1, ExecutedTable
  <2> QED BY <2>3
<1>3. step \in [1..N -> [Database -> Database]]
  <2> HIDE DEF Step, N
  <2> QED BY <1>2
<1>4. PICK f : IsRun(f, N, Database, Loaded, step)
  <2> DEFINE V == Database
             a == Loaded
  <2> HIDE DEF N, step, V, a
  <2>1. N \in Nat /\ a \in V /\ step \in [1..N -> [V -> V]]
    BY <1>1, <1>3 DEF V, a
  <2>2. \E f : IsRun(f, N, V, a, step)
    BY <2>1, Recursion
  <2> QED BY <2>2 DEF V, a
<1>5. f \in [0..N -> Database] /\ f[0] = Loaded
  BY <1>4 DEF IsRun
<1>6. \A n \in 1..N : n - 1 \in 0..N /\ n \in 0..N /\ n # 0 /\ f[n] = Step(n, f[n - 1])
  <2> TAKE n \in 1..N
  <2>1. n - 1 \in 0..N /\ n \in 0..N /\ n # 0
    BY <1>1
  <2>2. f[n - 1] \in Database /\ f[n] = step[n][f[n - 1]]
    BY <1>4, <1>5, <2>1 DEF IsRun
  <2> HIDE DEF Step
  <2> QED BY <2>1, <2>2
<1>7. f = Body(f)
  <2>1. \A n \in 0..N : n # 0 => n \in 1..N
    BY <1>1
  <2>2. \A n \in 0..N : f[n] = Body(f)[n]
    BY <1>5, <1>6, <2>1
  <2>3. DOMAIN f = 0..N /\ DOMAIN Body(f) = 0..N /\ f = [n \in 0..N |-> f[n]]
    BY <1>5
  <2> QED BY <2>2, <2>3
<1> DEFINE g == CHOOSE h : h = Body(h)
<1>8. g = Body(g)
  BY <1>7
<1>9. Rebuilt = g[N]
  BY DEF Rebuilt, Replayed
<1> HIDE DEF g
<1>10. \A n \in 0..N : g[n] = f[n]
  <2> DEFINE T == {n \in 0..N : g[n] = f[n]}
  <2>1. 0 \in T
    BY <1>1, <1>5, <1>8
  <2>2. ASSUME NEW n \in 1..N, n - 1 \in T PROVE n \in T
    <3>1. n \in 0..N /\ n # 0 /\ f[n] = Step(n, f[n - 1])
      BY <1>6
    <3>2. g[n] = Step(n, g[n - 1])
      BY <1>8, <3>1
    <3>3. g[n - 1] = f[n - 1]
      BY <2>2
    <3> HIDE DEF Step
    <3> QED BY <3>1, <3>2, <3>3
  <2> HIDE DEF T
  <2>3. 0..N \subseteq T
    BY <1>1, <2>1, <2>2, UpTo
  <2> QED BY <2>3 DEF T
<1> QED BY <1>1, <1>5, <1>6, <1>9, <1>10 DEF IsReplay

(* Appending to a concatenation.                                           *)
LEMMA JoinedAppend ==
  ASSUME NEW a \in Seq(Nat), NEW b \in Seq(Nat), NEW x \in Nat
  PROVE  Append(a \o b, x) = a \o Append(b, x)
<1> DEFINE l == Append(a \o b, x)
           r == a \o Append(b, x)
<1>1. l \in Seq(Nat) /\ r \in Seq(Nat) /\ Len(l) = Len(a) + Len(b) + 1 /\ Len(r) = Len(l)
  OBVIOUS
<1>2. \A i \in 1..Len(l) : l[i] = r[i]
  OBVIOUS
<1>3. l = r
  <2> HIDE DEF l, r
  <2> QED BY <1>1, <1>2
<1> QED BY <1>3

(* The statements in the log.                                              *)
LogIds == [p \in 1..Len(records) |-> records[p].id]

(* They are those of the records.                                          *)
LEMMA LogIdsType ==
  ASSUME ConcurrentInv
  PROVE  LogIds \in Seq(Nat) /\ Len(LogIds) = Len(records) /\ \A n \in 1..Len(records) : LogIds[n] = records[n].id
<1> DEFINE N == Len(records)
<1>1. N \in Nat /\ \A n \in 1..N : records[n].id \in Nat
  <2>1. records \in Seq(LogRecord)
    BY DEF ConcurrentInv, DbTypes
  <2>2. \A r \in LogRecord : r.id \in Nat
    BY DEF LogRecord
  <2> QED BY <2>1, <2>2
<1> HIDE DEF N
<1>2. LogIds = [n \in 1..N |-> records[n].id]
  BY DEF LogIds, N
<1>3. LogIds \in [1..N -> Nat]
  BY <1>1, <1>2
<1>4. LogIds \in Seq(Nat) /\ Len(LogIds) = N
  BY <1>1, <1>3
<1> QED BY <1>2, <1>4 DEF N

(* The elements of s at the positions I, collected from the left.          *)
IsKept(u, s, I, S) ==
  /\ u \in [0..Len(s) -> Seq(S)] /\ u[0] = <<>> /\ Kept(s, I) = u[Len(s)]
  /\ \A n \in 1..Len(s) : u[n] = IF n \in I THEN Append(u[n - 1], s[n]) ELSE u[n - 1]

(* Collecting them takes one step for each element of s.                   *)
LEMMA KeptSteps ==
  ASSUME NEW S, NEW s \in Seq(S), NEW I \in SUBSET (1..Len(s))
  PROVE  \E u : IsKept(u, s, I, S)
<1>1. PICK u \in [0..Len(s) -> Seq(S)] :
        /\ u[0] = <<>> /\ Kept(s, I) = u[Len(s)]
        /\ \A n \in 1..Len(s) :
             u[n] = IF n \in I THEN Append(u[n - 1], s[n]) ELSE u[n - 1]
  BY KeptRuns
<1> QED BY <1>1 DEF IsKept

(* The elements of k are those of s at the positions I, in their order.    *)
PickedFrom(pos, k, s, I) ==
  /\ pos \in [1..Len(k) -> I]
  /\ \A i \in 1..Len(k) : k[i] = s[pos[i]]
  /\ \A i, j \in 1..Len(k) : i < j => pos[i] < pos[j]
  /\ \A p \in I : \E i \in 1..Len(k) : pos[i] = p

(* What is kept of s is picked from these positions.                       *)
LEMMA KeptPicked ==
  ASSUME NEW S, NEW s \in Seq(S), NEW I \in SUBSET (1..Len(s))
  PROVE  Kept(s, I) \in Seq(S) /\ \E pos : PickedFrom(pos, Kept(s, I), s, I)
<1>1. PICK k : k = Kept(s, I)
  OBVIOUS
<1>2. /\ k \in Seq(S)
      /\ \E pos \in [1..Len(k) -> I] :
           /\ \A i \in 1..Len(k) : k[i] = s[pos[i]]
           /\ \A i, j \in 1..Len(k) : i < j => pos[i] < pos[j]
           /\ \A p \in I : \E i \in 1..Len(k) : pos[i] = p
  BY <1>1, KeptPositions
<1>3. \E pos : PickedFrom(pos, k, s, I)
  BY <1>2 DEF PickedFrom
<1> QED BY <1>1, <1>2, <1>3

(* A table exists in the replay when the snapshot has it, or a CREATE of   *)
(* it has been replayed; its rows are those of the snapshot, then those of *)
(* the records replayed.                                                   *)
LEMMA ReplayedTable ==
  ASSUME ConcurrentInv, WholeInv, NEW t \in Names
  PROVE  Rebuilt[t].rows = Loaded[t].rows \o Kept(LogIds, Replays(t))
<1> DEFINE N == Len(records)
           I == Replays(t)
           a == Loaded[t].rows
<1>1. PICK db : IsReplay(db)
  BY ReplayRuns
<1>2. /\ N \in Nat /\ \A n \in 1..N : n - 1 \in 0..N /\ n \in 0..N /\ n \in Nat
      /\ N \in 0..N /\ 0 \in 0..N
  BY DEF ConcurrentInv, DbTypes
<1>3. LogIds \in Seq(Nat) /\ Len(LogIds) = N /\ \A n \in 1..N : LogIds[n] = records[n].id
  BY LogIdsType
<1>4. ASSUME NEW n \in 1..N
      PROVE  /\ records[n].id \in Nat
             /\ db[n - 1][t].exists \in BOOLEAN /\ db[n - 1][t].rows \in Seq(Nat)
             /\ db[n][t].exists <=> db[n - 1][t].exists
                                      \/ (~Skipped(records[n]) /\ records[n].id \in Creates(t))
             /\ db[n][t].rows =
                  IF ~Skipped(records[n]) /\ records[n].id \in Inserts(t) /\ db[n - 1][t].exists
                    THEN Append(db[n - 1][t].rows, records[n].id) ELSE db[n - 1][t].rows
  <2>1. db[n - 1] \in Database
    BY <1>1, <1>2 DEF IsReplay
  <2>2. records[n].id \in Ids /\ records[n].id \in Nat
    <3>1. records[n].id \in Ids
      BY DEF ConcurrentInv, LogInv
    <3> QED BY <3>1 DEF Ids
  <2>3. stmts[records[n].id] \in Statement
    BY <2>2 DEF ConcurrentInv, DbTypes, Ids
  <2> DEFINE s == stmts[records[n].id]
  <2>4. /\ records[n].id \in Creates(t) <=> s.op = "create" /\ s.table = t
        /\ records[n].id \in Inserts(t) <=> s.op = "insert" /\ s.table = t
    BY <2>2 DEF Creates, Inserts
  <2>5. db[n - 1][t].exists \in BOOLEAN /\ db[n - 1][t].rows \in Seq(Nat)
    BY <2>1 DEF Database
  <2>6. CASE Skipped(records[n])
    <3>1. db[n] = db[n - 1]
      BY <1>1, <2>6 DEF IsReplay
    <3> QED BY <2>2, <2>5, <2>6, <3>1
  <2>7. CASE ~Skipped(records[n])
    <3>1. db[n] = Executed(db[n - 1], s, records[n].id)
      BY <1>1, <2>7 DEF IsReplay
    <3> HIDE DEF s
    <3>2. s \in Statement
      BY <2>3 DEF s
    <3>3. /\ db[n][t].exists <=> db[n - 1][t].exists \/ (s.op = "create" /\ s.table = t)
          /\ db[n][t].rows = IF s.op = "insert" /\ s.table = t /\ db[n - 1][t].exists
                               THEN Append(db[n - 1][t].rows, records[n].id) ELSE db[n - 1][t].rows
      <4>1. PICK d : d = db[n - 1]
        OBVIOUS
      <4>2. PICK i : i = records[n].id
        OBVIOUS
      <4>3. d \in Database /\ i \in Nat /\ db[n] = Executed(d, s, i)
        BY <2>1, <2>2, <3>1, <4>1, <4>2
      <4>4. /\ Executed(d, s, i)[t].exists <=> d[t].exists \/ (s.op = "create" /\ s.table = t)
            /\ Executed(d, s, i)[t].rows = IF s.op = "insert" /\ s.table = t /\ d[t].exists
                                             THEN Append(d[t].rows, i) ELSE d[t].rows
        BY <3>2, <4>3, ExecutedTable
      <4> QED BY <4>1, <4>2, <4>3, <4>4
    <3> QED BY <2>2, <2>4, <2>5, <2>7, <3>3
  <2> QED BY <2>6, <2>7
<1>5. \A n \in 0..N : db[n][t].exists <=> Created(t, n)
  <2> DEFINE T == {n \in 0..N : db[n][t].exists <=> Created(t, n)}
  <2>1. 0 \in T
    <3>1. db[0] = Loaded /\ (Loaded[t].exists <=> Covered(t))
      BY <1>1, LoadedTables DEF IsReplay
    <3>2. Created(t, 0) <=> Covered(t)
      BY DEF Created
    <3> QED BY <1>2, <3>1, <3>2
  <2>2. ASSUME NEW n \in 1..N, n - 1 \in T PROVE n \in T
    <3>1. Created(t, n) <=> Created(t, n - 1) \/ (~Skipped(records[n]) /\ records[n].id \in Creates(t))
      <4>1. \A q \in 1..N : q <= n <=> q <= n - 1 \/ q = n
        BY <1>2
      <4>2. n <= n
        BY <1>2
      <4> QED BY <4>1, <4>2 DEF Created
    <3> QED BY <1>2, <1>4, <2>2, <3>1
  <2> HIDE DEF T
  <2>3. 0..N \subseteq T
    BY <1>2, <2>1, <2>2, UpTo
  <2> QED BY <2>3 DEF T
<1>6. PICK u \in [0..N -> Seq(Nat)] :
        /\ u[0] = <<>> /\ Kept(LogIds, I) = u[N]
        /\ \A n \in 1..N : u[n] = IF n \in I THEN Append(u[n - 1], records[n].id) ELSE u[n - 1]
  <2>1. I \in SUBSET (1..Len(LogIds))
    BY <1>3 DEF Replays
  <2> HIDE DEF I
  <2>2. PICK u : IsKept(u, LogIds, I, Nat)
    BY <1>3, <2>1, KeptSteps
  <2> QED BY <1>3, <2>2 DEF IsKept
<1>7. ASSUME NEW n \in 1..N PROVE n \in I <=>
        ~Skipped(records[n]) /\ records[n].id \in Inserts(t) /\ db[n - 1][t].exists
  BY <1>2, <1>5 DEF Replays
<1>8. a \in Seq(Nat)
  BY LoadedTables DEF Database
<1> HIDE DEF I, a
<1>9. \A n \in 0..N : db[n][t].rows = a \o u[n]
  <2> DEFINE T == {n \in 0..N : db[n][t].rows = a \o u[n]}
  <2>1. 0 \in T
    <3>1. db[0][t].rows = a
      BY <1>1 DEF IsReplay, a
    <3>2. a \o <<>> = a
      BY <1>8
    <3> QED BY <1>2, <1>6, <3>1, <3>2
  <2>2. ASSUME NEW n \in 1..N, n - 1 \in T PROVE n \in T
    <3>1. db[n - 1][t].rows = a \o u[n - 1] /\ u[n - 1] \in Seq(Nat)
      BY <1>2, <1>6, <2>2
    <3>2. CASE n \in I
      <4>1. /\ db[n][t].rows = Append(db[n - 1][t].rows, records[n].id)
            /\ u[n] = Append(u[n - 1], records[n].id) /\ records[n].id \in Nat
        BY <1>4, <1>6, <1>7, <3>2
      <4>2. \A v \in Seq(Nat), x \in Nat : Append(a \o v, x) = a \o Append(v, x)
        BY <1>8, JoinedAppend
      <4> QED BY <1>2, <3>1, <4>1, <4>2
    <3>3. CASE n \notin I
      <4>1. db[n][t].rows = db[n - 1][t].rows /\ u[n] = u[n - 1]
        BY <1>4, <1>6, <1>7, <3>3
      <4> QED BY <1>2, <3>1, <4>1
    <3> QED BY <3>2, <3>3
  <2> HIDE DEF T
  <2>3. 0..N \subseteq T
    BY <1>2, <2>1, <2>2, UpTo
  <2> QED BY <2>3 DEF T
<1>10. Rebuilt = db[N]
  BY <1>1 DEF IsReplay
<1> QED BY <1>2, <1>6, <1>9, <1>10 DEF I, a

(* Every row of a recovered table comes from one place.                    *)
LEMMA RecoveredRows ==
  ASSUME ConcurrentInv, WholeInv, NEW t \in Names
  PROVE  \E len, pos : ComeFrom(t, Rebuilt[t].rows, len, pos)
<1> DEFINE a == Loaded[t].rows
           I == Replays(t)
           b == Kept(LogIds, I)
           found == Rebuilt[t].rows
<1>1. found = a \o b
  BY ReplayedTable
<1>2. /\ a \in Seq(Nat)
      /\ \A k \in 1..Len(a) : Holds(t, a[k]) /\ k \in 1..Len(tables[t].rows) /\ a[k] = tables[t].rows[k]
      /\ \A i : Holds(t, i) => \E k \in 1..Len(a) : a[k] = i
  BY LoadedTables DEF Database
<1>3. LogIds \in Seq(Nat) /\ Len(LogIds) = Len(records) /\ \A p \in 1..Len(records) : LogIds[p] = records[p].id
  BY LogIdsType
<1>4. I \in SUBSET (1..Len(LogIds))
  BY <1>3 DEF Replays
<1> HIDE DEF I
<1>5. /\ b \in Seq(Nat)
      /\ \E pos \in [1..Len(b) -> I] :
           /\ \A j \in 1..Len(b) : b[j] = LogIds[pos[j]]
           /\ \A j, k \in 1..Len(b) : j < k => pos[j] < pos[k]
           /\ \A i \in I : \E j \in 1..Len(b) : pos[j] = i
  <2>1. b \in Seq(Nat) /\ \E pos : PickedFrom(pos, b, LogIds, I)
    BY <1>3, <1>4, KeptPicked
  <2> QED BY <2>1 DEF PickedFrom
<1> HIDE DEF a, b, found
<1>6. PICK pos \in [1..Len(b) -> I] :
        /\ \A j \in 1..Len(b) : b[j] = LogIds[pos[j]]
        /\ \A j, k \in 1..Len(b) : j < k => pos[j] < pos[k]
        /\ \A i \in I : \E j \in 1..Len(b) : pos[j] = i
  BY <1>5
<1>7. \A j \in 1..Len(b) : b[j] = records[pos[j]].id
  BY <1>3, <1>4, <1>6
<1>8. /\ Len(found) = Len(a) + Len(b) /\ Len(a) \in Nat /\ Len(b) \in Nat
      /\ \A k \in 1..Len(a) : found[k] = a[k]
      /\ \A j \in 1..Len(b) : found[Len(a) + j] = b[j]
  BY <1>1, <1>2, <1>5, Joined
<1> DEFINE len == Len(a)
           m == Len(found) - len
<1>9. m = Len(b)
  BY <1>8
<1> HIDE DEF len, m
<1>10. /\ len \in Nat /\ m \in Nat /\ Len(found) = len + m
       /\ \A j \in 1..m : found[len + j] = records[pos[j]].id
  BY <1>7, <1>8, <1>9 DEF len
<1>11. /\ \A k \in 1..len : /\ Holds(t, found[k]) /\ k \in 1..Len(tables[t].rows)
                            /\ found[k] = tables[t].rows[k]
       /\ \A i : Holds(t, i) => \E k \in 1..len : found[k] = i
  BY <1>2, <1>8 DEF len
<1>12. /\ pos \in [1..m -> I]
       /\ \A j, k \in 1..m : j < k => pos[j] < pos[k]
       /\ \A p \in I : \E j \in 1..m : pos[j] = p
  BY <1>6, <1>9
<1>13. ComeFrom(t, found, len, pos)
  BY <1>10, <1>11, <1>12 DEF ComeFrom, I, m
<1> QED BY <1>13 DEF found

(* CalmAckedSurvive, for any number of threads, tables, statements and     *)
(* snapshots: with no CREATE during a snapshot, an INSERT that             *)
(* Database::execute has acknowledged, and that ran with no snapshot and   *)
(* no CREATE of its table, is recovered once, behind the rows acknowledged *)
(* before it was called, whenever the process ends.                        *)
THEOREM ConcurrentAckedSurvive == DbSpec => []CalmAckedSurvive
<1>1. ASSUME ConcurrentInv PROVE CalmAckedSurvive
  <2> SUFFICES ASSUME NoCreateInSnapshot, NEW i \in Ids, Acked(i), Calm(i)
      PROVE  /\ Cardinality(Places(i)) = 1
             /\ \A j \in after[i] : stmts[j].table = stmts[i].table =>
                  \A k \in Places(i), l \in Places(j) : l < k
    BY DEF CalmAckedSurvive
  <2>0. PICK len, pos : ComeFrom(stmts[i].table, Rebuilt[stmts[i].table].rows, len, pos)
    BY <1>1, CalmInsert, RecoveredRows DEF ConcurrentInv
  <2>1. PICK k : /\ Places(i) = {k}
                 /\ \A j \in after[i] : stmts[j].table = stmts[i].table => \A l \in Places(j) : l < k
    BY <1>1, <2>0, CalmPlace DEF Acked
  <2>2. Cardinality(Places(i)) = 1
    BY <2>1, FS_Singleton
  <2> QED BY <2>1, <2>2
<1> QED BY <1>1, DbInvAlways, PTL

(* RefusedLeaveTheSame, for any number of threads, tables, statements and  *)
(* snapshots: an INSERT that was answered with an error is in the log, and *)
(* its replay finds no table again, or stores the same rows once.          *)
THEOREM ConcurrentRefusedLeaveTheSame == DbSpec => []RefusedLeaveTheSame
<1>1. ASSUME ConcurrentInv PROVE RefusedLeaveTheSame
  <2> SUFFICES ASSUME NoCreateInSnapshot, NEW i \in Ids, Refused(i), Calm(i)
      PROVE  Cardinality(Places(i)) = Cardinality(Present(i))
    BY DEF RefusedLeaveTheSame
  <2>1. PICK len, pos : ComeFrom(stmts[i].table, Rebuilt[stmts[i].table].rows, len, pos)
    BY <1>1, CalmInsert, RecoveredRows DEF ConcurrentInv
  <2>2. CASE stmts[i].effect = "nothing"
    <3>1. Places(i) = {}
      BY <1>1, <2>1, <2>2, FailedPlace
    <3>2. Present(i) = {}
      BY <1>1, <2>2, PresentOnce DEF Refused
    <3> QED BY <3>1, <3>2
  <2>3. CASE stmts[i].effect = "done"
    <3>1. PICK k : Places(i) = {k}
      BY <1>1, <2>1, <2>3, CalmPlace
    <3>2. PICK l : Present(i) = {l}
      BY <1>1, <2>3, PresentOnce DEF Refused
    <3> QED BY <3>1, <3>2, FS_Singleton
  <2> QED BY <2>2, <2>3 DEF Refused
<1> QED BY <1>1, DbInvAlways, PTL
=============================================================================
