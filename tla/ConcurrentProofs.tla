-------------------------- MODULE ConcurrentProofs --------------------------
(***************************************************************************)
(* The invariant of ConcurrentDatabase, for every number of threads,       *)
(* tables, statements and snapshots, and what it says of a table that      *)
(* recovery rebuilds.  That recovery rebuilds it so is in RecoveryProofs.  *)
(***************************************************************************)
EXTENDS ConcurrentDatabase, TLAPS

(* Most leaves are first-order, and Zenon is the quicker on those.         *)
USE ZenonT(5), SMTT(20)

-----------------------------------------------------------------------------
(* Database::execute by several threads, and take_snapshot                 *)

Effects == {"none", "done", "nothing"}
Statement == [op : {"create", "insert"}, whole : BOOLEAN, table : Names, effect : Effects]
Database == [Names -> [exists : BOOLEAN, rows : Seq(Nat)]]
LogRecord == [lsn : Nat, id : Nat]
TablePart == [table : Names, rows : Seq(Nat)]

IsFile(file) == file \in [lsn : Nat, count : {file.count}, parts : Seq(TablePart)]

DbTypes ==
  /\ tables \in Database /\ records \in Seq(LogRecord) /\ nextLsn \in Nat
  /\ IsFile(snap) /\ IsFile(image)
  /\ tpc \in [Threads -> {"idle", "log", "execute"}] /\ cur \in [Threads -> Nat]
  /\ saving \in {"idle", "header", "walk", "truncate"}
  /\ stmts \in Seq(Statement) /\ after \in Seq(SUBSET Nat) /\ Len(after) = Len(stmts)

Finished(i) == stmts[i].effect # "none"
Inserts(t) == {i \in Ids : stmts[i].op = "insert" /\ stmts[i].table = t}

(* A statement is with one thread until it has returned, and began after   *)
(* the statements it follows had returned.                                 *)
FlightInv ==
  /\ \A h \in Threads : tpc[h] # "idle" => cur[h] \in Ids /\ ~Finished(cur[h])
  /\ \A g, h \in Threads : tpc[g] # "idle" /\ tpc[h] # "idle" /\ cur[g] = cur[h] => g = h
  /\ \A i \in Ids : ~Finished(i) => i \in InFlight
  /\ \A i \in Ids : \A j \in after[i] : j \in Ids /\ j < i /\ Finished(j)

(* A statement is logged once, and before those that begin when it has     *)
(* returned.                                                               *)
Logged(i) == \A h \in Threads : tpc[h] = "log" => cur[h] # i
LogInv ==
  /\ \A p \in 1..Len(records) :
       records[p].lsn < nextLsn /\ records[p].id \in Ids /\ Logged(records[p].id)
  /\ \A p, q \in 1..Len(records) :
       p < q => records[p].id # records[q].id /\ records[q].id \notin after[records[p].id]

(* A table exists when a CREATE of it has returned, and holds the INSERTs  *)
(* that succeeded, once and in the order of their calls.                   *)
TablesInv ==
  \A t \in Names :
    /\ tables[t].exists => \E c \in Creates(t) : Finished(c)
    /\ \A c \in Creates(t) : Finished(c) => tables[t].exists
    /\ \A k \in 1..Len(tables[t].rows) :
         tables[t].rows[k] \in Inserts(t) /\ stmts[tables[t].rows[k]].effect = "done"
    /\ \A i \in Inserts(t) : stmts[i].effect = "done" =>
         \E k \in 1..Len(tables[t].rows) : tables[t].rows[k] = i
    /\ \A k, l \in 1..Len(tables[t].rows) : k < l =>
         /\ tables[t].rows[k] # tables[t].rows[l]
         /\ tables[t].rows[l] \notin after[tables[t].rows[k]]

(* An INSERT finds the table after a CREATE of it has returned, and only   *)
(* when one has.                                                           *)
ResultInv ==
  \A t \in Names : \A i \in Inserts(t) :
    /\ stmts[i].effect = "nothing" => after[i] \cap Creates(t) = {}
    /\ stmts[i].effect = "done" => \E c \in Creates(t) : Finished(c) /\ i \notin after[c]

-----------------------------------------------------------------------------
(* The parts of a file: tables that exist, each once, with rows they had.  *)
PartsInv(parts) ==
  /\ \A m \in 1..Len(parts) :
       /\ tables[parts[m].table].exists
       /\ Len(parts[m].rows) <= Len(tables[parts[m].table].rows)
       /\ \A k \in 1..Len(parts[m].rows) : parts[m].rows[k] = tables[parts[m].table].rows[k]
  /\ \A m, n \in 1..Len(parts) : parts[m].table = parts[n].table => m = n

(* A record of the log that the snapshot does not cover.                   *)
Fresh(i) == \E p \in 1..Len(records) : records[p].id = i /\ ~Skipped(records[p])

(* While a snapshot is taken: what is in flight overlaps it, and so does   *)
(* what the file does not cover; the parts hold the rows of all others.    *)
CutOff == IF saving = "truncate" THEN snap.lsn ELSE image.lsn
SavingInv ==
  /\ snap.lsn < nextLsn /\ image.lsn < nextLsn
  /\ saving # "walk" => image.parts = <<>>
  /\ saving # "idle" =>
       /\ InFlight \subseteq overlapped
       /\ \A p \in 1..Len(records) : records[p].lsn > CutOff =>
            /\ records[p].id \in overlapped
            /\ \A i \in Ids \ overlapped : records[p].id \notin after[i]
  /\ \A m \in 1..Len(image.parts) :
       \A i \in Inserts(image.parts[m].table) \ overlapped :
         stmts[i].effect = "done" =>
           \E k \in 1..Len(image.parts[m].rows) : image.parts[m].rows[k] = i

(* The table t, and the row i of it, are in the snapshot.                  *)
Covered(t) == \E m \in 1..Len(snap.parts) : snap.parts[m].table = t
Holds(t, i) ==
  \E m \in 1..Len(snap.parts) :
    snap.parts[m].table = t /\ \E k \in 1..Len(snap.parts[m].rows) : snap.parts[m].rows[k] = i

(* What overlapped no snapshot is in the log or in the snapshot, not both, *)
(* and not in the snapshot when it follows one that is in the log.         *)
SnapInv ==
  /\ \A t \in Names : \A i \in Inserts(t) \ overlapped :
       /\ Holds(t, i) => ~Fresh(i)
       /\ (~Finished(i) \/ Fresh(i)) /\ Covered(t) => after[i] \cap Creates(t) # {}
  /\ \A i \in Ids \ overlapped : Logged(i) /\ ~Fresh(i) =>
       Finished(i) /\ \A j \in after[i] : ~Fresh(j)

(* And with no CREATE during a snapshot, nothing is in neither, and the    *)
(* header counts the tables.                                               *)
TablesOf(parts) == {parts[m].table : m \in 1..Len(parts)}
WholeInv ==
  /\ saving = "walk" => known = Existing(tables) /\ image.count = Cardinality(known)
  /\ snap = NoImage \/ snap.count = Cardinality(TablesOf(snap.parts))
  /\ \A t \in Names :
       /\ \A i \in Inserts(t) \ overlapped :
            stmts[i].effect = "done" /\ ~Fresh(i) => Holds(t, i)
       /\ \A c \in Creates(t) : Finished(c) /\ ~Fresh(c) => Covered(t)

ConcurrentInv ==
  /\ DbTypes /\ FlightInv /\ LogInv /\ TablesInv /\ ResultInv
  /\ PartsInv(image.parts) /\ PartsInv(snap.parts) /\ SavingInv /\ SnapInv
  /\ NoCreateInSnapshot => WholeInv

-----------------------------------------------------------------------------
(* A database created empty.                                               *)
LEMMA DbInvInit == DbInit => ConcurrentInv
<1> SUFFICES ASSUME DbInit PROVE ConcurrentInv
  OBVIOUS
<1> USE DEF DbInit
<1>1. DbTypes
  BY DEF DbTypes, IsFile, NoTables, NoImage, Database, LogRecord, TablePart, Statement
<1>2. /\ Ids = {} /\ \A t \in Names : Inserts(t) = {} /\ Creates(t) = {}
      /\ Len(records) = 0 /\ Len(snap.parts) = 0 /\ Len(image.parts) = 0
  BY DEF Ids, Inserts, Creates, NoImage
<1>3. \A t \in Names : ~tables[t].exists /\ Len(tables[t].rows) = 0
  BY DEF NoTables
<1>4. FlightInv
  BY <1>2 DEF FlightInv
<1>5. LogInv
  BY <1>2 DEF LogInv
<1>6. TablesInv /\ ResultInv
  BY <1>2, <1>3 DEF TablesInv, ResultInv
<1>7. PartsInv(image.parts) /\ PartsInv(snap.parts)
  BY <1>2 DEF PartsInv
<1>8. SavingInv
  BY <1>2 DEF SavingInv, NoImage
<1>9. SnapInv
  BY <1>2 DEF SnapInv
<1>10. WholeInv
  BY <1>2 DEF WholeInv, NoImage
<1> QED BY <1>1, <1>4, <1>5, <1>6, <1>7, <1>8, <1>9, <1>10 DEF ConcurrentInv

(* What depends on the statements and the tables only.                     *)
SameStatements ==
  /\ Ids' = Ids /\ \A i : Finished(i)' <=> Finished(i)
  /\ \A t : Creates(t)' = Creates(t) /\ Inserts(t)' = Inserts(t)

(* A step that touches neither keeps what depends on them.                 *)
LEMMA Untouched ==
  ASSUME TablesInv, ResultInv, tables' = tables, stmts' = stmts, after' = after
  PROVE  /\ TablesInv' /\ ResultInv' /\ SameStatements
         /\ \A parts : PartsInv(parts) => PartsInv(parts)'
<1>1. SameStatements
  BY DEF SameStatements, Ids, Finished, Creates, Inserts
<1>2. TablesInv'
  BY DEF TablesInv, Ids, Finished, Creates, Inserts
<1>3. ResultInv'
  BY DEF ResultInv, Ids, Finished, Creates, Inserts
<1>4. \A parts : PartsInv(parts) => PartsInv(parts)'
  BY DEF PartsInv
<1> QED BY <1>1, <1>2, <1>3, <1>4

(* With the log, the snapshot and the threads unchanged as well.           *)
LEMMA UntouchedLog ==
  ASSUME FlightInv, LogInv, UNCHANGED <<database, tpc, cur, stmts, after>>
  PROVE  /\ FlightInv' /\ LogInv' /\ InFlight' = InFlight
         /\ \A i : (Logged(i)' <=> Logged(i)) /\ (Fresh(i)' <=> Fresh(i))
         /\ \A t, i : (Covered(t)' <=> Covered(t)) /\ (Holds(t, i)' <=> Holds(t, i))
<1> USE DEF database
<1>1. InFlight' = InFlight
  BY DEF InFlight
<1>2. FlightInv'
  BY DEF FlightInv, Ids, Finished, InFlight
<1>3. LogInv'
  BY DEF LogInv, Ids, Logged
<1> QED BY <1>1, <1>2, <1>3 DEF Logged, Fresh, Skipped, Covered, Holds

-----------------------------------------------------------------------------
(* take_snapshot                                                           *)

(* What is in flight from now on, and logged from now on, overlaps.        *)
LEMMA ReadLsnStep == ASSUME ConcurrentInv, ReadLsn PROVE ConcurrentInv'
<1>1. /\ TablesInv' /\ ResultInv' /\ SameStatements
      /\ \A parts : PartsInv(parts) => PartsInv(parts)'
  BY Untouched DEF ReadLsn, ConcurrentInv, database
<1>2. /\ FlightInv' /\ LogInv' /\ InFlight' = InFlight
      /\ \A i : (Logged(i)' <=> Logged(i)) /\ (Fresh(i)' <=> Fresh(i))
      /\ \A t, i : (Covered(t)' <=> Covered(t)) /\ (Holds(t, i)' <=> Holds(t, i))
  BY UntouchedLog DEF ReadLsn, ConcurrentInv
<1>3. /\ UNCHANGED <<tables, records, nextLsn, snap, tpc, cur, stmts, after>> /\ saving' = "header"
      /\ overlapped' = overlapped \cup InFlight
  BY DEF ReadLsn, database
<1>4. image' = [lsn |-> nextLsn - 1, count |-> 0, parts |-> <<>>]
  BY DEF ReadLsn, NoImage
<1>5. nextLsn \in Nat /\ snap.lsn \in Nat /\ snap.lsn < nextLsn /\ records \in Seq(LogRecord)
  BY DEF ConcurrentInv, DbTypes, IsFile, SavingInv
<1>6. DbTypes'
  <2>1. nextLsn - 1 \in Nat /\ <<>> \in Seq(TablePart)
    BY <1>5
  <2>2. IsFile(image')
    BY <1>4, <2>1 DEF IsFile
  <2> QED BY <1>3, <2>2 DEF ConcurrentInv, DbTypes
<1>7. PartsInv(image.parts)' /\ PartsInv(snap.parts)'
  <2>1. PartsInv(image.parts)'
    BY <1>4 DEF PartsInv
  <2> QED BY <1>1, <1>3, <2>1 DEF ConcurrentInv
<1>8. SavingInv'
  <2>1. \A p \in 1..Len(records') : ~(records'[p].lsn > CutOff')
    <3>1. \A p \in 1..Len(records) : records[p] \in LogRecord
      BY <1>5
    <3>2. \A p \in 1..Len(records) : records[p].lsn < nextLsn /\ records[p].lsn \in Nat
      BY <3>1 DEF ConcurrentInv, LogInv, LogRecord
    <3>3. CutOff' = nextLsn - 1
      BY <1>3, <1>4 DEF CutOff
    <3> QED BY <1>3, <1>5, <3>2, <3>3
  <2>2. image'.lsn < nextLsn' /\ image'.parts = <<>> /\ Len(image'.parts) = 0
    BY <1>3, <1>4, <1>5
  <2> QED BY <1>2, <1>3, <1>5, <2>1, <2>2 DEF SavingInv
<1>9. SnapInv'
  BY <1>1, <1>2, <1>3 DEF ConcurrentInv, SnapInv, SameStatements
<1>10. ASSUME NoCreateInSnapshot' PROVE WholeInv'
  <2>1. WholeInv
    BY <1>1, <1>3, <1>10 DEF ConcurrentInv, NoCreateInSnapshot, SameStatements
  <2> QED BY <1>1, <1>2, <1>3, <2>1 DEF WholeInv, SameStatements
<1> QED BY <1>1, <1>2, <1>6, <1>7, <1>8, <1>9, <1>10 DEF ConcurrentInv

(* The header counts the tables there are.                                 *)
LEMMA WriteHeaderStep == ASSUME ConcurrentInv, WriteHeader PROVE ConcurrentInv'
<1>1. /\ TablesInv' /\ ResultInv' /\ SameStatements
      /\ \A parts : PartsInv(parts) => PartsInv(parts)'
  BY Untouched DEF WriteHeader, ConcurrentInv, database
<1>2. /\ FlightInv' /\ LogInv' /\ InFlight' = InFlight
      /\ \A i : (Logged(i)' <=> Logged(i)) /\ (Fresh(i)' <=> Fresh(i))
      /\ \A t, i : (Covered(t)' <=> Covered(t)) /\ (Holds(t, i)' <=> Holds(t, i))
  BY UntouchedLog DEF WriteHeader, ConcurrentInv
<1>3. /\ UNCHANGED <<tables, records, nextLsn, snap, tpc, cur, stmts, after, overlapped>>
      /\ saving = "header" /\ saving' = "walk"
  BY DEF WriteHeader, database
<1>4. /\ image'.lsn = image.lsn /\ image'.parts = image.parts /\ image'.count = Cardinality(known')
      /\ IsFile(image')
  BY DEF WriteHeader, ConcurrentInv, DbTypes, IsFile
<1>5. DbTypes'
  BY <1>3, <1>4 DEF ConcurrentInv, DbTypes
<1>6. PartsInv(image.parts)' /\ PartsInv(snap.parts)'
  BY <1>1, <1>3, <1>4 DEF ConcurrentInv
<1>7. SavingInv'
  <2>1. CutOff' = CutOff
    BY <1>3, <1>4 DEF CutOff
  <2> QED BY <1>1, <1>2, <1>3, <1>4, <2>1 DEF ConcurrentInv, SavingInv, SameStatements
<1>8. SnapInv'
  BY <1>1, <1>2, <1>3 DEF ConcurrentInv, SnapInv, SameStatements
<1>9. ASSUME NoCreateInSnapshot' PROVE WholeInv'
  <2>1. WholeInv
    BY <1>1, <1>3, <1>9 DEF ConcurrentInv, NoCreateInSnapshot, SameStatements
  <2>2. known' = Existing(tables')
    BY <1>3 DEF WriteHeader
  <2> QED BY <1>1, <1>2, <1>3, <1>4, <2>1, <2>2 DEF WholeInv, SameStatements
<1> QED BY <1>1, <1>2, <1>5, <1>6, <1>7, <1>8, <1>9 DEF ConcurrentInv

(* A part has the rows of its table, all that have been acknowledged.      *)
LEMMA WriteTableStep ==
  ASSUME ConcurrentInv, NEW t \in Names, WriteTable(t) PROVE ConcurrentInv'
<1>1. /\ TablesInv' /\ ResultInv' /\ SameStatements
      /\ \A parts : PartsInv(parts) => PartsInv(parts)'
  BY Untouched DEF WriteTable, ConcurrentInv, database
<1>2. /\ FlightInv' /\ LogInv' /\ InFlight' = InFlight
      /\ \A i : (Logged(i)' <=> Logged(i)) /\ (Fresh(i)' <=> Fresh(i))
      /\ \A u, i : (Covered(u)' <=> Covered(u)) /\ (Holds(u, i)' <=> Holds(u, i))
  BY UntouchedLog DEF WriteTable, ConcurrentInv
<1>3. /\ UNCHANGED <<tables, records, nextLsn, snap, tpc, cur, known, stmts, after, overlapped>>
      /\ saving = "walk" /\ saving' = "walk"
  BY DEF WriteTable, database
<1> DEFINE parts == image.parts
           N == Len(parts)
           part == Part(t, tables[t].rows)
<1>4. /\ parts \in Seq(TablePart) /\ N \in Nat
      /\ part \in TablePart /\ part.table = t /\ part.rows = tables[t].rows
  BY DEF ConcurrentInv, DbTypes, IsFile, Part, TablePart, Database
<1>5. /\ image'.lsn = image.lsn /\ image'.parts = Append(parts, part) /\ image'.count = image.count
      /\ IsFile(image')
  <2> DEFINE new == Append(parts, part)
  <2>1. new \in Seq(TablePart) /\ image' = [image EXCEPT !.parts = new]
    BY <1>4 DEF WriteTable
  <2>2. IsFile(image)
    BY DEF ConcurrentInv, DbTypes
  <2> HIDE DEF new
  <2>3. image'.lsn = image.lsn /\ image'.parts = new /\ image'.count = image.count /\ IsFile(image')
    BY <2>1, <2>2 DEF IsFile
  <2> QED BY <2>3 DEF new
<1>6. /\ Len(image'.parts) = N + 1 /\ image'.parts[N + 1] = part
      /\ \A m \in 1..N : image'.parts[m] = parts[m]
  BY <1>4, <1>5
<1>7. /\ \A m \in 1..N : parts[m].table # t
      /\ tables[t].exists
  BY DEF WriteTable
<1> HIDE DEF part, parts, N
<1>8. \A m \in 1..(N + 1) : m \in 1..N \/ m = N + 1
  BY <1>4
<1>9. DbTypes'
  BY <1>3, <1>5 DEF ConcurrentInv, DbTypes
<1>10. PartsInv(image.parts)' /\ PartsInv(snap.parts)'
  <2>1. PartsInv(parts)
    BY DEF ConcurrentInv, parts
  <2>2. Len(tables[t].rows) \in Nat
    BY DEF ConcurrentInv, DbTypes, Database
  <2> DEFINE new == image'.parts
  <2>3. ASSUME NEW m \in 1..(N + 1)
        PROVE  /\ tables[new[m].table].exists
               /\ Len(new[m].rows) <= Len(tables[new[m].table].rows)
               /\ \A k \in 1..Len(new[m].rows) : new[m].rows[k] = tables[new[m].table].rows[k]
    <3>1. CASE m \in 1..N
      <4>1. m \in 1..Len(parts) /\ new[m] = parts[m]
        BY <1>6, <3>1 DEF N
      <4>2. /\ tables[parts[m].table].exists
            /\ Len(parts[m].rows) <= Len(tables[parts[m].table].rows)
            /\ \A k \in 1..Len(parts[m].rows) : parts[m].rows[k] = tables[parts[m].table].rows[k]
        BY <2>1, <4>1 DEF PartsInv
      <4> QED BY <4>1, <4>2
    <3>2. CASE m = N + 1
      BY <1>4, <1>6, <1>7, <2>2, <3>2
    <3> QED BY <1>8, <3>1, <3>2
  <2>4. ASSUME NEW m \in 1..(N + 1), NEW n \in 1..(N + 1), new[m].table = new[n].table
        PROVE  m = n
    <3>1. CASE m \in 1..N /\ n \in 1..N
      BY <1>6, <2>1, <2>4, <3>1 DEF PartsInv, N
    <3>2. CASE m \in 1..N /\ n = N + 1
      BY <1>4, <1>6, <1>7, <2>4, <3>2
    <3>3. CASE m = N + 1 /\ n \in 1..N
      BY <1>4, <1>6, <1>7, <2>4, <3>3
    <3> QED BY <1>8, <3>1, <3>2, <3>3
  <2>5. PartsInv(image.parts)'
    BY <1>3, <1>6, <2>3, <2>4 DEF PartsInv
  <2> QED BY <1>1, <1>3, <2>5 DEF ConcurrentInv
<1>11. SavingInv'
  <2>1. CutOff' = CutOff
    BY <1>3, <1>5 DEF CutOff
  <2>2. ASSUME NEW m \in 1..(N + 1), NEW i \in Inserts(image'.parts[m].table) \ overlapped,
               stmts[i].effect = "done"
        PROVE  \E k \in 1..Len(image'.parts[m].rows) : image'.parts[m].rows[k] = i
    <3>1. CASE m \in 1..N
      <4>1. m \in 1..Len(image.parts) /\ image'.parts[m] = image.parts[m]
        BY <1>6, <3>1 DEF parts, N
      <4>2. \A j \in Inserts(image.parts[m].table) \ overlapped : stmts[j].effect = "done" =>
              \E k \in 1..Len(image.parts[m].rows) : image.parts[m].rows[k] = j
        BY <4>1 DEF ConcurrentInv, SavingInv
      <4> QED BY <2>2, <4>1, <4>2
    <3>2. CASE m = N + 1
      <4>1. image'.parts[m].table = t /\ image'.parts[m].rows = tables[t].rows /\ t \in Names
        BY <1>4, <1>6, <3>2
      <4>2. TablesInv
        BY DEF ConcurrentInv
      <4>3. \A j \in Inserts(t) : stmts[j].effect = "done" =>
              \E k \in 1..Len(tables[t].rows) : tables[t].rows[k] = j
        BY <4>1, <4>2 DEF TablesInv
      <4> QED BY <2>2, <4>1, <4>3
    <3> QED BY <1>8, <3>1, <3>2
  <2>3. \A m \in 1..Len(image'.parts) :
          \A i \in (Inserts(image.parts[m].table) \ overlapped)' :
            stmts'[i].effect = "done" =>
              \E k \in 1..Len(image'.parts[m].rows) : image'.parts[m].rows[k] = i
    BY <1>1, <1>3, <1>6, <2>2 DEF SameStatements
  <2> QED BY <1>1, <1>2, <1>3, <1>5, <2>1, <2>3 DEF ConcurrentInv, SavingInv, SameStatements
<1>12. SnapInv'
  BY <1>1, <1>2, <1>3 DEF ConcurrentInv, SnapInv, SameStatements
<1>13. ASSUME NoCreateInSnapshot' PROVE WholeInv'
  <2>1. WholeInv
    BY <1>1, <1>3, <1>13 DEF ConcurrentInv, NoCreateInSnapshot, SameStatements
  <2> QED BY <1>1, <1>2, <1>3, <1>5, <2>1 DEF WholeInv, SameStatements
<1> QED BY <1>1, <1>2, <1>9, <1>10, <1>11, <1>12, <1>13 DEF ConcurrentInv

(* The new snapshot covers the whole log but what overlapped it.           *)
LEMMA RenameStep == ASSUME ConcurrentInv, Rename PROVE ConcurrentInv'
<1>1. /\ TablesInv' /\ ResultInv' /\ SameStatements
      /\ \A parts : PartsInv(parts) => PartsInv(parts)'
  BY Untouched DEF Rename, ConcurrentInv
<1>2. /\ UNCHANGED <<tables, records, nextLsn, tpc, cur, stmts, after, overlapped>>
      /\ saving = "walk" /\ saving' = "truncate"
      /\ snap' = image /\ image'.lsn = 0 /\ image'.parts = <<>> /\ IsFile(image')
  BY DEF Rename, NoImage, IsFile
<1>3. FlightInv' /\ LogInv' /\ InFlight' = InFlight /\ \A i : Logged(i)' <=> Logged(i)
  <2>1. FlightInv' /\ InFlight' = InFlight
    BY <1>2 DEF ConcurrentInv, FlightInv, Ids, Finished, InFlight
  <2>2. LogInv'
    BY <1>2 DEF ConcurrentInv, LogInv, Ids, Logged
  <2> QED BY <1>2, <2>1, <2>2 DEF Logged
<1>4. /\ nextLsn \in Nat /\ snap.lsn < nextLsn /\ image.lsn < nextLsn /\ image.lsn \in Nat
      /\ IsFile(image) /\ records \in Seq(LogRecord) /\ image.parts \in Seq(TablePart)
  BY DEF ConcurrentInv, DbTypes, SavingInv, IsFile
<1>5. DbTypes'
  BY <1>2, <1>4 DEF ConcurrentInv, DbTypes
<1>6. PartsInv(image.parts)' /\ PartsInv(snap.parts)'
  <2>1. PartsInv(image.parts)'
    BY <1>2 DEF PartsInv
  <2> QED BY <1>1, <1>2, <2>1 DEF ConcurrentInv
<1>7. /\ CutOff' = CutOff /\ InFlight \subseteq overlapped
      /\ \A p \in 1..Len(records) : records[p].lsn > CutOff =>
           records[p].id \in overlapped /\ \A i \in Ids \ overlapped : records[p].id \notin after[i]
  BY <1>2 DEF ConcurrentInv, SavingInv, CutOff
<1>8. SavingInv'
  BY <1>1, <1>2, <1>3, <1>4, <1>7 DEF SavingInv, SameStatements
<1>9. \A j : Fresh(j)' => j \in overlapped /\ \A i \in Ids \ overlapped : j \notin after[i]
  <2>1. \A p \in 1..Len(records) : records[p] \in LogRecord
    BY <1>4
  <2>2. \A p \in 1..Len(records) : ~Skipped(records[p])' => records[p].lsn > CutOff
    BY <1>2, <1>4, <2>1 DEF Skipped, CutOff, LogRecord
  <2> QED BY <1>2, <1>7, <2>2 DEF Fresh
<1>10. SnapInv'
  <2>1. \A i \in Ids \ overlapped : Finished(i)
    BY <1>7 DEF ConcurrentInv, FlightInv
  <2>2. \A t \in Names : Inserts(t) \subseteq Ids
    BY DEF Inserts
  <2> QED BY <1>1, <1>2, <1>3, <1>9, <2>1, <2>2 DEF SnapInv, SameStatements
<1>11. ASSUME NoCreateInSnapshot' PROVE WholeInv'
  <2> DEFINE T == {image.parts[m].table : m \in 1..Len(image.parts)}
  <2>1. known = Existing(tables) /\ image.count = Cardinality(known) /\ known \subseteq T
    BY <1>1, <1>2, <1>11 DEF ConcurrentInv, NoCreateInSnapshot, SameStatements, WholeInv, Rename
  <2>2. PartsInv(image.parts)
    BY DEF ConcurrentInv
  <2>3. T = known
    <3>1. \A m \in 1..Len(image.parts) : image.parts[m] \in TablePart
      BY <1>4
    <3>2. \A m \in 1..Len(image.parts) : image.parts[m].table \in Existing(tables)
      BY <2>2, <3>1 DEF PartsInv, TablePart, Existing
    <3> QED BY <2>1, <3>2
  <2>4. TablesOf(image.parts) = T
    BY DEF TablesOf
  <2>5. snap'.count = Cardinality(TablesOf(snap'.parts))
    BY <1>2, <2>1, <2>3, <2>4
  <2>6. ASSUME NEW t \in Names, NEW c \in Creates(t), Finished(c)
        PROVE  \E m \in 1..Len(image.parts) : image.parts[m].table = t
    <3>1. tables[t].exists
      BY <2>6 DEF ConcurrentInv, TablesInv
    <3> QED BY <2>1, <3>1 DEF Existing
  <2>7. ASSUME NEW t \in Names, NEW i \in Inserts(t) \ overlapped, stmts[i].effect = "done"
        PROVE  Holds(t, i)'
    <3>1. PICK m \in 1..Len(image.parts) : image.parts[m].table = t
      BY <2>6, <2>7 DEF ConcurrentInv, ResultInv
    <3>2. \E k \in 1..Len(image.parts[m].rows) : image.parts[m].rows[k] = i
      BY <2>7, <3>1 DEF ConcurrentInv, SavingInv
    <3> QED BY <1>2, <3>1, <3>2 DEF Holds
  <2>8. \A t \in Names : \A c \in Creates(t) : Finished(c) => Covered(t)'
    BY <1>2, <2>6 DEF Covered
  <2> QED BY <1>1, <1>2, <2>5, <2>7, <2>8 DEF WholeInv, SameStatements
<1> QED BY <1>1, <1>3, <1>5, <1>6, <1>8, <1>10, <1>11 DEF ConcurrentInv

(* Every record that goes overlapped the snapshot or is covered by it.     *)
LEMMA TruncateStep == ASSUME ConcurrentInv, Truncate PROVE ConcurrentInv'
<1>1. /\ TablesInv' /\ ResultInv' /\ SameStatements
      /\ \A parts : PartsInv(parts) => PartsInv(parts)'
  BY Untouched DEF Truncate, ConcurrentInv
<1>2. /\ UNCHANGED <<tables, nextLsn, snap, image, tpc, cur, stmts, after, overlapped>>
      /\ saving = "truncate" /\ saving' = "idle" /\ records' = <<>> /\ Len(records') = 0
  BY DEF Truncate
<1>3. FlightInv' /\ InFlight' = InFlight
  BY <1>2 DEF ConcurrentInv, FlightInv, Ids, Finished, InFlight
<1>4. LogInv'
  BY <1>2 DEF LogInv
<1>5. DbTypes'
  BY <1>2 DEF ConcurrentInv, DbTypes
<1>6. PartsInv(image.parts)' /\ PartsInv(snap.parts)'
  BY <1>1, <1>2 DEF ConcurrentInv
<1>7. SavingInv'
  BY <1>1, <1>2 DEF ConcurrentInv, SavingInv, SameStatements
<1>8. \A t, i : (Covered(t)' <=> Covered(t)) /\ (Holds(t, i)' <=> Holds(t, i)) /\ ~Fresh(i)'
  BY <1>2 DEF Covered, Holds, Fresh
<1>9. \A i \in Ids \ overlapped : Finished(i) /\ ~Fresh(i)
  <2>1. snap.lsn \in Nat /\ \A p \in 1..Len(records) : records[p] \in LogRecord
    BY DEF ConcurrentInv, DbTypes, IsFile
  <2>2. \A p \in 1..Len(records) : ~Skipped(records[p]) => records[p].id \in overlapped
    BY <1>2, <2>1 DEF ConcurrentInv, SavingInv, CutOff, Skipped, LogRecord
  <2>3. InFlight \subseteq overlapped
    BY <1>2 DEF ConcurrentInv, SavingInv
  <2> QED BY <2>2, <2>3 DEF ConcurrentInv, FlightInv, Fresh
<1>10. SnapInv'
  BY <1>1, <1>2, <1>8, <1>9 DEF SnapInv, Inserts, SameStatements
<1>11. ASSUME NoCreateInSnapshot' PROVE WholeInv'
  <2>1. NoCreateInSnapshot /\ WholeInv
    BY <1>1, <1>2, <1>11 DEF ConcurrentInv, NoCreateInSnapshot, SameStatements
  <2>2. \A t \in Names : Creates(t) \subseteq Ids \ overlapped /\ Inserts(t) \subseteq Ids
    BY <2>1 DEF NoCreateInSnapshot, Creates, Inserts
  <2> QED BY <1>1, <1>2, <1>8, <1>9, <2>1, <2>2 DEF WholeInv, SameStatements
<1> QED BY <1>1, <1>3, <1>4, <1>5, <1>6, <1>7, <1>10, <1>11 DEF ConcurrentInv

-----------------------------------------------------------------------------
(* execute                                                                 *)

(* The rows in the snapshot are rows of the tables.                        *)
LEMMA PartRows ==
  ASSUME ConcurrentInv, NEW m \in 1..Len(snap.parts), NEW k \in 1..Len(snap.parts[m].rows)
  PROVE  LET t == snap.parts[m].table IN
         /\ t \in Names /\ k \in 1..Len(tables[t].rows)
         /\ snap.parts[m].rows[k] = tables[t].rows[k]
<1> DEFINE t == snap.parts[m].table
<1>1. snap.parts[m] \in TablePart
  BY DEF ConcurrentInv, DbTypes, IsFile
<1>2. t \in Names /\ Len(snap.parts[m].rows) \in Nat /\ Len(tables[t].rows) \in Nat
  BY <1>1 DEF TablePart, ConcurrentInv, DbTypes, Database
<1>3. /\ Len(snap.parts[m].rows) <= Len(tables[t].rows)
      /\ snap.parts[m].rows[k] = tables[t].rows[k]
  BY DEF ConcurrentInv, PartsInv
<1> QED BY <1>2, <1>3

(* What is in the snapshot succeeded.                                      *)
LEMMA HeldSucceeded ==
  ASSUME ConcurrentInv, NEW t \in Names, NEW i, Holds(t, i)
  PROVE  i \in Inserts(t) /\ stmts[i].effect = "done"
<1>1. PICK m \in 1..Len(snap.parts) :
        snap.parts[m].table = t /\ \E k \in 1..Len(snap.parts[m].rows) : snap.parts[m].rows[k] = i
  BY DEF Holds
<1>2. PICK k \in 1..Len(snap.parts[m].rows) : snap.parts[m].rows[k] = i
  BY <1>1
<1>3. k \in 1..Len(tables[t].rows) /\ tables[t].rows[k] = i
  BY <1>1, <1>2, PartRows
<1> QED BY <1>3 DEF ConcurrentInv, TablesInv

(* The record of a statement that begins outside a snapshot is not covered *)
(* by one.                                                                 *)
LEMMA LogStep == ASSUME ConcurrentInv, NEW h \in Threads, Log(h) PROVE ConcurrentInv'
<1>1. /\ TablesInv' /\ ResultInv' /\ SameStatements
      /\ \A parts : PartsInv(parts) => PartsInv(parts)'
  BY Untouched DEF Log, ConcurrentInv
<1> DEFINE N == Len(records)
           id == cur[h]
           new == Record(nextLsn, id)
<1>2. /\ UNCHANGED <<tables, snap, cur, saving, image, known, stmts, after, overlapped>>
      /\ tpc[h] = "log" /\ tpc' = [tpc EXCEPT ![h] = "execute"]
      /\ nextLsn' = nextLsn + 1 /\ records' = Append(records, new)
  BY DEF Log, snapshotter
<1>3. /\ nextLsn \in Nat /\ snap.lsn \in Nat /\ image.lsn \in Nat
      /\ snap.lsn < nextLsn /\ image.lsn < nextLsn
      /\ records \in Seq(LogRecord) /\ N \in Nat /\ \A p \in 1..N : records[p] \in LogRecord
      /\ tpc \in [Threads -> {"idle", "log", "execute"}] /\ cur \in [Threads -> Nat]
  BY DEF ConcurrentInv, DbTypes, IsFile, SavingInv
<1>4. new \in LogRecord /\ new.lsn = nextLsn /\ new.id = id
  BY <1>3 DEF Record, LogRecord
<1> HIDE DEF new
<1>5. /\ records' \in Seq(LogRecord) /\ Len(records') = N + 1 /\ records'[N + 1] = new
      /\ \A p \in 1..N : records'[p] = records[p]
      /\ \A p \in 1..(N + 1) : p \in 1..N \/ p = N + 1
  BY <1>2, <1>3, <1>4
<1> HIDE DEF N
<1>6. DbTypes'
  BY <1>2, <1>3, <1>5 DEF ConcurrentInv, DbTypes
<1>7. id \in Ids /\ ~Finished(id) /\ id \in InFlight
  BY <1>2 DEF ConcurrentInv, FlightInv, InFlight
<1>8. /\ \A g \in Threads : (tpc'[g] # "idle" <=> tpc[g] # "idle")
      /\ \A g \in Threads : tpc'[g] = "log" <=> tpc[g] = "log" /\ g # h
  BY <1>2, <1>3
<1>9. InFlight' = InFlight /\ \A i : Logged(i)' <=> Logged(i) \/ i = id
  <2>1. InFlight' = InFlight
    BY <1>2, <1>8 DEF InFlight
  <2>2. \A g \in Threads : tpc[g] = "log" /\ g # h => cur[g] # id
    BY <1>2 DEF ConcurrentInv, FlightInv
  <2> QED BY <1>2, <1>8, <2>1, <2>2 DEF Logged
<1>10. FlightInv'
  BY <1>1, <1>2, <1>8, <1>9 DEF ConcurrentInv, FlightInv, SameStatements
<1>11. ~Logged(id) /\ \A i \in Ids : id \notin after[i]
  <2>1. ~Logged(id)
    BY <1>2 DEF Logged
  <2> QED BY <1>7, <2>1 DEF ConcurrentInv, FlightInv
<1>12. LogInv'
  <2>1. \A p \in 1..N : records[p].lsn < nextLsn /\ records[p].id \in Ids /\ Logged(records[p].id)
    BY DEF ConcurrentInv, LogInv, N
  <2>2. ASSUME NEW p \in 1..(N + 1)
        PROVE  /\ records'[p].lsn < nextLsn + 1 /\ records'[p].id \in Ids
               /\ \A g \in Threads : tpc'[g] = "log" => cur'[g] # records'[p].id
    <3>1. CASE p \in 1..N
      <4>1. records[p].lsn \in Nat
        BY <1>3, <3>1 DEF LogRecord
      <4>2. \A g \in Threads : tpc'[g] = "log" => cur'[g] # records[p].id
        BY <1>2, <1>8, <2>1, <3>1 DEF Logged
      <4> QED BY <1>3, <1>5, <2>1, <3>1, <4>1, <4>2
    <3>2. CASE p = N + 1
      <4>1. \A g \in Threads : tpc'[g] = "log" => cur'[g] # id
        BY <1>2, <1>8 DEF ConcurrentInv, FlightInv
      <4> QED BY <1>3, <1>4, <1>5, <1>7, <3>2, <4>1
    <3> QED BY <1>5, <3>1, <3>2
  <2>3. ASSUME NEW p \in 1..(N + 1), NEW q \in 1..(N + 1), p < q
        PROVE  records'[p].id # records'[q].id /\ records'[q].id \notin after[records'[p].id]
    <3>1. p \in 1..N
      BY <1>3, <2>3
    <3>2. CASE q \in 1..N
      BY <1>5, <2>3, <3>1, <3>2 DEF ConcurrentInv, LogInv, N
    <3>3. CASE q = N + 1
      BY <1>4, <1>5, <1>11, <2>1, <3>1, <3>3
    <3> QED BY <1>5, <3>2, <3>3
  <2> QED BY <1>1, <1>2, <1>5, <2>2, <2>3 DEF LogInv, Logged, SameStatements
<1>13. PartsInv(image.parts)' /\ PartsInv(snap.parts)'
  BY <1>1, <1>2 DEF ConcurrentInv
<1>14. SavingInv'
  <2>1. CutOff' = CutOff
    BY <1>2 DEF CutOff
  <2>2. ASSUME saving # "idle", NEW p \in 1..(N + 1), records'[p].lsn > CutOff
        PROVE  records'[p].id \in overlapped /\ \A i \in Ids \ overlapped : records'[p].id \notin after[i]
    <3>1. CASE p \in 1..N
      BY <1>5, <2>2, <3>1 DEF ConcurrentInv, SavingInv, N
    <3>2. CASE p = N + 1
      BY <1>4, <1>5, <1>7, <1>11, <2>2, <3>2 DEF ConcurrentInv, SavingInv
    <3> QED BY <1>5, <3>1, <3>2
  <2>3. snap.lsn < nextLsn + 1 /\ image.lsn < nextLsn + 1
    BY <1>3
  <2> QED BY <1>1, <1>2, <1>5, <1>9, <2>1, <2>2, <2>3 DEF ConcurrentInv, SavingInv, SameStatements
<1>15. \A i : Fresh(i)' <=> Fresh(i) \/ i = id
  <2>1. \A r : Skipped(r)' <=> Skipped(r)
    BY <1>2 DEF Skipped
  <2>2. ~Skipped(new)
    BY <1>3, <1>4 DEF Skipped
  <2>3. N + 1 \in 1..(N + 1) /\ \A p \in 1..N : p \in 1..(N + 1)
    BY <1>3
  <2> QED BY <1>4, <1>5, <2>1, <2>2, <2>3 DEF Fresh, N
<1>16. \A t, i : (Covered(t)' <=> Covered(t)) /\ (Holds(t, i)' <=> Holds(t, i))
  BY <1>2 DEF Covered, Holds
<1>17. SnapInv'
  <2>1. ASSUME NEW t \in Names, NEW i \in Inserts(t) \ overlapped
        PROVE  /\ Holds(t, i) => ~(Fresh(i) \/ i = id)
               /\ (~Finished(i) \/ Fresh(i) \/ i = id) /\ Covered(t) => after[i] \cap Creates(t) # {}
    <3>1. ~Holds(t, id)
      BY <1>7, HeldSucceeded DEF Finished
    <3> QED BY <1>7, <3>1 DEF ConcurrentInv, SnapInv
  <2>2. ASSUME NEW i \in Ids \ overlapped, Logged(i) \/ i = id, ~(Fresh(i) \/ i = id)
        PROVE  Finished(i) /\ \A j \in after[i] : ~(Fresh(j) \/ j = id)
    BY <1>11, <2>2 DEF ConcurrentInv, SnapInv
  <2> QED BY <1>1, <1>2, <1>9, <1>15, <1>16, <2>1, <2>2 DEF SnapInv, SameStatements
<1>18. ASSUME NoCreateInSnapshot' PROVE WholeInv'
  <2>1. WholeInv
    BY <1>1, <1>2, <1>18 DEF ConcurrentInv, NoCreateInSnapshot, SameStatements
  <2> QED BY <1>1, <1>2, <1>15, <1>16, <2>1 DEF WholeInv, SameStatements
<1> QED BY <1>1, <1>6, <1>10, <1>12, <1>13, <1>14, <1>17, <1>18 DEF ConcurrentInv

(* The new statement follows those that have returned.                     *)
LEMMA CallStep ==
  ASSUME ConcurrentInv, NEW h \in Threads, NEW op \in {"create", "insert"}, NEW w \in BOOLEAN,
         NEW u \in Names, Call(h, op, w, u)
  PROVE  ConcurrentInv'
<1> DEFINE N == Len(stmts)
           s == [op |-> op, whole |-> w, table |-> u, effect |-> "none"]
           prev == {i \in 1..N : stmts[i].effect # "none"}
<1> PICK new : new = N + 1
  OBVIOUS
<1>1. /\ UNCHANGED <<tables, records, nextLsn, snap, saving, image, known>>
      /\ tpc[h] = "idle" /\ tpc' = [tpc EXCEPT ![h] = "log"] /\ cur' = [cur EXCEPT ![h] = new]
      /\ stmts' = Append(stmts, s) /\ after' = Append(after, prev)
      /\ overlapped' = IF saving = "idle" THEN overlapped ELSE overlapped \cup {new}
  BY DEF Call, database, snapshotter
<1>2. /\ stmts \in Seq(Statement) /\ after \in Seq(SUBSET Nat) /\ Len(after) = N /\ N \in Nat
      /\ tpc \in [Threads -> {"idle", "log", "execute"}] /\ cur \in [Threads -> Nat]
  BY DEF ConcurrentInv, DbTypes
<1>3. s \in Statement /\ prev \in SUBSET Nat /\ s.op = op /\ s.table = u /\ s.effect = "none"
  BY DEF Statement, Effects
<1> HIDE DEF s
<1>4. /\ stmts' \in Seq(Statement) /\ Len(stmts') = new /\ stmts'[new] = s
      /\ \A i \in 1..N : stmts'[i] = stmts[i]
  BY <1>1, <1>2, <1>3
<1>5. /\ after' \in Seq(SUBSET Nat) /\ Len(after') = new /\ after'[new] = prev
      /\ \A i \in 1..N : after'[i] = after[i]
  <2> HIDE DEF prev
  <2> QED BY <1>1, <1>2, <1>3
<1>6. new \in Nat /\ Ids = 1..N /\ Ids' = Ids \cup {new} /\ new \notin Ids
  BY <1>2, <1>4 DEF Ids
<1>7. DbTypes'
  <2>1. tpc' \in [Threads -> {"idle", "log", "execute"}] /\ cur' \in [Threads -> Nat]
    BY <1>1, <1>2, <1>6
  <2> QED BY <1>1, <1>4, <1>5, <2>1 DEF ConcurrentInv, DbTypes
<1>8. /\ \A i \in Ids : stmts'[i] = stmts[i] /\ after'[i] = after[i] /\ (Finished(i)' <=> Finished(i))
      /\ stmts'[new].effect = "none" /\ ~Finished(new)' /\ after'[new] = prev
      /\ \A i : i \in prev <=> i \in Ids /\ Finished(i)
  <2>1. stmts'[new].effect = "none"
    BY <1>3, <1>4
  <2>2. \A i \in Ids : stmts'[i] = stmts[i] /\ after'[i] = after[i]
    BY <1>4, <1>5, <1>6
  <2>3. \A i : i \in prev <=> i \in Ids /\ Finished(i)
    BY <1>6 DEF Finished
  <2> QED BY <1>5, <2>1, <2>2, <2>3 DEF Finished
<1> HIDE DEF prev, N
<1>9. /\ new \notin Ids /\ Ids' = Ids \cup {new} /\ new \in Nat /\ cur' = [cur EXCEPT ![h] = new]
      /\ \A j \in Ids : j < new
  BY <1>1, <1>2, <1>6 DEF N
<1>10. /\ stmts'[new].effect = "none" /\ ~Finished(new)' /\ after'[new] = prev
       /\ overlapped' = IF saving = "idle" THEN overlapped ELSE overlapped \cup {new}
  BY <1>1, <1>8
<1>11. \A t : /\ Creates(t) \subseteq Creates(t)' /\ Creates(t)' \subseteq Creates(t) \cup {new}
              /\ Inserts(t) \subseteq Inserts(t)' /\ Inserts(t)' \subseteq Inserts(t) \cup {new}
              /\ Creates(t) \subseteq Ids /\ Inserts(t) \subseteq Ids
  BY <1>8, <1>9 DEF Creates, Inserts
<1>12. /\ \A g \in Threads : g # h => tpc'[g] = tpc[g] /\ cur'[g] = cur[g]
       /\ tpc'[h] = "log" /\ cur'[h] = new
  BY <1>1, <1>2, <1>9
<1>13. InFlight' = InFlight \cup {new}
  BY <1>1, <1>12 DEF InFlight
<1>14. FlightInv'
  <2>1. \A g \in Threads : tpc[g] # "idle" => cur[g] \in Ids /\ ~Finished(cur[g])
    BY DEF ConcurrentInv, FlightInv
  <2>2. \A g \in Threads : tpc'[g] # "idle" => cur'[g] \in Ids' /\ ~(stmts'[cur'[g]].effect # "none")
    <3> TAKE g \in Threads
    <3>1. CASE g = h
      BY <1>9, <1>10, <1>12, <3>1
    <3>2. CASE g # h
      BY <1>8, <1>9, <1>12, <2>1, <3>2 DEF Finished
    <3> QED BY <3>1, <3>2
  <2>3. \A f, g \in Threads : tpc'[f] # "idle" /\ tpc'[g] # "idle" /\ cur'[f] = cur'[g] => f = g
    BY <1>9, <1>12, <2>1 DEF ConcurrentInv, FlightInv
  <2>4. \A i \in Ids' : ~Finished(i)' => i \in InFlight'
    BY <1>8, <1>9, <1>13 DEF ConcurrentInv, FlightInv
  <2>5. ASSUME NEW i \in Ids', NEW j \in after'[i] PROVE j \in Ids' /\ j < i /\ Finished(j)'
    <3>1. CASE i \in Ids
      BY <1>8, <1>9, <2>5, <3>1 DEF ConcurrentInv, FlightInv
    <3>2. CASE i = new
      BY <1>8, <1>9, <1>10, <2>5, <3>2
    <3> QED BY <1>9, <3>1, <3>2
  <2> QED BY <2>2, <2>3, <2>4, <2>5 DEF FlightInv, Finished
<1>15. \A i \in Ids : Logged(i)' <=> Logged(i)
  BY <1>1, <1>9, <1>12 DEF Logged
<1>16. ~Logged(new)'
  BY <1>12 DEF Logged
<1>17. LogInv'
  <2>1. ASSUME NEW p \in 1..Len(records)
        PROVE  /\ records[p].lsn < nextLsn /\ records[p].id \in Ids /\ after'[records[p].id] = after[records[p].id]
               /\ \A g \in Threads : tpc'[g] = "log" => cur'[g] # records[p].id
    <3>1. records[p].lsn < nextLsn /\ records[p].id \in Ids /\ Logged(records[p].id)
      BY DEF ConcurrentInv, LogInv
    <3> QED BY <1>8, <1>9, <1>12, <3>1 DEF Logged
  <2>2. \A p, q \in 1..Len(records) :
          p < q => records[p].id # records[q].id /\ records[q].id \notin after'[records[p].id]
    BY <2>1 DEF ConcurrentInv, LogInv
  <2>3. records' = records /\ nextLsn' = nextLsn /\ \A i \in Ids : i \in Ids'
    BY <1>1, <1>9
  <2> QED BY <2>1, <2>2, <2>3 DEF LogInv, Logged
<1>18. TablesInv'
  <2>0. tables' = tables
    BY <1>1
  <2>1. TablesInv
    BY DEF ConcurrentInv
  <2>2. ASSUME NEW t \in Names
        PROVE  /\ tables[t].exists => \E c \in Creates(t)' : Finished(c)'
               /\ \A c \in Creates(t)' : Finished(c)' => tables[t].exists
               /\ \A k \in 1..Len(tables[t].rows) :
                    tables[t].rows[k] \in Inserts(t)' /\ stmts'[tables[t].rows[k]].effect = "done"
               /\ \A i \in Inserts(t)' : stmts'[i].effect = "done" =>
                    \E k \in 1..Len(tables[t].rows) : tables[t].rows[k] = i
               /\ \A k, l \in 1..Len(tables[t].rows) : k < l =>
                    /\ tables[t].rows[k] # tables[t].rows[l]
                    /\ tables[t].rows[l] \notin after'[tables[t].rows[k]]
    <3>1. tables[t].exists => \E c \in Creates(t)' : Finished(c)'
      BY <1>8, <1>11, <2>1 DEF TablesInv
    <3>2. \A c \in Creates(t)' : Finished(c)' => tables[t].exists
      BY <1>8, <1>10, <1>11, <2>1 DEF TablesInv
    <3>3. \A k \in 1..Len(tables[t].rows) :
            tables[t].rows[k] \in Inserts(t)' /\ stmts'[tables[t].rows[k]].effect = "done"
      BY <1>8, <1>11, <2>1 DEF TablesInv
    <3>4. \A i \in Inserts(t)' : stmts'[i].effect = "done" =>
            \E k \in 1..Len(tables[t].rows) : tables[t].rows[k] = i
      BY <1>8, <1>10, <1>11, <2>1 DEF TablesInv
    <3>5. \A k \in 1..Len(tables[t].rows) : after'[tables[t].rows[k]] = after[tables[t].rows[k]]
      BY <1>8, <1>11, <2>1 DEF TablesInv
    <3>6. \A k, l \in 1..Len(tables[t].rows) : k < l =>
            /\ tables[t].rows[k] # tables[t].rows[l]
            /\ tables[t].rows[l] \notin after'[tables[t].rows[k]]
      BY <2>1, <3>5 DEF TablesInv
    <3> QED BY <3>1, <3>2, <3>3, <3>4, <3>6
  <2> QED BY <2>0, <2>2 DEF TablesInv
<1>19. ResultInv'
  <2> SUFFICES ASSUME NEW t \in Names, NEW i \in Inserts(t)', stmts'[i].effect # "none"
      PROVE  /\ stmts'[i].effect = "nothing" => after'[i] \cap Creates(t)' = {}
             /\ stmts'[i].effect = "done" => \E c \in Creates(t)' : Finished(c)' /\ i \notin after'[c]
    BY DEF ResultInv
  <2>1. i \in Inserts(t) /\ i \in Ids /\ stmts'[i] = stmts[i] /\ after'[i] = after[i]
    BY <1>8, <1>10, <1>11
  <2>2. /\ stmts[i].effect = "nothing" => after[i] \cap Creates(t) = {}
        /\ stmts[i].effect = "done" => \E c \in Creates(t) : Finished(c) /\ i \notin after[c]
    BY <2>1 DEF ConcurrentInv, ResultInv
  <2>3. new \notin after[i]
    BY <1>9, <2>1 DEF ConcurrentInv, FlightInv
  <2> QED BY <1>8, <1>11, <2>1, <2>2, <2>3
<1>20. PartsInv(image.parts)' /\ PartsInv(snap.parts)'
  BY <1>1 DEF ConcurrentInv, PartsInv
<1>21. SavingInv'
  <2>1. SavingInv
    BY DEF ConcurrentInv
  <2>2. CutOff' = CutOff
    BY <1>1 DEF CutOff
  <2>3. saving # "idle" => Ids' \ overlapped' = Ids \ overlapped
    BY <1>9, <1>10
  <2>4. saving # "idle" =>
          /\ InFlight' \subseteq overlapped'
          /\ \A p \in 1..Len(records) : records[p].lsn > CutOff =>
               records[p].id \in overlapped' /\ \A i \in Ids' \ overlapped' : records[p].id \notin after'[i]
    BY <1>8, <1>10, <1>13, <2>1, <2>3 DEF SavingInv
  <2>5. ASSUME NEW m \in 1..Len(image.parts),
               NEW t, t = image.parts[m].table,
               NEW i \in Inserts(t)' \ overlapped', stmts'[i].effect = "done"
        PROVE  \E k \in 1..Len(image.parts[m].rows) : image.parts[m].rows[k] = i
    <3>1. i \in Inserts(t) \ overlapped /\ stmts[i].effect = "done"
      BY <1>8, <1>10, <1>11, <2>5
    <3> QED BY <2>1, <2>5, <3>1 DEF SavingInv
  <2>6. /\ UNCHANGED <<records, nextLsn, snap, saving, image>>
    BY <1>1
  <2>7. \A m \in 1..Len(image'.parts) :
          \A i \in (Inserts(image.parts[m].table) \ overlapped)' :
            stmts'[i].effect = "done" =>
              \E k \in 1..Len(image'.parts[m].rows) : image'.parts[m].rows[k] = i
    BY <2>5, <2>6 DEF Inserts
  <2> QED BY <2>1, <2>2, <2>4, <2>6, <2>7 DEF SavingInv
<1>22. \A t, i : /\ (Covered(t)' <=> Covered(t)) /\ (Holds(t, i)' <=> Holds(t, i))
                 /\ (Fresh(i)' <=> Fresh(i))
  BY <1>1 DEF Covered, Holds, Fresh, Skipped
<1>23. SnapInv'
  <2>1. SnapInv
    BY DEF ConcurrentInv
  <2>2. ASSUME NEW t \in Names, NEW i \in Inserts(t)' \ overlapped'
        PROVE  /\ Holds(t, i) => ~Fresh(i)
               /\ (~Finished(i)' \/ Fresh(i)) /\ Covered(t) => after'[i] \cap Creates(t)' # {}
    <3>1. CASE i \in Inserts(t)
      BY <1>8, <1>10, <1>11, <2>1, <2>2, <3>1 DEF SnapInv
    <3>2. CASE i = new
      <4>1. ~Holds(t, i)
        BY <1>9, <1>11, <3>2, HeldSucceeded
      <4>2. Covered(t) => tables[t].exists
        BY DEF Covered, ConcurrentInv, PartsInv
      <4>3. tables[t].exists => \E c \in Creates(t) : Finished(c)
        BY DEF ConcurrentInv, TablesInv
      <4> QED BY <1>8, <1>10, <1>11, <3>2, <4>1, <4>2, <4>3
    <3> QED BY <1>11, <2>2, <3>1, <3>2
  <2>3. ASSUME NEW i \in Ids' \ overlapped', Logged(i)', ~Fresh(i)
        PROVE  Finished(i)' /\ \A j \in after'[i] : ~Fresh(j)
    <3>1. i \in Ids \ overlapped /\ Logged(i)
      BY <1>9, <1>10, <1>15, <1>16, <2>3
    <3> QED BY <1>8, <2>1, <2>3, <3>1 DEF SnapInv
  <2> QED BY <1>22, <2>2, <2>3 DEF SnapInv
<1>24. ASSUME NoCreateInSnapshot' PROVE WholeInv'
  <2>1. WholeInv
    BY <1>10, <1>11, <1>24 DEF ConcurrentInv, NoCreateInSnapshot
  <2>2. ASSUME NEW t \in Names, NEW i \in Inserts(t)' \ overlapped',
               stmts'[i].effect = "done", ~Fresh(i)
        PROVE  Holds(t, i)
    BY <1>8, <1>10, <1>11, <2>1, <2>2 DEF WholeInv
  <2>3. ASSUME NEW t \in Names, NEW c \in Creates(t)', Finished(c)', ~Fresh(c)
        PROVE  Covered(t)
    BY <1>8, <1>10, <1>11, <2>1, <2>3 DEF WholeInv
  <2> QED BY <1>1, <1>22, <2>1, <2>2, <2>3 DEF WholeInv
<1> QED BY <1>7, <1>14, <1>17, <1>18, <1>19, <1>20, <1>21, <1>23, <1>24 DEF ConcurrentInv
(* Appending adds one place, and leaves those before it.                   *)
LEMMA AppendPlaces ==
  ASSUME NEW S, NEW q \in Seq(S), NEW x \in S
  PROVE  /\ Len(q) \in Nat /\ Append(q, x) \in Seq(S) /\ Len(Append(q, x)) = Len(q) + 1
         /\ Append(q, x)[Len(q) + 1] = x /\ \A k \in 1..Len(q) : Append(q, x)[k] = q[k]
<1> QED OBVIOUS


(* What execute_sql does to a table.                                       *)
LEMMA ExecutedTable ==
  ASSUME NEW db \in Database, NEW s \in Statement, NEW id \in Nat, NEW t \in Names
  PROVE  /\ Executed(db, s, id) \in Database /\ Succeeds(db, s) \in BOOLEAN
         /\ Executed(db, s, id)[t].exists <=>
              db[t].exists \/ (s.op = "create" /\ s.table = t)
         /\ Executed(db, s, id)[t].rows =
              IF s.op = "insert" /\ s.table = t /\ db[t].exists
                THEN Append(db[t].rows, id) ELSE db[t].rows
<1>1. /\ s.op \in {"create", "insert"} /\ s.table \in Names
      /\ db[s.table] \in [exists : BOOLEAN, rows : Seq(Nat)]
      /\ db[t] \in [exists : BOOLEAN, rows : Seq(Nat)]
  BY DEF Statement, Database
<1>2. CASE ~Succeeds(db, s)
  BY <1>1, <1>2 DEF Executed, Succeeds
<1>3. CASE Succeeds(db, s) /\ s.op = "create"
  BY <1>1, <1>3 DEF Executed, Succeeds, Database
<1>4. CASE Succeeds(db, s) /\ s.op = "insert"
  <2> DEFINE rows == Append(db[s.table].rows, id)
  <2>1. rows \in Seq(Nat) /\ Executed(db, s, id) = [db EXCEPT ![s.table].rows = rows]
    BY <1>1, <1>4 DEF Executed
  <2>2. s.table = t => rows = Append(db[t].rows, id)
    OBVIOUS
  <2>3. db[s.table].exists
    BY <1>4 DEF Succeeds
  <2> HIDE DEF rows
  <2> DEFINE new == [db EXCEPT ![s.table].rows = rows]
  <2>4. \A u \in Names : db[u] \in [exists : BOOLEAN, rows : Seq(Nat)]
    BY DEF Database
  <2>5. \A u \in Names :
          /\ new[u] \in [exists : BOOLEAN, rows : Seq(Nat)] /\ new[u].exists = db[u].exists
          /\ new[u].rows = IF u = s.table THEN rows ELSE db[u].rows
    BY <1>1, <2>1, <2>4 DEF Database
  <2>6. new \in Database
    BY <2>5 DEF Database
  <2>7. Succeeds(db, s) \in BOOLEAN
    BY DEF Succeeds
  <2> HIDE DEF new
  <2>8. Executed(db, s, id) = new
    BY <2>1 DEF new
  <2> QED BY <1>4, <2>2, <2>3, <2>5, <2>6, <2>7, <2>8
<1> QED BY <1>1, <1>2, <1>3, <1>4 DEF Succeeds

(* A statement is executed after it is logged, and rows are appended.      *)
LEMMA ApplyStep == ASSUME ConcurrentInv, NEW h \in Threads, Apply(h) PROVE ConcurrentInv'
<1> PICK id : id = cur[h]
  OBVIOUS
<1> DEFINE s == stmts[id]
           r == IF Succeeds(tables, s) THEN "done" ELSE "nothing"
<1>1. /\ UNCHANGED <<records, nextLsn, snap, saving, image, known, after, overlapped>>
      /\ tpc[h] = "execute" /\ tpc' = [tpc EXCEPT ![h] = "idle"] /\ cur' = [cur EXCEPT ![h] = 0]
      /\ stmts' = [stmts EXCEPT ![id].effect = r] /\ tables' = Executed(tables, s, id)
  BY DEF Apply, snapshotter
<1>2. /\ stmts \in Seq(Statement) /\ tables \in Database
      /\ tpc \in [Threads -> {"idle", "log", "execute"}] /\ cur \in [Threads -> Nat]
      /\ id \in Ids /\ ~Finished(id) /\ id \in InFlight
  BY <1>1 DEF ConcurrentInv, DbTypes, FlightInv, InFlight
<1>3. s \in Statement /\ id \in Nat
  BY <1>2 DEF Ids
<1>4. /\ stmts' \in Seq(Statement) /\ Len(stmts') = Len(stmts)
      /\ \A i \in Ids : /\ stmts'[i].op = stmts[i].op /\ stmts'[i].table = stmts[i].table
                        /\ i # id => stmts'[i] = stmts[i]
      /\ stmts'[id].effect = r
  <2> DEFINE new == [s EXCEPT !.effect = r]
  <2>1. r \in Effects
    BY DEF Effects
  <2>2. new \in Statement /\ new.op = s.op /\ new.table = s.table /\ new.effect = r
    <3> HIDE DEF r, s
    <3> QED BY <1>3, <2>1 DEF Statement
  <2>3. stmts' = [stmts EXCEPT ![id] = new]
    BY <1>1
  <2> HIDE DEF new, r
  <2> QED BY <1>2, <2>2, <2>3 DEF Ids
<1>5. /\ Ids' = Ids /\ \A t : Creates(t)' = Creates(t) /\ Inserts(t)' = Inserts(t)
      /\ \A i \in Ids : Finished(i)' <=> Finished(i) \/ i = id
  <2>1. Ids' = Ids
    BY <1>4 DEF Ids
  <2>2. r # "none"
    OBVIOUS
  <2> HIDE DEF r, s
  <2> QED BY <1>4, <2>1, <2>2 DEF Creates, Inserts, Finished
<1>6. \A t \in Names :
        /\ tables'[t].exists <=> tables[t].exists \/ id \in Creates(t)
        /\ tables'[t].rows = IF id \in Inserts(t) /\ r = "done"
                               THEN Append(tables[t].rows, id) ELSE tables[t].rows
  <2> TAKE t \in Names
  <2>1. /\ tables'[t].exists <=> tables[t].exists \/ (s.op = "create" /\ s.table = t)
        /\ tables'[t].rows = IF s.op = "insert" /\ s.table = t /\ tables[t].exists
                               THEN Append(tables[t].rows, id) ELSE tables[t].rows
    BY <1>1, <1>2, <1>3, ExecutedTable
  <2>2. s.op = "insert" /\ s.table = t => (r = "done" <=> tables[t].exists)
    BY <1>2 DEF Succeeds, Database
  <2>3. /\ id \in Creates(t) <=> s.op = "create" /\ s.table = t
        /\ id \in Inserts(t) <=> s.op = "insert" /\ s.table = t
    BY <1>2 DEF Creates, Inserts
  <2> HIDE DEF r, s
  <2> QED BY <2>1, <2>2, <2>3
<1>7. /\ \A t \in Names : id \in Inserts(t) => (r = "done" <=> tables[t].exists)
      /\ r \in {"done", "nothing"}
  BY <1>2 DEF Inserts, Succeeds, Database
<1>8. /\ tables' \in Database
      /\ \A t \in Names : tables[t].rows \in Seq(Nat) /\ Len(tables[t].rows) \in Nat
  <2>1. tables' \in Database
    <3> HIDE DEF s
    <3>1. \A t \in Names : Executed(tables, s, id) \in Database
      BY <1>2, <1>3, ExecutedTable
    <3>2. s.table \in Names
      BY <1>3 DEF Statement
    <3> QED BY <1>1, <3>1, <3>2
  <2> QED BY <1>2, <2>1 DEF Database
<1> HIDE DEF r, s
<1>9. /\ \A g \in Threads : g # h => tpc'[g] = tpc[g] /\ cur'[g] = cur[g]
      /\ tpc'[h] = "idle" /\ cur' \in [Threads -> Nat]
      /\ tpc' \in [Threads -> {"idle", "log", "execute"}]
  BY <1>1, <1>2
<1>10. DbTypes'
  BY <1>1, <1>4, <1>8, <1>9 DEF ConcurrentInv, DbTypes
<1>11. \A g \in Threads : g # h /\ tpc[g] # "idle" => cur[g] # id
  BY <1>1 DEF ConcurrentInv, FlightInv
<1>12. InFlight' \subseteq InFlight /\ \A i \in InFlight : i # id => i \in InFlight'
  <2>1. \A i \in InFlight' : \E g \in Threads : tpc'[g] # "idle" /\ cur'[g] = i
    BY DEF InFlight
  <2>2. \A i \in InFlight : \E g \in Threads : tpc[g] # "idle" /\ cur[g] = i
    BY DEF InFlight
  <2>3. \A g \in Threads : tpc'[g] # "idle" => cur'[g] \in InFlight
    BY <1>9 DEF InFlight
  <2>4. \A g \in Threads : tpc[g] # "idle" /\ cur[g] # id => cur[g] \in InFlight'
    BY <1>9 DEF InFlight
  <2> QED BY <2>1, <2>2, <2>3, <2>4
<1>13. FlightInv'
  <2>1. \A g \in Threads : tpc'[g] # "idle" => cur'[g] \in Ids' /\ ~(stmts'[cur'[g]].effect # "none")
    <3> TAKE g \in Threads
    <3>1. CASE g # h /\ tpc[g] # "idle"
      <4>1. cur[g] \in Ids /\ ~Finished(cur[g]) /\ cur[g] # id
        BY <1>11, <3>1 DEF ConcurrentInv, FlightInv
      <4> QED BY <1>4, <1>5, <1>9, <3>1, <4>1 DEF Finished
    <3> QED BY <1>9, <3>1
  <2>2. \A f, g \in Threads : tpc'[f] # "idle" /\ tpc'[g] # "idle" /\ cur'[f] = cur'[g] => f = g
    BY <1>9 DEF ConcurrentInv, FlightInv
  <2>3. \A i \in Ids' : ~Finished(i)' => i \in InFlight'
    BY <1>5, <1>12 DEF ConcurrentInv, FlightInv
  <2>4. \A i \in Ids' : \A j \in after'[i] : j \in Ids' /\ j < i /\ Finished(j)'
    BY <1>1, <1>5 DEF ConcurrentInv, FlightInv
  <2> QED BY <2>1, <2>2, <2>3, <2>4 DEF FlightInv, Finished
<1>14. \A i : Logged(i)' <=> Logged(i)
  BY <1>1, <1>9 DEF Logged
<1>15. LogInv'
  <2>1. \A p \in 1..Len(records) : \A g \in Threads : tpc'[g] = "log" => cur'[g] # records[p].id
    BY <1>9 DEF ConcurrentInv, LogInv, Logged
  <2>2. records' = records /\ nextLsn' = nextLsn /\ after' = after
    BY <1>1
  <2> QED BY <1>5, <2>1, <2>2 DEF ConcurrentInv, LogInv, Logged
<1>16. \A i \in Ids : id \notin after[i]
  BY <1>2 DEF ConcurrentInv, FlightInv
<1>17. TablesInv'
  <2> SUFFICES ASSUME NEW t \in Names
      PROVE  /\ tables'[t].exists => \E c \in Creates(t) : Finished(c)'
             /\ \A c \in Creates(t) : Finished(c)' => tables'[t].exists
             /\ \A k \in 1..Len(tables'[t].rows) :
                  tables'[t].rows[k] \in Inserts(t) /\ stmts'[tables'[t].rows[k]].effect = "done"
             /\ \A i \in Inserts(t) : stmts'[i].effect = "done" =>
                  \E k \in 1..Len(tables'[t].rows) : tables'[t].rows[k] = i
             /\ \A k, l \in 1..Len(tables'[t].rows) : k < l =>
                  /\ tables'[t].rows[k] # tables'[t].rows[l]
                  /\ tables'[t].rows[l] \notin after[tables'[t].rows[k]]
    <3>1. after' = after
      BY <1>1
    <3> QED BY <1>5, <3>1 DEF TablesInv
  <2> DEFINE rows == tables[t].rows
             K == Len(rows)
             new == tables'[t].rows
  <2>1. /\ tables[t].exists => \E c \in Creates(t) : Finished(c)
        /\ \A c \in Creates(t) : Finished(c) => tables[t].exists
        /\ \A k \in 1..K : rows[k] \in Inserts(t) /\ stmts[rows[k]].effect = "done"
        /\ \A i \in Inserts(t) : stmts[i].effect = "done" => \E k \in 1..K : rows[k] = i
        /\ \A k, l \in 1..K : k < l => rows[k] # rows[l] /\ rows[l] \notin after[rows[k]]
    BY DEF ConcurrentInv, TablesInv
  <2>2. Creates(t) \subseteq Ids /\ Inserts(t) \subseteq Ids
    BY DEF Creates, Inserts
  <2>3. \A k \in 1..K : rows[k] # id /\ stmts'[rows[k]].effect = "done"
    BY <1>2, <1>4, <2>1, <2>2 DEF Finished
  <2>4. tables'[t].exists => \E c \in Creates(t) : Finished(c)'
    BY <1>5, <1>6, <2>1, <2>2
  <2>5. \A c \in Creates(t) : Finished(c)' => tables'[t].exists
    BY <1>5, <1>6, <2>1, <2>2
  <2>6. \A i \in Inserts(t) : i # id /\ stmts'[i].effect = "done" => \E k \in 1..K : rows[k] = i
    BY <1>4, <2>1, <2>2
  <2>7. CASE id \in Inserts(t) /\ r = "done"
    <3>0. /\ K \in Nat /\ Len(new) = K + 1 /\ new[K + 1] = id
          /\ \A k \in 1..K : new[k] = rows[k]
      <4>1. new = Append(rows, id) /\ rows \in Seq(Nat)
        BY <1>6, <1>8, <2>7
      <4> HIDE DEF rows, new
      <4> QED BY <1>3, <4>1, AppendPlaces
    <3>1. /\ K \in Nat /\ Len(new) = K + 1 /\ new[K + 1] = id
          /\ \A k \in 1..K : new[k] = rows[k]
          /\ \A k \in 1..(K + 1) : k \in 1..K \/ k = K + 1
          /\ \A k \in 1..K : k \in 1..(K + 1)
          /\ K + 1 \in 1..(K + 1)
      <4> HIDE DEF rows, new, K
      <4> QED BY <3>0
    <3>2. stmts'[id].effect = "done"
      BY <1>4, <2>7
    <3> HIDE DEF rows, new, K
    <3>3. \A k \in 1..Len(new) : new[k] \in Inserts(t) /\ stmts'[new[k]].effect = "done"
      BY <2>1, <2>3, <2>7, <3>1, <3>2
    <3>4. \A i \in Inserts(t) : stmts'[i].effect = "done" => \E k \in 1..Len(new) : new[k] = i
      BY <2>6, <3>1
    <3>5. ASSUME NEW k \in 1..Len(new), NEW l \in 1..Len(new), k < l
          PROVE  new[k] # new[l] /\ new[l] \notin after[new[k]]
      <4>1. k \in 1..K
        BY <3>1, <3>5
      <4>2. CASE l \in 1..K
        BY <2>1, <3>1, <3>5, <4>1, <4>2
      <4>3. CASE l = K + 1
        BY <1>16, <2>1, <2>2, <2>3, <3>1, <4>1, <4>3
      <4> QED BY <3>1, <4>2, <4>3
    <3> QED BY <2>4, <2>5, <3>3, <3>4, <3>5 DEF new
  <2>8. CASE ~(id \in Inserts(t) /\ r = "done")
    <3>1. new = rows
      BY <1>6, <2>8
    <3>2. \A i \in Inserts(t) : stmts'[i].effect = "done" => \E k \in 1..K : rows[k] = i
      BY <1>4, <2>6, <2>8
    <3>3. \A k \in 1..K : rows[k] \in Inserts(t) /\ stmts'[rows[k]].effect = "done"
      BY <2>1, <2>3
    <3>4. \A k, l \in 1..K : k < l => rows[k] # rows[l] /\ rows[l] \notin after[rows[k]]
      BY <2>1
    <3> HIDE DEF rows, new
    <3> QED BY <2>4, <2>5, <3>1, <3>2, <3>3, <3>4 DEF new
  <2> QED BY <2>7, <2>8
<1>18. ResultInv'
  <2> SUFFICES ASSUME NEW t \in Names, NEW i \in Inserts(t)
      PROVE  /\ stmts'[i].effect = "nothing" => after[i] \cap Creates(t) = {}
             /\ stmts'[i].effect = "done" => \E c \in Creates(t) : Finished(c)' /\ i \notin after[c]
    <3>1. after' = after
      BY <1>1
    <3> QED BY <1>5, <3>1 DEF ResultInv
  <2>1. Creates(t) \subseteq Ids /\ Inserts(t) \subseteq Ids
    BY DEF Creates, Inserts
  <2>2. CASE i = id
    <3>1. \A c \in after[id] : Finished(c)
      BY <1>2 DEF ConcurrentInv, FlightInv
    <3>2. /\ tables[t].exists => \E c \in Creates(t) : Finished(c)
          /\ \A c \in Creates(t) : Finished(c) => tables[t].exists
      BY DEF ConcurrentInv, TablesInv
    <3>3. stmts'[i].effect = r /\ (r = "done" <=> tables[t].exists) /\ r \in {"done", "nothing"}
      BY <1>4, <1>7, <2>2
    <3> QED BY <1>5, <1>16, <2>1, <2>2, <3>1, <3>2, <3>3
  <2>3. CASE i # id
    <3>1. stmts'[i] = stmts[i]
      BY <1>4, <2>1, <2>3
    <3> QED BY <1>5, <2>1, <3>1 DEF ConcurrentInv, ResultInv
  <2> QED BY <2>2, <2>3
<1>19. ASSUME NEW parts \in Seq(TablePart), PartsInv(parts) PROVE PartsInv(parts)'
  <2>1. ASSUME NEW m \in 1..Len(parts), NEW t, t = parts[m].table
        PROVE  /\ tables'[t].exists /\ Len(parts[m].rows) <= Len(tables'[t].rows)
               /\ \A k \in 1..Len(parts[m].rows) : parts[m].rows[k] = tables'[t].rows[k]
    <3>1. parts[m] \in TablePart
      OBVIOUS
    <3>2. t \in Names /\ Len(parts[m].rows) \in Nat
      BY <2>1, <3>1 DEF TablePart
    <3>3. /\ tables[t].exists /\ Len(parts[m].rows) <= Len(tables[t].rows)
          /\ \A k \in 1..Len(parts[m].rows) : parts[m].rows[k] = tables[t].rows[k]
      BY <1>19, <2>1 DEF PartsInv
    <3>4. /\ Len(tables[t].rows) \in Nat /\ Len(tables[t].rows) <= Len(tables'[t].rows)
          /\ Len(tables'[t].rows) \in Nat
          /\ \A k \in 1..Len(tables[t].rows) : tables'[t].rows[k] = tables[t].rows[k]
      <4> DEFINE rows == tables[t].rows
                 new == tables'[t].rows
      <4>1. rows \in Seq(Nat) /\ (new = rows \/ new = Append(rows, id))
        BY <1>6, <1>8, <3>2
      <4> HIDE DEF rows, new
      <4>2. /\ Len(rows) \in Nat /\ Len(new) \in {Len(rows), Len(rows) + 1}
            /\ \A k \in 1..Len(rows) : new[k] = rows[k]
        <5>1. CASE new = rows
          BY <4>1, <5>1
        <5>2. CASE new = Append(rows, id)
          BY <1>3, <4>1, <5>2, AppendPlaces
        <5> QED BY <4>1, <5>1, <5>2
      <4> QED BY <4>2 DEF rows, new
    <3>5. tables'[t].exists
      BY <1>6, <3>2, <3>3
    <3> QED BY <3>2, <3>3, <3>4, <3>5
  <2>2. \A m, n \in 1..Len(parts) : parts[m].table = parts[n].table => m = n
    BY <1>19 DEF PartsInv
  <2> QED BY <2>1, <2>2 DEF PartsInv
<1>20. PartsInv(image.parts)' /\ PartsInv(snap.parts)'
  <2>1. image.parts \in Seq(TablePart) /\ snap.parts \in Seq(TablePart)
    BY DEF ConcurrentInv, DbTypes, IsFile
  <2>2. PICK i : i = image.parts
    OBVIOUS
  <2>3. PICK j : j = snap.parts
    OBVIOUS
  <2>4. PartsInv(i)' /\ PartsInv(j)'
    BY <1>19, <2>1, <2>2, <2>3 DEF ConcurrentInv
  <2>5. image' = image /\ snap' = snap
    BY <1>1
  <2> QED BY <2>2, <2>3, <2>4, <2>5 DEF PartsInv
<1>21. SavingInv'
  <2>1. SavingInv
    BY DEF ConcurrentInv
  <2>2. UNCHANGED <<records, nextLsn, snap, saving, image, after, overlapped>>
    BY <1>1
  <2>3. CutOff' = CutOff
    BY <2>2 DEF CutOff
  <2>4. ASSUME NEW m \in 1..Len(image.parts), NEW t, t = image.parts[m].table,
               NEW i \in Inserts(t) \ overlapped, stmts'[i].effect = "done"
        PROVE  \E k \in 1..Len(image.parts[m].rows) : image.parts[m].rows[k] = i
    <3>0. image.parts # <<>>
      BY <2>4
    <3>1. id \in overlapped
      <4>1. saving # "idle"
        BY <2>1, <3>0 DEF SavingInv
      <4>2. InFlight \subseteq overlapped
        BY <2>1, <4>1 DEF SavingInv
      <4> QED BY <1>2, <4>2
    <3>2. stmts[i].effect = "done"
      BY <1>4, <2>4, <3>1 DEF Inserts
    <3> QED BY <2>1, <2>4, <3>2 DEF SavingInv
  <2>5. \A m \in 1..Len(image'.parts) :
          \A i \in (Inserts(image.parts[m].table) \ overlapped)' :
            stmts'[i].effect = "done" =>
              \E k \in 1..Len(image'.parts[m].rows) : image'.parts[m].rows[k] = i
    <3>1. \A m \in 1..Len(image'.parts) : \A t : t = image'.parts[m].table =>
            \A i \in Inserts(t)' \ overlapped' :
              stmts'[i].effect = "done" =>
                \E k \in 1..Len(image'.parts[m].rows) : image'.parts[m].rows[k] = i
      BY <1>5, <2>2, <2>4
    <3> QED BY <3>1 DEF Inserts
  <2>6. Ids' = Ids /\ InFlight' \subseteq InFlight
    BY <1>5, <1>12
  <2> QED BY <2>1, <2>2, <2>3, <2>5, <2>6 DEF SavingInv
<1>22. \A t, i : /\ (Covered(t)' <=> Covered(t)) /\ (Holds(t, i)' <=> Holds(t, i))
                 /\ (Fresh(i)' <=> Fresh(i))
  BY <1>1 DEF Covered, Holds, Fresh, Skipped
<1>23. after' = after /\ overlapped' = overlapped
  BY <1>1
<1>24. SnapInv'
  <2>1. SnapInv
    BY DEF ConcurrentInv
  <2>2. \A t \in Names : Inserts(t) \subseteq Ids
    BY DEF Inserts
  <2> QED BY <1>5, <1>14, <1>22, <1>23, <2>1, <2>2 DEF SnapInv
<1>25. ASSUME NoCreateInSnapshot' PROVE WholeInv'
  <2>1. NoCreateInSnapshot /\ WholeInv
    BY <1>5, <1>23, <1>25 DEF ConcurrentInv, NoCreateInSnapshot
  <2>2. UNCHANGED <<snap, saving, image, known>>
    BY <1>1
  <2>3. saving = "walk" => \A t \in Names : tables'[t].exists <=> tables[t].exists
    BY <1>2, <1>6, <2>1 DEF ConcurrentInv, SavingInv, NoCreateInSnapshot
  <2>4. saving = "walk" => Existing(tables') = Existing(tables)
    BY <2>3 DEF Existing
  <2>5. id \notin overlapped => Fresh(id)
    <3>1. Logged(id)
      BY <1>1, <1>11 DEF Logged
    <3> QED BY <1>2, <3>1 DEF ConcurrentInv, SnapInv
  <2>6. \A t \in Names : Creates(t) \subseteq Ids \ overlapped /\ Inserts(t) \subseteq Ids
    BY <2>1 DEF NoCreateInSnapshot, Creates, Inserts
  <2>7. ASSUME NEW t \in Names, NEW i \in Inserts(t) \ overlapped,
               stmts'[i].effect = "done", ~Fresh(i)
        PROVE  Holds(t, i)
    <3>1. i # id /\ i \in Ids
      BY <2>5, <2>6, <2>7
    <3>2. stmts[i].effect = "done"
      BY <1>4, <2>7, <3>1
    <3> QED BY <2>1, <2>7, <3>2 DEF WholeInv
  <2>8. ASSUME NEW t \in Names, NEW c \in Creates(t), Finished(c)', ~Fresh(c) PROVE Covered(t)
    <3>1. c # id /\ c \in Ids
      BY <2>5, <2>6, <2>8
    <3>2. Finished(c)
      BY <1>5, <2>8, <3>1
    <3> QED BY <2>1, <2>8, <3>2 DEF WholeInv
  <2>9. saving' = "walk" => known' = Existing(tables') /\ image'.count = Cardinality(known')
    BY <2>1, <2>2, <2>4 DEF WholeInv
  <2>10. snap' = NoImage \/ snap'.count = Cardinality(TablesOf(snap'.parts))
    BY <2>1, <2>2 DEF WholeInv
  <2> QED BY <1>5, <1>22, <1>23, <2>7, <2>8, <2>9, <2>10 DEF WholeInv
<1> QED BY <1>10, <1>13, <1>15, <1>17, <1>18, <1>20, <1>21, <1>24, <1>25 DEF ConcurrentInv

-----------------------------------------------------------------------------
(* Every step of a thread and of the snapshotter keeps the invariant.      *)
LEMMA DbInvStep == ConcurrentInv /\ [DbNext]_dbVars => ConcurrentInv'
<1> SUFFICES ASSUME ConcurrentInv, [DbNext]_dbVars PROVE ConcurrentInv'
  OBVIOUS
<1>1. ASSUME NEW h \in Threads, NEW op \in {"create", "insert"}, NEW w \in BOOLEAN,
             NEW t \in Names, Call(h, op, w, t)
      PROVE  ConcurrentInv'
  BY <1>1, CallStep
<1>2. ASSUME NEW h \in Threads, Log(h) \/ Apply(h) PROVE ConcurrentInv'
  BY <1>2, LogStep, ApplyStep
<1>3. CASE ReadLsn \/ WriteHeader \/ Rename \/ Truncate
  BY <1>3, ReadLsnStep, WriteHeaderStep, RenameStep, TruncateStep
<1>4. ASSUME NEW t \in Names, WriteTable(t) PROVE ConcurrentInv'
  BY <1>4, WriteTableStep
<1>5. CASE UNCHANGED dbVars
  <2>1. /\ UNCHANGED <<tables, records, nextLsn, snap, tpc, cur, saving, image, known>>
        /\ UNCHANGED <<stmts, after, overlapped>>
    BY <1>5 DEF dbVars, database, snapshotter
  <2>2. /\ TablesInv' /\ ResultInv' /\ SameStatements
        /\ \A parts : PartsInv(parts) => PartsInv(parts)'
    BY <2>1, Untouched DEF ConcurrentInv
  <2>3. /\ FlightInv' /\ LogInv' /\ InFlight' = InFlight
        /\ \A i : (Logged(i)' <=> Logged(i)) /\ (Fresh(i)' <=> Fresh(i))
        /\ \A t, i : (Covered(t)' <=> Covered(t)) /\ (Holds(t, i)' <=> Holds(t, i))
    BY <2>1, UntouchedLog DEF ConcurrentInv, database
  <2>4. DbTypes'
    BY <2>1 DEF ConcurrentInv, DbTypes
  <2>5. PartsInv(image.parts)' /\ PartsInv(snap.parts)'
    BY <2>1, <2>2 DEF ConcurrentInv
  <2>6. SavingInv'
    BY <2>1, <2>2, <2>3 DEF ConcurrentInv, SavingInv, SameStatements, CutOff
  <2>7. SnapInv'
    BY <2>1, <2>2, <2>3 DEF ConcurrentInv, SnapInv, SameStatements
  <2>8. NoCreateInSnapshot' => WholeInv'
    BY <2>1, <2>2, <2>3 DEF ConcurrentInv, WholeInv, NoCreateInSnapshot, SameStatements
  <2> QED BY <2>2, <2>3, <2>4, <2>5, <2>6, <2>7, <2>8 DEF ConcurrentInv
<1> QED BY <1>1, <1>2, <1>3, <1>4, <1>5 DEF DbNext

(* The invariant holds throughout.                                         *)
LEMMA DbInvAlways == DbSpec => []ConcurrentInv
<1> QED BY DbInvInit, DbInvStep, PTL DEF DbSpec

-----------------------------------------------------------------------------
(* What a replay of the log finds                                          *)

(* The table t is there when n records have been replayed, and the records *)
(* that recover turns into rows of t: not covered, and behind the table.   *)
Created(t, n) ==
  Covered(t) \/ \E q \in 1..Len(records) : q <= n /\ ~Skipped(records[q]) /\ records[q].id \in Creates(t)
Replays(t) ==
  {p \in 1..Len(records) : ~Skipped(records[p]) /\ records[p].id \in Inserts(t) /\ Created(t, p - 1)}

(* Where the rows of t come from: the first len from the snapshot, the     *)
(* others each from its record, in the order of the log.                   *)
ComeFrom(t, found, len, pos) ==
  LET m == Len(found) - len IN
  /\ len \in Nat /\ m \in Nat /\ Len(found) = len + m
  /\ \A k \in 1..len : /\ Holds(t, found[k]) /\ k \in 1..Len(tables[t].rows)
                       /\ found[k] = tables[t].rows[k]
  /\ \A i : Holds(t, i) => \E k \in 1..len : found[k] = i
  /\ pos \in [1..m -> Replays(t)]
  /\ \A j \in 1..m : found[len + j] = records[pos[j]].id
  /\ \A j, k \in 1..m : j < k => pos[j] < pos[k]
  /\ \A p \in Replays(t) : \E j \in 1..m : pos[j] = p

(* A statement has one record, and the records it follows are before it.   *)
LEMMA OneRecord ==
  ASSUME ConcurrentInv, NEW p \in 1..Len(records), NEW q \in 1..Len(records)
  PROVE  /\ records[p].id = records[q].id => p = q
         /\ records[q].id \in after[records[p].id] => q < p
<1>1. p \in Nat /\ q \in Nat
  BY DEF ConcurrentInv, DbTypes
<1>2. /\ records[p].id \in Ids
      /\ p < q => records[p].id # records[q].id /\ records[q].id \notin after[records[p].id]
      /\ q < p => records[q].id # records[p].id
  BY DEF ConcurrentInv, LogInv
<1>3. p = q => records[q].id \notin after[records[p].id]
  <2>1. \A j \in after[records[p].id] : j < records[p].id /\ j \in Nat
    BY <1>2 DEF ConcurrentInv, FlightInv, Ids
  <2> QED BY <1>2, <2>1 DEF Ids
<1> QED BY <1>1, <1>2, <1>3

(* The INSERT that ran with no snapshot and no CREATE of its table.        *)
LEMMA CalmInsert ==
  ASSUME ConcurrentInv, NEW i \in Ids, Calm(i), NEW t, t = stmts[i].table
  PROVE  /\ t \in Names /\ i \in Inserts(t) \ overlapped
         /\ \A c \in Creates(t) : c \in after[i] \/ i \in after[c]
<1>1. stmts[i] \in Statement
  BY DEF ConcurrentInv, DbTypes, Ids
<1>2. t \in Names
  BY <1>1 DEF Statement
<1> QED BY <1>2 DEF Calm, Inserts, Ordered, Before

(* The record of an INSERT that succeeded is replayed behind its table.    *)
LEMMA CalmReplayed ==
  ASSUME ConcurrentInv, WholeInv, NEW i \in Ids, Calm(i), stmts[i].effect = "done",
         NEW p \in 1..Len(records), records[p].id = i, ~Skipped(records[p])
  PROVE  p \in Replays(stmts[i].table)
<1>0. PICK t : t = stmts[i].table
  OBVIOUS
<1>1. /\ t \in Names /\ i \in Inserts(t)
      /\ \A c \in Creates(t) : c \in after[i] \/ i \in after[c]
  BY <1>0, CalmInsert
<1>2. PICK c \in Creates(t) : Finished(c) /\ i \notin after[c]
  BY <1>1 DEF ConcurrentInv, ResultInv
<1>3. c \in after[i]
  BY <1>1, <1>2
<1>4. CASE Fresh(c)
  <2>1. PICK q \in 1..Len(records) : records[q].id = c /\ ~Skipped(records[q])
    BY <1>4 DEF Fresh
  <2>2. q < p /\ q \in Nat /\ p \in Nat
    BY <1>3, <2>1, OneRecord DEF ConcurrentInv, DbTypes
  <2>3. q <= p - 1
    BY <2>2
  <2>4. Created(t, p - 1)
    BY <1>2, <2>1, <2>3 DEF Created
  <2> QED BY <1>0, <1>1, <2>4 DEF Replays
<1>5. CASE ~Fresh(c)
  <2>1. Covered(t)
    BY <1>1, <1>2, <1>5 DEF WholeInv
  <2> QED BY <1>0, <1>1, <2>1 DEF Replays, Created
<1> QED BY <1>4, <1>5

(* Each INSERT that took effect has its place, and those before it are     *)
(* before.                                                                 *)
LEMMA CalmPlace ==
  ASSUME ConcurrentInv, NoCreateInSnapshot, NEW i \in Ids, stmts[i].effect = "done", Calm(i),
         NEW len, NEW pos, ComeFrom(stmts[i].table, Rebuilt[stmts[i].table].rows, len, pos)
  PROVE  \E k : /\ Places(i) = {k}
                /\ \A j \in after[i] : stmts[j].table = stmts[i].table => \A l \in Places(j) : l < k
<1>0. WholeInv
  BY DEF ConcurrentInv
<1>1. PICK t : t = stmts[i].table
  OBVIOUS
<1>2. /\ t \in Names /\ i \in Inserts(t) \ overlapped
      /\ \A c \in Creates(t) : c \in after[i] \/ i \in after[c]
  BY <1>1, CalmInsert
<1>3. PICK found : found = Rebuilt[t].rows
  OBVIOUS
<1>4. ComeFrom(t, found, len, pos)
  BY <1>1, <1>3
<1> DEFINE m == Len(found) - len
<1>5. /\ len \in Nat /\ m \in Nat /\ Len(found) = len + m
      /\ \A k \in 1..len : /\ Holds(t, found[k]) /\ k \in 1..Len(tables[t].rows)
                           /\ found[k] = tables[t].rows[k]
      /\ Holds(t, i) => \E k \in 1..len : found[k] = i
      /\ pos \in [1..m -> Replays(t)]
      /\ \A j \in 1..m : found[len + j] = records[pos[j]].id
      /\ \A j, k \in 1..m : j < k => pos[j] < pos[k]
      /\ \A p \in Replays(t) : \E j \in 1..m : pos[j] = p
  BY <1>4 DEF ComeFrom
<1> HIDE DEF m
<1>6. \A k \in 1..Len(found) : k \in 1..len \/ \E j \in 1..m : k = len + j
  <2> TAKE k \in 1..Len(found)
  <2>1. k \in Nat /\ k <= len + m /\ k >= 1
    BY <1>5
  <2>2. CASE k > len
    <3>1. k - len \in 1..m /\ k = len + (k - len)
      BY <1>5, <2>1, <2>2
    <3> QED BY <3>1
  <2> QED BY <1>5, <2>1, <2>2
<1>7. \A k \in 1..len : k \in 1..Len(found) /\ k \in Nat
  BY <1>5
<1>8. \A j \in 1..m : len + j \in 1..Len(found) /\ len + j > len /\ j \in Nat
  BY <1>5
<1>9. \A j \in 1..m : /\ pos[j] \in 1..Len(records) /\ pos[j] \in Nat
                      /\ ~Skipped(records[pos[j]]) /\ Fresh(found[len + j])
  <2> TAKE j \in 1..m
  <2>1. pos[j] \in Replays(t)
    BY <1>5
  <2>2. pos[j] \in 1..Len(records) /\ ~Skipped(records[pos[j]])
    BY <2>1 DEF Replays
  <2>3. Len(records) \in Nat
    BY DEF ConcurrentInv, DbTypes
  <2>4. found[len + j] = records[pos[j]].id
    BY <1>5
  <2>5. Fresh(records[pos[j]].id)
    BY <2>2 DEF Fresh
  <2>6. pos[j] \in Nat
    BY <2>2, <2>3
  <2> QED BY <2>2, <2>4, <2>5, <2>6
<1>10. \A j : stmts[j].table = t => Places(j) = {k \in 1..Len(found) : found[k] = j}
  BY <1>3 DEF Places
<1>11. \A j \in after[i] : j # i /\ j \in Nat
  <2>1. \A j \in after[i] : j \in Ids /\ j < i
    BY DEF ConcurrentInv, FlightInv
  <2>2. \A j \in Ids : j \in Nat
    BY DEF Ids
  <2> QED BY <2>1, <2>2
<1>12. CASE Fresh(i)
  <2>1. PICK p \in 1..Len(records) : records[p].id = i /\ ~Skipped(records[p])
    BY <1>12 DEF Fresh
  <2>2. p \in Replays(t)
    BY <1>0, <1>1, <2>1, CalmReplayed
  <2>3. PICK n \in 1..m : pos[n] = p
    BY <1>5, <2>2
  <2>4. \A k \in 1..len : found[k] # i
    <3>1. ~Holds(t, i)
      BY <1>2, <1>12 DEF ConcurrentInv, SnapInv
    <3> QED BY <1>5, <3>1
  <2>5. ASSUME NEW j \in 1..m, found[len + j] = i PROVE j = n
    <3>1. pos[j] = p
      <4>1. PICK q : q = pos[j]
        OBVIOUS
      <4>2. q \in 1..Len(records) /\ records[q].id = i
        BY <1>5, <1>9, <2>5, <4>1
      <4>3. q = p
        BY <2>1, <4>2, OneRecord
      <4> QED BY <4>1, <4>3
    <3>2. ~(j < n) /\ ~(n < j)
      <4>1. (j < n => pos[j] < pos[n]) /\ (n < j => pos[n] < pos[j])
        BY <1>5
      <4>2. pos[j] \in Nat /\ pos[j] = pos[n]
        BY <1>9, <2>3, <3>1
      <4> QED BY <4>1, <4>2
    <3> QED BY <1>8, <3>2
  <2>6. len + n \in 1..Len(found) /\ found[len + n] = i
    BY <1>5, <1>8, <2>1, <2>3
  <2>7. Places(i) = {len + n}
    <3>1. \A k \in 1..Len(found) : found[k] = i => k = len + n
      BY <1>6, <2>4, <2>5
    <3>2. Places(i) = {k \in 1..Len(found) : found[k] = i}
      BY <1>1, <1>10
    <3> QED BY <2>6, <3>1, <3>2
  <2>8. ASSUME NEW a \in after[i], stmts[a].table = t, NEW l \in Places(a) PROVE l < len + n
    <3>1. l \in 1..Len(found) /\ found[l] = a
      BY <1>10, <2>8
    <3>2. CASE l \in 1..len
      BY <1>5, <1>8, <3>2
    <3>3. ASSUME NEW j \in 1..m, l = len + j PROVE l < len + n
      <4>1. records[pos[j]].id = a
        BY <1>5, <3>1, <3>3
      <4>2. pos[j] < p
        BY <1>9, <2>1, <2>8, <4>1, OneRecord
      <4>3. p \in Nat /\ pos[j] \in Nat /\ ~(p < pos[j]) /\ pos[j] # p
        BY <1>9, <2>3, <4>2
      <4>4. ~(n < j) /\ n # j
        BY <1>5, <2>3, <4>3
      <4> QED BY <1>5, <1>8, <3>3, <4>4
    <3> QED BY <1>6, <3>1, <3>2, <3>3
  <2> QED BY <1>1, <2>7, <2>8
<1>13. CASE ~Fresh(i)
  <2>1. Holds(t, i)
    BY <1>0, <1>2, <1>13 DEF WholeInv
  <2>2. PICK n \in 1..len : found[n] = i
    BY <1>5, <2>1
  <2>3. Logged(i) /\ i \in Ids \ overlapped
    <3>1. Finished(i)
      BY DEF Finished
    <3> QED BY <1>2, <3>1 DEF Logged, ConcurrentInv, FlightInv
  <2>4. \A a \in after[i] : ~Fresh(a)
    BY <1>13, <2>3 DEF ConcurrentInv, SnapInv
  <2>5. \A k, l \in 1..Len(tables[t].rows) : k < l =>
          /\ tables[t].rows[k] # tables[t].rows[l]
          /\ tables[t].rows[l] \notin after[tables[t].rows[k]]
    <3>1. TablesInv
      BY DEF ConcurrentInv
    <3> QED BY <1>2, <3>1 DEF TablesInv
  <2>6. ASSUME NEW k \in 1..len, NEW l \in 1..len, k < l
        PROVE  found[k] # found[l] /\ found[l] \notin after[found[k]]
    <3>1. /\ k \in 1..Len(tables[t].rows) /\ found[k] = tables[t].rows[k]
          /\ l \in 1..Len(tables[t].rows) /\ found[l] = tables[t].rows[l]
      BY <1>5
    <3> QED BY <2>5, <2>6, <3>1
  <2>7. Places(i) = {n}
    <3>1. \A k \in 1..len : found[k] = i => k = n
      BY <1>7, <2>2, <2>6
    <3>2. \A j \in 1..m : found[len + j] # i
      BY <1>9, <1>13
    <3>3. \A k \in 1..Len(found) : found[k] = i => k = n
      BY <1>6, <3>1, <3>2
    <3>4. Places(i) = {k \in 1..Len(found) : found[k] = i}
      BY <1>1, <1>10
    <3> QED BY <1>7, <2>2, <3>3, <3>4
  <2>8. ASSUME NEW a \in after[i], stmts[a].table = t, NEW l \in Places(a) PROVE l < n
    <3>1. l \in 1..Len(found) /\ found[l] = a
      BY <1>10, <2>8
    <3>2. l \in 1..len
      BY <1>6, <1>9, <2>4, <3>1
    <3>3. ~(n < l) /\ n # l
      BY <1>11, <2>2, <2>6, <3>1, <3>2
    <3> QED BY <1>7, <3>2, <3>3
  <2> QED BY <1>1, <2>7, <2>8
<1> QED BY <1>12, <1>13

(* One that did not has none.                                              *)
LEMMA FailedPlace ==
  ASSUME ConcurrentInv, NoCreateInSnapshot, NEW i \in Ids, stmts[i].effect = "nothing", Calm(i),
         NEW len, NEW pos, ComeFrom(stmts[i].table, Rebuilt[stmts[i].table].rows, len, pos)
  PROVE  Places(i) = {}
<1>0. WholeInv
  BY DEF ConcurrentInv
<1>1. PICK t : t = stmts[i].table
  OBVIOUS
<1>2. /\ t \in Names /\ i \in Inserts(t) \ overlapped
      /\ \A c \in Creates(t) : c \in after[i] \/ i \in after[c]
  BY <1>1, CalmInsert
<1>3. PICK found : found = Rebuilt[t].rows
  OBVIOUS
<1>4. ComeFrom(t, found, len, pos)
  BY <1>1, <1>3
<1>5. after[i] \cap Creates(t) = {}
  BY <1>2 DEF ConcurrentInv, ResultInv
<1>6. i \in Ids /\ Creates(t) \subseteq Ids
  BY DEF Creates
<1>7. ASSUME NEW k \in 1..len, found[k] = i PROVE FALSE
  <2>1. Holds(t, i)
    BY <1>4, <1>7 DEF ComeFrom
  <2> QED BY <1>2, <2>1, HeldSucceeded
<1>8. ASSUME NEW p \in Replays(t), records[p].id = i PROVE FALSE
  <2>1. p \in 1..Len(records) /\ ~Skipped(records[p]) /\ Created(t, p - 1)
    BY <1>8 DEF Replays
  <2>2. Fresh(i)
    BY <1>8, <2>1 DEF Fresh
  <2>3. ~Covered(t)
    BY <1>2, <1>5, <2>2 DEF ConcurrentInv, SnapInv
  <2>4. PICK q \in 1..Len(records) : q <= p - 1 /\ records[q].id \in Creates(t)
    BY <2>1, <2>3 DEF Created
  <2>5. i \in after[records[q].id]
    BY <1>2, <1>5, <2>4
  <2>6. p < q
    BY <1>8, <2>1, <2>5, OneRecord
  <2>7. p \in Nat /\ q \in Nat
    BY <2>1 DEF ConcurrentInv, DbTypes
  <2> QED BY <2>4, <2>6, <2>7
<1>9. ASSUME NEW k \in 1..Len(found), found[k] = i PROVE FALSE
  <2> DEFINE m == Len(found) - len
  <2>1. /\ len \in Nat /\ m \in Nat /\ Len(found) = len + m /\ pos \in [1..m -> Replays(t)]
        /\ \A j \in 1..m : found[len + j] = records[pos[j]].id
    BY <1>4 DEF ComeFrom
  <2> HIDE DEF m
  <2>2. k \in Nat /\ k >= 1 /\ k <= len + m
    BY <2>1
  <2>3. CASE k <= len
    <3>1. k \in 1..len
      BY <2>1, <2>2, <2>3
    <3> QED BY <1>7, <1>9, <3>1
  <2>4. CASE k > len
    <3>1. PICK j \in 1..m : k = len + j
      <4>1. k - len \in 1..m /\ k = len + (k - len)
        BY <2>1, <2>2, <2>4
      <4> QED BY <4>1
    <3>2. pos[j] \in Replays(t) /\ records[pos[j]].id = i
      BY <1>9, <2>1, <3>1
    <3> QED BY <1>8, <3>2
  <2> QED BY <2>1, <2>2, <2>3, <2>4
<1> QED BY <1>1, <1>3, <1>9 DEF Places

(* A table holds an INSERT once when it took effect, and else not at all.  *)
LEMMA PresentOnce ==
  ASSUME ConcurrentInv, NEW i \in Ids, stmts[i].op = "insert"
  PROVE  /\ stmts[i].effect = "done" => \E k : Present(i) = {k}
         /\ stmts[i].effect # "done" => Present(i) = {}
<1>1. PICK t : t = stmts[i].table
  OBVIOUS
<1>2. t \in Names /\ i \in Inserts(t)
  <2>1. stmts[i] \in Statement
    BY DEF ConcurrentInv, DbTypes, Ids
  <2> QED BY <1>1, <2>1 DEF Statement, Inserts
<1>3. PICK rows : rows = tables[t].rows
  OBVIOUS
<1>4. /\ \A k \in 1..Len(rows) : stmts[rows[k]].effect = "done"
      /\ stmts[i].effect = "done" => \E k \in 1..Len(rows) : rows[k] = i
      /\ \A k, l \in 1..Len(rows) : k < l => rows[k] # rows[l]
  BY <1>2, <1>3 DEF ConcurrentInv, TablesInv
<1>5. Len(rows) \in Nat
  BY <1>2, <1>3 DEF ConcurrentInv, DbTypes, Database
<1>6. Present(i) = {k \in 1..Len(rows) : rows[k] = i}
  BY <1>1, <1>3 DEF Present
<1>7. ASSUME NEW k \in 1..Len(rows), rows[k] = i PROVE Present(i) = {k}
  <2>1. \A l \in 1..Len(rows) : rows[l] = i => ~(l < k) /\ ~(k < l)
    BY <1>4, <1>7
  <2>2. \A l \in 1..Len(rows) : ~(l < k) /\ ~(k < l) => l = k
    BY <1>5
  <2> QED BY <1>6, <1>7, <2>1, <2>2
<1> QED BY <1>4, <1>6, <1>7
=============================================================================
