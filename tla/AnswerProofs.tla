---------------------------- MODULE AnswerProofs ----------------------------
(***************************************************************************)
(* What the executor answers, on top of ExecutorProofs, for any number of  *)
(* workers, queries, tables and evictions: an answer is made of rows that  *)
(* its tables once held, and unless it is a result put late it shows every *)
(* row that was due when the SELECT arrived.                               *)
(***************************************************************************)
EXTENDS ExecutorProofs

(* Most leaves are first-order, and Zenon is the quicker on those.         *)
USE ZenonT(5), SMTT(20)

Doubts == {"none", "late", "raced"}

(* The history variables: past ends with the tables as they are, and what  *)
(* is due to a statement was settled, and is still there.                  *)
Marked ==
  /\ doubt \in [Workers -> Doubts] /\ doubts \in [Keys -> Doubts]
  /\ past \in Seq(Tables) /\ Len(past) >= 1 /\ past[Len(past)] = tables
  /\ settled \in [TableNames -> Nat] /\ due \in [Workers -> [TableNames -> Nat]]
  /\ \A t \in TableNames : settled[t] <= Len(tables[t].rows)
  /\ \A w \in Workers : \A t \in TableNames : due[w][t] <= settled[t]

(* rows is the result of q on the first table of instant i of p and the    *)
(* second table of instant j.                                              *)
At(p, q, i, j, rows) ==
  /\ i \in 1..Len(p) /\ j \in 1..Len(p) /\ i <= j
  /\ rows = Answer(q, p[i][q.from].rows, JoinRows(q, p[j]))

(* rows is the result, of some past, of a query with this key.             *)
PastOfKey(p, key, rows) ==
  \E q \in Queries : normalize(q) = key /\ \E i, j \in 1..Len(p) : At(p, q, i, j, rows)

CachePast ==
  \A i \in 1..Len(cache.list) :
    doubts[cache.list[i].key] # "raced" =>
      PastOfKey(past, cache.list[i].key, cache.list[i].rows)
LeftAt(p, w, i) == i \in 1..Len(p) /\ left[w] = p[i][Query(w).from].rows
RightAt(p, w, j) == j \in 1..Len(p) /\ right[w] = JoinRows(Query(w), p[j])
ScanPast(w) ==
  /\ pc[w] = "indexing" => Query(w).join = NoTable
  /\ pc[w] = "scanRight" => \E i \in 1..Len(past) : LeftAt(past, w, i)
  /\ pc[w] = "put" /\ doubt[w] # "raced" =>
       \E i, j \in 1..Len(past) : i <= j /\ LeftAt(past, w, i) /\ RightAt(past, w, j)
AnswerPast(w) ==
  Replied(w) /\ stmt[w].op = "select" /\ doubt[w] # "raced" =>
    PastOfKey(past, normalize(Query(w)), answer[w].rows)

PastInv == Marked /\ CachePast /\ \A w \in Workers : ScanPast(w) /\ AnswerPast(w)

(* rows is the result of q on at least the first n rows of its table.      *)
Shows(d, q, n, rows) ==
  \E m \in n..Len(d[q.from].rows) : rows = Answer(q, Prefix(d[q.from].rows, m), <<>>)

CacheShows ==
  \A i \in 1..Len(cache.list) : \A q \in Queries :
    Sole(q) /\ cache.list[i].key = normalize(q) /\ doubts[normalize(q)] = "none" =>
      Shows(tables, q, settled[q.from], cache.list[i].rows)
ScanShows(w) ==
  pc[w] = "put" /\ doubt[w] # "raced" /\ Query(w).join = NoTable =>
    \E m \in due[w][Query(w).from]..Len(tables[Query(w).from].rows) :
      left[w] = Prefix(tables[Query(w).from].rows, m)
AnswerShows(w) ==
  Replied(w) /\ stmt[w].op = "select" /\ doubt[w] = "none" /\ Sole(Query(w)) =>
    Shows(tables, Query(w), due[w][Query(w).from], answer[w].rows)

ShowsInv == CacheShows /\ \A w \in Workers : ScanShows(w) /\ AnswerShows(w)

-----------------------------------------------------------------------------
(* The steps and the history variables.                                    *)

(* past gets a state exactly when the tables change.                       *)
LEMMA PastMoves ==
  ASSUME [Next]_vars
  PROVE  UNCHANGED <<tables, past>> \/ past' = Append(past, tables')
<1>1. CASE UNCHANGED vars
  BY <1>1 DEF vars, history
<1>2. ASSUME NEW w \in Workers, Create(w)
      PROVE  UNCHANGED <<tables, past>> \/ past' = Append(past, tables')
  <2>1. past' = IF tables' = tables THEN past ELSE Append(past, tables')
    BY <1>2 DEF Create
  <2> QED BY <2>1
<1>3. ASSUME NEW w \in Workers, WriteRow(w) PROVE past' = Append(past, tables')
  BY <1>3 DEF WriteRow
<1>4. ASSUME NEW w \in Workers, Step(w), ~Create(w), ~WriteRow(w)
      PROVE  UNCHANGED <<tables, past>>
  BY <1>4 DEF Step, OpenTable, RejectRow, LockRow, Invalidate, LookUp, ResolveFails, ScanLeft,
              ScanRight, EnterIndex, LeaveIndex, PutResult, Return, history
<1>5. ASSUME NEW w \in Workers, NEW s \in Requests, Arrive(w, s) PROVE UNCHANGED <<tables, past>>
  BY <1>5 DEF Arrive
<1> QED BY <1>1, <1>2, <1>3, <1>4, <1>5 DEF Next

(* Only the end of an INSERT settles anything, and only of its table.      *)
LEMMA SettledMoves ==
  ASSUME [Next]_vars
  PROVE  \/ UNCHANGED settled
         \/ \E w \in Workers : Invalidate(w)
<1>1. CASE UNCHANGED vars
  BY <1>1 DEF vars, history
<1>2. ASSUME NEW w \in Workers, Step(w), ~Invalidate(w) PROVE UNCHANGED settled
  BY <1>2 DEF Step, Create, OpenTable, RejectRow, LockRow, WriteRow, LookUp, ResolveFails, ScanLeft,
              ScanRight, EnterIndex, LeaveIndex, PutResult, Return, history
<1>3. ASSUME NEW w \in Workers, NEW s \in Requests, Arrive(w, s) PROVE UNCHANGED settled
  BY <1>3 DEF Arrive
<1> QED BY <1>1, <1>2, <1>3 DEF Next

(* What the end of an INSERT settles.                                      *)
LEMMA InvalidateSettles ==
  ASSUME Shape, Marked, NEW w \in Workers, Place(w), Invalidate(w)
  PROVE  /\ stmt[w].table \in TableNames /\ tables' = tables
         /\ settled' = [settled EXCEPT ![stmt[w].table] = Len(tables[stmt[w].table].rows)]
         /\ \A t \in TableNames : settled'[t] \in Nat /\ settled[t] <= settled'[t]
                                  /\ settled'[t] <= Len(tables'[t].rows)
<1> DEFINE u == stmt[w].table
           n == Len(tables[u].rows)
<1>1. u \in TableNames
  BY DEF Invalidate, Place, Inserting, InsertStmt
<1>2. tables' = tables /\ settled' = [settled EXCEPT ![u] = n]
  BY DEF Invalidate, Settle
<1>3. n \in Nat /\ settled[u] <= n
  <2>1. tables[u].rows \in Seq(Rows)
    BY <1>1 DEF Shape, Tables
  <2> QED BY <1>1, <2>1 DEF Marked
<1>4. settled \in [TableNames -> Nat] /\ \A t \in TableNames : settled[t] <= Len(tables[t].rows)
  BY DEF Marked
<1> HIDE DEF n, u
<1>5. ASSUME NEW t \in TableNames
      PROVE  settled'[t] \in Nat /\ settled[t] <= settled'[t] /\ settled'[t] <= Len(tables'[t].rows)
  <2>1. CASE t = u
    <3>1. settled'[t] = n
      BY <1>1, <1>2, <1>4, <2>1
    <3>2. n = Len(tables'[t].rows)
      BY <1>2, <2>1 DEF n
    <3>3. n <= Len(tables'[t].rows)
      BY <1>3, <3>2
    <3> QED BY <1>3, <2>1, <3>1, <3>3
  <2>2. CASE t # u
    <3>1. settled'[t] = settled[t] /\ settled[t] \in Nat
      BY <1>2, <1>4, <2>2
    <3>2. settled[t] <= settled[t]
      BY <3>1
    <3> QED BY <1>2, <1>4, <3>1, <3>2
  <2> QED BY <2>1, <2>2
<1> QED BY <1>1, <1>2, <1>5 DEF n, u

(* Of another worker, a step can only put a read of the index in doubt.    *)
SameMarks(v) ==
  /\ due'[v] = due[v]
  /\ doubt'[v] = doubt[v] \/ pc[v] = "indexing"

(* The marks of the other workers.                                         *)
LEMMA OnlyOwnMarks ==
  ASSUME Marked, NEW w \in Workers, Move(w), NEW v \in Workers, v # w
  PROVE  SameMarks(v)
<1>1. /\ doubt \in [Workers -> Doubts] /\ due \in [Workers -> [TableNames -> Nat]]
  BY DEF Marked
<1>2. ASSUME NEW s \in Requests, Arrive(w, s) PROVE SameMarks(v)
  BY <1>1, <1>2 DEF Arrive, SameMarks
<1>3. CASE Return(w)
  BY <1>1, <1>3 DEF Return, SameMarks
<1>4. CASE LookUp(w) \/ EnterIndex(w)
  BY <1>1, <1>4 DEF LookUp, EnterIndex, SameMarks, history
<1>5. CASE LockRow(w)
  BY <1>1, <1>5 DEF LockRow, SameMarks, history
<1>6. CASE Create(w) \/ WriteRow(w) \/ Invalidate(w) \/ PutResult(w)
  BY <1>6 DEF Create, WriteRow, Invalidate, PutResult, SameMarks, marks, history
<1>7. CASE OpenTable(w) \/ RejectRow(w) \/ ResolveFails(w) \/ ScanLeft(w) \/ ScanRight(w)
           \/ LeaveIndex(w)
  BY <1>7 DEF OpenTable, RejectRow, ResolveFails, ScanLeft, ScanRight, LeaveIndex, SameMarks, marks,
              history
<1> QED BY <1>2, <1>3, <1>4, <1>5, <1>6, <1>7 DEF Move, Step

(* What is due to a worker after its own step.                             *)
LEMMA OwnDue ==
  ASSUME Marked, NEW w \in Workers, Move(w)
  PROVE  due'[w] = due[w] \/ due'[w] = settled \/ due'[w] = Sizes(NoTables)
<1>1. due \in [Workers -> [TableNames -> Nat]]
  BY DEF Marked
<1>2. ASSUME NEW s \in Requests, Arrive(w, s) PROVE due'[w] = settled
  BY <1>1, <1>2 DEF Arrive
<1>3. CASE Return(w)
  BY <1>1, <1>3 DEF Return
<1>4. CASE Step(w) /\ ~Return(w)
  BY <1>4 DEF Step, Create, OpenTable, RejectRow, LockRow, WriteRow, Invalidate, LookUp, ResolveFails,
              ScanLeft, ScanRight, EnterIndex, LeaveIndex, PutResult, history
<1> QED BY <1>2, <1>3, <1>4 DEF Move

(* The function variables of the history keep their types.                 *)
LEMMA MarkedTypes ==
  ASSUME Shape, Marked, \A w \in Workers : Place(w), [Next]_vars
  PROVE  /\ doubt' \in [Workers -> Doubts] /\ doubts' \in [Keys -> Doubts]
         /\ due' \in [Workers -> [TableNames -> Nat]]
<1>1. /\ doubt \in [Workers -> Doubts] /\ doubts \in [Keys -> Doubts]
      /\ due \in [Workers -> [TableNames -> Nat]] /\ settled \in [TableNames -> Nat]
  BY DEF Marked
<1>2. "none" \in Doubts /\ "late" \in Doubts /\ "raced" \in Doubts
  BY DEF Doubts
<1>3. Sizes(NoTables) \in [TableNames -> Nat]
  BY DEF Sizes, NoTables
<1> DEFINE Typed == /\ doubt' \in [Workers -> Doubts] /\ doubts' \in [Keys -> Doubts]
                    /\ due' \in [Workers -> [TableNames -> Nat]]
<1>4. CASE UNCHANGED <<doubt, doubts, due>>
  BY <1>1, <1>4
<1>5. ASSUME NEW w \in Workers, NEW s \in Requests, Arrive(w, s) PROVE Typed
  BY <1>1, <1>2, <1>5 DEF Arrive
<1>6. ASSUME NEW w \in Workers, Return(w) PROVE Typed
  BY <1>1, <1>2, <1>3, <1>6 DEF Return
<1>7. ASSUME NEW w \in Workers, LookUp(w) PROVE Typed
  <2>1. normalize(Query(w)) \in Keys
    BY <1>7, QueryOf DEF LookUp, Selecting, Keys
  <2>2. doubts[normalize(Query(w))] \in Doubts
    BY <1>1, <2>1
  <2> QED BY <1>1, <1>7, <2>2 DEF LookUp, history
<1>8. ASSUME NEW w \in Workers, EnterIndex(w) PROVE Typed
  BY <1>1, <1>2, <1>8 DEF EnterIndex, history
<1>9. ASSUME NEW w \in Workers, LockRow(w) PROVE Typed
  BY <1>1, <1>2, <1>9 DEF LockRow, history
<1>10. ASSUME NEW w \in Workers, PutResult(w) PROVE Typed
  <2>1. DoubtOfResult(w) \in Doubts
    BY <1>2 DEF DoubtOfResult
  <2> QED BY <1>1, <1>10, <2>1 DEF PutResult, history
<1>11. CASE UNCHANGED vars
  BY <1>4, <1>11 DEF vars, marks, history
<1>12. ASSUME NEW w \in Workers, Step(w), ~Return(w), ~LookUp(w), ~EnterIndex(w), ~LockRow(w),
              ~PutResult(w)
       PROVE  UNCHANGED <<doubt, doubts, due>>
  BY <1>12 DEF Step, Create, OpenTable, RejectRow, WriteRow, Invalidate, ResolveFails, ScanLeft,
               ScanRight, LeaveIndex, marks, history
<1> HIDE DEF Typed
<1>13. Typed
  <2>1. UNCHANGED <<doubt, doubts, due>> => Typed
    BY <1>4 DEF Typed
  <2> QED BY <1>5, <1>6, <1>7, <1>8, <1>9, <1>10, <1>11, <1>12, <2>1 DEF Next, vars, marks, history
<1> QED BY <1>13 DEF Typed

(* Rows are never taken away.                                              *)
LEMMA LenGrows ==
  ASSUME Shape, NEW t \in TableNames, Grown(t)
  PROVE  /\ Len(tables[t].rows) \in Nat /\ Len(tables'[t].rows) \in Nat
         /\ Len(tables[t].rows) <= Len(tables'[t].rows)
<1> DEFINE old == tables[t].rows
           new == tables'[t].rows
<1>1. old \in Seq(Rows)
  BY DEF Shape, Tables
<1>2. new = old \/ \E e \in Rows : new = Append(old, e)
  BY DEF Grown
<1> HIDE DEF old, new
<1>3. ASSUME NEW e \in Rows PROVE Len(Append(old, e)) = Len(old) + 1
  BY <1>1
<1>4. Len(old) \in Nat
  BY <1>1
<1>5. Len(new) = Len(old) \/ Len(new) = Len(old) + 1
  BY <1>2, <1>3
<1>6. Len(new) \in Nat /\ Len(old) <= Len(new)
  BY <1>4, <1>5
<1> QED BY <1>4, <1>6 DEF old, new

(* The history stays in order.                                             *)
LEMMA MarkedStep ==
  ASSUME Shape, Marked, \A w \in Workers : Place(w), [Next]_vars
  PROVE  Marked'
<1>1. /\ doubt' \in [Workers -> Doubts] /\ doubts' \in [Keys -> Doubts]
      /\ due' \in [Workers -> [TableNames -> Nat]]
  BY MarkedTypes
<1>2. TablesOk(tables') /\ \A t \in TableNames : Grown(t)
  BY TablesStep
<1>3. past' \in Seq(Tables) /\ Len(past') >= 1 /\ past'[Len(past')] = tables'
  <2>1. past \in Seq(Tables) /\ Len(past) >= 1 /\ past[Len(past)] = tables /\ tables' \in Tables
    BY <1>2 DEF Marked, TablesOk
  <2>2. CASE UNCHANGED <<tables, past>>
    BY <2>1, <2>2
  <2>3. CASE past' = Append(past, tables')
    <3> DEFINE d == tables'
    <3> HIDE DEF d
    <3>1. d \in Tables /\ past' = Append(past, d)
      BY <2>1, <2>3 DEF d
    <3>2. past' \in Seq(Tables) /\ Len(past') >= 1 /\ past'[Len(past')] = d
      BY <2>1, <3>1
    <3> QED BY <3>2 DEF d
  <2> QED BY <2>2, <2>3, PastMoves
<1>4. /\ \A t \in TableNames : settled[t] \in Nat
      /\ \A t \in TableNames : settled'[t] \in Nat /\ settled[t] <= settled'[t]
                               /\ settled'[t] <= Len(tables'[t].rows)
  <2>0. \A t \in TableNames : settled[t] \in Nat /\ settled[t] <= Len(tables[t].rows)
    BY DEF Marked
  <2>1. CASE UNCHANGED settled
    <3>1. ASSUME NEW t \in TableNames
          PROVE  settled[t] <= settled[t] /\ settled[t] <= Len(tables'[t].rows)
      <4>1. /\ Len(tables[t].rows) \in Nat /\ Len(tables'[t].rows) \in Nat
            /\ Len(tables[t].rows) <= Len(tables'[t].rows)
        BY <1>2, LenGrows
      <4> QED BY <2>0, <4>1
    <3> QED BY <2>0, <2>1, <3>1
  <2>2. ASSUME NEW w \in Workers, Invalidate(w)
        PROVE  \A t \in TableNames : settled'[t] \in Nat /\ settled[t] <= settled'[t]
                                     /\ settled'[t] <= Len(tables'[t].rows)
    BY <2>2, InvalidateSettles
  <2> QED BY <2>0, <2>1, <2>2, SettledMoves
<1>5. settled' \in [TableNames -> Nat]
  <2>1. CASE UNCHANGED settled
    BY <2>1 DEF Marked
  <2>2. ASSUME NEW w \in Workers, Invalidate(w) PROVE settled' \in [TableNames -> Nat]
    <3>1. settled' = [settled EXCEPT ![stmt[w].table] = Len(tables[stmt[w].table].rows)]
      BY <2>2, InvalidateSettles
    <3>2. settled' = [t \in TableNames |-> settled'[t]]
      BY <3>1 DEF Marked
    <3> QED BY <1>4, <3>2
  <2> QED BY <2>1, <2>2, SettledMoves
<1>6. ASSUME NEW v \in Workers, NEW t \in TableNames PROVE due'[v][t] <= settled'[t]
  <2>1. /\ due[v][t] \in Nat /\ due[v][t] <= settled[t] /\ Sizes(NoTables)[t] = 0
        /\ settled[t] \in Nat /\ settled'[t] \in Nat /\ settled[t] <= settled'[t]
    <3>1. Sizes(NoTables)[t] = 0
      BY DEF Sizes, NoTables
    <3> QED BY <1>4, <3>1 DEF Marked
  <2>2. due'[v] = due[v] \/ due'[v] = settled \/ due'[v] = Sizes(NoTables)
    <3>1. CASE UNCHANGED vars
      BY <3>1 DEF vars, history
    <3>2. ASSUME NEW w \in Workers, Move(w)
          PROVE  due'[v] = due[v] \/ due'[v] = settled \/ due'[v] = Sizes(NoTables)
      BY <3>2, OwnDue, OnlyOwnMarks DEF SameMarks
    <3> QED BY <3>1, <3>2 DEF Next, Move
  <2>3. due'[v][t] = due[v][t] \/ due'[v][t] = settled[t] \/ due'[v][t] = 0
    BY <2>1, <2>2
  <2> QED BY <2>1, <2>3
<1> QED BY <1>1, <1>3, <1>4, <1>5, <1>6 DEF Marked

-----------------------------------------------------------------------------
(* Answers made of what there once was.                                    *)

(* An instant of the past stays where it is.                               *)
LEMMA InstantKept ==
  ASSUME Marked, [Next]_vars, NEW i \in 1..Len(past)
  PROVE  i \in 1..Len(past') /\ past'[i] = past[i]
<1>1. CASE UNCHANGED <<tables, past>>
  BY <1>1
<1>2. CASE past' = Append(past, tables')
  <2> DEFINE d == tables'
  <2> HIDE DEF d
  <2>1. past \in Seq(Tables) /\ past' = Append(past, d)
    BY <1>2 DEF Marked, d
  <2> QED BY <2>1
<1> QED BY <1>1, <1>2, PastMoves

(* What was an answer once stays one.                                      *)
LEMMA PastKept ==
  ASSUME Marked, [Next]_vars, NEW key, NEW rows, PastOfKey(past, key, rows)
  PROVE  PastOfKey(past', key, rows)
<1>1. PICK q \in Queries : normalize(q) = key /\ \E i, j \in 1..Len(past) : At(past, q, i, j, rows)
  BY DEF PastOfKey
<1>2. PICK i, j \in 1..Len(past) : At(past, q, i, j, rows)
  BY <1>1
<1>3. i \in 1..Len(past') /\ past'[i] = past[i] /\ j \in 1..Len(past') /\ past'[j] = past[j]
  BY InstantKept
<1>4. At(past', q, i, j, rows)
  BY <1>2, <1>3 DEF At
<1> QED BY <1>1, <1>3, <1>4 DEF PastOfKey

(* The result a worker is about to put is one of its query.                *)
LEMMA PutPast ==
  ASSUME NEW w \in Workers, Place(w), ScanPast(w), pc[w] = "put", doubt[w] # "raced"
  PROVE  PastOfKey(past, normalize(Query(w)), Answer(Query(w), left[w], right[w]))
<1>1. Query(w) \in Queries
  BY QueryOf DEF Selecting
<1>2. PICK i, j \in 1..Len(past) : i <= j /\ LeftAt(past, w, i) /\ RightAt(past, w, j)
  BY DEF ScanPast
<1>3. At(past, Query(w), i, j, Answer(Query(w), left[w], right[w]))
  BY <1>2 DEF At, LeftAt, RightAt
<1> QED BY <1>1, <1>3 DEF PastOfKey

(* A worker puts a result that was in doubt under a key that then is.      *)
LEMMA PutDoubt ==
  ASSUME Marked, NEW w \in Workers, Place(w), PutResult(w)
  PROVE  /\ normalize(Query(w)) \in Keys
         /\ doubts'[normalize(Query(w))] = DoubtOfResult(w)
         /\ \A key \in Keys : key # normalize(Query(w)) => doubts'[key] = doubts[key]
<1>1. normalize(Query(w)) \in Keys
  BY QueryOf DEF PutResult, Selecting, Keys
<1>2. doubts' = [doubts EXCEPT ![normalize(Query(w))] = DoubtOfResult(w)]
  BY DEF PutResult
<1>3. doubts \in [Keys -> Doubts]
  BY DEF Marked
<1> QED BY <1>1, <1>2, <1>3

(* The entries of the list after a step: old ones, or the new result.      *)
LEMMA CacheEntries ==
  ASSUME Shape, Marked, CacheInv(cache), \A w \in Workers : Place(w), [Next]_vars,
         NEW i \in 1..Len(cache'.list)
  PROVE  \/ /\ \E j \in 1..Len(cache.list) : cache'.list[i] = cache.list[j]
            /\ doubts'[cache'.list[i].key] = doubts[cache'.list[i].key]
            /\ \A w \in Workers : Invalidate(w) => TrackedTable(cache'.list[i].key) # stmt[w].table
         \/ \E w \in Workers :
              /\ PutResult(w) /\ cache'.list[i].key = normalize(Query(w))
              /\ cache'.list[i].rows = Answer(Query(w), left[w], right[w])
<1> DEFINE Old == \E j \in 1..Len(cache.list) : cache'.list[i] = cache.list[j]
           SameDoubt == doubts'[cache'.list[i].key] = doubts[cache'.list[i].key]
<1>1. ASSUME NEW w \in Workers, Invalidate(w)
      PROVE  Old /\ SameDoubt /\ TrackedTable(cache'.list[i].key) # stmt[w].table
  <2>1. cache' = InvalidateTable(cache, stmt[w].table) /\ doubts' = doubts
    BY <1>1 DEF Invalidate, marks
  <2>2. Old /\ TrackedTable(cache'.list[i].key) # stmt[w].table
    BY <2>1, InvalidateOk DEF CacheInv
  <2> QED BY <2>1, <2>2
<1>2. ASSUME NEW w \in Workers, LookUp(w) PROVE Old /\ SameDoubt
  <2> DEFINE key == normalize(Query(w))
  <2>1. /\ \/ key \in Cached(cache) /\ cache' = Get(cache, key)
           \/ cache' = cache
        /\ doubts' = doubts
    BY <1>2 DEF LookUp
  <2> HIDE DEF key
  <2>2. Old
    BY <2>1, GetOk DEF CacheInv
  <2> QED BY <2>1, <2>2
<1>3. ASSUME NEW w \in Workers, PutResult(w)
      PROVE  \/ Old /\ SameDoubt
             \/ /\ cache'.list[i].key = normalize(Query(w))
                /\ cache'.list[i].rows = Answer(Query(w), left[w], right[w])
  <2> DEFINE key == normalize(Query(w))
             rows == Answer(Query(w), left[w], right[w])
  <2>1. pc[w] = "put" /\ cache' = Put(cache, key, rows)
    BY <1>3 DEF PutResult
  <2>2. left[w] \in Seq(Rows) /\ right[w] \in Seq(Rows) /\ Query(w) \in Queries
    BY <2>1, QueryOf DEF Shape, Selecting
  <2>3. key \in Keys /\ rows \in Results
    BY <2>2, Computed
  <2>4. \A k \in Keys : k # key => doubts'[k] = doubts[k]
    BY <1>3, PutDoubt
  <2> HIDE DEF key, rows
  <2>5. \/ cache'.list[i] = [key |-> key, rows |-> rows]
        \/ cache'.list[i].key # key /\ Old
    BY <2>1, <2>3, PutOk DEF CacheInv
  <2>6. Old => cache'.list[i].key \in Keys
    <3>1. cache.list \in Seq(Entry(Keys, Results))
      BY DEF CacheInv, CacheOk
    <3>2. \A j \in 1..Len(cache.list) : cache.list[j] \in Entry(Keys, Results)
      BY <3>1
    <3> QED BY <3>2 DEF Entry
  <2>7. CASE cache'.list[i] = [key |-> key, rows |-> rows]
    BY <2>7 DEF key, rows
  <2>8. CASE cache'.list[i].key # key /\ Old
    BY <2>4, <2>6, <2>8
  <2> QED BY <2>5, <2>7, <2>8
<1>4. ASSUME UNCHANGED cache, NEW w \in Workers, ~PutResult(w), Move(w) PROVE Old /\ SameDoubt
  <2>1. doubts' = doubts
    BY <1>4 DEF Move, Step, Arrive, Create, OpenTable, RejectRow, LockRow, WriteRow, Invalidate, LookUp,
                ResolveFails, ScanLeft, ScanRight, EnterIndex, LeaveIndex, Return, marks
  <2> QED BY <1>4, <2>1
<1>5. CASE UNCHANGED vars
  <2>1. Old /\ SameDoubt
    BY <1>5 DEF vars, marks
  <2>2. ASSUME NEW w \in Workers, Invalidate(w) PROVE FALSE
    BY <1>5, <2>2 DEF vars, Invalidate, Reply, Goto, Shape
  <2> QED BY <2>1, <2>2
<1>6. ASSUME NEW w \in Workers, Move(w)
      PROVE  \/ Old /\ SameDoubt
                /\ \A v \in Workers : Invalidate(v) => TrackedTable(cache'.list[i].key) # stmt[v].table
             \/ \E v \in Workers :
                  /\ PutResult(v) /\ cache'.list[i].key = normalize(Query(v))
                  /\ cache'.list[i].rows = Answer(Query(v), left[v], right[v])
  <2>1. CASE \E v \in Workers : Invalidate(v)
    <3>1. Old /\ SameDoubt
      BY <1>1, <2>1
    <3> HIDE DEF Old, SameDoubt
    <3> QED BY <1>1, <3>1
  <2>2. CASE \E v \in Workers : PutResult(v) /\ ~\E u \in Workers : Invalidate(u)
    <3> HIDE DEF Old, SameDoubt
    <3> QED BY <1>3, <2>2
  <2>3. CASE ~\E v \in Workers : Invalidate(v) \/ PutResult(v)
    <3>1. Old /\ SameDoubt
      <4>1. UNCHANGED cache \/ \E v \in Workers : LookUp(v)
        BY <2>3, CacheMoves
      <4> HIDE DEF Old, SameDoubt
      <4> QED BY <1>2, <1>4, <1>6, <2>3, <4>1
    <3> HIDE DEF Old, SameDoubt
    <3> QED BY <2>3, <3>1
  <2> QED BY <2>1, <2>2, <2>3
<1> HIDE DEF Old, SameDoubt
<1>7. \/ Old /\ SameDoubt
         /\ \A v \in Workers : Invalidate(v) => TrackedTable(cache'.list[i].key) # stmt[v].table
      \/ \E v \in Workers :
           /\ PutResult(v) /\ cache'.list[i].key = normalize(Query(v))
           /\ cache'.list[i].rows = Answer(Query(v), left[v], right[v])
  <2>1. CASE UNCHANGED vars
    BY <1>5, <2>1 DEF Old, SameDoubt
  <2> QED BY <1>6, <2>1 DEF Next, Move
<1> QED BY <1>7 DEF Old, SameDoubt

(* What the cache holds is of the past.                                    *)
LEMMA CachePastStep ==
  ASSUME Shape, Marked, CacheInv(cache), CachePast,
         \A w \in Workers : Place(w) /\ ScanPast(w), [Next]_vars
  PROVE  CachePast'
<1>1. ASSUME NEW i \in 1..Len(cache'.list), doubts'[cache'.list[i].key] # "raced"
      PROVE  PastOfKey(past', cache'.list[i].key, cache'.list[i].rows)
  <2>1. CASE /\ \E j \in 1..Len(cache.list) : cache'.list[i] = cache.list[j]
             /\ doubts'[cache'.list[i].key] = doubts[cache'.list[i].key]
    <3>1. PICK j \in 1..Len(cache.list) : cache'.list[i] = cache.list[j]
      BY <2>1
    <3>2. doubts[cache.list[j].key] # "raced"
      BY <1>1, <2>1, <3>1
    <3>3. PastOfKey(past, cache.list[j].key, cache.list[j].rows)
      BY <3>2 DEF CachePast
    <3>4. PastOfKey(past', cache.list[j].key, cache.list[j].rows)
      BY <3>3, PastKept
    <3> QED BY <3>1, <3>4
  <2>2. ASSUME NEW w \in Workers, PutResult(w), cache'.list[i].key = normalize(Query(w)),
               cache'.list[i].rows = Answer(Query(w), left[w], right[w])
        PROVE  PastOfKey(past', cache'.list[i].key, cache'.list[i].rows)
    <3>1. pc[w] = "put" /\ doubts'[normalize(Query(w))] = DoubtOfResult(w)
      BY <2>2, PutDoubt DEF PutResult
    <3>2. doubt[w] # "raced"
      BY <1>1, <2>2, <3>1 DEF DoubtOfResult
    <3>3. PastOfKey(past, normalize(Query(w)), Answer(Query(w), left[w], right[w]))
      BY <3>1, <3>2, PutPast
    <3>4. PastOfKey(past', normalize(Query(w)), Answer(Query(w), left[w], right[w]))
      BY <3>3, PastKept
    <3> QED BY <2>2, <3>4
  <2> QED BY <2>1, <2>2, CacheEntries
<1> QED BY <1>1 DEF CachePast

(* What a worker has scanned stays of the past while others insert.        *)
LEMMA ScanPastOther ==
  ASSUME Marked, [Next]_vars, NEW v \in Workers, ScanPast(v), Same(v), SameMarks(v)
  PROVE  ScanPast(v)'
<1>1. /\ pc'[v] = pc[v] /\ left'[v] = left[v] /\ right'[v] = right[v] /\ Query(v)' = Query(v)
      /\ pc[v] # "indexing" => doubt'[v] = doubt[v]
  BY DEF Same, SameMarks, Query
<1>2. ASSUME NEW i \in 1..Len(past), LeftAt(past, v, i) PROVE LeftAt(past, v, i)'
  <2>1. i \in 1..Len(past') /\ past'[i] = past[i]
    BY InstantKept
  <2> QED BY <1>1, <1>2, <2>1 DEF LeftAt
<1>3. ASSUME NEW j \in 1..Len(past), RightAt(past, v, j) PROVE RightAt(past, v, j)'
  <2>1. j \in 1..Len(past') /\ past'[j] = past[j]
    BY InstantKept
  <2> QED BY <1>1, <1>3, <2>1 DEF RightAt, JoinRows
<1>4. \A i \in 1..Len(past) : i \in 1..Len(past')
  BY InstantKept
<1>5. ASSUME pc'[v] = "scanRight" PROVE \E i \in 1..Len(past') : LeftAt(past, v, i)'
  <2>1. PICK i \in 1..Len(past) : LeftAt(past, v, i)
    BY <1>1, <1>5 DEF ScanPast
  <2> QED BY <1>2, <1>4, <2>1
<1>6. ASSUME pc'[v] = "put", doubt'[v] # "raced"
      PROVE  \E i, j \in 1..Len(past') : i <= j /\ LeftAt(past, v, i)' /\ RightAt(past, v, j)'
  <2>1. PICK i, j \in 1..Len(past) : i <= j /\ LeftAt(past, v, i) /\ RightAt(past, v, j)
    BY <1>1, <1>6 DEF ScanPast
  <2> QED BY <1>2, <1>3, <1>4, <2>1
<1>7. pc'[v] = "indexing" => Query(v)'.join = NoTable
  BY <1>1 DEF ScanPast
<1> QED BY <1>5, <1>6, <1>7 DEF ScanPast

(* A worker that neither scans nor enters the index has nothing to show.   *)
LEMMA NotScanning ==
  ASSUME Shape, NEW w \in Workers, Move(w), ~ScanLeft(w), ~ScanRight(w), ~LeaveIndex(w), ~EnterIndex(w)
  PROVE  pc'[w] \notin {"indexing", "scanRight", "put"}
<1>1. ASSUME NEW s \in Requests, Arrive(w, s)
      PROVE  pc'[w] \in {"lookup", "open", "create", "reply"}
  BY <1>1 DEF Arrive, Goto, FirstStep, Shape
<1>2. ASSUME Step(w) PROVE pc'[w] \in {"idle", "reply", "insert", "write", "invalidate", "scan"}
  <2>1. CASE Create(w) \/ RejectRow(w) \/ Invalidate(w) \/ ResolveFails(w) \/ PutResult(w)
    BY <2>1 DEF Create, RejectRow, Invalidate, ResolveFails, PutResult, Reply, Goto, Shape
  <2>2. CASE OpenTable(w) \/ LockRow(w) \/ WriteRow(w) \/ LookUp(w) \/ Return(w)
    BY <2>2 DEF OpenTable, LockRow, WriteRow, LookUp, Return, Reply, Goto, Shape
  <2> QED BY <1>2, <2>1, <2>2 DEF Step
<1> QED BY <1>1, <1>2 DEF Move

(* ScanPast holds of the worker that scans: it reads the tables as they    *)
(* are, the second after the first.                                        *)
LEMMA ScanPastOwn ==
  ASSUME Shape, Marked, NEW w \in Workers, Place(w), ScanPast(w), Move(w)
  PROVE  ScanPast(w)'
<1> DEFINE q == Query(w)
<1>0. PICK n \in 1..Len(past) : past[n] = tables /\ \A i \in 1..Len(past) : i <= n
  <2>1. Len(past) \in 1..Len(past) /\ \A i \in 1..Len(past) : i <= Len(past)
    BY DEF Marked
  <2> QED BY <2>1 DEF Marked
<1>1. ASSUME UNCHANGED <<stmt, past>> PROVE Query(w)' = q /\ past' = past
  BY <1>1 DEF Query
<1>2. CASE EnterIndex(w)
  <2>1. pc'[w] = "indexing" /\ q.join = NoTable /\ UNCHANGED <<stmt, past>>
    BY <1>2 DEF EnterIndex, Goto, Shape, ByIndex, history
  <2>2. Query(w)'.join = NoTable
    BY <1>1, <2>1
  <2> QED BY <2>1, <2>2 DEF ScanPast
<1>3. CASE ScanLeft(w)
  <2>1. /\ pc[w] = "scan" /\ left'[w] = tables[q.from].rows /\ right' = right
        /\ pc'[w] = IF q.join = NoTable THEN "put" ELSE "scanRight"
        /\ UNCHANGED <<stmt, past>>
    BY <1>3 DEF ScanLeft, Goto, Shape, history
  <2>2. right'[w] = <<>>
    BY <2>1 DEF Place, Selecting
  <2>3. LeftAt(past, w, n)'
    BY <1>0, <1>1, <2>1 DEF LeftAt
  <2>4. pc'[w] = "put" => RightAt(past, w, n)'
    BY <1>0, <1>1, <2>1, <2>2 DEF RightAt, JoinRows
  <2>5. n \in 1..Len(past') /\ n <= n
    BY <1>0, <2>1
  <2>6. \E i \in 1..Len(past') : LeftAt(past, w, i)'
    BY <2>3, <2>5
  <2>7. pc'[w] = "put" =>
          \E i, j \in 1..Len(past') : i <= j /\ LeftAt(past, w, i)' /\ RightAt(past, w, j)'
    BY <2>3, <2>4, <2>5
  <2>8. pc'[w] # "indexing"
    BY <2>1
  <2> QED BY <2>6, <2>7, <2>8 DEF ScanPast
<1>4. CASE LeaveIndex(w)
  <2>1. /\ pc[w] = "indexing" /\ pc'[w] = "put" /\ right' = right /\ doubt' = doubt
        /\ UNCHANGED <<stmt, past>>
    BY <1>4 DEF LeaveIndex, Goto, Shape, marks, history
  <2>2. right'[w] = <<>> /\ q.join = NoTable
    BY <2>1 DEF Place, Selecting, ScanPast
  <2>3. ASSUME doubt'[w] # "raced" PROVE LeftAt(past, w, n)' /\ RightAt(past, w, n)'
    <3>1. IndexReads(w) = {tables[q.from].rows}
      BY <2>1, <2>3 DEF IndexReads
    <3>2. left'[w] = tables[q.from].rows
      BY <1>4, <3>1 DEF LeaveIndex, Shape
    <3>3. LeftAt(past, w, n)'
      BY <1>0, <1>1, <2>1, <3>2 DEF LeftAt
    <3>4. RightAt(past, w, n)'
      BY <1>0, <1>1, <2>1, <2>2 DEF RightAt, JoinRows
    <3> QED BY <3>3, <3>4
  <2>4. n \in 1..Len(past') /\ n <= n
    BY <1>0, <2>1
  <2>5. doubt'[w] # "raced" =>
          \E i, j \in 1..Len(past') : i <= j /\ LeftAt(past, w, i)' /\ RightAt(past, w, j)'
    BY <2>3, <2>4
  <2> QED BY <2>1, <2>5 DEF ScanPast
<1>5. CASE ScanRight(w)
  <2>1. /\ pc[w] = "scanRight" /\ pc'[w] = "put" /\ left' = left
        /\ right'[w] = tables[q.join].rows /\ UNCHANGED <<stmt, past>>
    BY <1>5 DEF ScanRight, Goto, Shape, history
  <2>2. q.join # NoTable
    BY <2>1 DEF Place, Selecting
  <2>3. PICK i \in 1..Len(past) : LeftAt(past, w, i)
    BY <2>1 DEF ScanPast
  <2>4. LeftAt(past, w, i)'
    BY <1>1, <2>1, <2>3 DEF LeftAt
  <2>5. RightAt(past, w, n)'
    BY <1>0, <1>1, <2>1, <2>2 DEF RightAt, JoinRows
  <2>6. n \in 1..Len(past') /\ i \in 1..Len(past') /\ i <= n
    BY <1>0, <2>1
  <2>7. \E k, j \in 1..Len(past') : k <= j /\ LeftAt(past, w, k)' /\ RightAt(past, w, j)'
    BY <2>4, <2>5, <2>6
  <2> QED BY <2>1, <2>7 DEF ScanPast
<1>6. CASE ~ScanLeft(w) /\ ~ScanRight(w) /\ ~LeaveIndex(w) /\ ~EnterIndex(w)
  <2>1. pc'[w] \notin {"indexing", "scanRight", "put"}
    BY <1>6, NotScanning
  <2> QED BY <2>1 DEF ScanPast
<1> QED BY <1>2, <1>3, <1>4, <1>5, <1>6

(* A worker that replies to a SELECT has looked it up or computed it.      *)
LEMMA NotReplying ==
  ASSUME Shape, NEW w \in Workers, Place(w), Move(w), Replied(w)', stmt'[w].op = "select"
  PROVE  /\ (LookUp(w) /\ normalize(Query(w)) \in Cached(cache)) \/ PutResult(w)
         /\ UNCHANGED <<tables, stmt, past, settled, due>> /\ Query(w)' = Query(w)
<1>1. ~\E s \in Requests : Arrive(w, s)
  BY DEF Arrive, Error, Shape, Replied
<1>2. ~ResolveFails(w)
  BY DEF ResolveFails, Reply, Error, Shape, Replied
<1>3. ~Create(w) /\ ~OpenTable(w) /\ ~RejectRow(w) /\ ~Invalidate(w)
  <2>1. ASSUME Create(w) \/ OpenTable(w) \/ RejectRow(w) \/ Invalidate(w) PROVE FALSE
    <3>1. stmt'[w] = stmt[w] /\ (pc[w] = "create" \/ pc[w] \in Inserting)
      BY <2>1 DEF Create, OpenTable, RejectRow, Invalidate, Inserting
    <3>2. stmt'[w].op # "select"
      BY <3>1 DEF Place, CreateStmt, InsertStmt
    <3> QED BY <3>2
  <2> QED BY <2>1
<1>4. ~LockRow(w) /\ ~WriteRow(w) /\ ~ScanLeft(w) /\ ~ScanRight(w) /\ ~EnterIndex(w)
      /\ ~LeaveIndex(w) /\ ~Return(w)
  BY DEF LockRow, WriteRow, ScanLeft, ScanRight, EnterIndex, LeaveIndex, Return, Goto, Shape, Replied
<1>5. LookUp(w) \/ PutResult(w)
  BY <1>1, <1>2, <1>3, <1>4 DEF Move, Step
<1>6. LookUp(w) => normalize(Query(w)) \in Cached(cache)
  BY DEF LookUp, Goto, Shape, Replied
<1>7. UNCHANGED <<tables, stmt, past, settled, due>>
  BY <1>5 DEF LookUp, PutResult, history
<1> QED BY <1>5, <1>6, <1>7 DEF Query

(* A hit answers with an entry of the list and takes over its doubt.       *)
LEMMA Hit ==
  ASSUME Shape, Marked, CacheInv(cache), NEW w \in Workers, LookUp(w),
         normalize(Query(w)) \in Cached(cache)
  PROVE  /\ \E i \in 1..Len(cache.list) :
              cache.list[i].key = normalize(Query(w)) /\ answer'[w].rows = cache.list[i].rows
         /\ doubt'[w] = doubts[normalize(Query(w))]
<1> DEFINE key == normalize(Query(w))
           p == Position(cache, key)
<1>1. /\ doubt' = [doubt EXCEPT ![w] = doubts[key]]
      /\ Reply(w, Success(Lookup(cache, key)))
  BY DEF LookUp
<1>2. p \in 1..Len(cache.list) /\ cache.list[p].key = key
  BY PositionOk DEF CacheInv
<1>3. answer'[w].rows = cache.list[p].rows
  BY <1>1 DEF Reply, Success, Lookup, Shape
<1>4. doubt'[w] = doubts[key]
  BY <1>1 DEF Marked
<1> QED BY <1>2, <1>3, <1>4

(* What a worker computes, and its doubt.                                  *)
LEMMA Answered ==
  ASSUME Shape, NEW w \in Workers, PutResult(w)
  PROVE  /\ answer'[w].rows = Answer(Query(w), left[w], right[w])
         /\ pc[w] = "put" /\ doubt'[w] = doubt[w]
BY DEF PutResult, Reply, Success, Shape

(* AnswerPast holds of the worker that replies.                            *)
LEMMA AnswerPastOwn ==
  ASSUME Shape, Marked, CacheInv(cache), CachePast,
         NEW w \in Workers, Place(w), ScanPast(w), Move(w)
  PROVE  AnswerPast(w)'
<1> SUFFICES ASSUME Replied(w)', stmt'[w].op = "select", doubt'[w] # "raced"
             PROVE  PastOfKey(past, normalize(Query(w)), answer[w].rows)'
  BY DEF AnswerPast
<1>1. /\ (LookUp(w) /\ normalize(Query(w)) \in Cached(cache)) \/ PutResult(w)
      /\ UNCHANGED <<tables, stmt, past, settled, due>> /\ Query(w)' = Query(w)
  BY NotReplying
<1>2. ASSUME LookUp(w), normalize(Query(w)) \in Cached(cache)
      PROVE  PastOfKey(past, normalize(Query(w)), answer'[w].rows)
  <2>1. PICK i \in 1..Len(cache.list) :
           cache.list[i].key = normalize(Query(w)) /\ answer'[w].rows = cache.list[i].rows
    BY <1>2, Hit
  <2>2. doubts[cache.list[i].key] # "raced"
    BY <1>2, <2>1, Hit
  <2>3. PastOfKey(past, cache.list[i].key, cache.list[i].rows)
    BY <2>2 DEF CachePast
  <2> QED BY <2>1, <2>3
<1>3. ASSUME PutResult(w) PROVE PastOfKey(past, normalize(Query(w)), answer'[w].rows)
  <2>1. /\ answer'[w].rows = Answer(Query(w), left[w], right[w])
        /\ pc[w] = "put" /\ doubt[w] # "raced"
    BY <1>3, Answered
  <2> QED BY <2>1, PutPast
<1>4. PastOfKey(past', normalize(Query(w)'), answer'[w].rows)
  BY <1>1, <1>2, <1>3
<1> QED BY <1>4 DEF PastOfKey, At, JoinRows, normalize

(* AnswerPast holds of the other workers.                                  *)
LEMMA AnswerPastOther ==
  ASSUME Marked, [Next]_vars, NEW v \in Workers, AnswerPast(v), Same(v), SameMarks(v)
  PROVE  AnswerPast(v)'
<1> SUFFICES ASSUME Replied(v)', stmt'[v].op = "select", doubt'[v] # "raced"
             PROVE  PastOfKey(past, normalize(Query(v)), answer[v].rows)'
  BY DEF AnswerPast
<1>1. /\ Replied(v) /\ stmt[v].op = "select" /\ doubt[v] # "raced"
      /\ Query(v)' = Query(v) /\ answer'[v] = answer[v]
  BY DEF Replied, Query, Same, SameMarks
<1>2. PastOfKey(past, normalize(Query(v)), answer[v].rows)
  BY <1>1 DEF AnswerPast
<1>3. PastOfKey(past', normalize(Query(v)), answer[v].rows)
  BY <1>2, PastKept
<1>4. PastOfKey(past', normalize(Query(v)'), answer'[v].rows)
  BY <1>1, <1>3
<1> QED BY <1>4 DEF PastOfKey, At, JoinRows, normalize

(* PastInv is inductive, given Inv.                                        *)
LEMMA PastStep == Inv /\ PastInv /\ [Next]_vars => PastInv'
<1> SUFFICES ASSUME Inv, PastInv, [Next]_vars PROVE PastInv'
  OBVIOUS
<1>1. /\ Shape /\ Marked /\ CacheInv(cache) /\ CachePast
      /\ \A w \in Workers : Place(w) /\ ScanPast(w) /\ AnswerPast(w)
  BY DEF Inv, PastInv
<1>2. Marked' /\ CachePast'
  BY <1>1, MarkedStep, CachePastStep
<1>3. ASSUME NEW v \in Workers, Same(v), SameMarks(v) PROVE ScanPast(v)' /\ AnswerPast(v)'
  BY <1>1, <1>3, ScanPastOther, AnswerPastOther
<1>4. ASSUME UNCHANGED vars, NEW v \in Workers PROVE ScanPast(v)' /\ AnswerPast(v)'
  <2>1. Same(v) /\ SameMarks(v)
    BY <1>4 DEF vars, marks, history, Same, SameMarks
  <2> QED BY <1>3, <2>1
<1>5. ASSUME NEW w \in Workers, Move(w), NEW v \in Workers PROVE ScanPast(v)' /\ AnswerPast(v)'
  <2>1. CASE v # w
    BY <1>1, <1>3, <1>5, <2>1, OnlyOwn, OnlyOwnMarks
  <2>2. CASE v = w
    BY <1>1, <1>5, <2>2, ScanPastOwn, AnswerPastOwn
  <2> QED BY <2>1, <2>2
<1>6. \A v \in Workers : ScanPast(v)' /\ AnswerPast(v)'
  BY <1>4, <1>5 DEF Next, Move
<1> QED BY <1>2, <1>6 DEF PastInv

(* PastInv holds when serving begins.                                      *)
LEMMA PastInit == Init => PastInv
<1> SUFFICES ASSUME Init PROVE PastInv
  OBVIOUS
<1>1. CachePast
  BY DEF Init, EmptyCache, CachePast
<1>2. ASSUME NEW w \in Workers PROVE ScanPast(w) /\ AnswerPast(w)
  BY DEF Init, ScanPast, AnswerPast, Replied
<1>3. tables \in Tables
  BY ExecutorAssumption DEF Init
<1>4. ASSUME NEW t \in TableNames
      PROVE  /\ settled[t] \in Nat /\ settled[t] = Len(tables[t].rows) /\ Sizes(NoTables)[t] = 0
             /\ settled[t] <= Len(tables[t].rows)
  <2>1. tables[t].rows \in Seq(Rows)
    BY <1>3 DEF Tables
  <2>2. settled[t] = Len(tables[t].rows) /\ Sizes(NoTables)[t] = 0
    BY DEF Init, Sizes, NoTables
  <2> QED BY <2>1, <2>2
<1>5. settled \in [TableNames -> Nat] /\ Sizes(NoTables) \in [TableNames -> Nat]
  <2>1. settled = [t \in TableNames |-> settled[t]]
    BY DEF Init, Sizes
  <2>2. Sizes(NoTables) = [t \in TableNames |-> Sizes(NoTables)[t]]
    BY DEF Sizes
  <2> QED BY <1>4, <2>1, <2>2
<1>6. due \in [Workers -> [TableNames -> Nat]]
      /\ \A w \in Workers : \A t \in TableNames : due[w][t] <= settled[t]
  <2>1. due = [w \in Workers |-> Sizes(NoTables)]
    BY DEF Init
  <2>2. ASSUME NEW t \in TableNames PROVE 0 <= settled[t]
    <3>1. settled[t] \in Nat
      BY <1>5
    <3> QED BY <3>1
  <2> QED BY <1>4, <1>5, <2>1, <2>2
<1>7. past \in Seq(Tables) /\ Len(past) >= 1 /\ past[Len(past)] = tables
  <2>1. past = <<tables>>
    BY DEF Init
  <2> QED BY <1>3, <2>1
<1>8. doubt \in [Workers -> Doubts] /\ doubts \in [Keys -> Doubts]
  BY DEF Init, Doubts
<1>9. Marked
  BY <1>4, <1>5, <1>6, <1>7, <1>8 DEF Marked
<1> QED BY <1>1, <1>2, <1>9 DEF PastInv

(* Answers and cached results are of the past in every behaviour.          *)
LEMMA PastAlways == Spec => []PastInv
BY PastInit, PastStep, InvAlways, PTL DEF Spec

(* Whatever the other workers insert, put, evict and invalidate, an answer *)
(* is the result of a query with the key of the SELECT on rows that its    *)
(* tables held, each at one instant and the second not before the first;   *)
(* only a read of the index that overlapped an insert may differ.          *)
THEOREM ExecutorPastAnswers == Spec => []PastAnswers
<1>1. PastInv => PastAnswers
  <2> SUFFICES ASSUME PastInv, NEW w \in Workers, Replied(w), stmt[w].op = "select",
                      doubt[w] # "raced"
               PROVE  \E q \in Queries, i, j \in 1..Len(past) :
                        /\ normalize(q) = normalize(Query(w)) /\ i <= j
                        /\ answer[w].rows = Answer(q, past[i][q.from].rows, JoinRows(q, past[j]))
    BY DEF PastAnswers
  <2>1. PastOfKey(past, normalize(Query(w)), answer[w].rows)
    BY DEF PastInv, AnswerPast
  <2> QED BY <2>1 DEF PastOfKey, At
<1> QED BY <1>1, PastAlways, PTL

-----------------------------------------------------------------------------
(* Answers that show what was due.                                         *)

(* A prefix of the rows of a table stays one.                              *)
LEMMA PrefixKept ==
  ASSUME Shape, NEW t \in TableNames, Grown(t), NEW n \in Nat, NEW m \in n..Len(tables[t].rows)
  PROVE  /\ m \in n..Len(tables'[t].rows)
         /\ Prefix(tables'[t].rows, m) = Prefix(tables[t].rows, m)
<1> DEFINE old == tables[t].rows
           new == tables'[t].rows
<1>1. old \in Seq(Rows)
  BY DEF Shape, Tables
<1>2. new = old \/ \E e \in Rows : new = Append(old, e)
  BY DEF Grown
<1>3. m \in n..Len(old)
  OBVIOUS
<1> HIDE DEF old, new
<1>4. ASSUME NEW e \in Rows PROVE m \in n..Len(Append(old, e))
                                  /\ SubSeq(Append(old, e), 1, m) = SubSeq(old, 1, m)
  BY <1>1, <1>3
<1>5. m \in n..Len(new) /\ Prefix(new, m) = Prefix(old, m)
  BY <1>2, <1>3, <1>4 DEF Prefix
<1> QED BY <1>5 DEF old, new

(* All the rows of a table are a prefix of them.                           *)
LEMMA WholePrefix ==
  ASSUME Shape, NEW t \in TableNames, NEW n \in Nat, n <= Len(tables[t].rows)
  PROVE  /\ Len(tables[t].rows) \in n..Len(tables[t].rows)
         /\ Prefix(tables[t].rows, Len(tables[t].rows)) = tables[t].rows
<1> DEFINE s == tables[t].rows
<1>1. s \in Seq(Rows) /\ n <= Len(s)
  BY DEF Shape, Tables
<1> HIDE DEF s
<1>2. Len(s) \in n..Len(s) /\ SubSeq(s, 1, Len(s)) = s
  BY <1>1
<1> QED BY <1>2 DEF s, Prefix

(* What a result shows it shows for good, and it shows less as well.       *)
LEMMA ShowsKept ==
  ASSUME Shape, NEW q \in Queries, Grown(q.from), NEW n \in Nat, NEW k \in Nat, k <= n,
         NEW rows, Shows(tables, q, n, rows)
  PROVE  Shows(tables', q, k, rows)
<1>1. q.from \in TableNames
  BY ExecutorAssumption
<1>2. PICK m \in n..Len(tables[q.from].rows) :
         rows = Answer(q, Prefix(tables[q.from].rows, m), <<>>)
  BY DEF Shows
<1>3. Len(tables[q.from].rows) \in Nat
  <2>1. tables[q.from].rows \in Seq(Rows)
    BY <1>1 DEF Shape, Tables
  <2> QED BY <2>1
<1>4. m \in k..Len(tables[q.from].rows)
  BY <1>3
<1>5. /\ m \in k..Len(tables'[q.from].rows)
      /\ Prefix(tables'[q.from].rows, m) = Prefix(tables[q.from].rows, m)
  BY <1>1, <1>4, PrefixKept
<1> QED BY <1>2, <1>5 DEF Shows

(* A query of one table does not look at a second.                         *)
LEMMA OneTable ==
  ASSUME NEW q, NEW l, NEW r, q.join = NoTable
  PROVE  Answer(q, l, r) = Answer(q, l, <<>>)
BY DEF Answer

(* What the cache holds, not in doubt, shows what is settled.              *)
LEMMA CacheShowsStep ==
  ASSUME Inv, Marked, CacheShows, [Next]_vars
  PROVE  CacheShows'
<1>0. /\ Shape /\ CacheInv(cache) /\ \A w \in Workers : Place(w)
      /\ \A t \in TableNames : Grown(t)
  BY TablesStep DEF Inv
<1>1. ASSUME NEW i \in 1..Len(cache'.list), NEW q \in Queries, Sole(q),
             cache'.list[i].key = normalize(q), doubts'[normalize(q)] = "none"
      PROVE  Shows(tables', q, settled'[q.from], cache'.list[i].rows)
  <2>0. q.from \in TableNames /\ settled[q.from] \in Nat /\ settled[q.from] <= settled[q.from]
    <3>1. q.from \in TableNames /\ settled[q.from] \in Nat
      BY ExecutorAssumption DEF Marked
    <3> QED BY <3>1
  <2>1. ASSUME NEW j \in 1..Len(cache.list), cache'.list[i] = cache.list[j],
               doubts'[cache'.list[i].key] = doubts[cache'.list[i].key],
               \A w \in Workers : Invalidate(w) => TrackedTable(cache'.list[i].key) # stmt[w].table
        PROVE  Shows(tables', q, settled'[q.from], cache'.list[i].rows)
    <3>1. Shows(tables, q, settled[q.from], cache.list[j].rows)
      BY <1>1, <2>1 DEF CacheShows
    <3>2. settled'[q.from] = settled[q.from]
      <4>1. ASSUME NEW w \in Workers, Invalidate(w) PROVE settled'[q.from] = settled[q.from]
        <5>1. settled' = [settled EXCEPT ![stmt[w].table] = Len(tables[stmt[w].table].rows)]
          BY <1>0, <4>1, InvalidateSettles
        <5>2. q.from # stmt[w].table
          BY <1>1, <2>1, <4>1 DEF Sole
        <5> QED BY <2>0, <5>1, <5>2 DEF Marked
      <4> QED BY <4>1, SettledMoves
    <3>3. Shows(tables', q, settled[q.from], cache.list[j].rows)
      BY <1>0, <2>0, <3>1, ShowsKept
    <3> QED BY <2>1, <3>2, <3>3
  <2>2. ASSUME NEW w \in Workers, PutResult(w), cache'.list[i].key = normalize(Query(w)),
               cache'.list[i].rows = Answer(Query(w), left[w], right[w])
        PROVE  Shows(tables', q, settled'[q.from], cache'.list[i].rows)
    <3>1. pc[w] = "put" /\ UNCHANGED <<tables, settled>>
      BY <2>2 DEF PutResult, history
    <3>2. Query(w) = q
      BY <1>0, <1>1, <2>2, <3>1, QueryOf DEF Sole, Selecting
    <3>3. DoubtOfResult(w) = "none"
      BY <1>0, <1>1, <2>2, PutDoubt
    <3>4. left[w] = tables[q.from].rows
      BY <3>2, <3>3 DEF DoubtOfResult
    <3>5. cache'.list[i].rows = Answer(q, tables[q.from].rows, <<>>)
      BY <1>1, <2>2, <3>2, <3>4, OneTable DEF Sole
    <3>6. /\ Len(tables[q.from].rows) \in settled[q.from]..Len(tables[q.from].rows)
          /\ Prefix(tables[q.from].rows, Len(tables[q.from].rows)) = tables[q.from].rows
      BY <1>0, <2>0, WholePrefix DEF Marked
    <3>7. Shows(tables, q, settled[q.from], cache'.list[i].rows)
      BY <3>5, <3>6 DEF Shows
    <3> QED BY <3>1, <3>7
  <2> QED BY <1>0, <2>1, <2>2, CacheEntries
<1> QED BY <1>1 DEF CacheShows, Shows, Sole

(* What another worker has scanned, and answered, still shows as much.     *)
LEMMA ShowsOther ==
  ASSUME Shape, Marked, NEW v \in Workers, Place(v), ScanShows(v), AnswerShows(v), Same(v),
         SameMarks(v), \A t \in TableNames : Grown(t)
  PROVE  ScanShows(v)' /\ AnswerShows(v)'
<1> DEFINE q == Query(v)
<1>1. /\ pc'[v] = pc[v] /\ stmt'[v] = stmt[v] /\ left'[v] = left[v] /\ answer'[v] = answer[v]
      /\ due'[v] = due[v] /\ Query(v)' = q /\ (pc[v] # "indexing" => doubt'[v] = doubt[v])
  BY DEF Same, SameMarks, Query
<1>2. ASSUME q.from \in TableNames PROVE due[v][q.from] \in Nat /\ due[v][q.from] <= due[v][q.from]
  <2>1. due[v][q.from] \in Nat
    BY <1>2 DEF Marked
  <2> QED BY <2>1
<1>3. ASSUME pc'[v] = "put", doubt'[v] # "raced", q.join = NoTable
      PROVE  \E m \in due[v][q.from]..Len(tables'[q.from].rows) :
               left[v] = Prefix(tables'[q.from].rows, m)
  <2>1. q.from \in TableNames
    BY <1>1, <1>3, QueryOf DEF Selecting
  <2>2. PICK m \in due[v][q.from]..Len(tables[q.from].rows) : left[v] = Prefix(tables[q.from].rows, m)
    BY <1>1, <1>3 DEF ScanShows
  <2>3. /\ m \in due[v][q.from]..Len(tables'[q.from].rows)
        /\ Prefix(tables'[q.from].rows, m) = Prefix(tables[q.from].rows, m)
    BY <1>2, <2>1, PrefixKept
  <2> QED BY <2>2, <2>3
<1>4. ASSUME Replied(v)', stmt'[v].op = "select", doubt'[v] = "none", Sole(q)
      PROVE  Shows(tables', q, due[v][q.from], answer[v].rows)
  <2>1. Replied(v) /\ stmt[v].op = "select" /\ doubt[v] = "none"
    BY <1>1, <1>4 DEF Replied
  <2>2. Shows(tables, q, due[v][q.from], answer[v].rows)
    BY <1>4, <2>1 DEF AnswerShows
  <2>3. q \in Queries
    <3>1. stmt[v] \in Requests
      BY <2>1 DEF Place, Replied
    <3>2. PICK r \in Queries : stmt[v] = Select(r)
      BY <2>1, <3>1, Kinds
    <3> QED BY <3>2 DEF Query, Select
  <2>4. q.from \in TableNames
    BY <2>3, ExecutorAssumption
  <2> HIDE DEF q
  <2> QED BY <1>2, <2>2, <2>3, <2>4, ShowsKept
<1> HIDE DEF q
<1>5. ScanShows(v)'
  BY <1>1, <1>3 DEF ScanShows
<1>6. AnswerShows(v)'
  BY <1>1, <1>4 DEF AnswerShows, Shows, Sole
<1> QED BY <1>5, <1>6

(* A worker scans all the rows there are, and so those that are due.       *)
LEMMA ScanShowsOwn ==
  ASSUME Shape, Marked, NEW w \in Workers, Place(w), Move(w)
  PROVE  ScanShows(w)'
<1> SUFFICES ASSUME pc'[w] = "put", doubt'[w] # "raced", Query(w)'.join = NoTable
             PROVE  \E m \in due'[w][Query(w)'.from]..Len(tables'[Query(w)'.from].rows) :
                      left'[w] = Prefix(tables'[Query(w)'.from].rows, m)
  BY DEF ScanShows
<1> DEFINE q == Query(w)
<1>1. ScanLeft(w) \/ ScanRight(w) \/ LeaveIndex(w) \/ EnterIndex(w)
  BY NotScanning
<1>2. UNCHANGED <<tables, stmt, due>> /\ pc[w] \in Selecting
  BY <1>1 DEF ScanLeft, ScanRight, LeaveIndex, EnterIndex, history, Selecting
<1>3. Query(w)' = q /\ tables' = tables /\ due' = due /\ q.from \in TableNames
  BY <1>2, QueryOf DEF Query
<1>4. ~EnterIndex(w) /\ ~ScanRight(w)
  <2>1. ~EnterIndex(w)
    BY DEF EnterIndex, Goto, Shape
  <2>2. ~ScanRight(w)
    BY <1>3 DEF ScanRight, Place, Selecting
  <2> QED BY <2>1, <2>2
<1>5. left'[w] = tables[q.from].rows
  <2>1. CASE ScanLeft(w)
    BY <2>1 DEF ScanLeft, Shape
  <2>2. CASE LeaveIndex(w)
    <3>1. doubt' = doubt
      BY <2>2 DEF LeaveIndex, marks
    <3>2. IndexReads(w) = {tables[q.from].rows}
      BY <3>1 DEF IndexReads
    <3> QED BY <2>2, <3>2 DEF LeaveIndex, Shape
  <2> QED BY <1>1, <1>4, <2>1, <2>2
<1>6. due[w][q.from] \in Nat /\ due[w][q.from] <= Len(tables[q.from].rows)
  <2>1. /\ due[w][q.from] \in Nat /\ settled[q.from] \in Nat
        /\ due[w][q.from] <= settled[q.from] /\ settled[q.from] <= Len(tables[q.from].rows)
    BY <1>3 DEF Marked
  <2>2. Len(tables[q.from].rows) \in Nat
    <3>1. tables[q.from].rows \in Seq(Rows)
      BY <1>3 DEF Shape, Tables
    <3> QED BY <3>1
  <2> QED BY <2>1, <2>2
<1>7. /\ Len(tables[q.from].rows) \in due[w][q.from]..Len(tables[q.from].rows)
      /\ Prefix(tables[q.from].rows, Len(tables[q.from].rows)) = tables[q.from].rows
  BY <1>3, <1>6, WholePrefix
<1>8. \E m \in due[w][q.from]..Len(tables[q.from].rows) : left'[w] = Prefix(tables[q.from].rows, m)
  BY <1>5, <1>7
<1> HIDE DEF q
<1> QED BY <1>3, <1>8

(* The answer a worker gives shows what was due to it.                     *)
LEMMA AnswerShowsOwn ==
  ASSUME Shape, Marked, CacheInv(cache), CacheShows,
         NEW w \in Workers, Place(w), ScanShows(w), Move(w), [Next]_vars
  PROVE  AnswerShows(w)'
<1> SUFFICES ASSUME Replied(w)', stmt'[w].op = "select", doubt'[w] = "none", Sole(Query(w))'
             PROVE  Shows(tables, Query(w), due[w][Query(w).from], answer[w].rows)'
  BY DEF AnswerShows
<1> DEFINE q == Query(w)
<1>1. /\ (LookUp(w) /\ normalize(q) \in Cached(cache)) \/ PutResult(w)
      /\ UNCHANGED <<tables, stmt, past, settled, due>> /\ Query(w)' = q
  BY NotReplying
<1>2. pc[w] \in Selecting
  BY <1>1 DEF LookUp, PutResult, Selecting
<1>3. q \in Queries /\ q.from \in TableNames
  BY <1>2, QueryOf
<1>4. Sole(q)
  BY <1>1 DEF Sole
<1>5. due[w][q.from] \in Nat /\ settled[q.from] \in Nat /\ due[w][q.from] <= settled[q.from]
  BY <1>3 DEF Marked
<1>6. ASSUME LookUp(w), normalize(q) \in Cached(cache)
      PROVE  Shows(tables, q, due[w][q.from], answer'[w].rows)
  <2>1. PICK i \in 1..Len(cache.list) :
           cache.list[i].key = normalize(q) /\ answer'[w].rows = cache.list[i].rows
    BY <1>6, Hit
  <2>2. doubts[normalize(q)] = "none"
    BY <1>6, Hit
  <2>3. Shows(tables, q, settled[q.from], answer'[w].rows)
    BY <1>3, <1>4, <2>1, <2>2 DEF CacheShows
  <2>4. PICK m \in settled[q.from]..Len(tables[q.from].rows) :
           answer'[w].rows = Answer(q, Prefix(tables[q.from].rows, m), <<>>)
    BY <2>3 DEF Shows
  <2>5. m \in due[w][q.from]..Len(tables[q.from].rows)
    <3>1. tables[q.from].rows \in Seq(Rows)
      BY <1>3 DEF Shape, Tables
    <3>2. Len(tables[q.from].rows) \in Nat
      BY <3>1
    <3> QED BY <1>5, <3>2
  <2> QED BY <2>4, <2>5 DEF Shows
<1>7. ASSUME PutResult(w) PROVE Shows(tables, q, due[w][q.from], answer'[w].rows)
  <2>1. answer'[w].rows = Answer(q, left[w], right[w]) /\ pc[w] = "put" /\ doubt[w] # "raced"
    BY <1>7, Answered
  <2>2. PICK m \in due[w][q.from]..Len(tables[q.from].rows) : left[w] = Prefix(tables[q.from].rows, m)
    BY <1>4, <2>1 DEF ScanShows, Sole
  <2>3. answer'[w].rows = Answer(q, left[w], <<>>)
    BY <1>4, <2>1, OneTable DEF Sole
  <2> QED BY <2>2, <2>3 DEF Shows
<1>8. Shows(tables, q, due[w][q.from], answer'[w].rows)
  BY <1>1, <1>6, <1>7
<1> HIDE DEF q
<1>9. Shows(tables', Query(w)', due'[w][Query(w)'.from], answer'[w].rows)
  BY <1>1, <1>8
<1> QED BY <1>9 DEF Shows

(* ShowsInv is inductive, given Inv and Marked.                            *)
LEMMA ShowsStep == Inv /\ Marked /\ ShowsInv /\ [Next]_vars => ShowsInv'
<1> SUFFICES ASSUME Inv, Marked, ShowsInv, [Next]_vars PROVE ShowsInv'
  OBVIOUS
<1>1. /\ Shape /\ CacheInv(cache) /\ CacheShows
      /\ \A w \in Workers : Place(w) /\ ScanShows(w) /\ AnswerShows(w)
  BY DEF Inv, ShowsInv
<1>2. CacheShows' /\ \A t \in TableNames : Grown(t)
  BY <1>1, CacheShowsStep, TablesStep
<1>3. ASSUME NEW v \in Workers, Same(v), SameMarks(v) PROVE ScanShows(v)' /\ AnswerShows(v)'
  BY <1>1, <1>2, <1>3, ShowsOther
<1>4. ASSUME UNCHANGED vars, NEW v \in Workers PROVE ScanShows(v)' /\ AnswerShows(v)'
  <2>1. Same(v) /\ SameMarks(v)
    BY <1>4 DEF vars, marks, history, Same, SameMarks
  <2> QED BY <1>3, <2>1
<1>5. ASSUME NEW w \in Workers, Move(w), NEW v \in Workers PROVE ScanShows(v)' /\ AnswerShows(v)'
  <2>1. CASE v # w
    BY <1>1, <1>3, <1>5, <2>1, OnlyOwn, OnlyOwnMarks
  <2>2. CASE v = w
    BY <1>1, <1>5, <2>2, ScanShowsOwn, AnswerShowsOwn
  <2> QED BY <2>1, <2>2
<1>6. \A v \in Workers : ScanShows(v)' /\ AnswerShows(v)'
  BY <1>4, <1>5 DEF Next, Move
<1> QED BY <1>2, <1>6 DEF ShowsInv

(* With any number of workers, a SELECT of one table that is tracked under *)
(* its name and alone with its key shows every row that its table had when *)
(* an INSERT last returned before the SELECT arrived, unless its answer    *)
(* comes from a result put into the cache late or is a raced read of the   *)
(* index: invalidate_table and the order of an INSERT's steps leave no     *)
(* other way for an old result to survive (executor.cpp:223, :587).        *)
THEOREM ExecutorAckedShown == Spec => []AckedShown
<1>1. Init => ShowsInv
  <2> SUFFICES ASSUME Init PROVE ShowsInv
    OBVIOUS
  <2>1. CacheShows
    BY DEF Init, EmptyCache, CacheShows
  <2>2. ASSUME NEW w \in Workers PROVE ScanShows(w) /\ AnswerShows(w)
    BY DEF Init, ScanShows, AnswerShows, Replied
  <2> QED BY <2>1, <2>2 DEF ShowsInv
<1>2. ShowsInv => AckedShown
  <2> SUFFICES ASSUME ShowsInv, NEW w \in Workers, Replied(w), stmt[w].op = "select",
                      doubt[w] = "none", Sole(Query(w))
               PROVE  \E n \in due[w][Query(w).from]..Len(tables[Query(w).from].rows) :
                        answer[w].rows =
                          Answer(Query(w), Prefix(tables[Query(w).from].rows, n), <<>>)
    BY DEF AckedShown
  <2>1. Shows(tables, Query(w), due[w][Query(w).from], answer[w].rows)
    BY DEF ShowsInv, AnswerShows
  <2> QED BY <2>1 DEF Shows
<1>3. PastInv => Marked
  BY DEF PastInv
<1> QED BY <1>1, <1>2, <1>3, ShowsStep, InvAlways, PastAlways, PTL DEF Spec
=============================================================================
