------------------------------ MODULE Executor ------------------------------
(***************************************************************************)
(* The executor (server/executor/executor.cpp) as the worker threads of    *)
(* the server run it: each worker takes a statement, runs it against the   *)
(* tables and the query cache, and replies.  A statement is split at the   *)
(* points where it gives up a lock another worker may take: tables_mutex_  *)
(* (held shared from the resolution of the table to the reply, exclusively *)
(* by CREATE), the mutex of each table and that of the cache.              *)
(***************************************************************************)
EXTENDS Statements, LRUCache, FiniteSets

CONSTANTS
  Workers,      \* threads of the pool
  Queries,      \* the SELECTs a client may send
  Recovered,    \* the tables recovery may have left when serving begins
  MaxStmts      \* bound on the statements sent

(* A SELECT names one or two tables; the parser accepts no INSERT without *)
(* a row, and a table that does not exist has none.                         *)
ASSUME ExecutorAssumption ==
  /\ MaxStmts \in Nat
  /\ Queries \subseteq [from : TableNames, join : TableNames \union {NoTable},
                        on : {"eq", "ne"}, where : STRING, lit : STRING,
                        selfrom : BOOLEAN, resolves : BOOLEAN]
  /\ <<>> \notin Batches
  /\ Recovered \subseteq Tables
  /\ \A d \in Recovered, t \in TableNames : ~d[t].exists => d[t].rows = <<>>

VARIABLES
  tables,       \* Executor::tables_
  cache,        \* Executor::cache_
  pc,           \* where each worker is in its statement
  stmt,         \* the statement it runs
  done,         \* rows_inserted
  left, right,  \* rows scanned from the first and the second table
  answer,       \* the reply: the rows of a SELECT, or whether it succeeded
  called,       \* history: the tables when the statement arrived
  alone,        \* history: no other statement was in progress since then
  issued,       \* statements sent so far
  doubt,        \* why the rows of its answer may not be those of its query
  doubts,       \* history: the same of the result cached last under each key
  past,         \* history: the tables after each change of them
  settled,      \* history: the rows of a table when an INSERT last succeeded
  due           \* history: settled when the statement arrived

marks == <<doubt, doubts>>
history == <<past, settled, due>>
vars == <<tables, cache, pc, stmt, done, left, right, answer, called, alone, issued,
          marks, history>>

Select(q) == [op |-> "select", query |-> q]
Requests == CreateStmt \union InsertStmt \union {Malformed}
              \union {Select(q) : q \in Queries}
Error == [ok |-> FALSE, rows |-> <<>>]
Success(rows) == [ok |-> TRUE, rows |-> rows]
Keys == {normalize(q) : q \in Queries}
Sizes(d) == [t \in TableNames |-> Len(d[t].rows)]

Init ==
  /\ tables \in Recovered
  /\ cache = EmptyCache
  /\ pc = [w \in Workers |-> "idle"]
  /\ stmt = [w \in Workers |-> NoStmt]
  /\ done = [w \in Workers |-> 0]
  /\ left = [w \in Workers |-> <<>>]
  /\ right = [w \in Workers |-> <<>>]
  /\ answer = [w \in Workers |-> Error]
  /\ called = [w \in Workers |-> NoTables]
  /\ alone = [w \in Workers |-> FALSE]
  /\ issued = 0
  /\ doubt = [w \in Workers |-> "none"] /\ doubts = [key \in Keys |-> "none"]
  /\ past = <<tables>> /\ settled = Sizes(tables)
  /\ due = [w \in Workers |-> Sizes(NoTables)]

-----------------------------------------------------------------------------
(* Mutant: CREATE holds the lock it waits for.                              *)
HoldsTablesInCreate(w) ==
  pc[w] \in {"create", "scanRight", "indexing", "put", "insert", "write",
            "invalidate"}

(* Locks.  A scan holds its table's mutex for one step; an insert holds it *)
(* from "write" to the end of WriteRow.                                    *)
HoldsTables(w) ==
  pc[w] \in {"scanRight", "indexing", "put", "insert", "write", "invalidate"}
TableFree(t) == \A w \in Workers : ~(pc[w] = "write" /\ stmt[w].table = t)

Goto(w, label) == pc' = [pc EXCEPT ![w] = label]
Reply(w, result) ==
  /\ answer' = [answer EXCEPT ![w] = result]
  /\ Goto(w, "reply")

-----------------------------------------------------------------------------
(* The rows a SELECT computes from the rows of its tables; a row of the    *)
(* result is the sequence of the rows it is projected from.                *)

(* A WHERE on a column that there is not, or with a literal of another     *)
(* type, is ignored; only a query of a single table is refused for it.     *)
WhereHolds(q, row) == q.where \in {"none", "unknown"} \/ row[q.where] = q.lit

(* The primary-key index keeps the last row inserted under a key.          *)
IndexEq(rows, key) ==
  LET hits == {i \in 1..Len(rows) : rows[i].id = key}
      last == CHOOSE i \in hits : \A j \in hits : j <= i
  IN  IF hits = {} THEN <<>> ELSE << <<rows[last]>> >>

FilteredScan(q, rows) ==
  LET kept == Kept(rows, {i \in 1..Len(rows) : WhereHolds(q, rows[i])})
  IN  [i \in 1..Len(kept) |-> <<kept[i]>>]

(* INNER JOIN ON the id columns being equal (hash join) or different       *)
(* (nested loop): for each left row its matches in order, filtered by the  *)
(* WHERE on a left column.                                                 *)
OnHolds(q, l, r) == IF q.on = "eq" THEN l.id = r.id ELSE l.id # r.id
InnerJoin(q, lrows, rrows) ==
  LET Matches(l) == Kept(rrows, {j \in 1..Len(rrows) : OnHolds(q, l, rrows[j]) /\ WhereHolds(q, l)})
      Pairs(l) == [j \in 1..Len(Matches(l)) |-> <<l, Matches(l)[j]>>]
      upto[n \in 0..Len(lrows)] == IF n = 0 THEN <<>> ELSE upto[n - 1] \o Pairs(lrows[n])
  IN  upto[Len(lrows)]

ByIndex(q) == q.join = NoTable /\ q.where = "id"

Answer(q, lrows, rrows) ==
  IF q.join # NoTable THEN InnerJoin(q, lrows, rrows)
  ELSE IF ByIndex(q) THEN IndexEq(lrows, q.lit)
  ELSE FilteredScan(q, lrows)

-----------------------------------------------------------------------------
(* execute_sql: parse, then dispatch on the statement type.                *)

FirstStep(s) ==
  IF s.op = "select" THEN "lookup"
  ELSE IF s.op = "insert" THEN "open"
  ELSE IF s.op = "create" THEN "create"
  ELSE "reply"

Arrive(w, s) ==
  /\ pc[w] = "idle"
  /\ issued < MaxStmts
  /\ issued' = issued + 1
  /\ stmt' = [stmt EXCEPT ![w] = s]
  /\ called' = [called EXCEPT ![w] = tables]
  /\ alone' = [v \in Workers |-> v = w /\ \A u \in Workers \ {w} : pc[u] = "idle"]
  /\ answer' = [answer EXCEPT ![w] = Error]
  /\ doubt' = [doubt EXCEPT ![w] = "none"]
  /\ due' = [due EXCEPT ![w] = settled]
  /\ Goto(w, FirstStep(s))
  /\ UNCHANGED <<tables, cache, done, left, right, doubts, past, settled>>

(* Mutant: CREATE replaces a table that exists.                             *)
CreateAnyway(w) ==
  /\ pc[w] = "create"
  /\ \A v \in Workers : ~HoldsTables(v)
  /\ tables' = IF stmt[w].typed
                 THEN [tables EXCEPT ![stmt[w].table] =
                         [exists |-> TRUE, rows |-> <<>>]]
                 ELSE tables
  /\ past' = IF stmt[w].typed THEN Append(past, tables') ELSE past
  /\ Reply(w, Success(<<>>))
  /\ UNCHANGED <<cache, stmt, done, left, right, called, alone, issued, marks, settled, due>>

(* exec_create_table, under the exclusive tables_mutex_.                   *)
Create(w) ==
  /\ pc[w] = "create"
  /\ \A v \in Workers : ~HoldsTables(v)
  /\ tables' = ExecCreate(tables, stmt[w])
  /\ past' = IF tables' = tables THEN past ELSE Append(past, tables')
  /\ Reply(w, IF tables' = tables THEN Error ELSE Success(<<>>))
  /\ UNCHANGED <<cache, stmt, done, left, right, called, alone, issued, marks, settled, due>>

-----------------------------------------------------------------------------
(* exec_insert                                                             *)

OpenTable(w) ==
  /\ pc[w] = "open"
  /\ IF tables[stmt[w].table].exists
       THEN Goto(w, "insert") /\ UNCHANGED answer
       ELSE Reply(w, Error)
  /\ UNCHANGED <<tables, cache, stmt, done, left, right, called, alone, issued, marks, history>>

(* A rejected row ends the statement; the rows before it stay, and the     *)
(* cache is not invalidated.                                               *)
RejectRow(w) ==
  /\ pc[w] = "insert"
  /\ stmt[w].batch[done[w] + 1] = BadRow
  /\ Reply(w, Error)
  /\ UNCHANGED <<tables, cache, stmt, done, left, right, called, alone, issued, marks, history>>

(* Table::insert takes the mutex of the table; a read of its index does    *)
(* not wait for that, and is in doubt from now on.                         *)
LockRow(w) ==
  /\ pc[w] = "insert"
  /\ stmt[w].batch[done[w] + 1] # BadRow
  /\ TableFree(stmt[w].table)
  /\ doubt' = [v \in Workers |->
                IF pc[v] = "indexing" /\ stmt[v].query.from = stmt[w].table
                  THEN "raced" ELSE doubt[v]]
  /\ Goto(w, "write")
  /\ UNCHANGED <<tables, cache, stmt, done, left, right, answer, called, alone, issued,
                 doubts, history>>

WriteRow(w) ==
  /\ pc[w] = "write"
  /\ tables' = [tables EXCEPT ![stmt[w].table].rows =
                  Append(@, stmt[w].batch[done[w] + 1])]
  /\ past' = Append(past, tables')
  /\ done' = [done EXCEPT ![w] = @ + 1]
  /\ Goto(w, IF done[w] + 1 = Len(stmt[w].batch) THEN "invalidate" ELSE "insert")
  /\ UNCHANGED <<cache, stmt, left, right, answer, called, alone, issued, marks, settled, due>>

(* The INSERT succeeds: the rows that its table has by now are due.        *)
Settle(t) == settled' = [settled EXCEPT ![t] = Len(tables[t].rows)]

(* Mutant: INSERT leaves the cache alone.                                   *)
InvalidateNothing(w) ==
  /\ pc[w] = "invalidate"
  /\ Settle(stmt[w].table)
  /\ Reply(w, Success(<<>>))
  /\ UNCHANGED <<tables, cache, stmt, done, left, right, called, alone, issued, marks, past,
                 due>>

Invalidate(w) ==
  /\ pc[w] = "invalidate"
  /\ cache' = InvalidateTable(cache, stmt[w].table)
  /\ Settle(stmt[w].table)
  /\ Reply(w, Success(<<>>))
  /\ UNCHANGED <<tables, stmt, done, left, right, called, alone, issued, marks, past, due>>

-----------------------------------------------------------------------------
(* exec_select                                                             *)

Query(w) == stmt[w].query

LookUp(w) ==
  /\ pc[w] = "lookup"
  /\ LET key == normalize(Query(w)) IN
       IF key \in Cached(cache)
         THEN /\ cache' = Get(cache, key) /\ Reply(w, Success(Lookup(cache, key)))
              /\ doubt' = [doubt EXCEPT ![w] = doubts[key]]
         ELSE Goto(w, "scan") /\ UNCHANGED <<cache, answer, doubt>>
  /\ UNCHANGED <<tables, stmt, done, left, right, called, alone, issued, doubts, history>>

Resolves(q) ==
  /\ tables[q.from].exists
  /\ IF q.join = NoTable THEN q.where # "unknown" ELSE tables[q.join].exists
  /\ q.resolves

ResolveFails(w) ==
  /\ pc[w] = "scan"
  /\ ~Resolves(Query(w))
  /\ Reply(w, Error)
  /\ UNCHANGED <<tables, cache, stmt, done, left, right, called, alone, issued, marks, history>>

(* scan_all or scan_where of the first table, under its shared mutex.      *)
ScanLeft(w) ==
  /\ pc[w] = "scan"
  /\ Resolves(Query(w)) /\ ~ByIndex(Query(w))
  /\ TableFree(Query(w).from)
  /\ left' = [left EXCEPT ![w] = tables[Query(w).from].rows]
  /\ Goto(w, IF Query(w).join = NoTable THEN "put" ELSE "scanRight")
  /\ UNCHANGED <<tables, cache, stmt, done, right, answer, called, alone, issued, marks, history>>

(* Mutant: the first table is scanned twice.                                *)
ScanLeftAgain(w) ==
  /\ pc[w] = "scanRight"
  /\ TableFree(Query(w).from)
  /\ right' = [right EXCEPT ![w] = tables[Query(w).from].rows]
  /\ Goto(w, "put")
  /\ UNCHANGED <<tables, cache, stmt, done, left, answer, called, alone, issued, marks, history>>

ScanRight(w) ==
  /\ pc[w] = "scanRight"
  /\ TableFree(Query(w).join)
  /\ right' = [right EXCEPT ![w] = tables[Query(w).join].rows]
  /\ Goto(w, "put")
  /\ UNCHANGED <<tables, cache, stmt, done, left, answer, called, alone, issued, marks, history>>

(* A WHERE on the primary key goes to index_range, which takes no mutex.   *)
EnterIndex(w) ==
  /\ pc[w] = "scan"
  /\ Resolves(Query(w)) /\ ByIndex(Query(w))
  /\ doubt' = [doubt EXCEPT ![w] = IF TableFree(Query(w).from) THEN "none" ELSE "raced"]
  /\ Goto(w, "indexing")
  /\ UNCHANGED <<tables, cache, stmt, done, left, right, answer, called, alone, issued,
                 doubts, history>>

(* What a read of the index finds: the rows of the table, or any of them   *)
(* when a row was inserted meanwhile.                                      *)
IndexReads(w) ==
  LET rows == tables[Query(w).from].rows IN
  IF doubt[w] = "raced" THEN {Kept(rows, I) : I \in SUBSET (1..Len(rows))} ELSE {rows}

LeaveIndex(w) ==
  /\ pc[w] = "indexing"
  /\ \E rows \in IndexReads(w) : left' = [left EXCEPT ![w] = rows]
  /\ Goto(w, "put")
  /\ UNCHANGED <<tables, cache, stmt, done, right, answer, called, alone, issued, marks, history>>

(* A result that is put into the cache after its table has changed, and    *)
(* perhaps after the invalidation that the change led to, is late.         *)
DoubtOfResult(w) ==
  IF doubt[w] = "raced" THEN "raced"
  ELSE IF left[w] # tables[Query(w).from].rows THEN "late" ELSE "none"

PutResult(w) ==
  /\ pc[w] = "put"
  /\ LET rows == Answer(Query(w), left[w], right[w]) IN
       /\ cache' = Put(cache, normalize(Query(w)), rows)
       /\ Reply(w, Success(rows))
  /\ doubts' = [doubts EXCEPT ![normalize(Query(w))] = DoubtOfResult(w)]
  /\ UNCHANGED <<tables, stmt, done, left, right, called, alone, issued, doubt, history>>

(* The reply is sent and the worker takes its next statement.              *)
Return(w) ==
  /\ pc[w] = "reply"
  /\ Goto(w, "idle")
  /\ stmt' = [stmt EXCEPT ![w] = NoStmt]
  /\ done' = [done EXCEPT ![w] = 0]
  /\ left' = [left EXCEPT ![w] = <<>>]
  /\ right' = [right EXCEPT ![w] = <<>>]
  /\ answer' = [answer EXCEPT ![w] = Error]
  /\ called' = [called EXCEPT ![w] = NoTables]
  /\ alone' = [alone EXCEPT ![w] = FALSE]
  /\ doubt' = [doubt EXCEPT ![w] = "none"]
  /\ due' = [due EXCEPT ![w] = Sizes(NoTables)]
  /\ UNCHANGED <<tables, cache, issued, doubts, past, settled>>

Step(w) ==
  \/ Create(w)
  \/ OpenTable(w) \/ RejectRow(w) \/ LockRow(w) \/ WriteRow(w) \/ Invalidate(w)
  \/ LookUp(w) \/ ResolveFails(w) \/ ScanLeft(w) \/ ScanRight(w)
  \/ EnterIndex(w) \/ LeaveIndex(w) \/ PutResult(w)
  \/ Return(w)

Next == \E w \in Workers : Step(w) \/ \E s \in Requests : Arrive(w, s)

Spec == Init /\ [][Next]_vars
FairSpec == Spec /\ \A w \in Workers : WF_vars(Step(w))

-----------------------------------------------------------------------------
Replied(w) == pc[w] = "reply" /\ answer[w].ok
JoinRows(q, d) == IF q.join = NoTable THEN <<>> ELSE d[q.join].rows
Prefix(rows, n) == SubSeq(rows, 1, n)

(* A SELECT returns the rows of its tables as they were at some time       *)
(* between its arrival and its reply (lru_cache.h:5: cached results are    *)
(* "Invalidated on any write to the relevant table").                      *)
FreshAnswers ==
  \A w \in Workers : Replied(w) /\ stmt[w].op = "select" =>
    LET q == Query(w) IN
    \E n \in Len(called[w][q.from].rows)..Len(tables[q.from].rows),
       m \in Len(JoinRows(q, called[w]))..Len(JoinRows(q, tables)) :
      answer[w].rows =
        Answer(q, Prefix(tables[q.from].rows, n), Prefix(JoinRows(q, tables), m))

(* However late, an answer is made of what there once was: the rows of     *)
(* each table are those of one instant, and of a join the second table was *)
(* not read before the first (executor.cpp:294).  For a query of one table *)
(* that is a result that was right at some time.  A join may mix two       *)
(* instants; a query may get the result of another that has the same key;  *)
(* and a read of the index that overlapped an insert may find anything.    *)
PastAnswers ==
  \A w \in Workers : Replied(w) /\ stmt[w].op = "select" /\ doubt[w] # "raced" =>
    \E q \in Queries, i, j \in 1..Len(past) :
      /\ normalize(q) = normalize(Query(w)) /\ i <= j
      /\ answer[w].rows = Answer(q, past[i][q.from].rows, JoinRows(q, past[j]))

(* A query of one table, tracked under its name, alone with its key.       *)
Sole(q) ==
  /\ q.join = NoTable /\ TrackedTable(normalize(q)) = q.from
  /\ \A r \in Queries : normalize(r) = normalize(q) => r = q

(* With any number of workers: a SELECT shows the rows of every INSERT     *)
(* that was acknowledged when the SELECT arrived, unless its answer is one *)
(* that was put into the cache late, which is the one way for workers that *)
(* overlap to leave an old result behind an invalidation (executor.cpp:224,*)
(* :587).                                                                  *)
AckedShown ==
  \A w \in Workers : Replied(w) /\ stmt[w].op = "select" /\ doubt[w] = "none" =>
    LET q == Query(w) IN
    Sole(q) => \E n \in due[w][q.from]..Len(tables[q.from].rows) :
                 answer[w].rows = Answer(q, Prefix(tables[q.from].rows, n), <<>>)

(* invalidate_table finds every cached result of its table: each key in    *)
(* the list is still tracked, through evictions and re-insertions.  The    *)
(* list has a key once, as map_ does, and never outgrows its capacity.     *)
CacheTracked ==
  /\ \A i \in 1..Len(cache.list) :
       LET key == cache.list[i].key IN key \in TrackedKeys(cache, TrackedTable(key))
  /\ Len(cache.list) <= Capacity /\ Cardinality(Cached(cache)) = Len(cache.list)

(* Run while no other statement is in progress, a statement has the effect *)
(* that recovery relies on when it replays it from the log                 *)
(* (Statements!ExecSql): of a batch that fails half-way, the rows before   *)
(* the rejected one.                                                       *)
EffectIsExecSql ==
  \A w \in Workers :
    pc[w] = "reply" /\ alone[w] => tables = ExecSql(called[w], stmt[w])

(* Nobody reads a table's index while a row is being inserted              *)
(* (table.cpp:240, "caller should hold at least a shared lock").           *)
NoIndexRace ==
  \A v, w \in Workers :
    ~(/\ pc[v] = "indexing" /\ pc[w] = "write"
      /\ Query(v).from = stmt[w].table)

(* Every statement is answered: the workers never wait for each other's    *)
(* locks in a circle.                                                      *)
AllAnswered == \A w \in Workers : pc[w] # "idle" ~> pc[w] = "idle"
=============================================================================
