# FlexQL in TLA+

A verification project for the FlexQL server: TLA+ modules for its components,
TLC configurations that check them on small instances, and TLAPS proofs of what
matters most. `PROJECT.json` lists every run, theorem and hazard and maps each
definition to the source lines it stands for.

## The system

FlexQL (`flexql/src/`) is an in-memory SQL engine behind a TCP server.

* `server/main.cpp` builds a `Database`, starts it, and gives its *executor* to
  a `TCPServer`. On SIGINT it stops the server and takes a final snapshot.
* `server/database.cpp` owns the executor, the write-ahead log, the snapshot and
  the TTL manager. `execute` logs CREATE and INSERT before running them;
  the constructor recovers from snapshot and log.
* `server/storage/`: `wal.cpp` (records with LSN and CRC), `snapshot.cpp`,
  `table.cpp` (rows in an arena, a mutex per table), `schema.cpp`, `arena.cpp`.
* `server/index/bptree.cpp`: the primary-key index of a table.
* `server/executor/executor.cpp`: CREATE, INSERT and SELECT on the table map,
  with `server/cache/lru_cache.cpp` in front of SELECT.
* `server/concurrency/thread_pool.*`: the workers that serve connections.
* `server/ttl/ttl_manager.cpp`: the thread that marks expired rows.
* `server/network/tcp_server.cpp`, `client/`: length-prefixed messages.
* `server/parser/`: text to statements.

## Modules

| Module | Part | State and actions |
|---|---|---|
| `Statements` | statements and their effect | `ExecSql`: the tables after a statement; no state |
| `WAL` | `wal.cpp` | records, what the reader delivers, the next LSN; no state |
| `DurableStore` | what persistence promises | abstract: `Call`, `Acknowledge`, `Stop`, `Restart` |
| `Database` | `database.cpp`, `snapshot.cpp`, `wal.cpp`, `main.cpp` | log and snapshot files, the process, crash and restart |
| `LRUCache` | `lru_cache.cpp` | `Get`, `Put`, `InvalidateTable` as functions of a cache; no state |
| `Executor` | `executor.cpp`, `table.cpp` | workers, tables, cache; a statement is split where it gives up a lock |
| `ConcurrentDatabase` | `database.cpp`, `snapshot.cpp` | several threads in `execute`, one in `take_snapshot`; what recovery would rebuild at any instant |
| `WorkPool` | what the thread pool promises | abstract: `Accept`, `Take`, `Finish`, `Close`, `Retire` |
| `ThreadPool` | `thread_pool.*` | queue, mutex, condition variable, workers, clients, the caller of shutdown |
| `TTLManager` | `ttl_manager.cpp`, expiry in `table.cpp` | clock, rows' expiry and flag, owner, sweeper |
| `Lifetime` | TTL, cache and recovery together | `TTLManager`, callers of INSERT and SELECT, cached answers, snapshot and log with their LSNs, restart |
| `Wire` | `format_result`, the parsing in `flexql_exec` | an answer as text; no state |
| `Server` | `tcp_server.cpp`, `main.cpp`, `flexql_api.cpp` | accept loop, workers, signal handler, final snapshot, clients and their connections |
| `Lexer`, `Parser` | `parser/`, `is_mutating_sql` | a text and its edits; `tokenize` and `parse_sql` as functions |
| `BPTree` | `bptree.cpp` | nodes; `insert` split at its calls of the split functions |
| `Arena` | `arena.cpp` | chunks, offset, the blocks handed out |
| `Table` | `table.cpp`, `schema.cpp` | `Arena` and the bytes of rows, the index, the clock |
| `Filter` | the loops that copy the elements they keep | `Kept`: the elements of a sequence at some positions; no state |
| `DatabaseProofs`, `TableProofs`, `ExecutorProofs`, `ServerProofs` | | theorems about the module of that name; those of `ThreadPool` are in `DatabaseProofs`, those of `Arena` in `TableProofs`, those of `LRUCache` in `ExecutorProofs` |
| `AnswerProofs` | | what `Executor` answers |
| `ConcurrentProofs` | | the inductive invariant of `ConcurrentDatabase` |
| `RecoveryProofs` | | the theorems of `ConcurrentDatabase` and `Lifetime` |
| `FilterProofs` | | induction, recursive functions and `Filter`: the lemmas the others share |
| `MC...` | | instances for TLC; `ThreadPool` is run without one |

`Database` composes `Statements` and `WAL` and implements `DurableStore`.
`Executor` composes `Statements` and `LRUCache`; its property `EffectIsExecSql`
ties the executor's steps to `ExecSql`, the one-step effect that `Database`
replays. `Server` is built on `WorkPool` and `Wire`, and `ThreadPool` implements
`WorkPool`. `Table` extends `Arena`, and uses the index as the map that
`BPTree` is shown to be; `Lifetime` extends `TTLManager`.
Definitions marked *Mutant* are deliberate faults: each replaces the
definition that follows it to show that a property can fail.

### Database

`wal` and `snap` are the files; they survive a crash. Everything else of the
process is lost (`Die`). `execute` is the three actions `Execute`,
`LogStatement`, `ApplyStatement`; `take_snapshot` is `TakeSnapshot`,
`RenameSnapshot` (or `SnapshotFails`), `TruncateWAL`; recovery is
`LoadSnapshot`, one `ReplayRecord` per record, `OpenWriter`. A crash may come
between any two. `Faults` adds what the environment may do: `torn`, a crash in
the middle of `append`; `power`, the loss of any tail of the log, which is
flushed and never synced; `full`, writes that fail, which neither `append` nor
`save` looks at. `Frontend = "server"` is the wiring of `main.cpp`, where
clients' statements do not pass through `Database::execute`.
`acked`, `before` and `covered` are history variables; `cur` survives a crash as
the statement whose outcome the caller never learnt.

### Executor

`tables_mutex_` is held shared from the resolution of a table to the reply and
exclusively by CREATE; a table's mutex is held for one scan or one row. Cache
operations are atomic under the cache's mutex. A row has an id (the primary key)
and a name; a query has one table or a join of two, and at most one equality in
its WHERE. A join whose WHERE names no column is answered as if it had none, as
the code does; a query of one table is refused. `called` records the tables at
the arrival of a statement, so that `FreshAnswers` can say: the answer is the one
for the tables at some time between call and reply; `alone` records that no other
statement overlapped it, so that `EffectIsExecSql` can compare its effect with
`ExecSql`.

With several workers an answer can be older than that. `past` keeps every state
of the tables, `settled` the rows of a table when an INSERT last succeeded and
`due` the same at the arrival of a statement. `doubt` says what is special about
an answer, and `doubts` about a cached one. `raced`: `index_range`, which takes no
lock, overlapped an insert, and found any selection of the rows (`IndexReads`).
`late`: it was put into the cache when its table had changed since the scan.
A join reads its tables one after the other, each under its own lock, so it may
combine an earlier state of the first with a later one of the second.

The inputs include a CREATE without types and a join on `!=`, which
`Executor::execute` takes and the parser never produces. Tables here do not
expire; neither do they in `Database` and `ConcurrentDatabase`. Expiry is the
subject of `TTLManager`, `Lifetime` and `Table`.

### ConcurrentDatabase

`execute` is `Call`, `Log` (under the log's mutex) and `Apply` (under the
executor's); nothing holds the two together. `take_snapshot` is `ReadLsn`,
`WriteHeader` with the number of tables, one `WriteTable` per table,
`Rename`, `Truncate`, with no lock over them. There is no crash action:
`Rebuilt` is what the next process would rebuild from the files of the
current state, so every state is a possible end. `after` and `overlapped` are
history: which calls were over when one began, and which ran beside a snapshot.
A statement is its number, which stands for the rows an INSERT adds. One that is
not `whole` has a row that is refused: it keeps the rows before it and is answered
with an error, and its replay does the same. `effect` is what executing it did,
`Acked` and `Refused` what its caller was told. The rows of an INSERT are added in
one step here and one by one in `Executor`; all CREATEs of a table agree on its
columns.

### ThreadPool and TTLManager

A wait on a condition variable is two steps: the test of the predicate, with
the mutex held, and the wait that releases it. `shutdown` and `stop` set their
flag and notify without the mutex and can come in between.

### Lifetime

CREATE TABLE gives every table a time to live of an hour (`common.h:188`), and
nobody registers the tables with the sweeper. `Lifetime` registers or does not,
sweeps, caches answers until the next INSERT, snapshots the rows a scan returns
and inserts them anew at a restart. A row is known by the second of its INSERT.
An INSERT is two steps (record and row, then invalidation) and a SELECT up to
three (look-up, scan, put), so that the clock, the sweeper, another caller or the
end of the process can come between them. The log has LSNs: recovery skips the
records that the snapshot's LSN covers, and the writer of an empty log starts at
1 again. `TakeSnapshot` comes when no statement is running, as from `~Database` and
from `main` after `run`.

### Server

A client is a caller of `flexql_open`, `flexql_exec`, `flexql_close` with one
connection; `up` and `down` are the messages on it. The handler of a signal
runs on the thread of `main`, between two of its steps: while it runs, `main`
does not (`MainRuns`), and `submit` is split where it takes `queue_mutex_`. A
query is reduced to what the connection depends on (`Kinds`); an answer is a
text that `Wire` writes and reads back. Closing the listening socket resets
the connections in the backlog; data on a closed connection is lost; a send to
one may fail, or end the client. `deaf` is a worker that missed the notification
of shutdown: `shutdown` notifies without `queue_mutex_`, so one worker can be
between its test and its wait (what `ThreadPool` has in detail and `WorkPool`
leaves open). It never leaves, and `stop` never returns.

### Lexer and Parser

A text is a sequence of runs of letters, runs of digits and single other
characters. The state is a text: one of the statements written out, then
edited by removing an item or putting one in. The properties compare what
`parse_sql` returns with the statement, with the words of the text, and with
`is_mutating_sql`, which reads the same text by its own rules. The digits of a
VARCHAR length are a number: `std::stoi` throws beyond `int`, and the cast keeps
16 bits.

### BPTree, Arena and Table

All three are sequential: `Table::insert` holds the table's mutex. Searches are
evaluated when no insert is in progress (that `index_range` does not wait for
that is `NoIndexRace` of `Executor`). `Table` writes the bytes of a row, its
expiry and its flag into a block of the arena, and reads them back; a value is
a type and the bytes that `memcpy` copies. The clock does not go back.

## Runs

| Run | Checks | Distinct states |
|---|---|---|
| `Database_order` | `TypeOK`, `NoDoubleReplay`, `LsnsInOrder` with every fault | 540 k |
| `Database_visible` | `AckedSurvive`, `ImplementsDurableStore` for the steps after which recovery still sees what was logged (`RecoveryCanSee`) | 1.2 M |
| `ConcurrentDatabase_crash` | `CalmAckedSurvive`: an acknowledged INSERT that overlapped no snapshot and no CREATE of its table is recovered once and in order; `RefusedLeaveTheSame`: one answered with an error leaves after recovery what it left before, the rows before the refused one included | 2.0 M |
| `Executor_sequential` | `FreshAnswers`, `CacheTracked`: one worker, single-table queries, batches without a rejected row | 307 k |
| `Executor_concurrent` | `PastAnswers`: an answer is made of states the tables had; `AckedShown`: unless it was cached late it shows every row acknowledged before the query; `EffectIsExecSql`, `AllAnswered`: two workers, joins, index reads, batches rejected half-way | 311 k |
| `Lifetime_rows` | `NothingLiveLost`: only time takes a row away, but for records that a restart skips by their LSNs; `ShownInTime`: what answers show, cached or not; `NoSweepAfterStop`, `StopReturns`, `ExpiredSwept` | 417 k |
| `ThreadPool_tasks` | `EachTaskOnce`, `ShutdownDrains`, `AcceptedRuns`, `ShutdownReturnsUnlessLost`, `IsWorkPool` | 18 k |
| `Server_serving` | `AnswersOwnQuery`, `ExecutedOnce`, `SnapshotIsFinal`, `ExecReturns`, `StopCompletes` | 153 k |
| `Parser_texts` | `RoundTrip`, `AcceptedAsWritten`, `MutationsLogged` | 426 k |
| `Table_rows` | `ReadBack`, `LiveInTime`, `IndexAgrees`, `BlocksDisjoint`, `BlocksInside` | 25 k |
| `BPTree_map` | `SearchFinds`, `RangesExact`, `Balanced`, `TypeOK` | 48 k |

One run is expected to fail, `Database_restart` on `AckedSurvive`: after
snapshot, restart, INSERT and crash the LSNs start over, and recovery skips an
acknowledged record (quoted under "findings" in `PROJECT.json`).

Some properties name exceptions, because the code makes them. `AcceptedAsWritten`
excepts a comma too many before a parenthesis, a WHERE without operator (read
as `=`), a VARCHAR length cut to 16 bits and an empty table prefix, and shows
that the texts of the run need no others. It is about the text up to where the
parser stops, and says that no further row or clause begins there. What comes
after any other word is ignored without an error: in `FROM employees e INNER JOIN
...` the alias ends the statement and the join is lost, though
`tests/test_parser.cpp:138` expects the join of such a text.
`NothingLiveLost` excepts the rows whose records the snapshot's LSN already covers,
which is what `Database_restart` exhibits. `AckedShown` excepts a result that was
put into the cache late, which is what `Executor_race` exhibits. `ExecReturns` and
`StopCompletes` except a client that waits for the answer to an empty query or to
one whose execution throws, a signal that interrupts `submit` while it holds
`queue_mutex_`, and a worker that missed the notification of shutdown, whom nothing
wakes (`Stuck`). `StopCompletes` is
about signals that find `main` in the accept loop: one before `running_` is set
is undone, and one between `accept` and `submit` makes `submit` throw, so that
the process ends without a snapshot.

### Further configurations

The restrictions of the passing runs are there for a reason. Each of these
configurations lifts one of them, or adds one fault, and TLC then reports the
property named:

| Configuration | Property | What TLC shows |
|---|---|---|
| `Database_torn` | `AckedSurvive` | a torn record hides the records appended after the restart |
| `Database_power` | `AckedSurvive` | what is flushed is not synced, though `wal.h:47` says fsync |
| `Database_server` | `LoggedBeforeAck` | the server acknowledges without logging (`main.cpp:75`), though `database.h:5` says "all mutations are logged to WAL before ack" |
| `ConcurrentDatabase_overlap` | `EveryAckedSurvives` | an INSERT that overlaps a snapshot or a CREATE can be lost, though `DesignDoc.md:935` says "WAL provides crash safety" |
| `Executor_race` | `FreshAnswers` | with two workers old rows are cached after the invalidation (`executor.cpp:587`) |
| `Executor_join` | `FreshAnswers` | a join is tracked under its first table only |
| `Executor_partial` | `FreshAnswers` | a batch that fails half-way invalidates nothing |
| `Executor_case` | `FreshAnswers` | the cache key upper-cases string literals |
| `Executor_index` | `NoIndexRace` | the index is read without the table's lock |
| `Lifetime_expired` | `ExpiredNotShown` | a cached answer still shows rows that have expired, though `DesignDoc.md:860` says "Scans skip expired rows at read time" |
| `ThreadPool_shutdown` | `ShutdownReturnsEventually` | a worker between test and wait misses the notification, join never returns (`thread_pool.cpp:38`) |

### Bounds

* `Database`: one table, three statements (four in `Database_visible`), a batch
  that succeeds, one that fails in its second row and, in `Database_visible`,
  one over 10 MB; any number of crashes, restarts and snapshots. The table can
  be created, filled and filled again; each violation needs three statements or
  fewer.
* `Executor`: two tables, a cache of two entries. `Executor_sequential` has one
  worker and six statements from empty tables, so that a third query evicts and
  an evicted one comes back. `Executor_concurrent` has two workers and three
  statements on tables with a row: two that overlap and one before or after.
* `ThreadPool`: two workers, two clients, three tasks: more tasks than workers
  and concurrent notifications.
* `ConcurrentDatabase`: two threads and the one that takes snapshots, two
  tables, three statements, two snapshots: a CREATE and two INSERTs in any
  overlap, or two CREATEs, and a snapshot beside, before or after each.
* `Lifetime`: one caller, one table with a time to live of one second, two rows at
  a time, three seconds, one start of the sweeper in each process, two restarts:
  rows that expire before and after a restart, a log that starts again at LSN 1
  and is replayed by the next process. With two callers and one row the same
  properties hold (812 k states), beyond the time a run is given here; the theorems are
  for any number of callers.
* `Server`: one worker and two clients, so that one waits for the other. One
  makes two calls, so that the second follows an answer over the limit; the
  other makes one call of any kind and may die. One signal, anywhere from the
  start of `main` to the middle of `submit`.
* `Parser`: 21 statements of every form, all operators, strings with quotes and
  backslashes; one edit each, two for the three shortest.
* `Table` and `Arena`: a chunk of 48 bytes, rows of which two fit a
  chunk, or one, or none; strings that are empty, that fill their column and that are too long; three rows, with and
  without expiry. The rows of a table have one size and no arena is reset; the
  theorems about `Arena` are for every sequence of sizes and resets.
* `BPTree`: order 3 with seven keys, order 4 with ten, in every order of
  insertion: the smallest odd and even orders, enough keys for internal nodes
  to be split, in order 3 with further splits below them. The code's 256 is
  even, where the halves of an internal split differ. One key at a time may
  hold the second row id, which is enough to tell an overwrite.

Deadlock is not checked where the system may stop: nobody sends a statement,
submits, starts or connects, or a bound is reached. The liveness properties say
what must not be stuck.

### Fairness

Weak fairness of every thread's own steps: a runnable thread runs, and a call
once begun (`submit`, `shutdown`, `stop`) goes on. Strong fairness of taking
`queue_mutex_` in `ThreadPool`: a thread that asks for a mutex again and again
gets it. Strong fairness of `Timeout` in `TTLManager`: the deadline of
`wait_for` is absolute, so spurious wake-ups do not put it off. `AcceptedRuns`
also takes for granted that tasks end; in the server a task is a connection,
which ends when the client closes it. In `Server`, the threads of the process
and calls of the library once begun go on; `ExecReturns` and `StopCompletes`
assume in addition, in their own statement (`ClientsLeave`), that clients do not
keep idle connections open, since `stop` closes none of them.
Nothing is assumed of when callers call, of spurious wake-ups, or of the clock.

## Proofs

For every set of statements, tables and rows and any number of crashes:

* `DatabaseTypeOK`, `DatabaseNoDoubleReplay`, `DatabaseLsnsInOrder` from
  `Spec`, with every fault. The inductive invariant is `OrderInv`. What is to be
  shown speaks of the files; the strengthening relates them to the process: a
  writer whose log is readable to its end continues it, and a snapshot being
  saved carries the LSN before the next one.
* `DatabaseAckedSurvive` and `DatabaseImplementsStore` from `SpecVisible`: `Spec`
  restricted to the steps `RecoveryCanSee` (a mutation goes through the log, its
  record is readable and above the snapshot's LSN, a snapshot is written whole,
  the log shrinks by truncation only). Its conjuncts exclude what
  `Database_server`, `Database_restart`, `Database_torn` and `Database_power`
  exhibit, and writes that a full disk did not take, so the theorem states what would be enough for the
  promise to hold. The inductive invariant is `DurableInv`: snapshot and log are one history
  of the tables (`OneHistory`), and what recovery would rebuild from the files
  at this instant is what was acknowledged (`FilesHoldAcked`). The refinement
  maps the store's contents to `acked`, the statement in flight to `cur`.

For every number of threads, tables, statements and snapshots, and a process
that ends at any instant:

* `ConcurrentAckedSurvive` and `ConcurrentRefusedLeaveTheSame` from `DbSpec`. Both speak
  of what recovery would rebuild, a replay of the log over a snapshot whose tables
  were read at different times. The inductive invariant is `ConcurrentInv`. A
  statement is with one thread until it returns (`FlightInv`), is logged once and
  before those that begin when it has returned (`LogInv`), and the tables hold the
  INSERTs that had an effect in an order that agrees with their calls (`TablesInv`,
  `ResultInv`). The parts of a snapshot, being written or in place, are beginnings
  of the tables (`PartsInv`); what the log holds beyond the LSN of the one being
  taken overlaps it (`SavingInv`). What overlapped no snapshot is in the snapshot or
  in the log beyond its LSN, never both (`SnapInv`), and, with no CREATE during a
  snapshot, never neither (`WholeInv`). The rows of a recovered table are then those
  of its part followed by those of the records replayed, from which both theorems
  follow. The conditions of the properties are needed: `ConcurrentDatabase_overlap`
  shows a loss without them.

For every chunk size, every schema of fewer than 2^15 columns and every sequence
of rows offered, accepted or not:

* `ArenaBlocksDisjoint`, `ArenaBlocksInside` from `ArenaSpec`. The strengthening is
  `BelowOffset`: no block of the current chunk reaches beyond the offset.
* `TableReadBack`, `TableLiveInTime`, `TableIndexAgrees` from `Spec`. The inductive
  invariant is `TableInv`: the arena's invariant; each row has a block of its own
  whose bytes are those of its values and its expiry (`RowOk`), so that writing
  one row cannot disturb another; a row's mark is cleared only after its expiry;
  rows expire in the order of their insertion; the index leads to the last row of
  each key (`IndexOk`); and `row_count_` is the number of marked rows. Below
  2^15 columns the 32 bits of `row_size_` do not wrap around; times are below
  2^16, where the model's encoding of `int64_t` stops.

For every number of workers, submitting threads and tasks:

* `PoolShutdownDrains` from `PoolSpec`: when `shutdown` has returned every accepted
  task has run. The inductive invariant is `Inv`: threads hold what their
  program counters say (`Shape`), a task that is queued or taken is where its
  state says (`Placed`), and a worker leaves a stopped and empty pool only, so
  that nothing can be queued behind it (`Leaving`).
* `PoolEachTaskOnce`: no task is in two places. `Inv` does not say so; `Once`
  adds that queue, workers and submitting threads hold each task at most once.
* `PoolIsWorkPool`: every step is a step of `WorkPool` under the mapping in
  `ThreadPool` (queue to `pending`, a worker's task to `busy`, `stop_` to
  `open`). The steps of mutex and condition variable are stutters. The theorem
  is what entitles `Server` to use `WorkPool`.

For every number of workers, tables, queries and batches, and every capacity of
the cache:

* `ExecutorCacheTracked`, `ExecutorEffectIsExecSql` from `Spec`. The inductive
  invariant is `Inv`: the cache holds a key once, within its capacity, and tracks
  it (`CacheInv`); locks and local variables are what the place of a worker in its
  statement says (`Place`); and the tables are those of the arrival of a lone
  statement with the part of its effect that is done (`Effect`).
* `ExecutorPastAnswers` from `Spec`. `PastInv` adds that each cached result, and what
  a worker has scanned so far, comes from states in `past`, the second table's not
  before the first's, unless the read of an index was raced.
* `ExecutorAckedShown` from `Spec`. `ShowsInv` adds that a cached result that is not in
  doubt has at least the rows its table had when an INSERT last succeeded: the
  INSERT's invalidation has removed every result from before, and what is put
  later from an older scan is marked late. Together with `FreshAnswers`, which holds
  with one worker only, it says what a client may rely on. `Sole` leaves out what
  `Executor_case` and `Executor_join` exhibit.

For all tables, times to live, rows, callers and restarts:

* `LifetimeNoSweepAfterStop`, `LifetimeShownInTime` and the action property
  `LifetimeNothingLiveLost` from `LifeSpec`. The inductive invariant is `LifeInv`: a row
  expires in time counted from its birth or the last restart (`RowsInTime`); what a
  scan returned was in time, with the caller, in the cache or given as the answer
  (`AnswersInTime`); and the snapshot and the log hold every row a scan shows, as often
  as it is shown (`InFiles`), so that a restart loses only what it skips.

For every number of workers, clients, calls and signals:

* `ServerExecutedOnce`, `ServerSnapshotIsFinal`, `ServerAnswersOwnText` from `Spec`.
  The inductive invariant is `Inv`: a connection is in one place, the backlog,
  main, the queue or a worker (`OnePlace`); at most one call is on its way on it,
  and it is the one the client waits for (`OneCall`, `OwnCall`); a mutation that
  may still be executed has been counted as issued (`Counted`); and main goes on
  after the loop only when every worker has been joined (`Lifecycle`).
  `ServerAnswersOwnText` is the part of `AnswersOwnQuery` before the parsing: what a
  call reports is read from the text that was written for its own query.

The assumptions are the named ASSUMEs of the modules, which TLC evaluates in
every run. Loops in the code are recursive functions in the models; what they
compute is proved with `FilterProofs`, which states induction for a set of
numbers instead of a predicate and derives it from the well-foundedness of finite
sets.

Only model-checked:

* every liveness property: `AllAnswered`, `AcceptedRuns`,
  `ShutdownReturnsUnlessLost`, `ExecReturns`, `StopCompletes`, `StopReturns`,
  `ExpiredSwept`;
* `AnswersOwnQuery`: the rest of it is that parsing the text of a result gives
  the result back, over recursive scans of character sequences;
* `RoundTrip`, `AcceptedAsWritten`, `MutationsLogged` of `Parser` and `SearchFinds`,
  `RangesExact`, `Balanced`, `TypeOK` of `BPTree`, whose definitions are recursive
  over texts and trees;
* `FreshAnswers` of `Executor`, which is about one worker.

## Not modelled

* The byte formats of log and snapshot and the CRC: the models start from
  whether a record or a file is whole.
* In `Executor`, comparisons other than equality, the WHERE of a join on a column of
  its second table, projection, and values other than an id and a name; decimals as doubles; the statistics.
* A statement that throws (`parser.cpp:128`) when it comes through
  `Database::execute`: it is in the log and throws again in `recover`. `Server`
  has its effect on a connection.
* `LockManager`: the database owns one, and no code takes a lock through it.
* The shell (`client/main.cpp`): it reads lines, prints what the client library
  returns, and has no state but whether the header was printed.
* In the client library, null arguments and the memory of error messages; in
  `main`, the command line.
* A log file that cannot be opened at start, and a clock that goes back.
* What a read of the index that races an insert does to the process. `NoIndexRace`
  shows that there are such reads; `Executor` lets them find any selection of the
  rows.
