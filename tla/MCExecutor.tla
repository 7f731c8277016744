----------------------------- MODULE MCExecutor -----------------------------
(* Instances of Executor for the model checker.                            *)
EXTENDS Executor

(* Rows with a primary key and a name; "a" and "A" differ in case only.    *)
Row(id, name) == [id |-> id, name |-> name]
MCRows == {Row("1", "a"), Row("2", "b")}
MCCaseRows == {Row("1", "a"), Row("2", "A")}

MCUpper(lit) == IF lit = "a" THEN "A" ELSE IF lit = "b" THEN "B" ELSE lit

MCBatches == {<<r>> : r \in MCRows} \union {<<Row("1", "a"), Row("2", "b")>>}
MCCaseBatches == {<<r>> : r \in MCCaseRows}
MCPartial == {<<Row("1", "a")>>, <<Row("2", "b"), BadRow>>}
MCOneRow == {<<Row("1", "a")>>}
NoBatches == {}

Holding(rows) == [t \in TableNames |-> [exists |-> TRUE, rows |-> rows]]
Fresh  == {NoTables}
Loaded == {Holding(<<Row("1", "a")>>)}

Scan(t) == [from |-> t, join |-> NoTable, on |-> "eq", where |-> "none", lit |-> "",
            selfrom |-> FALSE, resolves |-> TRUE]
ScanName(t, name) == [Scan(t) EXCEPT !.where = "name", !.lit = name]
ScanId(t, id) == [Scan(t) EXCEPT !.where = "id", !.lit = id]
ScanFrom(t) == [Scan(t) EXCEPT !.selfrom = TRUE]
Bad(t) == [Scan(t) EXCEPT !.resolves = FALSE]
Unknown(q) == [q EXCEPT !.where = "unknown"]
Join(t, u) == [Scan(t) EXCEPT !.join = u]
(* The parser builds joins on "=" only; a caller of Executor::execute may  *)
(* pass another operator, which exec_select answers with a nested loop.    *)
JoinNotEqual(t, u) == [Join(t, u) EXCEPT !.on = "ne"]

SequentialQueries == UNION {{Scan(t), ScanName(t, "b"), ScanId(t, "1"), Bad(t), Unknown(Scan(t))} :
                            t \in TableNames}
ConcurrentQueries == {Scan("T"), ScanFrom("U"), ScanName("T", "a"), ScanName("T", "A"),
                      ScanId("T", "1"), Join("T", "T"), Join("T", "U"),
                      JoinNotEqual("T", "U"), Unknown(Join("U", "T"))}
JoinQueries == {Join(t, u) : t, u \in TableNames}
ScanQueries == {Scan(t) : t \in TableNames}
NameQueries == {ScanName(t, n) : t \in TableNames, n \in {"a", "A"}}
IdQueries   == {ScanId(t, "1") : t \in TableNames}
=============================================================================
