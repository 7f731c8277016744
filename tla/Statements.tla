---------------------------- MODULE Statements ----------------------------
(***************************************************************************)
(* The SQL statements of FlexQL and their effect on the stored tables, at  *)
(* the level persistence and recovery can tell apart: which tables exist   *)
(* and which rows, in insertion order, each of them holds.  Column values, *)
(* the primary-key index and row expiry are abstracted away; a row that    *)
(* exec_insert or Table::insert would reject (wrong number of values, a    *)
(* literal of the wrong type, a NULL) is the model value BadRow.           *)
(***************************************************************************)
EXTENDS Naturals, Sequences

CONSTANTS
  TableNames,   \* names a CREATE TABLE or INSERT may mention (upper-cased)
  Rows,         \* rows that pass validation
  BadRow,       \* a row that fails validation
  Batches,      \* the VALUES lists an INSERT may carry
  Oversized     \* the batches whose statement text exceeds 10 MB

ASSUME StatementAssumption ==
  /\ BadRow \notin Rows
  /\ Batches \subseteq Seq(Rows \union {BadRow})
  /\ Oversized \subseteq Batches

(* The value of Executor::tables_: is there an entry for the name, and    *)
(* the rows of the table in the order they were inserted.                 *)
Tables == [TableNames -> [exists : BOOLEAN, rows : Seq(Rows)]]
NoTables == [t \in TableNames |-> [exists |-> FALSE, rows |-> <<>>]]

(* "malformed" starts with CREATE or INSERT and does not parse; a CREATE  *)
(* that is not typed names an unknown column type, which the parser would *)
(* refuse and a caller of Executor::execute can pass; "select" stands for *)
(* every statement that changes nothing.                                  *)
CreateStmt == [op : {"create"}, table : TableNames, typed : BOOLEAN]
InsertStmt == [op : {"insert"}, table : TableNames, batch : Batches]
SelectStmt == [op |-> "select"]
Malformed  == [op |-> "malformed"]
Stmt == CreateStmt \union InsertStmt \union {SelectStmt, Malformed}
NoStmt == [op |-> "none"]

(* database.cpp is_mutating_sql: the first word is CREATE or INSERT.      *)
IsMutating(s) == s.op \in {"create", "insert", "malformed"}

(* wal.cpp read_record rejects a payload of more than 10 MB.              *)
IsOversized(s) == s.op = "insert" /\ s.batch \in Oversized

(* exec_create_table: nothing happens if the table exists or a column     *)
(* type is unknown.                                                       *)
ExecCreate(tables, s) ==
  IF tables[s.table].exists \/ ~s.typed
    THEN tables
    ELSE [tables EXCEPT ![s.table] = [exists |-> TRUE, rows |-> <<>>]]

(* The rows that precede the first rejected one: exec_insert stops there. *)
Accepted(batch) ==
  CHOOSE n \in 0..Len(batch) :
    /\ \A i \in 1..n : batch[i] # BadRow
    /\ n < Len(batch) => batch[n + 1] = BadRow

(* exec_insert: rows are inserted one by one and an error returns without *)
(* removing those already inserted.                                       *)
ExecInsert(tables, s) ==
  IF tables[s.table].exists
    THEN [tables EXCEPT ![s.table].rows =
            @ \o SubSeq(s.batch, 1, Accepted(s.batch))]
    ELSE tables

(* Executor::execute_sql: the tables after statement s.                   *)
ExecSql(tables, s) ==
  IF s.op = "create" THEN ExecCreate(tables, s)
  ELSE IF s.op = "insert" THEN ExecInsert(tables, s)
  ELSE tables
=============================================================================
