--------------------------- MODULE DurableStore ---------------------------
(***************************************************************************)
(* What FlexQL's persistence promises (README.md:73, database.h:5): a      *)
(* store that executes one statement at a time and whose acknowledged      *)
(* statements survive a crash.  The statement in flight when the process   *)
(* stops takes effect entirely or not at all, and the caller learns which  *)
(* when the store is up again.                                             *)
(***************************************************************************)
CONSTANTS
  Stmt,         \* the statements a caller may issue
  NoStmt,       \* no statement in flight
  Exec(_, _),   \* Exec(d, s): the contents after statement s on contents d
  Empty         \* the contents of a new store

VARIABLES
  db,           \* contents after every acknowledged statement
  op,           \* the statement in flight, or NoStmt
  up            \* is the process serving?

vars == <<db, op, up>>

Init ==
  /\ db = Empty
  /\ op = NoStmt
  /\ up = FALSE

Call(s) ==
  /\ up /\ op = NoStmt
  /\ op' = s
  /\ UNCHANGED <<db, up>>

Acknowledge ==
  /\ up /\ op # NoStmt
  /\ db' = Exec(db, op)
  /\ op' = NoStmt
  /\ UNCHANGED up

Stop ==
  /\ up
  /\ up' = FALSE
  /\ UNCHANGED <<db, op>>

Restart ==
  /\ ~up
  /\ db' \in {db, Exec(db, op)}
  /\ op' = NoStmt
  /\ up' = TRUE

Next ==
  \/ \E s \in Stmt : Call(s)
  \/ Acknowledge
  \/ Stop
  \/ Restart

Spec == Init /\ [][Next]_vars
=============================================================================
