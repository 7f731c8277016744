----------------------------- MODULE TTLManager -----------------------------
(***************************************************************************)
(* TTLManager (server/ttl/ttl_manager.cpp) and the part of Table it works  *)
(* on: the expiry and the valid flag of each row.  One thread, the owner,  *)
(* starts and stops the sweeper; the sweeper waits on a condition variable *)
(* with a timeout; others register tables, insert and scan.                *)
(***************************************************************************)
EXTENDS Naturals, Sequences, FiniteSets

CONSTANTS
  TableNames,   \* the tables there are
  Ttl,          \* Ttl[t]: ttl_seconds_ of table t, 0 for no expiry
  Registers,    \* does anybody call register_table?
  MaxRows,      \* bound on the rows of a table
  MaxTime,      \* bound on the clock
  MaxStarts     \* bound on the calls of start

ASSUME TTLAssumption ==
  /\ Ttl \in [TableNames -> Nat]
  /\ Registers \in BOOLEAN
  /\ MaxRows \in Nat /\ MaxTime \in Nat /\ MaxStarts \in Nat

VARIABLES
  now,          \* std::time
  rows,         \* rows[t]: expiry, valid flag and age of each row of t
  rowCount,     \* row_count_ of each table
  registered,   \* TTLManager::tables_
  running,      \* running_
  opc,          \* where the owner is in start or stop
  spc,          \* where the sweeper is; "none" before start and after join
  todo,         \* tables the sweep in progress has yet to visit
  starts        \* calls of start so far

vars == <<now, rows, rowCount, registered, running, opc, spc, todo, starts>>
data == <<now, rows, rowCount, registered>>

Init ==
  /\ now = 1
  /\ rows = [t \in TableNames |-> <<>>]
  /\ rowCount = [t \in TableNames |-> 0]
  /\ registered = {}
  /\ running = FALSE /\ opc = "idle" /\ spc = "none" /\ todo = {}
  /\ starts = 0

-----------------------------------------------------------------------------
(* Table: insert, is_row_valid, cleanup_expired                            *)

Expiry(t) == IF Ttl[t] > 0 THEN now + Ttl[t] ELSE 0

(* A row stored now; born (history) is when its statement was executed.    *)
NewRow(t, born) == [expiry |-> Expiry(t), valid |-> 1, born |-> born]

Insert(t) ==
  /\ Len(rows[t]) < MaxRows
  /\ rows' = [rows EXCEPT ![t] = Append(@, NewRow(t, now))]
  /\ rowCount' = [rowCount EXCEPT ![t] = @ + 1]
  /\ UNCHANGED <<now, registered, running, opc, spc, todo, starts>>

Expired(row) == row.expiry > 0 /\ now > row.expiry
is_row_valid(row) == row.valid = 1 /\ ~Expired(row)

(* The positions of the rows a scan of t returns.                          *)
Visible(t) == {i \in 1..Len(rows[t]) : is_row_valid(rows[t][i])}

Stale(t) == {i \in 1..Len(rows[t]) : rows[t][i].valid = 1 /\ Expired(rows[t][i])}

cleanup_expired(t) ==
  /\ rows' = [rows EXCEPT ![t] =
                [i \in 1..Len(@) |-> IF i \in Stale(t) THEN [@[i] EXCEPT !.valid = 0]
                                                      ELSE @[i]]]
  /\ rowCount' = [rowCount EXCEPT ![t] = @ - Cardinality(Stale(t))]

Tick ==
  /\ now < MaxTime
  /\ now' = now + 1
  /\ UNCHANGED <<rows, rowCount, registered, running, opc, spc, todo, starts>>

-----------------------------------------------------------------------------
(* register_table and unregister_table wait for a sweep in progress, which *)
(* holds tables_mutex_.                                                    *)
Sweeping == spc = "sweep"

Register(t) ==
  /\ Registers /\ ~Sweeping
  /\ registered' = registered \union {t}
  /\ UNCHANGED <<now, rows, rowCount, running, opc, spc, todo, starts>>

Unregister(t) ==
  /\ Registers /\ ~Sweeping
  /\ registered' = registered \ {t}
  /\ UNCHANGED <<now, rows, rowCount, running, opc, spc, todo, starts>>

-----------------------------------------------------------------------------
(* start and stop, called by the owner one after the other                 *)

Start ==
  /\ opc = "idle" /\ ~running
  /\ starts < MaxStarts
  /\ starts' = starts + 1
  /\ running' = TRUE
  /\ spc' = "loop"
  /\ UNCHANGED <<data, opc, todo>>

(* compare_exchange, without mutex_                                        *)
ClearRunning ==
  /\ opc = "idle" /\ running
  /\ running' = FALSE
  /\ opc' = "notify"
  /\ UNCHANGED <<data, spc, todo, starts>>

NotifyAll ==
  /\ opc = "notify"
  /\ spc' = IF spc = "asleep" THEN "woken" ELSE spc
  /\ opc' = "join"
  /\ UNCHANGED <<data, running, todo, starts>>

(* Mutant: stop detaches the thread.                                        *)
JoinWithoutWaiting ==
  /\ opc = "join"
  /\ opc' = "idle"
  /\ UNCHANGED <<data, running, spc, todo, starts>>

Join ==
  /\ opc = "join" /\ spc = "ended"
  /\ spc' = "none"
  /\ opc' = "idle"
  /\ UNCHANGED <<data, running, todo, starts>>

-----------------------------------------------------------------------------
(* sweep_loop                                                              *)

SGoto(label) == spc' = label /\ UNCHANGED <<data, running, opc, todo, starts>>

(* The loop condition.                                                     *)
TestLoop == spc = "loop" /\ SGoto(IF running THEN "test" ELSE "ended")

(* The predicate of wait_for, with mutex_ held, and then the wait.         *)
TestPredicate == spc \in {"test", "woken"} /\ SGoto(IF running THEN "wait" ELSE "check")
Wait == spc = "wait" /\ SGoto("asleep")

(* Mutant: wait instead of wait_for.                                        *)
NoTimeout == FALSE

(* The interval is over: wait_for returns whatever its predicate says.     *)
Timeout == spc = "asleep" /\ SGoto("check")
WakeSpuriously == spc = "asleep" /\ SGoto("woken")

TestAfterWait ==
  /\ spc = "check"
  /\ IF running
       THEN spc' = "sweep" /\ todo' = registered
       ELSE spc' = "ended" /\ UNCHANGED todo
  /\ UNCHANGED <<data, running, opc, starts>>

(* sweep_now visits the registered tables under tables_mutex_.             *)
SweepTable(t) ==
  /\ spc = "sweep" /\ t \in todo
  /\ cleanup_expired(t)
  /\ todo' = todo \ {t}
  /\ UNCHANGED <<now, registered, running, opc, spc, starts>>

(* Mutant: the sweeper ends after one sweep.                                *)
EndAfterSweep == spc = "sweep" /\ todo = {} /\ SGoto("ended")

EndSweep == spc = "sweep" /\ todo = {} /\ SGoto("loop")

Sweeper ==
  \/ TestLoop \/ TestPredicate \/ Wait \/ Timeout \/ TestAfterWait \/ EndSweep
  \/ \E t \in TableNames : SweepTable(t)
Stop == NotifyAll \/ Join

ManagerStep ==
  \/ Tick
  \/ \E t \in TableNames : Register(t) \/ Unregister(t)
  \/ Start \/ ClearRunning \/ Stop
  \/ Sweeper \/ WakeSpuriously

Next == ManagerStep \/ \E t \in TableNames : Insert(t)

Spec == Init /\ [][Next]_vars

(* The sweeper and a thread inside stop keep running, and an interval      *)
(* ends: the deadline of wait_for is absolute, so that no number of        *)
(* spurious wake-ups puts it off for ever.                                 *)
FairSpec ==
  Spec /\ WF_vars(Sweeper) /\ SF_vars(Timeout) /\ WF_vars(Stop)

-----------------------------------------------------------------------------
(* When stop has returned there is no sweeper any more that could touch a  *)
(* table about to be destroyed.                                            *)
NoSweepAfterStop == opc = "idle" /\ ~running => spc = "none" /\ todo = {}

(* stop returns.                                                           *)
StopReturns == opc = "notify" ~> opc = "idle"

(* An expired row of a registered table is marked, unless the table is     *)
(* unregistered or the sweeper is stopped.                                 *)
ExpiredSwept ==
  \A t \in TableNames :
    Stale(t) # {} /\ t \in registered /\ running
      ~> Stale(t) = {} \/ t \notin registered \/ ~running
=============================================================================
