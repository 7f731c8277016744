------------------------------ MODULE WorkPool ------------------------------
(***************************************************************************)
(* What ThreadPool (server/concurrency/thread_pool.h) promises its users:  *)
(* accepted tasks are taken in order, each by one worker, until the pool   *)
(* is closed and drained.  ThreadPool.tla, with its mutex and its          *)
(* condition variable, is shown to implement this specification;           *)
(* Server.tla is built on it.                                              *)
(***************************************************************************)
EXTENDS Sequences

CONSTANTS
  Workers,   \* threads of the pool
  Tasks      \* what is submitted

VARIABLES
  pending,   \* accepted tasks no worker has taken
  busy,      \* the task of each worker, or NoTask
  open,      \* may tasks be submitted?
  gone       \* workers whose thread has ended

NoTask == "no task"

poolVars == <<pending, busy, open, gone>>

PoolInit ==
  /\ pending = <<>> /\ busy = [w \in Workers |-> NoTask]
  /\ open = TRUE /\ gone = {}

(* submit, when it does not throw: it throws on a closed pool.             *)
Accept(t) ==
  /\ open
  /\ pending' = Append(pending, t)
  /\ UNCHANGED <<busy, open, gone>>

Free(w) == w \notin gone /\ busy[w] = NoTask

Take(w) ==
  /\ Free(w) /\ pending # <<>>
  /\ busy' = [busy EXCEPT ![w] = Head(pending)]
  /\ pending' = Tail(pending)
  /\ UNCHANGED <<open, gone>>

Finish(w) ==
  /\ busy[w] # NoTask
  /\ busy' = [busy EXCEPT ![w] = NoTask]
  /\ UNCHANGED <<pending, open, gone>>

(* shutdown: no further task is accepted; then every worker ends once the  *)
(* queue is empty, and is joined.                                          *)
Close ==
  /\ open' = FALSE
  /\ UNCHANGED <<pending, busy, gone>>

Retire(w) ==
  /\ Free(w) /\ ~open /\ pending = <<>>
  /\ gone' = gone \union {w}
  /\ UNCHANGED <<pending, busy, open>>

Joined == gone = Workers

PoolNext ==
  \/ \E t \in Tasks : Accept(t)
  \/ Close
  \/ \E w \in Workers : Take(w) \/ Finish(w) \/ Retire(w)

PoolSpec == PoolInit /\ [][PoolNext]_poolVars
=============================================================================
