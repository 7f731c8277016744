----------------------------- MODULE ThreadPool -----------------------------
(***************************************************************************)
(* ThreadPool (server/concurrency/thread_pool.h, .cpp): a queue of tasks,  *)
(* a fixed set of workers that wait on a condition variable, submit, and   *)
(* shutdown.  cv_.wait is split into the test of its predicate, made while *)
(* queue_mutex_ is held, and the wait that releases the mutex: shutdown    *)
(* stores stop_ and notifies without that mutex.                           *)
(***************************************************************************)
EXTENDS Naturals, Sequences, FiniteSets

CONSTANTS
  Workers,    \* threads of the pool
  Clients,    \* threads that call submit
  Tasks,      \* tasks to submit, each once
  MayStop     \* does anybody call shutdown?

Nobody == "nobody"
NoTask == "no task"

ASSUME PoolAssumption == MayStop \in BOOLEAN /\ Workers # {} /\ NoTask \notin Tasks

VARIABLES
  queue,      \* tasks_
  mutex,      \* who holds queue_mutex_, or Nobody
  stop,       \* stop_
  waiting,    \* workers asleep in cv_.wait
  wpc,        \* where each worker is
  running,    \* the task it has taken
  cpc,        \* where each client is in submit
  mine,       \* the task it submits
  spc,        \* where the caller of shutdown is
  joined,     \* workers joined so far
  state       \* history: what became of each task

poolVars == <<queue, mutex, stop, waiting, wpc, running, cpc, mine, spc, joined, state>>

PoolInit ==
  /\ queue = <<>> /\ mutex = Nobody /\ stop = FALSE /\ waiting = {}
  /\ wpc = [w \in Workers |-> "lock"]
  /\ running = [w \in Workers |-> NoTask]
  /\ cpc = [c \in Clients |-> "idle"]
  /\ mine = [c \in Clients |-> NoTask]
  /\ spc = "idle" /\ joined = {}
  /\ state = [t \in Tasks |-> "new"]

-----------------------------------------------------------------------------
(* The loop of a worker                                                    *)

worker == <<wpc, running>>
client == <<cpc, mine>>
closer == <<spc, joined>>

WGoto(w, label) == wpc' = [wpc EXCEPT ![w] = label]

(* Taken at the top of the loop and again on every return from the wait.   *)
LockQueue(w) ==
  /\ wpc[w] = "lock" /\ mutex = Nobody
  /\ mutex' = w
  /\ WGoto(w, "test")
  /\ UNCHANGED <<queue, stop, waiting, running, client, closer, state>>

(* The predicate is false: the worker will wait, and still has the mutex.  *)
DecideToWait(w) ==
  /\ wpc[w] = "test" /\ ~stop /\ queue = <<>>
  /\ WGoto(w, "wait")
  /\ UNCHANGED <<queue, mutex, stop, waiting, running, client, closer, state>>

Wait(w) ==
  /\ wpc[w] = "wait"
  /\ mutex' = Nobody
  /\ waiting' = waiting \union {w}
  /\ WGoto(w, "asleep")
  /\ UNCHANGED <<queue, stop, running, client, closer, state>>

(* Mutant: the task stays in the queue.                                     *)
TakeTaskWithoutPop(w) ==
  /\ wpc[w] = "test" /\ queue # <<>>
  /\ running' = [running EXCEPT ![w] = Head(queue)]
  /\ state' = [state EXCEPT ![Head(queue)] = "taken"]
  /\ mutex' = Nobody
  /\ WGoto(w, "run")
  /\ UNCHANGED <<queue, stop, waiting, client, closer>>

(* The predicate is true: take a task, or leave when stopped and empty.    *)
TakeTask(w) ==
  /\ wpc[w] = "test" /\ queue # <<>>
  /\ running' = [running EXCEPT ![w] = Head(queue)]
  /\ queue' = Tail(queue)
  /\ state' = [state EXCEPT ![Head(queue)] = "taken"]
  /\ mutex' = Nobody
  /\ WGoto(w, "run")
  /\ UNCHANGED <<stop, waiting, client, closer>>

(* Mutant: a worker leaves on stop_ with tasks in the queue.                *)
LeaveOnStop(w) ==
  /\ wpc[w] = "test" /\ stop
  /\ mutex' = Nobody
  /\ WGoto(w, "left")
  /\ UNCHANGED <<queue, stop, waiting, running, client, closer, state>>

Leave(w) ==
  /\ wpc[w] = "test" /\ stop /\ queue = <<>>
  /\ mutex' = Nobody
  /\ WGoto(w, "left")
  /\ UNCHANGED <<queue, stop, waiting, running, client, closer, state>>

RunTask(w) ==
  /\ wpc[w] = "run"
  /\ state' = [state EXCEPT ![running[w]] = "done"]
  /\ running' = [running EXCEPT ![w] = NoTask]
  /\ WGoto(w, "lock")
  /\ UNCHANGED <<queue, mutex, stop, waiting, client, closer>>

(* A wait may end without a notification.                                  *)
WakeSpuriously(w) ==
  /\ w \in waiting
  /\ waiting' = waiting \ {w}
  /\ WGoto(w, "lock")
  /\ UNCHANGED <<queue, mutex, stop, running, client, closer, state>>

-----------------------------------------------------------------------------
(* submit                                                                  *)

CGoto(c, label) == cpc' = [cpc EXCEPT ![c] = label]

Submit(c, t) ==
  /\ cpc[c] = "idle" /\ state[t] = "new"
  /\ mine' = [mine EXCEPT ![c] = t]
  /\ state' = [state EXCEPT ![t] = "submitted"]
  /\ CGoto(c, "push")
  /\ UNCHANGED <<queue, mutex, stop, waiting, worker, closer>>

(* Mutant: the task goes to the front of the queue.                         *)
PushInFront(c) ==
  /\ cpc[c] = "push" /\ mutex = Nobody /\ ~stop
  /\ queue' = <<mine[c]>> \o queue
  /\ state' = [state EXCEPT ![mine[c]] = "queued"]
  /\ CGoto(c, "notify")
  /\ mine' = [mine EXCEPT ![c] = NoTask]
  /\ UNCHANGED <<mutex, stop, waiting, worker, closer>>

(* The task is pushed unless the pool is stopped; then submit throws.      *)
Push(c) ==
  /\ cpc[c] = "push" /\ mutex = Nobody
  /\ IF stop
       THEN /\ state' = [state EXCEPT ![mine[c]] = "refused"]
            /\ CGoto(c, "idle")
            /\ UNCHANGED queue
       ELSE /\ queue' = Append(queue, mine[c])
            /\ state' = [state EXCEPT ![mine[c]] = "queued"]
            /\ CGoto(c, "notify")
  /\ mine' = [mine EXCEPT ![c] = NoTask]
  /\ UNCHANGED <<mutex, stop, waiting, worker, closer>>

(* Mutant: submit does not notify.                                          *)
NotifyNobody(c) ==
  /\ cpc[c] = "notify"
  /\ CGoto(c, "idle")
  /\ UNCHANGED <<queue, mutex, stop, waiting, wpc, running, mine, closer, state>>

NotifyOne(c) ==
  /\ cpc[c] = "notify"
  /\ IF waiting = {}
       THEN UNCHANGED <<waiting, wpc>>
       ELSE \E w \in waiting : waiting' = waiting \ {w} /\ WGoto(w, "lock")
  /\ CGoto(c, "idle")
  /\ UNCHANGED <<queue, mutex, stop, running, mine, closer, state>>

-----------------------------------------------------------------------------
(* shutdown, called once: a second call returns at the compare_exchange.   *)

StoreStop ==
  /\ MayStop /\ spc = "idle"
  /\ stop' = TRUE
  /\ spc' = "notify"
  /\ UNCHANGED <<queue, mutex, waiting, worker, client, joined, state>>

(* Mutant: shutdown wakes one worker.                                       *)
NotifyAllAsOne ==
  /\ spc = "notify"
  /\ IF waiting = {}
       THEN UNCHANGED <<waiting, wpc>>
       ELSE \E w \in waiting : waiting' = waiting \ {w} /\ WGoto(w, "lock")
  /\ spc' = "join"
  /\ UNCHANGED <<queue, mutex, stop, running, client, joined, state>>

NotifyAll ==
  /\ spc = "notify"
  /\ waiting' = {}
  /\ wpc' = [w \in Workers |-> IF w \in waiting THEN "lock" ELSE wpc[w]]
  /\ spc' = "join"
  /\ UNCHANGED <<queue, mutex, stop, running, client, joined, state>>

Join(w) ==
  /\ spc = "join" /\ wpc[w] = "left" /\ w \notin joined
  /\ joined' = joined \union {w}
  /\ UNCHANGED <<queue, mutex, stop, waiting, worker, client, spc, state>>

ShutdownReturns ==
  /\ spc = "join" /\ joined = Workers
  /\ spc' = "returned"
  /\ UNCHANGED <<queue, mutex, stop, waiting, worker, client, joined, state>>

WorkerStep(w) ==
  LockQueue(w) \/ DecideToWait(w) \/ Wait(w) \/ TakeTask(w) \/ Leave(w) \/ RunTask(w)
ClientStep(c) == Push(c) \/ NotifyOne(c)
CloserStep == NotifyAll \/ (\E w \in Workers : Join(w)) \/ ShutdownReturns

PoolNext ==
  \/ \E w \in Workers : WorkerStep(w) \/ WakeSpuriously(w)
  \/ \E c \in Clients : ClientStep(c) \/ \E t \in Tasks : Submit(c, t)
  \/ StoreStop
  \/ CloserStep

PoolSpec == PoolInit /\ [][PoolNext]_poolVars

(* Threads keep running, the mutex is granted to a thread that keeps       *)
(* asking for it, and tasks end.  Nobody has to submit or to shut down,    *)
(* and no wait has to end by itself.                                       *)
FairSpec ==
  /\ PoolSpec
  /\ \A w \in Workers : SF_poolVars(LockQueue(w)) /\ WF_poolVars(WorkerStep(w))
  /\ \A c \in Clients : SF_poolVars(Push(c)) /\ WF_poolVars(ClientStep(c))
  /\ WF_poolVars(CloserStep)

-----------------------------------------------------------------------------
(* A task is in one place: queued once, or with one worker, or finished;   *)
(* none is lost between the queue and a worker, and none runs twice.       *)
EachTaskOnce ==
  \A t \in Tasks :
    LET places == {i \in 1..Len(queue) : queue[i] = t}
                    \union {w \in Workers : running[w] = t}
    IN  Cardinality(places) = IF state[t] \in {"queued", "taken"} THEN 1 ELSE 0

(* When shutdown returns no worker is left and every task that was         *)
(* accepted has been run (thread_pool.h:46).                               *)
ShutdownDrains ==
  spc = "returned" => \A t \in Tasks : state[t] \notin {"queued", "taken"}

(* An accepted task is run, even when a shutdown comes in between: no      *)
(* notification that matters is lost between the push and the wait.        *)
AcceptedRuns == \A t \in Tasks : state[t] = "queued" ~> state[t] = "done"

(* shutdown returns unless its wake-up is lost.  Lost it is on a worker    *)
(* that tested the predicate before stop_ was stored and is on its way     *)
(* into the wait: shutdown stores and notifies without queue_mutex_.       *)
ShutdownReturnsUnlessLost ==
  (spc = "notify" /\ \A w \in Workers : wpc[w] # "wait") ~> spc = "returned"

(* The mutex, the condition variable and the program counters implement    *)
(* the pool as its users see it: tasks are accepted only while it is open, *)
(* taken in order and once, and workers leave only when it is drained.     *)
Pool == INSTANCE WorkPool WITH
  pending <- queue, busy <- running, open <- ~stop,
  gone <- {w \in Workers : wpc[w] = "left"}
IsWorkPool == Pool!PoolSpec

(* shutdown returns once the tasks have ended (thread_pool.h:46, "Shutdown *)
(* the pool (waits for all tasks to complete)").                           *)
ShutdownReturnsEventually == spc = "notify" ~> spc = "returned"
=============================================================================
