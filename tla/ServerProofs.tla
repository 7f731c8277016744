---------------------------- MODULE ServerProofs ----------------------------
(***************************************************************************)
(* For every number of workers, clients, calls and signals, and wherever a *)
(* signal may interrupt main: a statement is executed at most once, an     *)
(* answer is that of its own call, and the final snapshot is final.        *)
(***************************************************************************)
EXTENDS Server, TLAPS

(* Most leaves are first-order, and Zenon is the quicker on those.         *)
USE ZenonT(5), SMTT(20)

WorkerLabels == {"recv", "handle", "send", "sending", "close"}
ClientLabels == {"new", "failed", "open", "exec", "closing", "done", "dead"}

(* What the main thread, the workers and the clients hold.                 *)
MainShape ==
  /\ backlog \in Seq(Clients) /\ pending \in Seq(Clients)
  /\ accepted \in Clients \union {NoConn}
  /\ main \in {"submit", "locked"} => accepted \in Clients
WorkerShape ==
  /\ busy \in [Workers -> Clients \union {NoTask}]
  /\ wpc \in [Workers -> WorkerLabels]
  /\ \A w \in Workers : busy[w] = NoTask => wpc[w] = "recv"
  /\ DOMAIN query = Workers
ClientShape ==
  /\ client \in [Clients -> ClientLabels]
  /\ DOMAIN up = Clients /\ DOMAIN down = Clients /\ DOMAIN conn = Clients
  /\ DOMAIN call = Clients /\ DOMAIN got = Clients
  /\ issued \in [Clients -> Nat] /\ executed \in [Clients -> Nat]
  /\ acked \in [Clients -> Nat]
Shape == MainShape /\ WorkerShape /\ ClientShape

-----------------------------------------------------------------------------
(* The end of the server.  No worker has work before main listens and      *)
(* after run() has returned: the flag that ends the loop is cleared by a   *)
(* stop, and main goes on only when that stop has joined every worker.     *)
Drained == \A w \in Workers : busy[w] = NoTask /\ pending = <<>>

Lifecycle ==
  /\ gone \subseteq Workers /\ \A w \in gone : busy[w] = NoTask
  /\ gone # {} => ~open /\ pending = <<>>
  /\ ~open => Joined \/ handler = "join" \/ main \in {"saved", "exited"}
  /\ main \in {"loop", "accept", "submit", "locked"} /\ ~running => ~open
  /\ main \in {"start", "returned", "saved", "exited", "aborted"} => Drained
  /\ saved # NotSaved => main \in {"saved", "exited"} /\ saved = executed

-----------------------------------------------------------------------------
Occurs(x, s) == \E i \in 1..Len(s) : s[i] = x
Distinct(s) == \A i, j \in 1..Len(s) : s[i] = s[j] => i = j

InBacklog(c) == Occurs(c, backlog)
InPending(c) == Occurs(c, pending)
Served(c) == \E w \in Workers : busy[w] = c

(* A connection waits for a worker.                                        *)
Held(c) == InBacklog(c) \/ accepted = c \/ InPending(c)

(* Each connection is in one place, which the kernel's state tells.        *)
OnePlace ==
  /\ Distinct(backlog) /\ Distinct(pending)
  /\ \A v, w \in Workers : busy[v] \in Clients /\ busy[v] = busy[w] => v = w
  /\ \A c \in Clients :
       /\ conn[c] = "backlog" <=> InBacklog(c)
       /\ accepted = c \/ InPending(c) \/ Served(c) => conn[c] = "accepted"
       /\ accepted = c \/ InPending(c) => ~Served(c)
       /\ accepted = c => ~InPending(c)
       /\ client[c] \in {"new", "failed"} => conn[c] = "none"

(* Nothing that is sent on the connection will be read.                    *)
Deaf(c) ==
  \/ ~Alive
  \/ ~Held(c) /\ \A w \in Workers : busy[w] = c => wpc[w] \in {"sending", "close"}

(* The worker of the connection, if it has one, waits for a query; or it   *)
(* has one that is not answered yet.                                       *)
Reading(c) == \A w \in Workers : busy[w] = c => wpc[w] = "recv"
Handles(w, c) == busy[w] = c /\ wpc[w] \in {"handle", "send"}

(* f is what the server sends for q.                                       *)
Answers(f, q) ==
  \/ q.kind = "sql" /\ f = Frame(format_result(q.result), q.huge)
  \/ q.kind = "exit" /\ f = Frame(format_result(Message(<<"BYE">>)), FALSE)

(* At most one call is on its way: in the connection, with the worker, or  *)
(* answered.                                                               *)
OneCall(c) ==
  /\ \/ Deaf(c)
     \/ Reading(c) /\ up[c] = <<>>
     \/ Reading(c) /\ down[c] = <<>> /\ up[c] # <<>> /\ up[c] = <<up[c][1]>>
     \/ up[c] = <<>> /\ down[c] = <<>> /\ \E w \in Workers : Handles(w, c)
  /\ down[c] # <<>> => down[c] = <<down[c][1]>>
  /\ conn[c] = "closed" => Deaf(c)

(* It is the one the client waits for.  An answer over the limit stays on  *)
(* the connection, whose worker then never reads again.                    *)
OwnCall(c) ==
  /\ down[c] # <<>> =>
       \/ down[c][1].huge /\ Deaf(c)
       \/ /\ client[c] # "open" /\ ~down[c][1].huge
          /\ client[c] = "exec" => Answers(down[c][1], call[c])
  /\ client[c] \in {"new", "failed"} => up[c] = <<>> /\ down[c] = <<>>
  /\ client[c] = "open" /\ ~Deaf(c) => up[c] = <<>> /\ Reading(c)
  /\ client[c] = "exec" => call[c] \in Queries[c]
  /\ client[c] = "exec" /\ ~Deaf(c) /\ up[c] # <<>> => up[c] = <<call[c]>>
  /\ client[c] = "exec" =>
       \A w \in Workers : Handles(w, c) => query[w] = call[c]
  /\ \A w \in Workers : busy[w] = c /\ wpc[w] = "send" => query[w].kind = "sql"

(* A mutation that may still be executed is counted as issued, one that    *)
(* may still be acknowledged as executed.                                  *)
Counted(c) ==
  /\ acked[c] <= executed[c] /\ executed[c] <= issued[c]
  /\ ~Deaf(c) /\ up[c] # <<>> /\ up[c][1].mutates => executed[c] < issued[c]
  /\ \A w \in Workers : busy[w] = c /\ wpc[w] = "handle" /\ query[w].mutates
       => executed[c] < issued[c]
  /\ client[c] = "exec" /\ call[c].mutates =>
       /\ \A w \in Workers : busy[w] = c /\ wpc[w] = "send" => acked[c] < executed[c]
       /\ down[c] # <<>> /\ ~down[c][1].huge => acked[c] < executed[c]

Link(c) == OneCall(c) /\ OwnCall(c) /\ Counted(c)

Inv ==
  /\ Shape /\ Lifecycle
  /\ Alive => OnePlace
  /\ \A c \in Clients : Link(c)

(* What a call reported is read from the text of the answer to its own     *)
(* query.                                                                  *)
OwnText(c) ==
  LET q == got[c].query
      text == format_result(q.result)
  IN  /\ got[c].rc = "ok" =>
           \/ q.kind = "sql" /\ ~IsError(text) /\ got[c].rows = callbacks(text, q.limit)
           \/ q.kind = "exit"
      /\ got[c].rc = "error" => q.kind = "sql" /\ IsError(text)
AnswersOwnText == \A c \in Clients : OwnText(c)

-----------------------------------------------------------------------------
(* Before main listens nothing is connected, queued or executed.            *)
LEMMA InvInit == Init => Inv
<1> SUFFICES ASSUME Init PROVE Inv
  OBVIOUS
<1>1. Shape
  <2>1. NoTask \notin Clients /\ NoConn \notin Clients
    BY ServerAssumption
  <2> QED BY <2>1 DEF Init, PoolInit, Shape, MainShape, WorkerShape, ClientShape,
                      WorkerLabels, ClientLabels, Clients
<1>2. Lifecycle
  BY DEF Init, PoolInit, Lifecycle, Drained, Joined
<1>3. OnePlace
  <2>1. /\ \A c \in Clients : ~InBacklog(c) /\ ~InPending(c) /\ ~Served(c) /\ accepted # c
        /\ \A w \in Workers : busy[w] \notin Clients
    BY ServerAssumption DEF Init, PoolInit, InBacklog, InPending, Occurs, Served, Clients
  <2> QED BY <2>1 DEF Init, PoolInit, OnePlace, Distinct
<1>4. ASSUME NEW c \in Clients PROVE Link(c)
  <2>1. \A w \in Workers : busy[w] # c
    BY ServerAssumption DEF Init, PoolInit, Clients
  <2> QED BY <2>1 DEF Init, Link, OneCall, OwnCall, Counted, Reading, Handles
<1> QED BY <1>1, <1>2, <1>3, <1>4 DEF Inv

-----------------------------------------------------------------------------
(* Every step leaves things in their shape.                                *)
LEMMA ShapeMain == ASSUME Shape, MainStep \/ Signal PROVE Shape'
<1> USE DEF mainVars, poolVars, workVars, clientVars
<1>1. WorkerShape'
  <2>1. UNCHANGED <<busy, wpc, query>>
    BY DEF MainStep, Listen, SetRunning, CheckRunning, AcceptConnection, AcceptFails,
           SubmitLocks, SubmitPushes, Accept, SubmitThrows, FinalSnapshot, DestroyServer,
           Close, Exit, Stop, StopReturns, Signal
  <2> QED BY <2>1 DEF Shape, WorkerShape
<1>2. ClientShape'
  <2>1. UNCHANGED <<client, up, down, call, got, issued, executed, acked>>
    BY DEF MainStep, Listen, SetRunning, CheckRunning, AcceptConnection, AcceptFails,
           SubmitLocks, SubmitPushes, SubmitThrows, FinalSnapshot, DestroyServer,
           Exit, Stop, StopReturns, Signal
  <2>2. DOMAIN conn' = Clients
    BY DEF MainStep, Listen, SetRunning, CheckRunning, AcceptConnection, AcceptFails,
           SubmitLocks, SubmitPushes, SubmitThrows, FinalSnapshot, DestroyServer,
           Exit, Stop, StopReturns, Signal, CloseAll, Shape, ClientShape
  <2> QED BY <2>1, <2>2 DEF Shape, ClientShape
<1>3. MainShape'
  <2> USE DEF Shape, MainShape
  <2>1. CASE AcceptConnection
    BY <2>1 DEF AcceptConnection
  <2>2. CASE SubmitPushes
    BY <2>2 DEF SubmitPushes, Accept
  <2>3. CASE SubmitThrows
    BY <2>3 DEF SubmitThrows
  <2>4. CASE Stop
    BY <2>4 DEF Stop, Close
  <2>5. CASE Listen \/ SetRunning \/ CheckRunning \/ AcceptFails \/ SubmitLocks
    BY <2>5 DEF Listen, SetRunning, CheckRunning, AcceptFails, SubmitLocks
  <2>6. CASE FinalSnapshot \/ DestroyServer \/ Exit \/ StopReturns \/ Signal
    BY <2>6 DEF FinalSnapshot, DestroyServer, Close, Exit, StopReturns, Signal
  <2> QED BY <2>1, <2>2, <2>3, <2>4, <2>5, <2>6 DEF MainStep
<1> QED BY <1>1, <1>2, <1>3 DEF Shape

(* The workers keep what threads and clients hold well formed.              *)
LEMMA ShapeWorker == ASSUME Shape, NEW w \in Workers, WorkerStep(w) PROVE Shape'
<1> USE DEF serverOnly, mainVars, poolVars, clientVars
<1>1. MainShape'
  <2>1. UNCHANGED <<main, accepted, backlog>>
    BY DEF WorkerStep, TakeConnection, WorkerLeaves, Receive, ReceiveLong, ReceiveFails,
           SkipEmpty, SayBye, ExecuteThrows, ExecuteSql, Send, SendFails, CloseConnection
  <2>2. CASE TakeConnection(w)
    <3>1. pending # <<>> /\ pending' = Tail(pending)
      BY <2>2 DEF TakeConnection, Take
    <3> QED BY <2>1, <3>1 DEF Shape, MainShape
  <2>3. CASE ~TakeConnection(w)
    <3>1. pending' = pending
      BY <2>3 DEF WorkerStep, WorkerLeaves, Retire, Receive, ReceiveLong, ReceiveFails,
             SkipEmpty, SayBye, ExecuteThrows, Finish, ExecuteSql, Send, SendFails,
             CloseConnection
    <3> QED BY <2>1, <3>1 DEF Shape, MainShape
  <2> QED BY <2>2, <2>3
<1>2. ClientShape'
  <2>1. UNCHANGED <<client, call, got, issued, acked>>
    BY DEF WorkerStep, TakeConnection, WorkerLeaves, Receive, ReceiveLong, ReceiveFails,
           SkipEmpty, SayBye, ExecuteThrows, ExecuteSql, Send, SendFails, CloseConnection
  <2>2. DOMAIN up' = Clients /\ DOMAIN down' = Clients /\ DOMAIN conn' = Clients
    <3> USE DEF Shape, ClientShape
    <3>1. CASE Receive(w) \/ ReceiveLong(w)
      BY <3>1 DEF Receive, ReceiveLong
    <3>2. CASE SayBye(w) \/ Send(w)
      BY <3>2 DEF SayBye, Send, Deliver
    <3>3. CASE CloseConnection(w)
      BY <3>3 DEF CloseConnection
    <3>4. CASE ~(\/ Receive(w) \/ ReceiveLong(w) \/ SayBye(w) \/ Send(w)
                 \/ CloseConnection(w))
      BY <3>4 DEF WorkerStep, TakeConnection, WorkerLeaves, ReceiveFails, SkipEmpty,
                  ExecuteThrows, ExecuteSql, SendFails
    <3> QED BY <3>1, <3>2, <3>3, <3>4
  <2>3. executed' \in [Clients -> Nat]
    <3>1. CASE ExecuteSql(w)
      <4>1. busy[w] \in Clients
        BY <3>1 DEF ExecuteSql, At, Shape, WorkerShape
      <4>2. \/ executed' = [executed EXCEPT ![busy[w]] = executed[busy[w]] + 1]
            \/ executed' = executed
        BY <3>1 DEF ExecuteSql
      <4> QED BY <4>1, <4>2 DEF Shape, ClientShape
    <3>2. CASE ~ExecuteSql(w)
      BY <3>2 DEF WorkerStep, TakeConnection, WorkerLeaves, Receive, ReceiveLong,
             ReceiveFails, SkipEmpty, SayBye, ExecuteThrows, Send, SendFails,
             CloseConnection, Shape, ClientShape
    <3> QED BY <3>1, <3>2
  <2> QED BY <2>1, <2>2, <2>3 DEF Shape, ClientShape
<1>3. WorkerShape'
  <2> USE DEF Shape, WorkerShape, WorkerLabels, WGoto, Forget, At
  <2>1. CASE TakeConnection(w)
    <3>1. Head(pending) \in Clients
      BY <2>1 DEF TakeConnection, Take, MainShape
    <3> QED BY <2>1, <3>1, ServerAssumption DEF TakeConnection, Take, Free, workVars
  <2>2. CASE WorkerLeaves(w)
    BY <2>2 DEF WorkerLeaves, Retire, workVars
  <2>3. CASE Receive(w) \/ ReceiveLong(w) \/ ReceiveFails(w) \/ SkipEmpty(w)
    BY <2>3 DEF Receive, ReceiveLong, ReceiveFails, SkipEmpty
  <2>4. CASE SayBye(w) \/ ExecuteSql(w) \/ Send(w) \/ SendFails(w)
    BY <2>4 DEF SayBye, ExecuteSql, Send, SendFails
  <2>5. CASE ExecuteThrows(w) \/ CloseConnection(w)
    BY <2>5 DEF ExecuteThrows, CloseConnection, Finish
  <2> QED BY <2>1, <2>2, <2>3, <2>4, <2>5 DEF WorkerStep
<1> QED BY <1>1, <1>2, <1>3 DEF Shape

ClientStep(c) ==
  \/ LibraryStep(c) \/ flexql_open(c) \/ flexql_close(c) \/ ClientDies(c)
  \/ \E q \in Queries[c] : flexql_exec(c, q)

(* flexql_exec returns with every answer.                                  *)
LEMMA AnsweredReturns == ASSUME NEW c, ExecAnswered(c) PROVE \E rc, rows : Return(c, rc, rows)
<1>1. PICK text : \/ Return(c, "io", <<>>) \/ Return(c, "error", <<>>)
                  \/ Return(c, "ok", callbacks(text, call[c].limit))
  BY DEF ExecAnswered
<1> QED BY <1>1

(* So do the calls of the client library.                                   *)
LEMMA ShapeClient == ASSUME Shape, NEW c \in Clients, ClientStep(c) PROVE Shape'
<1> USE DEF ClientStep, LibraryStep, server, mainVars, poolVars, workVars
<1>1. UNCHANGED <<main, accepted, pending, busy, wpc, query>>
  BY DEF flexql_open, ExecAnswered, ExecFails, CloseReturns, ClientDies, flexql_close,
         flexql_exec
<1>2. backlog' = backlog \/ backlog' = Append(backlog, c)
  BY DEF flexql_open, ExecAnswered, ExecFails, CloseReturns, ClientDies, flexql_close,
         flexql_exec
<1>3. MainShape' /\ WorkerShape'
  <2>1. backlog' \in Seq(Clients)
    BY <1>2 DEF Shape, MainShape
  <2>2. MainShape'
    BY <1>1, <2>1 DEF Shape, MainShape
  <2>3. WorkerShape'
    BY <1>1 DEF Shape, WorkerShape
  <2> QED BY <2>2, <2>3
<1>4. ClientShape'
  <2> USE DEF Shape, ClientShape, CGoto, ClientLabels
  <2>1. CASE flexql_open(c)
    BY <2>1 DEF flexql_open
  <2>2. CASE ExecAnswered(c)
    <3>1. \E rc, rows : Return(c, rc, rows)
      BY <2>2, AnsweredReturns
    <3>2. /\ client' \in [Clients -> ClientLabels]
          /\ DOMAIN call' = Clients /\ DOMAIN got' = Clients
      BY <3>1 DEF Return
    <3>3. DOMAIN down' = Clients
      BY <2>2 DEF ExecAnswered
    <3>4. acked' \in [Clients -> Nat]
      BY <2>2 DEF ExecAnswered
    <3>5. UNCHANGED <<up, conn, issued, executed>>
      BY <2>2 DEF ExecAnswered
    <3> QED BY <3>2, <3>3, <3>4, <3>5
  <2>3. CASE ExecFails(c)
    BY <2>3 DEF ExecFails, Return
  <2>4. CASE CloseReturns(c) \/ ClientDies(c)
    BY <2>4 DEF CloseReturns, ClientDies
  <2>5. CASE flexql_close(c)
    BY <2>5 DEF flexql_close, Sent
  <2>6. ASSUME NEW q \in Queries[c], flexql_exec(c, q) PROVE ClientShape'
    <3>1. DOMAIN up' = Clients /\ DOMAIN call' = Clients /\ DOMAIN got' = Clients
      BY <2>6 DEF flexql_exec, Sent
    <3>2. issued' \in [Clients -> Nat]
      BY <2>6 DEF flexql_exec
    <3>3. client' \in [Clients -> ClientLabels]
      BY <2>6 DEF flexql_exec
    <3> QED BY <2>6, <3>1, <3>2, <3>3 DEF flexql_exec
  <2> QED BY <2>1, <2>2, <2>3, <2>4, <2>5, <2>6
<1> QED BY <1>3, <1>4 DEF Shape

-----------------------------------------------------------------------------
(* The end of the server.  Outside main and its signal handler only a      *)
(* statement that is executed matters, which needs a busy worker, and the  *)
(* workers that take a connection or leave.                                *)
LEMMA LifecycleMain == ASSUME Shape, Lifecycle, MainStep \/ Signal PROVE Lifecycle'
<1> USE DEF mainVars, signalVars, poolVars, Lifecycle, Drained, MainRuns
<1>1. CASE Listen \/ SetRunning \/ SubmitLocks \/ AcceptConnection
  BY <1>1 DEF Listen, SetRunning, SubmitLocks, AcceptConnection, Joined
<1>2. CASE CheckRunning \/ AcceptFails
  <2>1. /\ UNCHANGED <<gone, busy, pending, open, handler, running, saved, executed>>
        /\ main \in {"loop", "accept"} /\ handler = "none"
    BY <1>2 DEF CheckRunning, AcceptFails
  <2>2. CASE running
    <3>1. main' \in {"loop", "accept"}
      BY <1>2, <2>2 DEF CheckRunning, AcceptFails
    <3> QED BY <2>1, <2>2, <3>1 DEF Joined
  <2>3. CASE ~running
    <3>1. main' = "returned"
      BY <1>2, <2>3 DEF CheckRunning, AcceptFails
    <3>2. gone = Workers
      BY <2>1, <2>3 DEF Joined
    <3>3. \A w \in Workers : busy[w] = NoTask /\ pending = <<>>
      BY <3>2
    <3> QED BY <2>1, <3>1, <3>2, <3>3 DEF Joined
  <2> QED BY <2>2, <2>3
<1>3. CASE SubmitPushes
  BY <1>3 DEF SubmitPushes, Accept, Joined
<1>4. CASE SubmitThrows
  BY <1>4 DEF SubmitThrows, Joined
<1>5. CASE FinalSnapshot
  BY <1>5 DEF FinalSnapshot, Joined
<1>6. CASE DestroyServer \/ Exit
  BY <1>6 DEF DestroyServer, Close, Exit, Joined
<1>7. CASE Stop
  BY <1>7 DEF Stop, Close, Joined
<1>8. CASE StopReturns \/ Signal
  BY <1>8 DEF StopReturns, Signal, Joined
<1> QED BY <1>1, <1>2, <1>3, <1>4, <1>5, <1>6, <1>7, <1>8 DEF MainStep

(* A worker leaves only a closed and drained pool.                          *)
LEMMA LifecycleWorker ==
  ASSUME Shape, Lifecycle, NEW w \in Workers, WorkerStep(w)
  PROVE  Lifecycle'
<1> USE DEF serverOnly, mainVars, signalVars, poolVars, Lifecycle, Drained
<1>1. CASE TakeConnection(w)
  BY <1>1 DEF TakeConnection, Take, Free, Shape, WorkerShape, Joined
<1>2. CASE WorkerLeaves(w)
  BY <1>2 DEF WorkerLeaves, Retire, Free, Joined
<1>3. CASE ExecuteThrows(w) \/ CloseConnection(w)
  BY <1>3 DEF ExecuteThrows, CloseConnection, Finish, Shape, WorkerShape, Joined
<1>4. CASE ExecuteSql(w)
  BY <1>4 DEF ExecuteSql, At, Joined
<1>5. CASE ~(TakeConnection(w) \/ WorkerLeaves(w) \/ ExecuteThrows(w)
             \/ CloseConnection(w) \/ ExecuteSql(w))
  <2>1. UNCHANGED <<main, running, handler, pending, busy, open, gone, executed, saved>>
    BY <1>5 DEF WorkerStep, Receive, ReceiveLong, ReceiveFails, SkipEmpty, SayBye, Send,
                SendFails
  <2> QED BY <2>1 DEF Joined
<1> QED BY <1>1, <1>2, <1>3, <1>4, <1>5

(* The client library does not touch the server's threads.                  *)
LEMMA LifecycleClient ==
  ASSUME Lifecycle, NEW c \in Clients, ClientStep(c)
  PROVE  Lifecycle'
<1>1. UNCHANGED <<main, running, handler, pending, busy, open, gone, executed, saved>>
  BY DEF ClientStep, LibraryStep, server, mainVars, signalVars, poolVars, flexql_open,
         ExecAnswered, ExecFails, CloseReturns, ClientDies, flexql_close, flexql_exec
<1> QED BY <1>1 DEF Lifecycle, Drained, Joined

-----------------------------------------------------------------------------
(* Sequences without repetitions.                                          *)
LEMMA TailOccurs ==
  ASSUME NEW S, NEW s \in Seq(S), s # <<>>, Distinct(s)
  PROVE  Distinct(Tail(s)) /\ \A x : Occurs(x, Tail(s)) <=> Occurs(x, s) /\ x # Head(s)
<1>1. /\ Len(Tail(s)) = Len(s) - 1 /\ Len(s) \in Nat \ {0} /\ Head(s) = s[1]
      /\ \A i \in 1..Len(Tail(s)) : Tail(s)[i] = s[i + 1]
  OBVIOUS
<1>2. Distinct(Tail(s))
  <2> SUFFICES ASSUME NEW i \in 1..Len(Tail(s)), NEW j \in 1..Len(Tail(s)),
                      Tail(s)[i] = Tail(s)[j]
               PROVE  i = j
    BY DEF Distinct
  <2>1. i + 1 \in 1..Len(s) /\ j + 1 \in 1..Len(s) /\ s[i + 1] = s[j + 1]
    BY <1>1
  <2> QED BY <2>1 DEF Distinct
<1>3. ASSUME NEW x, Occurs(x, Tail(s)) PROVE Occurs(x, s) /\ x # Head(s)
  <2>1. PICK i \in 1..Len(Tail(s)) : Tail(s)[i] = x
    BY <1>3 DEF Occurs
  <2>2. i + 1 \in 1..Len(s) /\ s[i + 1] = x /\ 1 \in 1..Len(s) /\ i + 1 # 1
    BY <1>1, <2>1
  <2> QED BY <1>1, <2>2 DEF Occurs, Distinct
<1>4. ASSUME NEW x, Occurs(x, s), x # Head(s) PROVE Occurs(x, Tail(s))
  <2>1. PICK i \in 1..Len(s) : s[i] = x
    BY <1>4 DEF Occurs
  <2>2. i - 1 \in 1..Len(Tail(s)) /\ Tail(s)[i - 1] = x
    BY <1>1, <1>4, <2>1
  <2> QED BY <2>2 DEF Occurs
<1> QED BY <1>2, <1>3, <1>4

(* What joins a queue at its end.                                           *)
LEMMA AppendOccurs ==
  ASSUME NEW S, NEW s \in Seq(S), NEW e \in S
  PROVE  /\ \A x : Occurs(x, Append(s, e)) <=> Occurs(x, s) \/ x = e
         /\ Distinct(s) /\ ~Occurs(e, s) => Distinct(Append(s, e))
<1>1. /\ Len(s) \in Nat /\ Len(Append(s, e)) = Len(s) + 1
      /\ Append(s, e)[Len(s) + 1] = e
      /\ \A i \in 1..Len(s) : Append(s, e)[i] = s[i]
  OBVIOUS
<1>2. ASSUME NEW x PROVE Occurs(x, Append(s, e)) <=> Occurs(x, s) \/ x = e
  BY <1>1 DEF Occurs
<1>3. ASSUME Distinct(s), ~Occurs(e, s) PROVE Distinct(Append(s, e))
  BY <1>1, <1>3 DEF Occurs, Distinct
<1> QED BY <1>2, <1>3

-----------------------------------------------------------------------------
(* While the process lives every connection is in one place.               *)
LEMMA PlaceMain ==
  ASSUME Shape, Alive => OnePlace, MainStep \/ Signal, Alive'
  PROVE  Alive /\ OnePlace'
<1> USE DEF mainVars, poolVars, clientVars, MainRuns
<1>1. Alive
  BY DEF Alive, MainStep, Listen, SetRunning, CheckRunning, AcceptConnection, AcceptFails,
         SubmitLocks, SubmitPushes, SubmitThrows, FinalSnapshot, DestroyServer,
         Exit, Stop, StopReturns, Signal
<1>2. OnePlace
  BY <1>1
<1>3. client' = client
  BY DEF MainStep, Listen, SetRunning, CheckRunning, AcceptConnection, AcceptFails,
         SubmitLocks, SubmitPushes, SubmitThrows, FinalSnapshot, DestroyServer,
         Exit, Stop, StopReturns, Signal
<1>4. busy' = busy
  BY DEF MainStep, Listen, SetRunning, CheckRunning, AcceptConnection, AcceptFails,
         SubmitLocks, SubmitPushes, Accept, SubmitThrows, FinalSnapshot, DestroyServer,
         Close, Exit, Stop, StopReturns, Signal
<1>5. CASE AcceptConnection
  <2>1. /\ backlog \in Seq(Clients) /\ backlog # <<>> /\ Head(backlog) \in Clients
        /\ backlog' = Tail(backlog) /\ accepted' = Head(backlog) /\ pending' = pending
        /\ conn' = [conn EXCEPT ![Head(backlog)] = "accepted"]
    BY <1>5 DEF AcceptConnection, Shape, MainShape
  <2>2. /\ Distinct(backlog')
        /\ \A c : Occurs(c, backlog') <=> Occurs(c, backlog) /\ c # Head(backlog)
    BY <2>1, <1>2, TailOccurs DEF OnePlace
  <2>3. Occurs(Head(backlog), backlog)
    BY <2>1 DEF Occurs
  <2>4. DOMAIN conn = Clients
    BY DEF Shape, ClientShape
  <2> QED BY <1>1, <1>2, <1>3, <1>4, <2>1, <2>2, <2>3, <2>4
          DEF OnePlace, InBacklog, InPending, Served
<1>6. CASE SubmitPushes
  <2>1. /\ pending \in Seq(Clients) /\ accepted \in Clients /\ accepted' = NoConn
        /\ pending' = Append(pending, accepted) /\ UNCHANGED <<backlog, conn>>
    BY <1>6 DEF SubmitPushes, Accept, Shape, MainShape
  <2>2. ~Occurs(accepted, pending)
    BY <1>2, <2>1 DEF OnePlace, InPending
  <2>3. /\ Distinct(pending')
        /\ \A c : Occurs(c, pending') <=> Occurs(c, pending) \/ c = accepted
    BY <1>2, <2>1, <2>2, AppendOccurs DEF OnePlace
  <2> QED BY <1>1, <1>2, <1>3, <1>4, <2>1, <2>3, ServerAssumption
          DEF OnePlace, InBacklog, InPending, Served
<1>7. CASE Stop
  <2>1. /\ backlog' = <<>> /\ UNCHANGED <<accepted, pending>>
        /\ conn' = [c \in Clients |-> IF conn[c] = "backlog" THEN "closed" ELSE conn[c]]
    BY <1>7 DEF Stop, Close
  <2>2. Distinct(backlog') /\ \A c : ~Occurs(c, backlog')
    BY <2>1 DEF Distinct, Occurs
  <2> QED BY <1>1, <1>2, <1>3, <1>4, <2>1, <2>2 DEF OnePlace, InBacklog, InPending, Served
<1>8. CASE ~(AcceptConnection \/ SubmitPushes \/ Stop)
  <2>1. UNCHANGED <<backlog, accepted, pending, conn>>
    BY <1>8 DEF Alive, MainStep, Listen, SetRunning, CheckRunning, AcceptFails, SubmitLocks,
           SubmitThrows, FinalSnapshot, DestroyServer, Close, Exit, StopReturns, Signal
  <2> QED BY <1>1, <1>2, <1>3, <1>4, <2>1 DEF OnePlace, InBacklog, InPending, Served
<1> QED BY <1>1, <1>5, <1>6, <1>7, <1>8

(* A worker moves a connection from the queue to itself, or gives it up.    *)
LEMMA PlaceWorker ==
  ASSUME Shape, Alive => OnePlace, NEW w \in Workers, WorkerStep(w), Alive'
  PROVE  Alive /\ OnePlace'
<1> USE DEF serverOnly, mainVars, poolVars, clientVars
<1>1. UNCHANGED <<main, client, backlog, accepted>>
  BY DEF WorkerStep, TakeConnection, WorkerLeaves, Receive, ReceiveLong, ReceiveFails,
         SkipEmpty, SayBye, ExecuteThrows, ExecuteSql, Send, SendFails, CloseConnection
<1>2. Alive /\ OnePlace
  BY <1>1 DEF Alive
<1>3. CASE TakeConnection(w)
  <2> DEFINE c == Head(pending)
  <2>1. /\ pending \in Seq(Clients) /\ pending # <<>> /\ c \in Clients
        /\ pending' = Tail(pending) /\ busy' = [busy EXCEPT ![w] = c] /\ conn' = conn
        /\ busy[w] = NoTask
    BY <1>3 DEF TakeConnection, Take, Free, Shape, MainShape
  <2>2. /\ Distinct(pending')
        /\ \A d : Occurs(d, pending') <=> Occurs(d, pending) /\ d # c
    BY <2>1, <1>2, TailOccurs DEF OnePlace
  <2>3. InPending(c)
    BY <2>1 DEF InPending, Occurs
  <2>4. busy \in [Workers -> Clients \union {NoTask}]
    BY DEF Shape, WorkerShape
  <2> HIDE DEF c
  <2>5. \A d \in Clients : Served(d)' <=> Served(d) \/ d = c
    BY <2>1, <2>4, ServerAssumption DEF Served
  <2>6. \A u, v \in Workers : busy'[u] \in Clients /\ busy'[u] = busy'[v] => u = v
    BY <1>2, <2>1, <2>3, <2>4 DEF OnePlace, Served
  <2> QED BY <1>1, <1>2, <2>1, <2>2, <2>3, <2>5, <2>6 DEF OnePlace, InBacklog, InPending
<1>4. CASE CloseConnection(w) \/ ExecuteThrows(w)
  <2> DEFINE c == busy[w]
  <2>1. /\ c \in Clients /\ busy' = [busy EXCEPT ![w] = NoTask] /\ pending' = pending
        /\ conn' = conn \/ conn' = [conn EXCEPT ![c] = "closed"]
    BY <1>4 DEF CloseConnection, ExecuteThrows, At, Finish, Shape, WorkerShape
  <2>2. busy \in [Workers -> Clients \union {NoTask}] /\ DOMAIN conn = Clients
    BY DEF Shape, WorkerShape, ClientShape
  <2>3. \A d \in Clients : Served(d)' <=> Served(d) /\ d # c
    <3>1. \A v \in Workers : busy[v] = c => v = w
      BY <1>2, <2>1 DEF OnePlace
    <3>2. \A v \in Workers : busy'[v] = IF v = w THEN NoTask ELSE busy[v]
      BY <2>1, <2>2
    <3> QED BY <2>1, <3>1, <3>2, ServerAssumption DEF Served
  <2>4. Served(c)
    BY DEF Served
  <2>5. \A u, v \in Workers : busy'[u] \in Clients /\ busy'[u] = busy'[v] => u = v
    BY <1>2, <2>1, <2>2, ServerAssumption DEF OnePlace
  <2> HIDE DEF c
  <2> QED BY <1>1, <1>2, <2>1, <2>2, <2>3, <2>4, <2>5 DEF OnePlace, InBacklog, InPending
<1>5. CASE ~(TakeConnection(w) \/ CloseConnection(w) \/ ExecuteThrows(w))
  <2>1. UNCHANGED <<pending, busy, conn>>
    BY <1>5 DEF WorkerStep, WorkerLeaves, Retire, Receive, ReceiveLong, ReceiveFails,
         SkipEmpty, SayBye, ExecuteSql, Send, SendFails
  <2> QED BY <1>1, <1>2, <2>1 DEF OnePlace, InBacklog, InPending, Served
<1> QED BY <1>2, <1>3, <1>4, <1>5

(* A client adds a connection to the backlog of the kernel.                 *)
LEMMA PlaceClient ==
  ASSUME Shape, Alive => OnePlace, NEW c \in Clients, ClientStep(c), Alive'
  PROVE  Alive /\ OnePlace'
<1> USE DEF ClientStep, LibraryStep, server, mainVars, poolVars
<1>1. UNCHANGED <<main, accepted, pending, busy>>
  BY DEF flexql_open, ExecAnswered, ExecFails, CloseReturns, ClientDies, flexql_close,
         flexql_exec
<1>2. Alive /\ OnePlace
  BY <1>1 DEF Alive
<1>3. DOMAIN conn = Clients /\ client \in [Clients -> ClientLabels]
  BY DEF Shape, ClientShape
<1>4. CASE flexql_open(c) /\ listener = "open"
  <2>1. /\ backlog \in Seq(Clients) /\ backlog' = Append(backlog, c)
        /\ conn' = [conn EXCEPT ![c] = "backlog"] /\ client[c] = "new"
        /\ client' = [client EXCEPT ![c] = "open"]
    BY <1>4 DEF flexql_open, CGoto, Shape, MainShape
  <2>2. conn[c] = "none"
    BY <1>2, <2>1 DEF OnePlace
  <2>3. ~Occurs(c, backlog)
    BY <1>2, <2>2 DEF OnePlace, InBacklog
  <2>4. /\ Distinct(backlog')
        /\ \A d : Occurs(d, backlog') <=> Occurs(d, backlog) \/ d = c
    BY <1>2, <2>1, <2>3, AppendOccurs DEF OnePlace
  <2> QED BY <1>1, <1>2, <1>3, <2>1, <2>2, <2>4 DEF OnePlace, InBacklog, InPending, Served
<1>5. CASE ~(flexql_open(c) /\ listener = "open")
  <2>1. UNCHANGED <<backlog, conn>>
    BY <1>5 DEF flexql_open, ExecAnswered, ExecFails, CloseReturns, ClientDies, flexql_close,
           flexql_exec
  <2>2. \A d \in Clients : client'[d] \in {"new", "failed"} => client[d] \in {"new", "failed"}
    <3>1. CASE flexql_open(c)
      BY <1>3, <1>5, <3>1 DEF flexql_open, CGoto
    <3>2. CASE ExecAnswered(c)
      BY <1>3, <3>2 DEF ExecAnswered, Return, CGoto
    <3>3. CASE ExecFails(c)
      BY <1>3, <3>3 DEF ExecFails, Return, CGoto
    <3>4. CASE CloseReturns(c) \/ ClientDies(c) \/ flexql_close(c)
      BY <1>3, <3>4 DEF CloseReturns, ClientDies, flexql_close, CGoto
    <3>5. ASSUME NEW q \in Queries[c], flexql_exec(c, q)
          PROVE  \A d \in Clients : client'[d] \in {"new", "failed"} => client[d] \in {"new", "failed"}
      BY <1>3, <3>5 DEF flexql_exec, CGoto
    <3> QED BY <3>1, <3>2, <3>3, <3>4, <3>5
  <2> QED BY <1>1, <1>2, <2>1, <2>2 DEF OnePlace, InBacklog, InPending, Served
<1> QED BY <1>2, <1>4, <1>5

-----------------------------------------------------------------------------
(* A step that leaves the connection of c and its worker alone.            *)
SameLink(c) ==
  /\ up'[c] = up[c] /\ down'[c] = down[c]
  /\ client'[c] = client[c] /\ call'[c] = call[c]
  /\ issued'[c] = issued[c] /\ executed'[c] = executed[c] /\ acked'[c] = acked[c]
  /\ Deaf(c) => Deaf(c)'
  /\ conn'[c] = "closed" => conn[c] = "closed" \/ Deaf(c)'
  /\ Reading(c) => Reading(c)'
  /\ \A w \in Workers :
       /\ Handles(w, c)' <=> Handles(w, c)
       /\ Handles(w, c) => wpc'[w] = wpc[w] /\ query'[w] = query[w]

(* Such a step keeps what is known of the connection.                       *)
LEMMA LinkSame == ASSUME NEW c \in Clients, Link(c), SameLink(c) PROVE Link(c)'
<1> USE DEF Link, SameLink
<1>1. OneCall(c)'
  BY DEF OneCall
<1>2. \A w \in Workers :
        /\ (busy[w] = c /\ wpc[w] = "send")' => busy[w] = c /\ wpc[w] = "send" /\ query'[w] = query[w]
        /\ (busy[w] = c /\ wpc[w] = "handle")' => busy[w] = c /\ wpc[w] = "handle" /\ query'[w] = query[w]
  BY DEF Handles
<1>3. OwnCall(c)'
  BY <1>2 DEF OwnCall
<1>4. Counted(c)'
  BY <1>2 DEF Counted
<1> QED BY <1>1, <1>3, <1>4

(* main, the handler and the kernel move connections and end them.         *)
LEMMA LinkMain ==
  ASSUME Inv, MainStep \/ Signal, NEW c \in Clients
  PROVE  Link(c)'
<1> USE DEF mainVars, poolVars, clientVars, workVars, MainRuns
<1>1. UNCHANGED <<busy, wpc, query, up, down, client, call, issued, executed, acked>>
  BY DEF MainStep, Listen, SetRunning, CheckRunning, AcceptConnection, AcceptFails,
         SubmitLocks, SubmitPushes, Accept, SubmitThrows, FinalSnapshot, DestroyServer,
         Close, Exit, Stop, StopReturns, Signal
<1>2. (Reading(c) => Reading(c)') /\ \A w \in Workers : Handles(w, c)' <=> Handles(w, c)
  BY <1>1 DEF Reading, Handles
<1>3. CASE ~Alive'
  BY <1>1, <1>2, <1>3, LinkSame DEF SameLink, Deaf, Inv
<1>4. CASE Alive'
  <2>1. Alive /\ OnePlace
    BY <1>4, PlaceMain DEF Inv
  <2>2. Held(c)' => Held(c)
    <3>1. CASE AcceptConnection
      <4>1. /\ backlog \in Seq(Clients) /\ backlog # <<>> /\ backlog' = Tail(backlog)
            /\ accepted' = Head(backlog) /\ pending' = pending
        BY <3>1 DEF AcceptConnection, Inv, Shape, MainShape
      <4>2. Occurs(c, backlog') => Occurs(c, backlog)
        BY <2>1, <4>1, TailOccurs DEF OnePlace
      <4>3. Occurs(Head(backlog), backlog)
        BY <4>1 DEF Occurs
      <4> QED BY <4>1, <4>2, <4>3 DEF Held, InBacklog, InPending
    <3>2. CASE SubmitPushes
      <4>1. /\ pending \in Seq(Clients) /\ accepted \in Clients /\ accepted' = NoConn
            /\ pending' = Append(pending, accepted) /\ backlog' = backlog
        BY <3>2 DEF SubmitPushes, Accept, Inv, Shape, MainShape
      <4>2. Occurs(c, pending') => Occurs(c, pending) \/ c = accepted
        BY <4>1, AppendOccurs
      <4> QED BY <4>1, <4>2, ServerAssumption DEF Held, InBacklog, InPending
    <3>3. CASE Stop
      <4>1. backlog' = <<>> /\ UNCHANGED <<accepted, pending>>
        BY <3>3 DEF Stop, Close
      <4>2. ~Occurs(c, backlog')
        BY <4>1 DEF Occurs
      <4> QED BY <4>1, <4>2 DEF Held, InBacklog, InPending
    <3>4. CASE ~(AcceptConnection \/ SubmitPushes \/ Stop)
      <4>1. UNCHANGED <<backlog, accepted, pending>>
        BY <1>4, <3>4 DEF Alive, MainStep, Listen, SetRunning, CheckRunning, AcceptFails,
               SubmitLocks, SubmitThrows, FinalSnapshot, DestroyServer, Close, Exit,
               StopReturns, Signal
      <4> QED BY <4>1 DEF Held, InBacklog, InPending
    <3> QED BY <3>1, <3>2, <3>3, <3>4
  <2>3. Deaf(c) => Deaf(c)'
    BY <1>1, <1>4, <2>1, <2>2 DEF Deaf
  <2>4. conn'[c] = "closed" => conn[c] = "closed" \/ Deaf(c)'
    <3>1. CASE Stop
      <4>1. /\ backlog' = <<>> /\ UNCHANGED <<accepted, pending>>
            /\ conn'[c] = IF conn[c] = "backlog" THEN "closed" ELSE conn[c]
        BY <3>1 DEF Stop, Close
      <4>2. ~Occurs(c, backlog')
        BY <4>1 DEF Occurs
      <4>3. conn[c] = "backlog" => ~Held(c)' /\ ~Served(c)
        BY <2>1, <4>1, <4>2 DEF OnePlace, Held, InBacklog, InPending
      <4> QED BY <1>1, <4>1, <4>3 DEF Deaf, Served
    <3>2. CASE AcceptConnection
      <4>1. conn' = [conn EXCEPT ![Head(backlog)] = "accepted"] /\ DOMAIN conn = Clients
        BY <3>2 DEF AcceptConnection, Inv, Shape, ClientShape
      <4> QED BY <4>1
    <3>3. CASE ~(Stop \/ AcceptConnection)
      <4>1. conn' = conn
        BY <1>4, <3>3 DEF Alive, MainStep, Listen, SetRunning, CheckRunning, AcceptFails,
               SubmitLocks, SubmitPushes, SubmitThrows, FinalSnapshot, DestroyServer, Exit,
               StopReturns, Signal
      <4> QED BY <4>1
    <3> QED BY <3>1, <3>2, <3>3
  <2> QED BY <1>1, <1>2, <2>3, <2>4, LinkSame DEF SameLink, Inv
<1> QED BY <1>3, <1>4

(* A message alone on a connection is read off it.                         *)
LEMMA Single == \A x : Head(<<x>>) = x /\ Tail(<<x>>) = <<>> /\ <<x>>[1] = x
  OBVIOUS

(* The connections that other workers serve, or none.                      *)
LEMMA LinkOthers ==
  ASSUME Inv, NEW w \in Workers, WorkerStep(w), ~TakeConnection(w), NEW c \in Clients,
         busy[w] # c
  PROVE  Link(c)'
<1> USE DEF serverOnly, mainVars, poolVars, clientVars, workVars
<1>1. UNCHANGED <<main, client, backlog, accepted, call, issued, acked, pending>>
  BY DEF WorkerStep, WorkerLeaves, Receive, ReceiveLong, ReceiveFails, Retire, Finish,
         SkipEmpty, SayBye, ExecuteThrows, ExecuteSql, Send, SendFails, CloseConnection
<1>2. DOMAIN wpc = Workers /\ DOMAIN query = Workers /\ DOMAIN busy = Workers
  BY DEF Inv, Shape, WorkerShape
<1>3. /\ busy' = busy \/ busy' = [busy EXCEPT ![w] = NoTask]
      /\ wpc' = wpc \/ wpc' = [wpc EXCEPT ![w] = wpc'[w]]
      /\ query' = query \/ query' = [query EXCEPT ![w] = query'[w]]
  BY <1>2 DEF WorkerStep, WorkerLeaves, Receive, ReceiveLong, ReceiveFails, Retire, Finish, WGoto,
         Forget, SkipEmpty, SayBye, ExecuteThrows, ExecuteSql, Send, SendFails, CloseConnection
<1>4. \A v \in Workers : /\ busy'[v] = c <=> busy[v] = c
                         /\ busy[v] = c => wpc'[v] = wpc[v] /\ query'[v] = query[v]
  BY <1>2, <1>3, ServerAssumption
<1>5. DOMAIN up = Clients /\ DOMAIN down = Clients /\ DOMAIN executed = Clients /\ DOMAIN conn = Clients
  BY DEF Inv, Shape, ClientShape
<1>6. up'[c] = up[c] /\ down'[c] = down[c] /\ executed'[c] = executed[c] /\ conn'[c] = conn[c]
  BY <1>5 DEF WorkerStep, WorkerLeaves, Receive, ReceiveLong, ReceiveFails, Deliver,
         SkipEmpty, SayBye, ExecuteThrows, ExecuteSql, Send, SendFails, CloseConnection
<1>7. (Deaf(c)' <=> Deaf(c)) /\ (Reading(c)' <=> Reading(c))
  BY <1>1, <1>4 DEF Deaf, Reading, Held, InBacklog, InPending, Alive
<1>8. \A v \in Workers : /\ Handles(v, c)' <=> Handles(v, c)
                         /\ Handles(v, c) => wpc'[v] = wpc[v] /\ query'[v] = query[v]
  BY <1>4 DEF Handles
<1> QED BY <1>1, <1>6, <1>7, <1>8, LinkSame DEF SameLink, Inv

(* The connection a worker takes from the queue is ready to be read.        *)
LEMMA LinkTake ==
  ASSUME Inv, NEW w \in Workers, TakeConnection(w), NEW c \in Clients
  PROVE  Link(c)'
<1> USE DEF serverOnly, mainVars, poolVars, clientVars, workVars
<1> DEFINE d == Head(pending)
<1>1. /\ pending \in Seq(Clients) /\ pending # <<>> /\ d \in Clients
      /\ pending' = Tail(pending) /\ busy' = [busy EXCEPT ![w] = d]
      /\ busy[w] = NoTask /\ wpc[w] = "recv" /\ DOMAIN busy = Workers
  BY DEF TakeConnection, Take, Free, Inv, Shape, MainShape, WorkerShape
<1>2. UNCHANGED <<main, client, backlog, accepted, call, issued, acked, wpc, query, up, down,
                  executed, conn>>
  BY DEF TakeConnection
<1>3. Alive /\ OnePlace
  BY DEF TakeConnection, Inv
<1>4. InPending(d)
  BY <1>1 DEF InPending, Occurs
<1>5. Occurs(c, pending') <=> Occurs(c, pending) /\ c # d
  BY <1>1, <1>3, TailOccurs DEF OnePlace
<1> HIDE DEF d
<1>6. ~Served(d)
  BY <1>1, <1>3, <1>4 DEF OnePlace
<1>7. Deaf(c) => c # d /\ Deaf(c)'
  BY <1>1, <1>2, <1>3, <1>4, <1>5 DEF Deaf, Held, InPending, InBacklog, Alive
<1>8. Reading(c) => Reading(c)'
  BY <1>1, <1>2 DEF Reading
<1>9. \A v \in Workers : Handles(v, c)' <=> Handles(v, c)
  BY <1>1, <1>2, ServerAssumption DEF Handles
<1> QED BY <1>2, <1>7, <1>8, <1>9, LinkSame DEF SameLink, Inv

(* The connection the worker serves.                                       *)
LEMMA LinkServed ==
  ASSUME Inv, NEW w \in Workers, WorkerStep(w), ~TakeConnection(w), NEW c \in Clients,
         busy[w] = c
  PROVE  Link(c)'
<1> USE DEF serverOnly, mainVars, poolVars, clientVars, workVars
<1>1. UNCHANGED <<main, client, backlog, accepted, call, issued, acked, pending>>
  BY DEF WorkerStep, WorkerLeaves, Receive, ReceiveLong, ReceiveFails, Retire, Finish,
         SkipEmpty, SayBye, ExecuteThrows, ExecuteSql, Send, SendFails, CloseConnection
<1>2. ~WorkerLeaves(w) /\ Alive /\ OnePlace
  BY ServerAssumption DEF Inv, WorkerStep, WorkerLeaves, Retire, Free, At, Receive, ReceiveLong,
         ReceiveFails, SkipEmpty, SayBye, ExecuteThrows, ExecuteSql, Send, SendFails,
         CloseConnection
<1>3. Served(c)
  BY DEF Served
<1>4. ~Held(c) /\ \A v \in Workers : busy[v] = c => v = w
  BY <1>2, <1>3 DEF OnePlace, Held
<1>5. /\ Deaf(c) <=> wpc[w] \in {"sending", "close"}
      /\ Reading(c) <=> wpc[w] = "recv"
      /\ \A v \in Workers : Handles(v, c) <=> v = w /\ wpc[w] \in {"handle", "send"}
  BY <1>2, <1>4 DEF Deaf, Reading, Handles
<1>6. ~Held(c)' /\ Alive'
  BY <1>1, <1>2, <1>4 DEF Held, InBacklog, InPending, Alive
<1>7. ASSUME busy' = busy
      PROVE  /\ Deaf(c)' <=> wpc'[w] \in {"sending", "close"}
             /\ Reading(c)' <=> wpc'[w] = "recv"
             /\ \A v \in Workers : Handles(v, c)' <=> v = w /\ wpc'[w] \in {"handle", "send"}
  BY <1>4, <1>6, <1>7 DEF Deaf, Reading, Handles
<1>8. DOMAIN wpc = Workers /\ DOMAIN query = Workers /\ busy \in [Workers -> Clients \union {NoTask}]
  BY DEF Inv, Shape, WorkerShape
<1>9. /\ DOMAIN up = Clients /\ DOMAIN down = Clients /\ DOMAIN conn = Clients
      /\ issued \in [Clients -> Nat] /\ executed \in [Clients -> Nat] /\ acked \in [Clients -> Nat]
  BY DEF Inv, Shape, ClientShape
<1>10. OneCall(c) /\ OwnCall(c) /\ Counted(c)
  BY DEF Inv, Link
<1>11. CASE Receive(w)
  <2>1. /\ wpc[w] = "recv" /\ up[c] # <<>> /\ wpc'[w] = "handle" /\ query'[w] = Head(up[c])
        /\ up'[c] = Tail(up[c]) /\ UNCHANGED <<busy, conn, down, executed>>
    BY <1>8, <1>9, <1>11 DEF Receive, At, WGoto
  <2>2. up[c] = <<up[c][1]>> /\ down[c] = <<>>
    BY <1>5, <1>10, <2>1 DEF OneCall
  <2>3. up'[c] = <<>> /\ query'[w] = up[c][1]
    <3>1. Head(up[c]) = up[c][1] /\ Tail(up[c]) = <<>>
      BY <2>2, Single
    <3> QED BY <2>1, <3>1
  <2>4. OneCall(c)'
    BY <1>5, <1>7, <1>10, <2>1, <2>2, <2>3 DEF OneCall
  <2>5. client[c] \notin {"open", "new", "failed"} /\ (client[c] = "exec" => query'[w] = call[c])
    <3>1. client[c] = "exec" => up[c] = <<call[c]>>
      BY <1>5, <1>10, <2>1 DEF OwnCall
    <3>2. client[c] = "exec" => up[c][1] = call[c]
      BY <3>1, Single
    <3>3. client[c] \notin {"open", "new", "failed"}
      BY <1>5, <1>10, <2>1 DEF OwnCall
    <3> QED BY <2>3, <3>2, <3>3
  <2>6. client[c] = "exec" => call[c] \in Queries[c]
    BY <1>10 DEF OwnCall
  <2>7. OwnCall(c)'
    BY <1>1, <1>4, <1>7, <2>1, <2>2, <2>3, <2>5, <2>6 DEF OwnCall
  <2>8. query'[w].mutates => executed[c] < issued[c]
    BY <1>5, <1>10, <2>1, <2>3 DEF Counted
  <2>9. acked[c] <= executed[c] /\ executed[c] <= issued[c]
    BY <1>10 DEF Counted
  <2>10. Counted(c)'
    BY <1>1, <1>4, <1>7, <2>1, <2>2, <2>3, <2>8, <2>9 DEF Counted
  <2> QED BY <2>4, <2>7, <2>10 DEF Link
<1>12. CASE ReceiveLong(w) \/ ReceiveFails(w) \/ SendFails(w)
  <2>1. /\ wpc'[w] = "close" /\ UNCHANGED <<busy, conn, down, executed>>
    BY <1>8, <1>12 DEF ReceiveLong, ReceiveFails, SendFails, At, WGoto
  <2>2. up'[c] = up[c] \/ wpc[w] = "recv"
    BY <1>12 DEF ReceiveLong, ReceiveFails, SendFails, At
  <2>3. OneCall(c)'
    BY <1>5, <1>7, <1>10, <2>1 DEF OneCall
  <2>4. client[c] \notin {"new", "failed"}
    BY <1>2, <1>3 DEF OnePlace
  <2>5. OwnCall(c)'
    BY <1>1, <1>4, <1>5, <1>7, <1>10, <2>1, <2>4 DEF OwnCall
  <2>6. Counted(c)'
    BY <1>1, <1>4, <1>5, <1>7, <1>10, <2>1 DEF Counted
  <2> QED BY <2>3, <2>5, <2>6 DEF Link
<1>13. CASE SkipEmpty(w)
  <2>1. /\ wpc[w] = "handle" /\ wpc'[w] = "recv" /\ UNCHANGED <<busy, conn, down, up, executed, query>>
    BY <1>8, <1>13 DEF SkipEmpty, At, WGoto
  <2>2. up[c] = <<>> /\ down[c] = <<>> /\ conn[c] # "closed"
    BY <1>5, <1>10, <2>1 DEF OneCall
  <2>3. OneCall(c)'
    BY <1>7, <2>1, <2>2 DEF OneCall
  <2>5. OwnCall(c)'
    BY <1>1, <1>4, <1>5, <1>7, <1>10, <2>1, <2>2 DEF OwnCall
  <2>6. Counted(c)'
    BY <1>1, <1>4, <1>5, <1>7, <1>10, <2>1, <2>2 DEF Counted
  <2> QED BY <2>3, <2>5, <2>6 DEF Link
<1>14. CASE SayBye(w)
  <2> DEFINE f == Frame(format_result(Message(<<"BYE">>)), FALSE)
  <2>1. /\ wpc[w] = "handle" /\ wpc'[w] = "close" /\ UNCHANGED <<busy, conn, up, executed>>
        /\ query[w].kind = "exit" /\ down'[c] = Append(down[c], f)
    BY <1>8, <1>9, <1>14 DEF SayBye, At, WGoto, Deliver
  <2>2. up[c] = <<>> /\ down[c] = <<>> /\ client[c] # "open"
    BY <1>5, <1>10, <2>1 DEF OneCall, OwnCall
  <2>3. down'[c] = <<f>> /\ down'[c][1] = f /\ ~f.huge
    BY <2>1, <2>2 DEF Frame
  <2>4. client[c] = "exec" => query[w] = call[c] /\ call[c] \in Queries[c]
    BY <1>5, <1>10, <2>1 DEF OwnCall
  <2>5. client[c] = "exec" => Answers(f, call[c]) /\ ~call[c].mutates
    BY <2>1, <2>4, ServerAssumption DEF Answers
  <2>6. client[c] \notin {"new", "failed"}
    BY <1>2, <1>3 DEF OnePlace
  <2> HIDE DEF f
  <2>7. OneCall(c)'
    BY <1>7, <2>1, <2>3 DEF OneCall
  <2>8. OwnCall(c)'
    BY <1>1, <1>4, <1>7, <1>10, <2>1, <2>2, <2>3, <2>5, <2>6 DEF OwnCall, Answers
  <2>9. Counted(c)'
    BY <1>1, <1>4, <1>7, <1>10, <2>1, <2>5 DEF Counted
  <2> QED BY <2>7, <2>8, <2>9 DEF Link
<1>15. CASE ExecuteSql(w)
  <2>1. /\ wpc[w] = "handle" /\ wpc'[w] = "send" /\ UNCHANGED <<busy, conn, up, down, query>>
        /\ query[w].kind = "sql"
        /\ executed'[c] = IF query[w].mutates THEN executed[c] + 1 ELSE executed[c]
    BY <1>8, <1>9, <1>15 DEF ExecuteSql, At, WGoto
  <2>2. up[c] = <<>> /\ down[c] = <<>> /\ conn[c] # "closed"
    BY <1>5, <1>10, <2>1 DEF OneCall
  <2>3. client[c] = "exec" => query[w] = call[c]
    BY <1>5, <1>10, <2>1 DEF OwnCall
  <2>4. OneCall(c)'
    BY <1>7, <2>1, <2>2 DEF OneCall
  <2>5. OwnCall(c)'
    BY <1>1, <1>4, <1>5, <1>7, <1>10, <2>1, <2>2 DEF OwnCall
  <2>6. /\ acked[c] <= executed[c] /\ executed[c] <= issued[c]
        /\ query[w].mutates => executed[c] < issued[c]
    BY <1>10, <2>1 DEF Counted
  <2>7. /\ acked[c] <= executed'[c] /\ executed'[c] <= issued[c]
        /\ query[w].mutates => acked[c] < executed'[c]
    <3>1. acked[c] \in Nat /\ executed[c] \in Nat /\ issued[c] \in Nat
      BY <1>9
    <3>2. CASE query[w].mutates
      <4>1. executed'[c] = executed[c] + 1
        BY <2>1, <3>2
      <4>2. executed[c] < issued[c] /\ acked[c] <= executed[c]
        BY <2>6, <3>2
      <4>3. acked[c] < executed'[c] /\ acked[c] <= executed'[c] /\ executed'[c] <= issued[c]
        BY <3>1, <4>1, <4>2
      <4> QED BY <4>3
    <3>3. CASE ~query[w].mutates
      <4>1. executed'[c] = executed[c]
        BY <2>1, <3>3
      <4> QED BY <2>6, <3>3, <4>1
    <3> QED BY <3>2, <3>3
  <2>8. Counted(c)'
    BY <1>1, <1>4, <2>1, <2>2, <2>3, <2>7 DEF Counted
  <2> QED BY <2>4, <2>5, <2>8 DEF Link
<1>16. CASE Send(w)
  <2> DEFINE f == Frame(format_result(query[w].result), query[w].huge)
  <2>1. /\ wpc[w] = "send" /\ UNCHANGED <<busy, conn, up, executed>>
        /\ wpc'[w] = IF query[w].huge THEN "sending" ELSE "recv"
        /\ down'[c] = Append(down[c], f)
    BY <1>8, <1>9, <1>16 DEF Send, At, WGoto, Deliver
  <2>2. up[c] = <<>> /\ down[c] = <<>> /\ client[c] # "open" /\ conn[c] # "closed"
    BY <1>5, <1>10, <2>1 DEF OneCall, OwnCall
  <2>3. down'[c] = <<f>> /\ down'[c][1] = f /\ f.huge = query[w].huge
    <3>1. f.huge = query[w].huge
      BY DEF Frame
    <3> HIDE DEF f
    <3>2. down'[c] = Append(<<>>, f)
      BY <2>1, <2>2
    <3>3. Append(<<>>, f) = <<f>> /\ <<f>>[1] = f
      OBVIOUS
    <3> QED BY <3>1, <3>2, <3>3
  <2>4. query[w].kind = "sql" /\ (client[c] = "exec" => query[w] = call[c])
    BY <1>5, <1>10, <2>1 DEF OwnCall
  <2>5. client[c] = "exec" => Answers(f, call[c])
    BY <2>4 DEF Answers
  <2>6. client[c] \notin {"new", "failed"}
    BY <1>2, <1>3 DEF OnePlace
  <2> HIDE DEF f
  <2>7. OneCall(c)'
    BY <1>7, <2>1, <2>2, <2>3 DEF OneCall
  <2>8. OwnCall(c)'
    BY <1>1, <1>4, <1>7, <1>10, <2>1, <2>2, <2>3, <2>5, <2>6 DEF OwnCall, Answers
  <2>9. Counted(c)'
    BY <1>1, <1>4, <1>7, <1>10, <2>1, <2>2 DEF Counted
  <2> QED BY <2>7, <2>8, <2>9 DEF Link
<1>17. CASE ExecuteThrows(w) \/ CloseConnection(w)
  <2>1. busy' = [busy EXCEPT ![w] = NoTask] /\ UNCHANGED <<up, down, executed>>
    BY <1>17 DEF ExecuteThrows, CloseConnection, Finish
  <2>2. \A v \in Workers : busy'[v] # c
    BY <1>4, <1>8, <2>1, ServerAssumption
  <2>3. Deaf(c)' /\ \A v \in Workers : ~Handles(v, c)'
    BY <1>6, <2>2 DEF Deaf, Handles
  <2>4. client[c] \notin {"new", "failed"}
    BY <1>2, <1>3 DEF OnePlace
  <2>5. OneCall(c)'
    BY <1>10, <2>1, <2>3 DEF OneCall
  <2>6. OwnCall(c)'
    BY <1>1, <1>10, <2>1, <2>2, <2>3, <2>4 DEF OwnCall
  <2>7. Counted(c)'
    BY <1>1, <1>10, <2>1, <2>2, <2>3 DEF Counted
  <2> QED BY <2>5, <2>6, <2>7 DEF Link
<1> QED BY <1>2, <1>11, <1>12, <1>13, <1>14, <1>15, <1>16, <1>17 DEF WorkerStep

(* The calls of the library: the other connections are left alone, and on  *)
(* its own a client sends only when the connection is quiet or deaf.       *)
LEMMA LinkOtherClients ==
  ASSUME Inv, NEW d \in Clients, ClientStep(d), NEW c \in Clients, c # d
  PROVE  Link(c)'
<1> USE DEF server, mainVars, poolVars, clientVars, workVars
<1>1. UNCHANGED <<main, accepted, pending, busy, wpc, query, executed>>
  BY DEF ClientStep, LibraryStep, ExecAnswered, ExecFails, CloseReturns, flexql_open,
         flexql_close, ClientDies, flexql_exec
<1>2. /\ DOMAIN up = Clients /\ DOMAIN down = Clients /\ DOMAIN conn = Clients
      /\ DOMAIN client = Clients /\ DOMAIN call = Clients /\ DOMAIN issued = Clients
      /\ DOMAIN acked = Clients /\ backlog \in Seq(Clients)
  BY DEF Inv, Shape, ClientShape, MainShape
<1>3. /\ up'[c] = up[c] /\ down'[c] = down[c] /\ client'[c] = client[c] /\ call'[c] = call[c]
      /\ issued'[c] = issued[c] /\ acked'[c] = acked[c] /\ conn'[c] = conn[c]
  BY <1>2 DEF ClientStep, LibraryStep, ExecAnswered, ExecFails, CloseReturns, flexql_open,
         flexql_close, ClientDies, flexql_exec, Sent, Return, CGoto
<1>4. backlog' = backlog \/ backlog' = Append(backlog, d)
  BY DEF ClientStep, LibraryStep, ExecAnswered, ExecFails, CloseReturns, flexql_open,
         flexql_close, ClientDies, flexql_exec
<1>5. Occurs(c, backlog') <=> Occurs(c, backlog)
  <2>1. CASE backlog' = backlog
    BY <2>1 DEF Occurs
  <2>2. CASE backlog' = Append(backlog, d)
    <3>1. Occurs(c, Append(backlog, d)) <=> Occurs(c, backlog) \/ c = d
      BY <1>2, AppendOccurs
    <3> QED BY <2>2, <3>1
  <2> QED BY <1>4, <2>1, <2>2
<1>6. (Deaf(c)' <=> Deaf(c)) /\ (Reading(c)' <=> Reading(c))
  BY <1>1, <1>5 DEF Deaf, Reading, Held, InBacklog, InPending, Alive
<1>7. \A v \in Workers : /\ Handles(v, c)' <=> Handles(v, c)
                         /\ wpc'[v] = wpc[v] /\ query'[v] = query[v]
  BY <1>1 DEF Handles
<1> QED BY <1>1, <1>3, <1>6, <1>7, LinkSame DEF SameLink, Inv

(* The connection of the client that moves.                                 *)
LEMMA LinkClient ==
  ASSUME Inv, NEW c \in Clients, ClientStep(c)
  PROVE  Link(c)'
<1> USE DEF server, mainVars, poolVars, clientVars, workVars
<1>1. UNCHANGED <<main, accepted, pending, busy, wpc, query, executed>>
  BY DEF ClientStep, LibraryStep, ExecAnswered, ExecFails, CloseReturns, flexql_open,
         flexql_close, ClientDies, flexql_exec
<1>2. /\ DOMAIN up = Clients /\ DOMAIN down = Clients /\ DOMAIN conn = Clients
      /\ DOMAIN client = Clients /\ DOMAIN call = Clients
      /\ issued \in [Clients -> Nat] /\ executed \in [Clients -> Nat] /\ acked \in [Clients -> Nat]
  BY DEF Inv, Shape, ClientShape
<1>3. OneCall(c) /\ OwnCall(c) /\ Counted(c)
  BY DEF Inv, Link
<1>4. /\ Reading(c)' <=> Reading(c)
      /\ \A v \in Workers : Handles(v, c)' <=> Handles(v, c)
  BY <1>1 DEF Reading, Handles
<1>5. ASSUME backlog' = backlog PROVE Deaf(c)' <=> Deaf(c)
  BY <1>1, <1>5 DEF Deaf, Held, InBacklog, InPending, Alive
<1>6. \A w \in Workers : Handles(w, c) => ~Deaf(c) /\ ~Reading(c)
  BY ServerAssumption DEF Handles, Deaf, Reading, Inv, Lifecycle, Drained, Alive
<1>7. \A w \in Workers : busy[w] = c /\ wpc[w] \in {"handle", "send"} => Handles(w, c)
  BY DEF Handles
<1>8. CASE flexql_open(c) /\ listener # "open"
  <2>1. /\ client'[c] = "failed" /\ client[c] = "new"
        /\ UNCHANGED <<backlog, conn, up, down, call, issued, acked>>
    BY <1>2, <1>8 DEF flexql_open, CGoto
  <2>2. OneCall(c)'
    BY <1>1, <1>3, <1>4, <1>5, <2>1 DEF OneCall
  <2>3. OwnCall(c)'
    BY <1>1, <1>3, <1>4, <1>5, <2>1 DEF OwnCall
  <2>4. Counted(c)'
    BY <1>1, <1>3, <1>4, <1>5, <2>1 DEF Counted
  <2> QED BY <2>2, <2>3, <2>4 DEF Link
<1>9. CASE flexql_open(c) /\ listener = "open"
  <2>1. /\ client'[c] = "open" /\ client[c] = "new" /\ conn'[c] = "backlog" /\ Alive
        /\ UNCHANGED <<up, down, call, issued, acked>>
    BY <1>2, <1>9 DEF flexql_open, CGoto
  <2>2. ~Served(c)
    BY <2>1 DEF Inv, OnePlace
  <2>3. Reading(c)' /\ \A w \in Workers : busy[w] # c
    BY <1>1, <2>2 DEF Served, Reading
  <2>4. up[c] = <<>> /\ down[c] = <<>>
    BY <1>3, <2>1 DEF OwnCall
  <2>5. OneCall(c)'
    BY <2>1, <2>3, <2>4 DEF OneCall
  <2>6. OwnCall(c)'
    BY <1>1, <2>1, <2>3, <2>4 DEF OwnCall
  <2>7. Counted(c)'
    BY <1>1, <1>3, <2>1, <2>3, <2>4 DEF Counted
  <2> QED BY <2>5, <2>6, <2>7 DEF Link
<1>10. ASSUME NEW q, client[c] = "open", client'[c] \in {"exec", "closing"},
              backlog' = backlog, conn' = conn, down' = down, acked' = acked,
              Sent(c, q), issued' = IF q.mutates THEN [issued EXCEPT ![c] = @ + 1] ELSE issued,
              client'[c] = "exec" => q \in Queries[c] /\ call'[c] = q
       PROVE  Link(c)'
  <2>1. ~Deaf(c) => up[c] = <<>> /\ Reading(c) /\ down[c] = <<>>
    BY <1>3, <1>10 DEF OwnCall
  <2>2. ~Deaf(c) => up'[c] = <<q>>
    <3>1. ~Deaf(c) => conn[c] # "closed"
      BY <1>3 DEF OneCall
    <3>2. ~Deaf(c) => up'[c] = Append(<<>>, q)
      BY <1>2, <1>10, <2>1, <3>1 DEF Sent
    <3> QED BY <3>2
  <2>3. ~Deaf(c) => up'[c] # <<>> /\ up'[c][1] = q /\ up'[c] = <<up'[c][1]>>
    BY <2>2
  <2>4. \A w \in Workers : ~Handles(w, c)
    BY <1>6, <2>1
  <2>5. OneCall(c)'
    BY <1>3, <1>4, <1>5, <1>10, <2>1, <2>3 DEF OneCall
  <2>6. OwnCall(c)'
    <3>1. down[c] # <<>> => down[c][1].huge /\ Deaf(c)
      BY <1>3, <1>10 DEF OwnCall
    <3> QED BY <1>1, <1>4, <1>5, <1>7, <1>10, <2>2, <2>4, <3>1 DEF OwnCall
  <2>7. /\ acked[c] <= executed[c] /\ executed[c] <= issued[c]
        /\ acked[c] \in Nat /\ executed[c] \in Nat /\ issued[c] \in Nat
    BY <1>2, <1>3 DEF Counted
  <2>8. executed[c] <= issued'[c] /\ (q.mutates => executed[c] < issued'[c])
    <3>1. CASE q.mutates
      <4>1. issued'[c] = issued[c] + 1
        BY <1>2, <1>10, <3>1
      <4>2. executed[c] <= issued'[c] /\ executed[c] < issued'[c]
        BY <2>7, <4>1
      <4> QED BY <4>2
    <3>2. CASE ~q.mutates
      <4>1. issued' = issued
        BY <1>10, <3>2
      <4> QED BY <2>7, <3>2, <4>1
    <3> QED BY <3>1, <3>2
  <2>9. down[c] # <<>> => down[c][1].huge
    BY <1>3, <1>10 DEF OwnCall
  <2>10. Counted(c)'
    BY <1>1, <1>5, <1>7, <1>10, <2>3, <2>4, <2>7, <2>8, <2>9 DEF Counted
  <2> QED BY <2>5, <2>6, <2>10 DEF Link
<1>11. ASSUME NEW q \in Queries[c], flexql_exec(c, q) PROVE Link(c)'
  <2>1. CASE client' = client
    <3>1. /\ client[c] = "open" /\ conn[c] = "closed"
          /\ UNCHANGED <<backlog, conn, up, down, call, acked>>
      BY <1>2, <1>11, <2>1 DEF flexql_exec, CGoto
    <3>2. Deaf(c)
      BY <1>3, <3>1 DEF OneCall
    <3>3. OneCall(c)'
      BY <1>1, <1>3, <1>4, <1>5, <3>1 DEF OneCall
    <3>4. OwnCall(c)'
      BY <1>1, <1>3, <1>4, <1>5, <2>1, <3>1 DEF OwnCall
    <3>5. issued'[c] = issued[c] \/ issued'[c] = issued[c] + 1
      BY <1>2, <1>11 DEF flexql_exec
    <3>6. /\ acked[c] <= executed[c] /\ executed[c] <= issued[c]
          /\ executed[c] \in Nat /\ issued[c] \in Nat
      BY <1>2, <1>3 DEF Counted
    <3>7. executed[c] <= issued'[c]
      BY <3>5, <3>6
    <3>8. Counted(c)'
      BY <1>1, <1>5, <1>6, <1>7, <2>1, <3>1, <3>2, <3>6, <3>7 DEF Counted
    <3> QED BY <3>3, <3>4, <3>8 DEF Link
  <2>2. CASE client' # client
    BY <1>2, <1>10, <1>11, <2>2 DEF flexql_exec, CGoto
  <2> QED BY <2>1, <2>2
<1>12. CASE flexql_close(c)
  <2>1. ~EXIT.mutates
    BY DEF EXIT, NoQuery
  <2> QED BY <1>2, <1>10, <1>12, <2>1 DEF flexql_close, CGoto
<1>13. CASE ExecAnswered(c)
  <2> DEFINE f == down[c][1]
  <2>1. /\ client[c] = "exec" /\ client'[c] = "open" /\ down[c] # <<>>
        /\ UNCHANGED <<backlog, conn, up, issued>>
    BY <1>2, <1>13 DEF ExecAnswered, Return, CGoto
  <2>2. down[c] = <<f>> /\ Head(down[c]) = f
    BY <1>3, <2>1, Single DEF OneCall
  <2>3. CASE f.huge
    <3>1. Deaf(c) /\ down' = down /\ acked' = acked
      BY <1>3, <1>13, <2>1, <2>2, <2>3 DEF OwnCall, ExecAnswered
    <3>2. OneCall(c)'
      BY <1>1, <1>3, <1>4, <1>5, <2>1, <3>1 DEF OneCall
    <3>3. OwnCall(c)'
      BY <1>1, <1>3, <1>5, <1>6, <1>7, <2>1, <2>3, <3>1 DEF OwnCall
    <3>4. Counted(c)'
      BY <1>1, <1>3, <1>5, <2>1, <3>1 DEF Counted
    <3> QED BY <3>2, <3>3, <3>4 DEF Link
  <2>4. CASE ~f.huge
    <3>1. down'[c] = <<>>
      BY <1>2, <1>13, <2>2, <2>4, Single DEF ExecAnswered
    <3>2. ~Deaf(c) => up[c] = <<>> /\ Reading(c)
      BY <1>3, <2>1 DEF OneCall
    <3>3. OneCall(c)'
      BY <1>1, <1>3, <1>4, <1>5, <2>1, <3>1, <3>2 DEF OneCall
    <3>4. OwnCall(c)'
      BY <1>1, <1>3, <1>4, <1>5, <1>6, <1>7, <2>1, <3>1, <3>2 DEF OwnCall
    <3>5. /\ acked'[c] \in {acked[c], acked[c] + 1}
          /\ acked'[c] # acked[c] => call[c].mutates
      BY <1>2, <1>13 DEF ExecAnswered
    <3>6. acked'[c] <= executed[c]
      <4>1. /\ acked[c] <= executed[c] /\ executed[c] \in Nat /\ acked[c] \in Nat
            /\ call[c].mutates => acked[c] < executed[c]
        BY <1>2, <1>3, <2>1, <2>4 DEF Counted
      <4> QED BY <3>5, <4>1
    <3>7. Counted(c)'
      BY <1>1, <1>3, <1>5, <2>1, <3>1, <3>2, <3>6 DEF Counted
    <3> QED BY <3>3, <3>4, <3>7 DEF Link
  <2> QED BY <2>3, <2>4
<1>14. CASE ExecFails(c) \/ CloseReturns(c) \/ ClientDies(c)
  <2>1. /\ client'[c] \in {"open", "done", "dead"} /\ UNCHANGED <<backlog, conn, up, down, issued, acked>>
        /\ client'[c] = "open" => conn[c] = "closed" /\ down[c] = <<>>
        /\ client[c] \in {"open", "exec", "closing"}
    BY <1>2, <1>14 DEF ExecFails, CloseReturns, ClientDies, Return, CGoto
  <2>2. client'[c] = "open" => Deaf(c)
    BY <1>3, <2>1 DEF OneCall
  <2>3. OneCall(c)'
    BY <1>1, <1>3, <1>4, <1>5, <2>1 DEF OneCall
  <2>4. OwnCall(c)'
    BY <1>1, <1>3, <1>5, <2>1, <2>2 DEF OwnCall
  <2>5. Counted(c)'
    BY <1>1, <1>3, <1>5, <2>1 DEF Counted
  <2> QED BY <2>3, <2>4, <2>5 DEF Link
<1> QED BY <1>8, <1>9, <1>11, <1>12, <1>13, <1>14 DEF ClientStep, LibraryStep

-----------------------------------------------------------------------------
(* One step of main, a worker, a client or a signal.                       *)
LEMMA InvStep == Inv /\ [Next]_vars => Inv'
<1> SUFFICES ASSUME Inv, [Next]_vars PROVE Inv'
  OBVIOUS
<1>1. CASE MainStep \/ Signal
  <2>1. Shape'
    BY <1>1, ShapeMain DEF Inv
  <2>2. Lifecycle'
    BY <1>1, LifecycleMain DEF Inv
  <2>3. Alive' => OnePlace'
    BY <1>1, PlaceMain DEF Inv
  <2>4. \A c \in Clients : Link(c)'
    BY <1>1, LinkMain
  <2> QED BY <2>1, <2>2, <2>3, <2>4 DEF Inv
<1>2. ASSUME NEW w \in Workers, WorkerStep(w) PROVE Inv'
  <2>1. Shape'
    BY <1>2, ShapeWorker DEF Inv
  <2>2. Lifecycle'
    BY <1>2, LifecycleWorker DEF Inv
  <2>3. Alive' => OnePlace'
    BY <1>2, PlaceWorker DEF Inv
  <2>4. ASSUME NEW c \in Clients PROVE Link(c)'
    BY <1>2, LinkTake, LinkOthers, LinkServed
  <2> QED BY <2>1, <2>2, <2>3, <2>4 DEF Inv
<1>3. ASSUME NEW d \in Clients, ClientStep(d) PROVE Inv'
  <2>1. Shape'
    BY <1>3, ShapeClient DEF Inv
  <2>2. Lifecycle'
    BY <1>3, LifecycleClient DEF Inv
  <2>3. Alive' => OnePlace'
    BY <1>3, PlaceClient DEF Inv
  <2>4. ASSUME NEW c \in Clients PROVE Link(c)'
    BY <1>3, LinkClient, LinkOtherClients
  <2> QED BY <2>1, <2>2, <2>3, <2>4 DEF Inv
<1>4. CASE UNCHANGED vars
  <2>1. UNCHANGED <<main, handler, running, listener, backlog, accepted, pending, busy, open,
                    gone, wpc, query, conn, up, down, client, call, got, issued, executed,
                    acked, saved>>
    BY <1>4 DEF vars, mainVars, signalVars, poolVars, workVars, clientVars
  <2>2. Shape' /\ Lifecycle'
    BY <2>1 DEF Inv, Shape, MainShape, WorkerShape, ClientShape, Lifecycle, Drained, Joined
  <2>3. Alive' => OnePlace'
    BY <2>1 DEF Inv, Alive, OnePlace, InBacklog, InPending, Served
  <2>4. ASSUME NEW c \in Clients PROVE Link(c)'
    <3>1. SameLink(c)
      BY <2>1 DEF SameLink, Deaf, Reading, Handles, Held, InBacklog, InPending, Alive
    <3> QED BY <3>1, LinkSame DEF Inv
  <2> QED BY <2>2, <2>3, <2>4 DEF Inv
<1> QED BY <1>1, <1>2, <1>3, <1>4 DEF Next, ClientStep

(* The answer to EXIT is no error.                                         *)
LEMMA ByeIsNoError == ~IsError(format_result(Message(<<"BYE">>)))
<1>1. format_result(Message(<<"BYE">>)) = <<"BYE">> \o <<Newline>>
  BY DEF format_result, Message
<1>2. (<<"BYE">> \o <<Newline>>)[1] = "BYE"
  OBVIOUS
<1> QED BY <1>1, <1>2 DEF IsError, ErrorPrefix

(* Only an answer makes a call report success or an error of the engine.   *)
LEMMA OwnTextStep == Inv /\ AnswersOwnText /\ [Next]_vars => AnswersOwnText'
<1> SUFFICES ASSUME Inv, AnswersOwnText, [Next]_vars, NEW c \in Clients PROVE OwnText(c)'
  BY DEF AnswersOwnText
<1> USE DEF server, serverOnly, mainVars, signalVars, poolVars, clientVars, workVars
<1>1. OwnText(c)
  BY DEF AnswersOwnText
<1>2. DOMAIN got = Clients
  BY DEF Inv, Shape, ClientShape
<1>3. CASE got'[c] = got[c]
  BY <1>1, <1>3 DEF OwnText
<1>4. CASE got'[c].rc \notin {"ok", "error"}
  BY <1>4 DEF OwnText
<1>5. CASE ExecAnswered(c)
  <2> DEFINE f == down[c][1]
             q == call[c]
  <2>1. client[c] = "exec" /\ down[c] # <<>>
    BY <1>5 DEF ExecAnswered
  <2>2. down[c] = <<f>> /\ Head(down[c]) = f
    BY <2>1, Single DEF Inv, Link, OneCall
  <2>3. ~f.huge => Answers(f, q)
    BY <2>1 DEF Inv, Link, OwnCall
  <2>4. got'[c] = IF f.huge THEN [rc |-> "io", query |-> q, rows |-> <<>>]
                  ELSE IF IsError(f.text) THEN [rc |-> "error", query |-> q, rows |-> <<>>]
                  ELSE [rc |-> "ok", query |-> q, rows |-> callbacks(f.text, q.limit)]
    BY <1>2, <1>5, <2>2 DEF ExecAnswered, Return
  <2> HIDE DEF f, q
  <2>5. CASE f.huge
    <3>1. got'[c] = [rc |-> "io", query |-> q, rows |-> <<>>]
      BY <2>4, <2>5
    <3> QED BY <1>4, <3>1
  <2>6. CASE ~f.huge /\ q.kind = "sql"
    <3>1. f.text = format_result(q.result)
      BY <2>3, <2>6 DEF Answers, Frame
    <3>2. CASE IsError(f.text)
      <4>1. got'[c] = [rc |-> "error", query |-> q, rows |-> <<>>]
        BY <2>4, <2>6, <3>2
      <4> QED BY <2>6, <3>1, <3>2, <4>1 DEF OwnText
    <3>3. CASE ~IsError(f.text)
      <4>1. got'[c] = [rc |-> "ok", query |-> q, rows |-> callbacks(f.text, q.limit)]
        BY <2>4, <2>6, <3>3
      <4> QED BY <2>6, <3>1, <3>3, <4>1 DEF OwnText
    <3> QED BY <3>2, <3>3
  <2>7. CASE ~f.huge /\ q.kind = "exit"
    <3>1. f.text = format_result(Message(<<"BYE">>))
      BY <2>3, <2>7 DEF Answers, Frame
    <3>2. ~IsError(f.text)
      BY <3>1, ByeIsNoError
    <3>3. got'[c] = [rc |-> "ok", query |-> q, rows |-> callbacks(f.text, q.limit)]
      BY <2>4, <2>7, <3>2
    <3> QED BY <2>7, <3>3 DEF OwnText
  <2> QED BY <2>3, <2>5, <2>6, <2>7 DEF Answers
<1>6. CASE MainStep \/ Signal
  <2>1. got' = got
    BY <1>6 DEF MainStep, Listen, SetRunning, CheckRunning, AcceptConnection, AcceptFails,
         SubmitLocks, SubmitPushes, SubmitThrows, FinalSnapshot, DestroyServer,
         Exit, Stop, StopReturns, Signal
  <2> QED BY <1>3, <2>1
<1>7. ASSUME NEW w \in Workers, WorkerStep(w) PROVE OwnText(c)'
  <2>1. got' = got
    BY <1>7 DEF WorkerStep, TakeConnection, WorkerLeaves, Receive, ReceiveLong, ReceiveFails,
         SkipEmpty, SayBye, ExecuteThrows, ExecuteSql, Send, SendFails, CloseConnection
  <2> QED BY <1>3, <2>1
<1>8. ASSUME NEW d \in Clients, ClientStep(d), ~(d = c /\ ExecAnswered(c)) PROVE OwnText(c)'
  <2>1. CASE d # c
    <3>1. got'[c] = got[c]
      BY <1>2, <1>8, <2>1 DEF ClientStep, LibraryStep, ExecAnswered, ExecFails, CloseReturns,
             flexql_open, flexql_close, ClientDies, flexql_exec, Return
    <3> QED BY <1>3, <3>1
  <2>2. CASE d = c
    <3>1. \/ got'[c] = got[c]
          \/ got'[c] = NoResult
          \/ got'[c] = [NoResult EXCEPT !.rc = "io"]
          \/ got'[c] = [rc |-> "io", query |-> call[c], rows |-> <<>>]
      BY <1>2, <1>8, <2>2 DEF ClientStep, LibraryStep, ExecFails, CloseReturns,
             flexql_open, flexql_close, ClientDies, flexql_exec, Return
    <3> QED BY <1>3, <1>4, <3>1 DEF NoResult
  <2> QED BY <2>1, <2>2
<1>9. CASE UNCHANGED vars
  BY <1>3, <1>9 DEF vars
<1> QED BY <1>5, <1>6, <1>7, <1>8, <1>9 DEF Next, ClientStep, LibraryStep

-----------------------------------------------------------------------------
(* The inductive invariant holds of every behaviour.                       *)
THEOREM InvAlways == Spec => []Inv
<1> QED BY InvInit, InvStep, PTL DEF Spec

(* A statement is executed at most once per call and before its call       *)
(* reports success, however workers, clients, failures and signals         *)
(* interleave (handle_client, flexql_exec).                                *)
THEOREM ServerExecutedOnce == Spec => []ExecutedOnce
<1>1. Inv => ExecutedOnce
  BY DEF Inv, Link, Counted, ExecutedOnce
<1> QED BY <1>1, InvAlways, PTL

(* Nothing is executed after the final snapshot of main, wherever signals  *)
(* interrupted it (TCPServer::stop joins the workers before run returns).  *)
THEOREM ServerSnapshotIsFinal == Spec => []SnapshotIsFinal
<1>1. Inv => SnapshotIsFinal
  BY DEF Inv, Lifecycle, SnapshotIsFinal
<1> QED BY <1>1, InvAlways, PTL

(* What flexql_exec reports is read from the text that format_result made  *)
(* of the result of its own query, never from that of another call.        *)
THEOREM ServerAnswersOwnText == Spec => []AnswersOwnText
<1>1. Init => AnswersOwnText
  BY DEF Init, AnswersOwnText, OwnText, NoResult
<1> QED BY <1>1, InvAlways, OwnTextStep, PTL DEF Spec
====
