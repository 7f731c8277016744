------------------------------- MODULE Server -------------------------------
(***************************************************************************)
(* The server process and its clients: TCPServer (accept loop,             *)
(* handle_client on a pool of workers, stop), the signal handler and the   *)
(* end of main, and the client library (flexql_open, _exec, _close).  Each *)
(* client opens one connection; the pool is WorkPool with connections as   *)
(* its tasks; the handler of a signal runs on the thread of main, between  *)
(* two of its steps.                                                       *)
(***************************************************************************)
EXTENDS Naturals, Sequences, Wire, WorkPool

CONSTANTS
  Queries,      \* what each client may call flexql_exec with
  Mortal,       \* clients whose process may end at any time
  MaxExecs,     \* bound: calls of flexql_exec of each client
  MaxSignals,   \* bound: signals sent to the server
  SignalPoints  \* where main may be when a signal interrupts it

(* Callers of the client library; the connection of a caller is the task   *)
(* its handle_client is submitted as.                                      *)
Clients == Tasks

(* What of a call of flexql_exec the connection depends on: the kind of    *)
(* its query, and the limit of its callback (see Wire.tla).                *)
(*   sql     it is executed, with the given result; mutates: it changes a  *)
(*           table; huge: the answer is over the 10 MB wire_recv takes     *)
(*   empty   nothing is left of it after trimming                          *)
(*   exit    EXIT or QUIT                                                  *)
(*   long    it is over the 10 MB recv_message takes                       *)
(*   throws  execute_sql throws (the std::stoi at parser.cpp:128)          *)
Kinds == {"sql", "empty", "exit", "long", "throws"}
NoQuery == [kind |-> "empty", result |-> Message(<<>>), mutates |-> FALSE,
            huge |-> FALSE, limit |-> 0]
NoConn == "no connection"
EXIT == [NoQuery EXCEPT !.kind = "exit"]

ASSUME ServerAssumption ==
  /\ NoTask \notin Clients /\ NoConn \notin Clients
  /\ \A c \in Clients : MaxExecs[c] \in Nat /\ \A q \in Queries[c] :
       /\ q.kind \in Kinds /\ q.limit \in Nat
       /\ q.mutates \in BOOLEAN /\ (q.kind = "exit" => ~q.mutates)
  /\ MaxSignals \in Nat

VARIABLES
  main,      \* where the thread of main is
  handler,   \* where the signal handler is, "none" when it is not running
  signals,   \* signals sent so far
  deaf,      \* the worker that missed the notification of shutdown, if any
  running,   \* running_
  listener,  \* the listening socket: "none", "open" or "closed"
  backlog,   \* connections the kernel holds for accept
  accepted,  \* the connection main is about to submit
  wpc,       \* where each worker is in handle_client
  query,     \* the query it has read
  conn,      \* the server's end of each connection
  up, down,  \* what travels on it, to the server and to the client
  client,    \* where each client is
  cfd,       \* is the client's end open?
  call,      \* the query of its current call
  got,       \* what its last call of flexql_exec returned
  execs,     \* calls of flexql_exec it has made
  issued, executed, acked,  \* history: its mutations sent, executed, answered OK
  saved      \* history: `executed` at the final snapshot, or NotSaved

mainVars == <<main, running, listener, accepted>>
signalVars == <<handler, signals, deaf>>
workVars == <<wpc, query>>
clientVars == <<client, cfd, call, got, execs>>
vars == <<mainVars, signalVars, backlog, poolVars, workVars, conn, up, down,
          clientVars, issued, executed, acked, saved>>

NotSaved == [c \in Clients |-> 0 - 1]
NoResult == [rc |-> "none", query |-> NoQuery, rows |-> <<>>]

Init ==
  /\ main = "start" /\ handler = "none" /\ signals = 0 /\ deaf = {}
  /\ running = FALSE /\ listener = "none" /\ backlog = <<>> /\ accepted = NoConn
  /\ PoolInit
  /\ wpc = [w \in Workers |-> "recv"] /\ query = [w \in Workers |-> NoQuery]
  /\ conn = [c \in Clients |-> "none"]
  /\ up = [c \in Clients |-> <<>>] /\ down = [c \in Clients |-> <<>>]
  /\ client = [c \in Clients |-> "new"] /\ cfd = [c \in Clients |-> FALSE]
  /\ call = [c \in Clients |-> NoQuery] /\ got = [c \in Clients |-> NoResult]
  /\ execs = [c \in Clients |-> 0]
  /\ issued = [c \in Clients |-> 0] /\ executed = [c \in Clients |-> 0]
  /\ acked = [c \in Clients |-> 0] /\ saved = NotSaved

Alive == main \notin {"exited", "aborted"}
MainRuns == handler = "none"

(* Taking a task and leaving the loop need queue_mutex_.                   *)
MutexFree == main # "locked"

(* shutdown sets stop_ and calls notify_all without queue_mutex_.  The     *)
(* worker that holds the mutex then may have found nothing to do and not   *)
(* wait yet: it waits afterwards, for a notification that has passed.  (If *)
(* it wakes up spuriously it is a worker that was slow to leave.)          *)
NotifyAll ==
  deaf' \in IF open /\ pending = <<>> /\ MutexFree
              THEN {{}} \union {{w} : w \in {v \in Workers : Free(v)}}
              ELSE {deaf}

-----------------------------------------------------------------------------
(* main and TCPServer::run                                                 *)

(* The process ends: the kernel closes every connection.                   *)
CloseAll == conn' = [c \in Clients |-> IF conn[c] = "none" THEN "none" ELSE "closed"]

Listen ==
  /\ MainRuns /\ main = "start"
  /\ \/ listener' = "open" /\ main' = "listening"
     \/ main' = "returned" /\ UNCHANGED listener   \* socket, bind or listen fails
  /\ UNCHANGED <<signalVars, running, backlog, accepted, poolVars, workVars, conn, up,
                 down, clientVars, issued, executed, acked, saved>>

SetRunning ==
  /\ MainRuns /\ main = "listening"
  /\ running' = TRUE /\ main' = "loop"
  /\ UNCHANGED <<signalVars, listener, backlog, accepted, poolVars, workVars, conn, up,
                 down, clientVars, issued, executed, acked, saved>>

CheckRunning ==
  /\ MainRuns /\ main = "loop"
  /\ main' = IF running THEN "accept" ELSE "returned"
  /\ UNCHANGED <<signalVars, running, listener, backlog, accepted, poolVars, workVars,
                 conn, up, down, clientVars, issued, executed, acked, saved>>

AcceptConnection ==
  /\ MainRuns /\ main = "accept" /\ listener = "open" /\ backlog # <<>>
  /\ accepted' = Head(backlog) /\ backlog' = Tail(backlog)
  /\ conn' = [conn EXCEPT ![Head(backlog)] = "accepted"]
  /\ main' = "submit"
  /\ UNCHANGED <<signalVars, running, listener, poolVars, workVars, up, down,
                 clientVars, issued, executed, acked, saved>>

(* accept on a closed socket: the loop ends only if running_ is false.     *)
AcceptFails ==
  /\ MainRuns /\ main = "accept" /\ listener # "open"
  /\ main' = IF running THEN "loop" ELSE "returned"
  /\ UNCHANGED <<signalVars, running, listener, backlog, accepted, poolVars, workVars,
                 conn, up, down, clientVars, issued, executed, acked, saved>>

(* submit takes queue_mutex_, and throws if the pool is stopped; nothing   *)
(* catches the exception, so the process ends.                             *)
SubmitLocks ==
  /\ MainRuns /\ main = "submit"
  /\ main' = "locked"
  /\ UNCHANGED <<signalVars, running, listener, backlog, accepted, poolVars, workVars,
                 conn, up, down, clientVars, issued, executed, acked, saved>>

SubmitPushes ==
  /\ MainRuns /\ main = "locked"
  /\ Accept(accepted)
  /\ accepted' = NoConn /\ main' = "loop"
  /\ UNCHANGED <<signalVars, running, listener, backlog, workVars, conn, up, down,
                 clientVars, issued, executed, acked, saved>>

SubmitThrows ==
  /\ MainRuns /\ main = "locked" /\ ~open
  /\ main' = "aborted" /\ listener' = "closed" /\ backlog' = <<>> /\ CloseAll
  /\ UNCHANGED <<signalVars, running, accepted, poolVars, workVars, up, down,
                 clientVars, issued, executed, acked, saved>>

(* After run: the final snapshot; then ~TCPServer stops the pool, if       *)
(* nobody has, and the process ends.                                       *)
FinalSnapshot ==
  /\ MainRuns /\ main = "returned"
  /\ saved' = executed /\ main' = "saved"
  /\ UNCHANGED <<signalVars, running, listener, backlog, accepted, poolVars, workVars,
                 conn, up, down, clientVars, issued, executed, acked>>

DestroyServer ==
  /\ MainRuns /\ main = "saved" /\ open
  /\ Close /\ NotifyAll /\ running' = FALSE
  /\ UNCHANGED <<main, listener, accepted, handler, signals, backlog, workVars, conn, up,
                 down, clientVars, issued, executed, acked, saved>>

Exit ==
  /\ MainRuns /\ main = "saved" /\ ~open /\ Joined
  /\ main' = "exited" /\ CloseAll
  /\ UNCHANGED <<running, listener, accepted, signalVars, backlog, poolVars, workVars, up,
                 down, clientVars, issued, executed, acked, saved>>

-----------------------------------------------------------------------------
(* signal_handler: TCPServer::stop on the thread it interrupts             *)

Signal ==
  /\ handler = "none" /\ signals < MaxSignals /\ main \in SignalPoints
  /\ handler' = "stop" /\ signals' = signals + 1
  /\ UNCHANGED <<mainVars, deaf, backlog, poolVars, workVars, conn, up, down, clientVars,
                 issued, executed, acked, saved>>

(* Mutant: stop does not wait for the workers.                              *)
StopWithoutJoin ==
  /\ handler = "stop"
  /\ running' = FALSE
  /\ listener' = IF listener = "open" THEN "closed" ELSE listener
  /\ backlog' = <<>>
  /\ conn' = [c \in Clients |-> IF conn[c] = "backlog" THEN "closed" ELSE conn[c]]
  /\ Close /\ NotifyAll
  /\ handler' = "none"
  /\ UNCHANGED <<main, accepted, signals, workVars, up, down, clientVars,
                 issued, executed, acked, saved>>

(* Mutant: stop forgets the flag of the accept loop.                        *)
StopKeepingRunning ==
  /\ handler = "stop"
  /\ listener' = IF listener = "open" THEN "closed" ELSE listener
  /\ backlog' = <<>>
  /\ conn' = [c \in Clients |-> IF conn[c] = "backlog" THEN "closed" ELSE conn[c]]
  /\ Close /\ NotifyAll
  /\ handler' = IF open THEN "join" ELSE "none"
  /\ UNCHANGED <<main, accepted, running, signals, workVars, up, down, clientVars,
                 issued, executed, acked, saved>>

(* Closing the listening socket resets the connections not yet accepted.   *)
(* A second shutdown of the pool returns at once.                          *)
Stop ==
  /\ handler = "stop"
  /\ running' = FALSE
  /\ listener' = IF listener = "open" THEN "closed" ELSE listener
  /\ backlog' = <<>>
  /\ conn' = [c \in Clients |-> IF conn[c] = "backlog" THEN "closed" ELSE conn[c]]
  /\ Close /\ NotifyAll
  /\ handler' = IF open THEN "join" ELSE "none"
  /\ UNCHANGED <<main, accepted, signals, workVars, up, down, clientVars,
                 issued, executed, acked, saved>>

StopReturns ==
  /\ handler = "join" /\ Joined
  /\ handler' = "none"
  /\ UNCHANGED <<mainVars, signals, deaf, backlog, poolVars, workVars, conn, up, down,
                 clientVars, issued, executed, acked, saved>>

-----------------------------------------------------------------------------
(* The workers                                                             *)

serverOnly == <<mainVars, signalVars, backlog>>
WGoto(w, label) == wpc' = [wpc EXCEPT ![w] = label]
Forget(w) == query' = [query EXCEPT ![w] = NoQuery]
At(w, label) == Alive /\ busy[w] # NoTask /\ wpc[w] = label

TakeConnection(w) ==
  /\ Alive /\ MutexFree /\ Take(w)
  /\ UNCHANGED <<serverOnly, workVars, conn, up, down, clientVars, issued, executed,
                 acked, saved>>

WorkerLeaves(w) ==
  /\ Alive /\ MutexFree /\ w \notin deaf /\ Retire(w)
  /\ UNCHANGED <<serverOnly, workVars, conn, up, down, clientVars, issued, executed,
                 acked, saved>>

(* The query is over the limit: handle_client ends without an answer.      *)
ReceiveLong(w) ==
  LET c == busy[w] IN
  /\ At(w, "recv") /\ up[c] # <<>> /\ Head(up[c]).kind = "long"
  /\ up' = [up EXCEPT ![c] = Tail(@)]
  /\ WGoto(w, "close")
  /\ UNCHANGED <<serverOnly, poolVars, query, conn, down, clientVars, issued, executed,
                 acked, saved>>

(* Mutant: the query is read with MSG_PEEK and stays in the buffer.         *)
ReceivePeeking(w) ==
  LET c == busy[w] IN
  /\ At(w, "recv") /\ up[c] # <<>> /\ Head(up[c]).kind # "long"
  /\ query' = [query EXCEPT ![w] = Head(up[c])]
  /\ WGoto(w, "handle")
  /\ UNCHANGED <<serverOnly, poolVars, up, conn, down, clientVars, issued, executed,
                 acked, saved>>

Receive(w) ==
  LET c == busy[w] IN
  /\ At(w, "recv") /\ up[c] # <<>> /\ Head(up[c]).kind # "long"
  /\ up' = [up EXCEPT ![c] = Tail(@)]
  /\ query' = [query EXCEPT ![w] = Head(up[c])]
  /\ WGoto(w, "handle")
  /\ UNCHANGED <<serverOnly, poolVars, conn, down, clientVars, issued, executed,
                 acked, saved>>

(* The client's end is closed; data it had sent may be lost with it.       *)
ReceiveFails(w) ==
  /\ At(w, "recv") /\ ~cfd[busy[w]]
  /\ WGoto(w, "close")
  /\ UNCHANGED <<serverOnly, poolVars, query, conn, up, down, clientVars, issued,
                 executed, acked, saved>>

SkipEmpty(w) ==
  /\ At(w, "handle") /\ query[w].kind = "empty"
  /\ WGoto(w, "recv")
  /\ UNCHANGED <<serverOnly, poolVars, query, conn, up, down, clientVars, issued,
                 executed, acked, saved>>

Frame(text, huge) == [text |-> text, huge |-> huge]
Deliver(c, frame) == down' = [down EXCEPT ![c] = Append(@, frame)]

SayBye(w) ==
  /\ At(w, "handle") /\ query[w].kind = "exit"
  /\ Deliver(busy[w], Frame(format_result(Message(<<"BYE">>)), FALSE))
  /\ WGoto(w, "close") /\ Forget(w)
  /\ UNCHANGED <<serverOnly, poolVars, conn, up, clientVars, issued, executed,
                 acked, saved>>

(* The exception ends up in the future of the task, which nobody reads:    *)
(* the worker goes on, and the connection is never closed.                 *)
ExecuteThrows(w) ==
  /\ At(w, "handle") /\ query[w].kind = "throws"
  /\ Finish(w) /\ WGoto(w, "recv") /\ Forget(w)
  /\ UNCHANGED <<serverOnly, conn, up, down, clientVars, issued, executed,
                 acked, saved>>

ExecuteSql(w) ==
  /\ At(w, "handle") /\ query[w].kind = "sql"
  /\ executed' = IF query[w].mutates THEN [executed EXCEPT ![busy[w]] = @ + 1] ELSE executed
  /\ WGoto(w, "send")
  /\ UNCHANGED <<serverOnly, poolVars, query, conn, up, down, clientVars, issued,
                 acked, saved>>

(* A huge answer does not fit the buffers of the kernel: send blocks until *)
(* the client reads it, which it does not, or closes its end.              *)
Send(w) ==
  /\ At(w, "send")
  /\ Deliver(busy[w], Frame(format_result(query[w].result), query[w].huge))
  /\ WGoto(w, IF query[w].huge THEN "sending" ELSE "recv")
  /\ Forget(w)
  /\ UNCHANGED <<serverOnly, poolVars, conn, up, clientVars, issued, executed,
                 acked, saved>>

SendFails(w) ==
  /\ At(w, "send") \/ At(w, "sending")
  /\ ~cfd[busy[w]]
  /\ WGoto(w, "close") /\ Forget(w)
  /\ UNCHANGED <<serverOnly, poolVars, conn, up, down, clientVars, issued,
                 executed, acked, saved>>

(* Mutant: handle_client returns without close.                             *)
CloseNothing(w) ==
  /\ At(w, "close")
  /\ Finish(w) /\ WGoto(w, "recv")
  /\ UNCHANGED <<serverOnly, query, conn, up, down, clientVars, issued, executed,
                 acked, saved>>

CloseConnection(w) ==
  /\ At(w, "close")
  /\ conn' = [conn EXCEPT ![busy[w]] = "closed"]
  /\ Finish(w) /\ WGoto(w, "recv")
  /\ UNCHANGED <<serverOnly, query, up, down, clientVars, issued, executed, acked,
                 saved>>

-----------------------------------------------------------------------------
(* The client library                                                      *)

server == <<mainVars, signalVars, poolVars, workVars>>
CGoto(c, label) == client' = [client EXCEPT ![c] = label]
CloseEnd(c) == cfd' = [cfd EXCEPT ![c] = FALSE]

(* connect succeeds as soon as the kernel has queued the connection.       *)
flexql_open(c) ==
  /\ client[c] = "new" /\ Alive
  /\ IF listener = "open"
       THEN /\ backlog' = Append(backlog, c)
            /\ conn' = [conn EXCEPT ![c] = "backlog"]
            /\ cfd' = [cfd EXCEPT ![c] = TRUE]
            /\ CGoto(c, "open")
       ELSE /\ CGoto(c, "failed")
            /\ UNCHANGED <<backlog, conn, cfd>>
  /\ UNCHANGED <<server, up, down, call, got, execs, issued, executed, acked, saved>>

(* What wire_send can do with a message: the kernel takes it, and on a     *)
(* connection the server has closed it is lost, or send reports the reset. *)
(* (It may also raise SIGPIPE, which ends the client: ClientDies.)         *)
Sent(c, q) ==
  up' = IF conn[c] = "closed" THEN up ELSE [up EXCEPT ![c] = Append(@, q)]

(* The call returns to the caller.                                         *)
Return(c, rc, rows) ==
  /\ got' = [got EXCEPT ![c] = [rc |-> rc, query |-> call[c], rows |-> rows]]
  /\ call' = [call EXCEPT ![c] = NoQuery]
  /\ CGoto(c, "open")

flexql_exec(c, q) ==
  /\ client[c] = "open" /\ execs[c] < MaxExecs[c]
  /\ execs' = [execs EXCEPT ![c] = @ + 1]
  /\ issued' = IF q.mutates THEN [issued EXCEPT ![c] = @ + 1] ELSE issued
  /\ \/ /\ Sent(c, q) /\ CGoto(c, "exec")
        /\ call' = [call EXCEPT ![c] = q]
        /\ got' = [got EXCEPT ![c] = NoResult]
     \/ /\ conn[c] = "closed"   \* "Failed to send query"
        /\ got' = [got EXCEPT ![c] = [NoResult EXCEPT !.rc = "io"]]
        /\ UNCHANGED <<up, client, call>>
  /\ UNCHANGED <<server, backlog, conn, down, cfd, executed, acked, saved>>

(* Mutant: wire_recv takes an answer of any size for the header it can read *)
(* and leaves the rest on the connection.                                   *)
ExecAnsweredAtAnySize(c) ==
  LET frame == Head(down[c]) IN
  /\ client[c] = "exec" /\ down[c] # <<>>
  /\ down' = IF frame.huge THEN [down EXCEPT ![c] = <<[frame EXCEPT !.huge = FALSE]>> \o Tail(@)]
             ELSE [down EXCEPT ![c] = Tail(@)]
  /\ IF IsError(frame.text)
       THEN Return(c, "error", <<>>)
       ELSE Return(c, "ok", callbacks(frame.text, call[c].limit))
  /\ acked' = IF call[c].mutates /\ ~IsError(frame.text)
                THEN [acked EXCEPT ![c] = @ + 1] ELSE acked
  /\ UNCHANGED <<server, backlog, conn, up, cfd, execs, issued, executed, saved>>

(* An answer arrives.  The text that a header over the limit leaves on the *)
(* connection is read as a header by the next call: four characters of a   *)
(* text are a length over the limit again.                                 *)
ExecAnswered(c) ==
  LET frame == Head(down[c]) IN
  /\ client[c] = "exec" /\ down[c] # <<>>
  /\ down' = IF frame.huge THEN down ELSE [down EXCEPT ![c] = Tail(@)]
  /\ IF frame.huge THEN Return(c, "io", <<>>)
     ELSE IF IsError(frame.text) THEN Return(c, "error", <<>>)
     ELSE Return(c, "ok", callbacks(frame.text, call[c].limit))
  /\ acked' = IF call[c].mutates /\ ~frame.huge /\ ~IsError(frame.text)
                THEN [acked EXCEPT ![c] = @ + 1] ELSE acked
  /\ UNCHANGED <<server, backlog, conn, up, cfd, execs, issued, executed, saved>>

(* The server's end is closed and everything it sent has been read.        *)
ExecFails(c) ==
  /\ client[c] = "exec" /\ down[c] = <<>> /\ conn[c] = "closed"
  /\ Return(c, "io", <<>>)
  /\ UNCHANGED <<server, backlog, conn, up, down, cfd, execs, issued, executed,
                 acked, saved>>

flexql_close(c) ==
  /\ client[c] = "open"
  /\ Sent(c, EXIT)
  /\ CGoto(c, "closing") /\ got' = [got EXCEPT ![c] = NoResult]
  /\ UNCHANGED <<server, backlog, conn, down, cfd, call, execs, issued, executed,
                 acked, saved>>

CloseReturns(c) ==
  /\ client[c] = "closing" /\ (down[c] # <<>> \/ conn[c] = "closed")
  /\ CloseEnd(c) /\ CGoto(c, "done")
  /\ UNCHANGED <<server, backlog, conn, up, down, call, got, execs, issued, executed,
                 acked, saved>>

(* The process of the client ends: by itself, or by the SIGPIPE of a send  *)
(* on a connection the server has closed.                                  *)
ClientDies(c) ==
  /\ c \in Mortal \/ conn[c] = "closed"
  /\ client[c] \in {"open", "exec", "closing"}
  /\ CloseEnd(c) /\ CGoto(c, "dead")
  /\ got' = [got EXCEPT ![c] = NoResult] /\ call' = [call EXCEPT ![c] = NoQuery]
  /\ UNCHANGED <<server, backlog, conn, up, down, execs, issued, executed, acked, saved>>

-----------------------------------------------------------------------------
MainStep ==
  \/ Listen \/ SetRunning \/ CheckRunning \/ AcceptConnection \/ AcceptFails
  \/ SubmitLocks \/ SubmitPushes \/ SubmitThrows
  \/ FinalSnapshot \/ DestroyServer \/ Exit
  \/ Stop \/ StopReturns

WorkerStep(w) ==
  \/ TakeConnection(w) \/ WorkerLeaves(w)
  \/ Receive(w) \/ ReceiveLong(w) \/ ReceiveFails(w)
  \/ SkipEmpty(w) \/ SayBye(w) \/ ExecuteThrows(w) \/ ExecuteSql(w)
  \/ Send(w) \/ SendFails(w) \/ CloseConnection(w)

LibraryStep(c) == ExecAnswered(c) \/ ExecFails(c) \/ CloseReturns(c)

Next ==
  \/ MainStep \/ Signal
  \/ \E w \in Workers : WorkerStep(w)
  \/ \E c \in Clients :
       \/ LibraryStep(c) \/ flexql_open(c) \/ flexql_close(c) \/ ClientDies(c)
       \/ \E q \in Queries[c] : flexql_exec(c, q)

Spec == Init /\ [][Next]_vars

(* Threads of the server and calls of the library go on when they can.     *)
(* Nobody has to open, query, close or send a signal.                      *)
FairSpec ==
  /\ Spec
  /\ WF_vars(MainStep)
  /\ \A w \in Workers : WF_vars(WorkerStep(w))
  /\ \A c \in Clients : WF_vars(LibraryStep(c))

-----------------------------------------------------------------------------
(* A value the wire format can carry: no tab and no newline in it.         *)
Clean(q) == \A i \in 1..Len(q.result.rows) :
  \A j \in 1..Len(q.result.rows[i]) :
    \A k \in 1..Len(q.result.rows[i][j]) : q.result.rows[i][j][k] \notin {Tab, Newline}

(* A row of one empty value is an empty line, which flexql_exec skips.     *)
Visible(q) == SelectSeq(q.result.rows, LAMBDA r : r # <<<<>>>>)

(* What flexql_exec reports is the answer to its own query: never that of  *)
(* an earlier one, also after an answer over the limit, an error or a      *)
(* failed call on the same connection; and the callback sees the rows of   *)
(* the result, in order and complete up to the call that returned 1.       *)
AnswersOwnQuery ==
  \A c \in Clients :
    LET q == got[c].query
        rows == Visible(q)
    IN  /\ got[c].rc = "ok" /\ q.kind = "sql" /\ Clean(q) =>
             /\ q.result.success
             /\ got[c].rows = IF q.limit = 0 \/ q.limit > Len(rows) THEN rows
                              ELSE SubSeq(rows, 1, q.limit)
        /\ got[c].rc = "error" => q.kind = "sql" /\ ~q.result.success
        /\ got[c].rc = "ok" => q.kind \in {"sql", "exit"}

(* A statement is executed at most once per call, and before the call that *)
(* sent it reports success.                                                *)
ExecutedOnce ==
  \A c \in Clients : acked[c] <= executed[c] /\ executed[c] <= issued[c]

(* The final snapshot (main.cpp:85) holds every statement that was ever    *)
(* executed: when run() returns no worker executes any more.               *)
SnapshotIsFinal == saved # NotSaved => saved = executed

(* Two kinds of call wait for an answer that never comes: an empty query   *)
(* (tcp_server.cpp:121) and one whose execution throws.  And a signal that *)
(* interrupts submit while it holds queue_mutex_ waits for workers that    *)
(* need the mutex to leave.  And nobody wakes a worker that has missed the *)
(* notification of shutdown.                                               *)
SelfBlocked == handler = "join" /\ main = "locked"
NoAnswer(c) == client[c] = "exec" /\ call[c].kind \in {"empty", "throws"}

ClientsLeave == \A c \in Clients : WF_vars(flexql_close(c))

Stuck == SelfBlocked \/ deaf # {} \/ \E c \in Clients : NoAnswer(c)

(* Every call of flexql_exec returns, whatever the other clients do and    *)
(* whenever the server is stopped, if clients do not keep idle connections *)
(* open and nothing is stuck as above: more connections than workers, lost *)
(* clients and answers over the limit only delay it.                       *)
ExecReturns ==
  ClientsLeave =>
    \A c \in Clients : client[c] = "exec" ~> (client[c] # "exec" \/ Stuck)

(* A signal that finds main in the accept loop proper ends the server with *)
(* its final snapshot (main.cpp:78, "Handle Ctrl-C gracefully"), if        *)
(* clients leave.                                                          *)
StopCompletes ==
  ClientsLeave =>
    (handler = "stop" /\ main \in {"loop", "accept"} ~> main = "exited" \/ Stuck)
=============================================================================
