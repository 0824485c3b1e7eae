----------------------------- MODULE EventLoop -----------------------------
(***************************************************************************)
(* The server's network side: rpc::ManagerCycle (the epoll loop),          *)
(* rpc::Connect and rpc::ConnectManage, with the kernel's sockets and      *)
(* epoll set below them and the thread pool, by its promise TaskPool,      *)
(* beside them.                                                            *)
(*                                                                         *)
(* A member of Conn is one TCP connection of a client and, once accepted,  *)
(* the Connect object made for it.  The object lives as long as one of     *)
(* three holders refers to it: the table m_connects, the local variable of *)
(* the handler that is running (cur), and the closure of a request handed  *)
(* to the pool (lambda).  Its destructor closes the descriptor, and the    *)
(* kernel gives the number to the next connection that is accepted.        *)
(*                                                                         *)
(* A definition named X_Y, Y being what goes wrong, is X with a plausible  *)
(* mistake in it and no part of the specification.                         *)
(***************************************************************************)
EXTENDS Integers, Sequences, FiniteSets

CONSTANTS
  Conn,        \* the connections clients open
  Fd,          \* the descriptor numbers left for them
  Listen,      \* the listening socket's descriptor
  Request,     \* the requests, each made at most once
  Sender,      \* [Request -> Conn], who makes it
  Padded,      \* the requests whose encoded form ends in the padding '='
  World,       \* what clients, signals and the pool's owner may do: see below
  NoConn, NoFd, NoRequest

ASSUME ConnAssumption ==
  /\ IsFiniteSet(Conn) /\ IsFiniteSet(Fd) /\ NoConn \notin Conn
  /\ NoFd \notin Fd /\ Listen \notin Fd \cup {NoFd}
ASSUME RequestAssumption ==
  /\ IsFiniteSet(Request) /\ NoRequest \notin Request
  /\ Sender \in [Request -> Conn] /\ Padded \subseteq Request

\* pipeline: send before the last answer is in.  split: a request in two
\* pieces.  stall: do not read, so that send() would block.  close, reset: FIN,
\* RST.  SIGINT, SIGTERM: to the server.  shutdown: the pool is shut down by
\* whoever else holds ThreadSingle.
ASSUME WorldAssumption ==
  World \subseteq {"pipeline", "split", "stall", "close", "reset", "SIGINT", "SIGTERM", "shutdown"}

VARIABLES
  \* the kernel
  peer,          \* each connection as its client left it
  sent,          \* how much of each request its client has sent
  listening,     \* the listening socket is open
  backlog,       \* connections to accept, in the order of their arrival
  arrived,       \* the edge on the listening socket: an arrival not reported yet
  inbox,         \* pieces of requests not read yet
  sock,          \* the socket behind each descriptor
  epoll,         \* the epoll set
  ready,         \* its members with an edge not reported yet
  answers,       \* what each client has been sent
  \* Connect and ConnectManage
  fd,            \* fd_, NoFd when there is no object
  running,       \* is_running_
  recv_buf, send_buf,
  table,         \* m_connects
  \* ManagerCycle
  loop,          \* where Loop is
  events,        \* the events of the last Wait not handled yet
  cur,           \* the Connect the handler holds
  cur_fd,        \* the fd the handler was called with
  request,       \* the request it enqueues
  is_stop,       \* is_stop_
  closing,       \* CloseAll: "no", "begun", "broken" (its iterator is gone), or
                 \* "stuck": it never comes to its end
  \* the requests in the pool
  task, pool,    \* as in TaskPool
  pool_running,  \* the pool's state_ is kRunning
  lambda,        \* the requests whose closure exists
  checked,       \* the requests whose worker has found the connection running
  alive          \* the process runs

kernel == <<peer, sent, listening, backlog, arrived, inbox, sock, epoll, ready, answers>>
objects == <<fd, running, recv_buf, send_buf, table>>
cycle == <<loop, events, cur, cur_fd, request, is_stop, closing>>
work == <<task, pool, pool_running, lambda, checked>>
vars == <<kernel, objects, cycle, work, alive>>

Pool == INSTANCE TaskPool WITH Task <- Request

-----------------------------------------------------------------------------
\* The bytes that travel, in pieces.
Stream == INSTANCE Framing WITH Message <- Request

-----------------------------------------------------------------------------
Init ==
  /\ peer = [c \in Conn |-> "absent"] /\ sent = [r \in Request |-> "no"]
  /\ listening = TRUE /\ backlog = <<>> /\ arrived = FALSE
  /\ inbox = [c \in Conn |-> <<>>] /\ answers = [c \in Conn |-> <<>>]
  /\ sock = [f \in Fd |-> NoConn] /\ epoll = {} /\ ready = {}
  /\ fd = [c \in Conn |-> NoFd] /\ running = {}
  /\ recv_buf = [c \in Conn |-> <<>>] /\ send_buf = [c \in Conn |-> <<>>]
  /\ table = [f \in Fd |-> NoConn]
  /\ loop = "wait" /\ events = {} /\ cur = NoConn /\ cur_fd = NoFd
  /\ request = NoRequest /\ is_stop = FALSE /\ closing = "no"
  /\ Pool!Init /\ pool_running = TRUE /\ lambda = {} /\ checked = {}
  /\ alive = TRUE

-----------------------------------------------------------------------------
(* The clients and the kernel.                                             *)


\* What happens on connection c is an edge for the descriptors that watch it.
Edge(c) == ready' = ready \cup {f \in epoll : sock[f] = c}

\* The client has closed or reset the connection; deaf: it had closed it when it
\* was sent something.
Left(c) == peer[c] \in {"closed", "deaf", "reset"}

Waiting == {backlog[i] : i \in 1..Len(backlog)}
Attached(c) == c \in Waiting \/ \E f \in Fd : sock[f] = c

Arrive(c) ==
  /\ peer[c] = "absent" /\ listening
  /\ peer' = [peer EXCEPT ![c] = "open"]
  /\ backlog' = Append(backlog, c) /\ arrived' = TRUE
  /\ UNCHANGED <<sent, listening, inbox, sock, epoll, ready, answers, objects, cycle, work, alive>>

Answered(r) == \E i \in 1..Len(answers[Sender[r]]) : answers[Sender[r]][i] = r

\* The client sends a request, or its first piece: when the last one has been
\* answered, or before.
MaySend(r) ==
  /\ peer[Sender[r]] = "open" /\ Attached(Sender[r])
  /\ \A q \in Request \ {r} : Sender[q] = Sender[r] =>
       sent[q] = "no" \/ (sent[q] = "all" /\ (Answered(q) \/ "pipeline" \in World))

Transmit(r, part, amount) ==
  /\ sent' = [sent EXCEPT ![r] = amount]
  /\ inbox' = [inbox EXCEPT ![Sender[r]] = Append(@, [of |-> r, part |-> part])]
  /\ Edge(Sender[r])
  /\ UNCHANGED <<peer, listening, backlog, arrived, sock, epoll, answers, objects, cycle, work, alive>>

Send(r) ==
  /\ MaySend(r)
  /\ \/ sent[r] = "no" /\ Transmit(r, "whole", "all")
     \/ sent[r] = "no" /\ "split" \in World /\ \E p \in {"bit", "front"} : Transmit(r, p, "part")
     \/ sent[r] = "part" /\ Transmit(r, "rest", "all")
     \/ sent[r] = "no" /\ "split" \in World /\ r \in Padded /\ Transmit(r, "text", "text")
     \/ sent[r] = "text" /\ Transmit(r, "pad", "all")

Depart(c, how) ==
  /\ how \in World /\ Attached(c)
  /\ \/ peer[c] = "open" /\ how = "close" /\ peer' = [peer EXCEPT ![c] = "closed"]
     \/ peer[c] \in {"open", "closed"} /\ how = "reset" /\ peer' = [peer EXCEPT ![c] = "reset"]
  /\ Edge(c)
  /\ UNCHANGED <<sent, listening, backlog, arrived, inbox, sock, epoll, answers,
                 objects, cycle, work, alive>>

\* What is sent to a client that has closed is refused: its RST comes back.
Refused(c) ==
  /\ peer[c] = "deaf" /\ Attached(c)
  /\ peer' = [peer EXCEPT ![c] = "reset"] /\ Edge(c)
  /\ UNCHANGED <<sent, listening, backlog, arrived, inbox, sock, epoll, answers,
                 objects, cycle, work, alive>>

-----------------------------------------------------------------------------
(* Life time.                                                              *)

Unheld_WeakTable(entries, local, closures) ==
  {c \in Conn : fd[c] # NoFd /\ c # local /\ \A r \in closures : Sender[r] # c}

\* The objects nobody refers to any more, given who will.
Unheld(entries, local, closures) ==
  {c \in Conn : /\ fd[c] # NoFd /\ c # local
                /\ \A f \in Fd : entries[f] # c
                /\ \A r \in closures : Sender[r] # c}

\* The objects in closed have been through Close, those in gone are destroyed
\* with it: their descriptors are closed, which takes them out of epoll.
Destroy(closed, gone) ==
  LET shut == {fd[c] : c \in gone} IN
  /\ fd' = [c \in Conn |-> IF c \in gone THEN NoFd ELSE fd[c]]
  /\ sock' = [f \in Fd |-> IF f \in shut THEN NoConn ELSE sock[f]]
  /\ epoll' = epoll \ shut /\ ready' = ready \ shut
  /\ running' = running \ (closed \cup gone)
  /\ recv_buf' = [c \in Conn |-> IF c \in closed \cup gone THEN <<>> ELSE recv_buf[c]]
  /\ send_buf' = [c \in Conn |-> IF c \in closed \cup gone THEN <<>> ELSE send_buf[c]]

-----------------------------------------------------------------------------
(* The loop.                                                               *)

LoopAt(point) == loop = point /\ closing = "no"

\* What epoll_wait says of a descriptor is what holds when it is called.
Kind(f) ==
  IF peer[sock[f]] = "reset" THEN "hup"
  ELSE IF inbox[sock[f]] # <<>> \/ Left(sock[f]) THEN "in" ELSE "out"

Wait ==
  /\ LoopAt("wait") /\ ~is_stop /\ (ready # {} \/ arrived)
  /\ events' = {[fd |-> f, kind |-> Kind(f)] : f \in ready}
               \cup (IF arrived THEN {[fd |-> Listen, kind |-> "in"]} ELSE {})
  /\ ready' = {} /\ arrived' = FALSE /\ loop' = "next"
  /\ UNCHANGED <<peer, sent, listening, backlog, inbox, sock, epoll, answers, objects,
                 cur, cur_fd, request, is_stop, closing, work, alive>>

\* The next event, of this kind, is taken from the batch.
Event(f, kind) ==
  LoopAt("next") /\ [fd |-> f, kind |-> kind] \in events
  /\ events' = events \ {[fd |-> f, kind |-> kind]}

\* The handler has returned.
Returned == loop' = IF events' = {} THEN "wait" ELSE "next"

RemoveFromEpoll_Forgotten(f) == UNCHANGED <<epoll, ready>>
RemoveFromEpoll(f) == epoll' = epoll \ {f} /\ ready' = ready \ {f}

\* EPOLLHUP, EPOLLERR: the descriptor leaves the epoll set, and that is all.
HandleError(f) ==
  /\ Event(f, "hup") /\ RemoveFromEpoll(f) /\ Returned
  /\ UNCHANGED <<peer, sent, listening, backlog, arrived, inbox, sock, answers, objects,
                 cur, cur_fd, request, is_stop, closing, work, alive>>

\* EPOLLOUT alone: nothing.
HandleWritable(f) ==
  /\ Event(f, "out") /\ Returned
  /\ UNCHANGED <<kernel, objects, cur, cur_fd, request, is_stop, closing, work, alive>>

\* accept() has nothing to give, or no descriptor to give it.
AcceptFails ==
  /\ Event(Listen, "in")
  /\ ~listening \/ backlog = <<>> \/ \A f \in Fd : sock[f] # NoConn
  /\ Returned
  /\ UNCHANGED <<kernel, objects, cur, cur_fd, request, is_stop, closing, work, alive>>

\* One connection is accepted: AddConnect, then epoll, which reports what is
\* there already.  getpeername() fails when the client has reset it.
HandleNewConnection ==
  /\ Event(Listen, "in") /\ listening /\ backlog # <<>>
  /\ \E f \in Fd :
       LET c == Head(backlog) IN
       /\ sock[f] = NoConn
       /\ sock' = [sock EXCEPT ![f] = c] /\ fd' = [fd EXCEPT ![c] = f]
       /\ running' = IF peer[c] = "reset" THEN running ELSE running \cup {c}
       /\ table' = [table EXCEPT ![f] = IF @ = NoConn THEN c ELSE @]
       /\ epoll' = epoll \cup {f} /\ ready' = ready \cup {f}
  /\ backlog' = Tail(backlog) /\ cur' = Head(backlog) /\ loop' = "return"
  /\ UNCHANGED <<peer, sent, listening, arrived, inbox, answers, recv_buf, send_buf,
                 cur_fd, request, is_stop, closing, work, alive>>

\* recv() until it would block, an error or the end: what is unread afterwards.
Unread_OnePiece(c) == IF inbox[c] = <<>> THEN <<>> ELSE Tail(inbox[c])
Unread(c) == <<>>

HandleClose(c) == table' = [table EXCEPT ![fd[c]] = NoConn]

\* The client is gone: Close clears is_running_, has the entry removed through
\* the callback, and clears the buffers.  The descriptor stays open for now.
ReadEnds_Ignored(c) == peer[c] = "reset"
ReadEnds(c) == Left(c)

Close_ClosesFd(c) ==
  /\ HandleClose(c) /\ running' = running \ {c}
  /\ recv_buf' = [recv_buf EXCEPT ![c] = <<>>] /\ send_buf' = [send_buf EXCEPT ![c] = <<>>]
  /\ sock' = [sock EXCEPT ![fd[c]] = NoConn]
  /\ epoll' = epoll \ {fd[c]} /\ ready' = ready \ {fd[c]}
  /\ UNCHANGED fd

Close(c) ==
  /\ HandleClose(c) /\ running' = running \ {c}
  /\ recv_buf' = [recv_buf EXCEPT ![c] = <<>>] /\ send_buf' = [send_buf EXCEPT ![c] = <<>>]
  /\ UNCHANGED <<fd, sock, epoll, ready>>

\* No entry for f, or one that does not run.
HandleStale(f) ==
  /\ Event(f, "in") /\ f # Listen /\ table[f] \notin running
  /\ cur' = table[f] /\ cur_fd' = f /\ loop' = "remove"
  /\ UNCHANGED <<kernel, objects, request, is_stop, closing, work, alive>>

\* The client is gone; what it sent last is not looked at any more.
HandleEnd(f) ==
  /\ Event(f, "in") /\ f # Listen /\ table[f] \in running /\ ReadEnds(table[f])
  /\ inbox' = [inbox EXCEPT ![table[f]] = <<>>]
  /\ Close(table[f])
  /\ cur' = table[f] /\ cur_fd' = f /\ loop' = "remove"
  /\ UNCHANGED <<peer, sent, listening, backlog, arrived, answers, request, is_stop,
                 closing, work, alive>>

\* The receive buffer, with what has come, is taken for one message.
\* HandleMessageAsync drops it when the pool does not run.
HandleData(f) ==
  LET c == table[f]
      buf == recv_buf[c] \o SubSeq(inbox[c], 1, Len(inbox[c]) - Len(Unread(c))) IN
  /\ Event(f, "in") /\ f # Listen /\ c \in running /\ ~ReadEnds(c)
  /\ inbox' = [inbox EXCEPT ![c] = Unread(c)]
  /\ cur' = c /\ cur_fd' = f
  /\ \/ /\ Stream!MayBeShort(buf) /\ loop' = "return"
        /\ recv_buf' = [recv_buf EXCEPT ![c] = buf] /\ UNCHANGED request
     \/ /\ Stream!MayBeLong(buf) /\ Stream!MayFail(buf) /\ loop' = "remove"
        /\ recv_buf' = [recv_buf EXCEPT ![c] = buf] /\ UNCHANGED request
     \/ /\ Stream!Decoded(buf) # {} /\ ~pool_running /\ loop' = "return"
        /\ recv_buf' = [recv_buf EXCEPT ![c] = <<>>] /\ UNCHANGED request
     \/ \E r \in Stream!Decoded(buf) :
          /\ pool_running /\ loop' = "enqueue" /\ request' = r
          /\ recv_buf' = [recv_buf EXCEPT ![c] = buf]
  /\ UNCHANGED <<peer, sent, listening, backlog, arrived, sock, epoll, ready, answers,
                 fd, running, send_buf, table, is_stop, closing, work, alive>>

\* Enqueue takes the closure, at once or when the queue has room again.
EnqueueAccepts ==
  /\ LoopAt("enqueue") /\ Pool!Accept(request)
  /\ lambda' = lambda \cup {request}
  /\ recv_buf' = [recv_buf EXCEPT ![cur] = <<>>]
  /\ request' = NoRequest /\ loop' = "return"
  /\ UNCHANGED <<kernel, fd, running, send_buf, table, events, cur, cur_fd, is_stop,
                 closing, pool_running, checked, alive>>

-----------------------------------------------------------------------------
(* Answers.                                                                *)

Unsent(buf, n) == SubSeq(buf, n + 1, Len(buf))

\* The far end of what is behind the descriptor now.
Far(c) == IF sock[fd[c]] = NoConn THEN "none" ELSE peer[sock[fd[c]]]

\* The answer to r goes into send_buf_, and the buffer to the socket behind the
\* descriptor.  A client that does not read makes send() stop anywhere; what is
\* left stays.  To one that has closed everything is sent, to be refused.  After
\* a reset send() fails, or SIGPIPE ends the process.
Write(c, r) ==
  LET buf == Append(send_buf[c], r) IN
  \/ \E n \in 0..Len(buf) :
       /\ Far(c) = "open" /\ (n = Len(buf) \/ "stall" \in World)
       /\ answers' = [answers EXCEPT ![sock[fd[c]]] = @ \o SubSeq(buf, 1, n)]
       /\ send_buf' = [send_buf EXCEPT ![c] = Unsent(buf, n)]
       /\ UNCHANGED <<peer, alive>>
  \/ /\ Far(c) \in {"closed", "deaf"}
     /\ peer' = [peer EXCEPT ![sock[fd[c]]] = "deaf"]
     /\ send_buf' = [send_buf EXCEPT ![c] = <<>>] /\ UNCHANGED <<answers, alive>>
  \/ /\ Far(c) \in {"reset", "none"}
     /\ send_buf' = [send_buf EXCEPT ![c] = buf] /\ alive' \in BOOLEAN
     /\ UNCHANGED <<peer, answers>>

\* Enqueue refuses: an error response, by the loop itself.
EnqueueRefuses ==
  /\ LoopAt("enqueue") /\ Pool!Refuse(request)
  /\ IF cur \in running THEN Write(cur, request)
     ELSE UNCHANGED <<peer, send_buf, answers, alive>>
  /\ recv_buf' = [recv_buf EXCEPT ![cur] = <<>>]
  /\ request' = NoRequest /\ loop' = "return"
  /\ UNCHANGED <<sent, listening, backlog, arrived, inbox, sock, epoll, ready,
                 fd, running, table, events, cur, cur_fd, is_stop, closing,
                 pool_running, lambda, checked>>

-----------------------------------------------------------------------------
(* RemoveConnect and the end of a handler.                                 *)

Remove ==
  /\ LoopAt("remove") /\ RemoveFromEpoll(cur_fd) /\ loop' = "erase"
  /\ UNCHANGED <<peer, sent, listening, backlog, arrived, inbox, sock, answers, objects,
                 events, cur, cur_fd, request, is_stop, closing, work, alive>>

\* RemoveConnect of ConnectManage, whatever entry there is for the number.
Erase ==
  /\ LoopAt("erase") /\ table' = [table EXCEPT ![cur_fd] = NoConn] /\ loop' = "return"
  /\ UNCHANGED <<kernel, fd, running, recv_buf, send_buf, events, cur, cur_fd, request,
                 is_stop, closing, work, alive>>

DropLocal_Kept == cur' = cur
DropLocal == cur' = NoConn

\* The handler returns, and drops its reference.
Return ==
  /\ LoopAt("return") /\ UNCHANGED events /\ Returned
  /\ DropLocal /\ cur_fd' = NoFd
  /\ Destroy({}, Unheld(table, cur', lambda))
  /\ UNCHANGED <<peer, sent, listening, backlog, arrived, inbox, answers, table,
                 request, is_stop, closing, work, alive>>

-----------------------------------------------------------------------------
(* HandleMessageSync, by a worker of the pool.                             *)

StartTask(r) ==
  /\ Pool!Take(r)
  /\ UNCHANGED <<kernel, objects, cycle, pool_running, lambda, checked, alive>>

\* SendRes: a connection that has been closed gets no answer.
CheckRunning(r) ==
  /\ task[r] = "taken" /\ r \notin checked
  /\ IF Sender[r] \in running
     THEN checked' = checked \cup {r} /\ UNCHANGED <<task, pool>>
     ELSE Pool!Finish(r) /\ UNCHANGED checked
  /\ UNCHANGED <<kernel, objects, cycle, pool_running, lambda, alive>>

\* It may be closed by now, but not destroyed.
SendRes(r) ==
  /\ r \in checked /\ Write(Sender[r], r) /\ Pool!Finish(r)
  /\ checked' = checked \ {r}
  /\ UNCHANGED <<sent, listening, backlog, arrived, inbox, sock, epoll, ready,
                 fd, running, recv_buf, table, cycle, pool_running, lambda>>

\* The worker lets go of the closure, and with it of the connection.
DropTask(r) ==
  /\ task[r] = "done" /\ r \in lambda /\ lambda' = lambda \ {r}
  /\ Destroy({}, Unheld(table, cur, lambda'))
  /\ UNCHANGED <<peer, sent, listening, backlog, arrived, inbox, answers, table, cycle,
                 task, pool, pool_running, checked, alive>>

-----------------------------------------------------------------------------
(* Stopping.  SIGINT only sets is_stop_ (ManagerCycle::Create replaces the  *)
(* handler of main).  SIGTERM runs Stop on the loop's thread, inside        *)
(* whatever step it is at: when that holds the logger's mutex, or           *)
(* ConnectManage::mutex_, Stop waits for it for ever, and so does the loop. *)
(* After the loop GreacefulShutdown closes what is left and shuts the pool  *)
(* down.                                                                    *)

Interrupt ==
  /\ "SIGINT" \in World /\ ~is_stop /\ is_stop' = TRUE
  /\ UNCHANGED <<kernel, objects, loop, events, cur, cur_fd, request, closing, work, alive>>

\* The listening socket is closed, by Stop or by GreacefulShutdown, and the
\* connections nobody has accepted are reset.
StopListening ==
  /\ listening' = FALSE /\ arrived' = FALSE /\ backlog' = <<>>
  /\ UNCHANGED <<peer, sent, inbox, sock, epoll, ready, answers>>

Terminate ==
  /\ "SIGTERM" \in World /\ loop # "ended" /\ closing = "no" /\ listening
  /\ is_stop' = TRUE /\ closing' = "begun" /\ StopListening
  /\ UNCHANGED <<objects, loop, events, cur, cur_fd, request, work, alive>>

\* Stop logs once the socket is closed, which a call to the logger does not
\* survive; a call of ConnectManage is only in the way of the first connection
\* that CloseAll closes.
TerminateHangs ==
  /\ "SIGTERM" \in World /\ loop \notin {"wait", "ended"} /\ closing = "no" /\ listening
  /\ is_stop' = TRUE /\ closing' = "stuck" /\ StopListening
  /\ \/ UNCHANGED running
     \/ /\ loop \in {"next", "erase"}
        /\ \E f \in Fd : table[f] \in running /\ running' = running \ {table[f]}
  /\ UNCHANGED <<fd, recv_buf, send_buf, table, loop, events, cur, cur_fd, request, work, alive>>

LoopEnds ==
  /\ LoopAt("wait") /\ is_stop /\ loop' = "ended" /\ closing' = "begun" /\ StopListening
  /\ UNCHANGED <<objects, events, cur, cur_fd, request, is_stop, work, alive>>

\* CloseAll closes the next entry; the callback erases it from the table that
\* is being iterated over.
CloseOne ==
  /\ closing \in {"begun", "broken"} /\ closing' = "broken"
  /\ \E f \in Fd :
       /\ table[f] \in running
       /\ HandleClose(table[f])
       /\ Destroy({table[f]}, Unheld(table', cur, lambda))
  /\ UNCHANGED <<peer, sent, listening, backlog, arrived, inbox, answers, loop, events,
                 cur, cur_fd, request, is_stop, work, alive>>

ClearTable_Forgotten == UNCHANGED table
ClearTable == table' = [f \in Fd |-> NoConn]

\* The iterator of an erased entry: the iteration goes on (CloseOne), ends
\* early, or the process crashes.
CloseAllCrashes ==
  /\ closing = "broken" /\ alive' = FALSE
  /\ UNCHANGED <<kernel, objects, cycle, work>>

CloseAllEnds ==
  /\ closing = "broken" \/ (closing = "begun" /\ \A f \in Fd : table[f] \notin running)
  /\ closing' = "no" /\ ClearTable
  /\ Destroy({}, Unheld(table', cur, lambda))
  /\ UNCHANGED <<peer, sent, listening, backlog, arrived, inbox, answers, loop, events,
                 cur, cur_fd, request, is_stop, work, alive>>

\* ThreadPool::ShutDown, by main after CloseAll or by another owner: the state
\* first, then, when the queue is empty, the pool; it ends with the join.
ShutDown ==
  /\ "shutdown" \in World \/ (loop = "ended" /\ closing = "no")
  /\ \/ pool_running /\ pool_running' = FALSE /\ UNCHANGED <<task, pool>>
     \/ ~pool_running /\ (Pool!CloseDrained \/ Pool!Join) /\ UNCHANGED pool_running
  /\ UNCHANGED <<kernel, objects, cycle, lambda, checked, alive>>

-----------------------------------------------------------------------------
Clients ==
  \/ \E c \in Conn : Arrive(c) \/ Depart(c, "close") \/ Depart(c, "reset") \/ Refused(c)
  \/ \E r \in Request : Send(r)

HandleEvent ==
  \/ \E f \in Fd : \/ HandleError(f) \/ HandleWritable(f) \/ HandleStale(f)
                   \/ HandleEnd(f) \/ HandleData(f)
  \/ AcceptFails \/ HandleNewConnection

Loop ==
  \/ Wait \/ HandleEvent \/ EnqueueAccepts \/ EnqueueRefuses
  \/ Remove \/ Erase \/ Return \/ LoopEnds
  \/ CloseOne \/ CloseAllCrashes \/ CloseAllEnds

HandleMessageSync(r) == StartTask(r) \/ CheckRunning(r) \/ SendRes(r) \/ DropTask(r)

Next ==
  /\ alive
  /\ Clients \/ Loop \/ (\E r \in Request : HandleMessageSync(r))
     \/ Interrupt \/ Terminate \/ TerminateHangs \/ ShutDown

Spec == Init /\ [][Next]_vars

(* The loop and the workers go on; clients, signals and owners do as they   *)
(* please.                                                                  *)
FairSpec ==
  /\ Spec /\ WF_vars(alive /\ Loop)
  /\ \A r \in Request : WF_vars(alive /\ HandleMessageSync(r))

-----------------------------------------------------------------------------
(* Properties.                                                             *)

TypeOK ==
  /\ peer \in [Conn -> {"absent", "open", "closed", "deaf", "reset"}]
  /\ sent \in [Request -> {"no", "part", "text", "all"}]
  /\ backlog \in Seq(Conn) /\ {listening, arrived, is_stop, pool_running, alive} \subseteq BOOLEAN
  /\ inbox \in [Conn -> Seq(Stream!Piece)] /\ recv_buf \in [Conn -> Seq(Stream!Piece)]
  /\ answers \in [Conn -> Seq(Request)] /\ send_buf \in [Conn -> Seq(Request)]
  /\ sock \in [Fd -> Conn \cup {NoConn}] /\ table \in [Fd -> Conn \cup {NoConn}]
  /\ epoll \subseteq Fd /\ ready \subseteq epoll
  /\ fd \in [Conn -> Fd \cup {NoFd}] /\ running \subseteq Conn
  /\ loop \in {"wait", "next", "enqueue", "remove", "erase", "return", "ended"}
  /\ events \subseteq [fd : Fd \cup {Listen}, kind : {"in", "out", "hup"}]
  /\ cur \in (IF loop \in {"wait", "next"} THEN {NoConn} ELSE Conn \cup {NoConn})
  /\ cur_fd \in Fd \cup {NoFd}
  /\ request \in (IF loop = "enqueue" THEN Request ELSE {NoRequest})
  /\ closing \in {"no", "begun", "broken", "stuck"}
  /\ task \in [Request -> Pool!Progress] /\ pool \in {"open", "closed", "joined"}
  /\ lambda \subseteq Request /\ checked \subseteq Request

\* The socket of an entry of m_connects is open, and it is the entry's own: a
\* number that comes back from accept() is never one that is still in the table,
\* so AddConnect never turns a new connection away.
EntriesOpen ==
  \A f \in Fd : table[f] # NoConn => fd[table[f]] = f /\ sock[f] = table[f]

\* Edge-triggered, and nothing is lost: what a watched connection has to be
\* read, or its end, is on its way to the loop, or the loop is about to forget
\* the connection.
NoEventLost ==
  \A f \in epoll :
    inbox[sock[f]] # <<>> \/ Left(sock[f]) =>
      \/ f \in ready \/ (loop = "remove" /\ cur_fd = f)
      \/ \E e \in events : e.fd = f /\ e.kind \in {"in", "hup"}

\* An answer goes to the client that asked, even when the worker is so late that
\* the connection was closed and other clients have connected since; and no client
\* gets the same answer twice, whatever send() did not take at first.
AnswersRight ==
  \A c \in Conn : /\ \A i \in 1..Len(answers[c]) : Sender[answers[c][i]] = c
                  /\ \A i, j \in 1..Len(answers[c]) : answers[c][i] = answers[c][j] => i = j

\* When the server has stopped, and the workers have let go of their requests,
\* every connection has been closed: the ones that left epoll after an error,
\* and the ones CloseAll did not get to, included.
ReleasedAtEnd ==
  alive /\ loop = "ended" /\ closing = "no" /\ lambda = {} => \A c \in Conn : fd[c] = NoFd

\* epoll has forgotten a descriptor before it is closed.
DelBeforeClose ==
  [][\A c \in Conn : fd[c] # NoFd /\ fd'[c] = NoFd => fd[c] \notin epoll]_vars

\* A client that sends one request after the other gets every answer, or sees
\* its connection closed, once it has been accepted: a '=' left in the buffer by
\* the request before included, which costs the client its connection.  Only who
\* left before the answer came, and refused it, may have neither: on EPOLLHUP the
\* loop forgets a connection and does not close it.
AnsweredOrClosed ==
  \A r \in Request :
    sent[r] = "all" /\ fd[Sender[r]] # NoFd ~>
      Answered(r) \/ fd[Sender[r]] = NoFd \/ peer[Sender[r]] = "reset"

\* The client has asked for something that it was never sent.
Owed(c) == \E r \in Request : Sender[r] = c /\ sent[r] # "no" /\ ~Answered(r)

\* The connection of a client that has left is released, object and descriptor,
\* unless it left with an answer due and that answer was refused: then the loop
\* may see EPOLLHUP before the end of the stream, and keeps both.
PeerGoneReleased ==
  \A c \in Conn :
    peer[c] = "closed" /\ fd[c] # NoFd ~> fd[c] = NoFd \/ (peer[c] = "reset" /\ Owed(c))

=============================================================================
