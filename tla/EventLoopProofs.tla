-------------------------- MODULE EventLoopProofs --------------------------
(***************************************************************************)
(* Safety of EventLoop for any number of connections, descriptors and      *)
(* requests, and any world.  The inductive invariant says, besides the     *)
(* types: which socket is behind which object (Sockets) and which          *)
(* connection is still to be accepted (Backlog), who refers to an object   *)
(* (Held) and what the loop knows of the one it works for (Local), how far *)
(* a request with a closure has come (Closures), what is in the buffers    *)
(* (Streams) and what a client was given, or will be (Given).              *)
(***************************************************************************)
EXTENDS EventLoop, TLAPS, SequenceTheorems

\* An object and the socket it owns know each other, a client stands behind it,
\* and epoll watches nothing that is closed.
Sockets ==
  /\ \A c \in Conn : fd[c] # NoFd => sock[fd[c]] = c /\ peer[c] # "absent"
  /\ \A f \in Fd : sock[f] # NoConn => fd[sock[f]] = f
  /\ \A f \in epoll : sock[f] # NoConn
  /\ \A c \in running : fd[c] # NoFd

\* A connection is accepted once.
Backlog ==
  /\ \A i \in 1..Len(backlog) : peer[backlog[i]] # "absent" /\ fd[backlog[i]] = NoFd
  /\ \A i, j \in 1..Len(backlog) : backlog[i] = backlog[j] => i = j

\* An object lives while somebody refers to it, and only then.
Held ==
  /\ \A c \in Conn : fd[c] # NoFd =>
       c = cur \/ (\E f \in Fd : table[f] = c) \/ (\E r \in lambda : Sender[r] = c)
  /\ cur # NoConn => fd[cur] # NoFd
  /\ \A r \in lambda : fd[Sender[r]] # NoFd

\* What the handler was called for is its own object's, and nobody else has the
\* number until it returns; when the loop waits no event is left, and when it has
\* ended it holds nothing.
Local ==
  /\ loop \in {"enqueue", "remove", "erase"} => cur_fd \in Fd /\ table[cur_fd] \in {cur, NoConn}
  /\ loop = "enqueue" => cur = Sender[request]
  /\ loop = "wait" => events = {}
  /\ loop = "ended" => cur = NoConn
  /\ loop = "ended" /\ closing = "no" => \A f \in Fd : table[f] = NoConn

\* A request in the hands of a worker has a closure, and its connection with it.
Closures ==
  /\ \A r \in Request : task[r] \in {"queued", "taken"} => r \in lambda
  /\ \A r \in checked : task[r] = "taken"

\* What is on its way from a client, or received, it has sent itself.
From(buf, c) == \A i \in 1..Len(buf) : Sender[buf[i].of] = c
Streams == \A c \in Conn : From(inbox[c], c) /\ From(recv_buf[c], c)

\* The answers to a client's requests, each at most once, when the pool is done
\* with them or has refused them.
Settled == {r \in Request : task[r] \in {"done", "refused"}}
Once(buf, c, from) ==
  /\ \A i \in 1..Len(buf) : Sender[buf[i]] = c /\ buf[i] \in from
  /\ \A i, j \in 1..Len(buf) : buf[i] = buf[j] => i = j
Given == \A c \in Conn : Once(answers[c] \o send_buf[c], c, Settled)

IInv ==
  TypeOK /\ Sockets /\ EntriesOpen /\ Backlog /\ Held /\ Local /\ Closures /\ Streams /\ Given
    /\ NoEventLost

\* In a world without signals nothing is ever closed but by the client's leave:
\* an object without an entry is not watched, or about to be forgotten by epoll.
Unlisted ==
  /\ closing = "no" /\ loop # "ended" /\ ~is_stop
  /\ loop = "erase" => cur_fd \notin epoll
  /\ \A c \in Conn : fd[c] # NoFd /\ fd[c] \in epoll =>
       table[fd[c]] = c \/ (loop = "remove" /\ cur = c /\ cur_fd = fd[c])

-----------------------------------------------------------------------------
(* Operators.                                                              *)

\* A message is decoded from the buffer whose first piece is of it.
LEMMA DecodedIsFirst ==
  ASSUME NEW buf \in Seq(Stream!Piece), NEW r \in Stream!Decoded(buf)
  PROVE  r \in Request /\ Len(buf) > 0 /\ buf[1].of = r
BY DEF Stream!Decoded, Stream!Complete

\* The start of a sequence, and what is left of it.
LEMMA Halves ==
  ASSUME NEW S, NEW s \in Seq(S), NEW n \in 0..Len(s)
  PROVE  SubSeq(s, 1, n) \in Seq(S) /\ SubSeq(s, n + 1, Len(s)) \in Seq(S)
OBVIOUS

\* No answer at all is given once.
LEMMA OnceNothing == ASSUME NEW c, NEW from PROVE Once(<<>> \o <<>>, c, from)
BY DEF Once

\* One more answer, not among those given.
LEMMA OnceAppend ==
  ASSUME NEW s \in Seq(Request), NEW c \in Conn, NEW from, Once(s, c, from),
         NEW r \in Request, r \notin from, Sender[r] = c
  PROVE  Once(Append(s, r), c, from \cup {r})
BY DEF Once

\* Fewer answers, or answers to more requests.
LEMMA OnceMore ==
  ASSUME NEW s \in Seq(Request), NEW c, NEW from, NEW more, Once(s, c, from), from \subseteq more
  PROVE  Once(s, c, more)
BY DEF Once

\* So does one of the requests before the others.
LEMMA OncePrefix ==
  ASSUME NEW s \in Seq(Request), NEW t \in Seq(Request), NEW c, NEW from, Once(s \o t, c, from)
  PROVE  Once(s \o <<>>, c, from)
<1>1. s \o <<>> = s
  OBVIOUS
<1>2. \A i \in 1..Len(s) : i \in 1..Len(s \o t) /\ (s \o t)[i] = s[i]
  OBVIOUS
<1> QED BY <1>1, <1>2 DEF Once

\* What is sent of a buffer moves from it to the client, in its place.
LEMMA SentInPlace ==
  ASSUME NEW s \in Seq(Request), NEW t \in Seq(Request), NEW n \in 0..Len(t)
  PROVE  (s \o SubSeq(t, 1, n)) \o SubSeq(t, n + 1, Len(t)) = s \o t
<1> DEFINE front == s \o SubSeq(t, 1, n)
           back == SubSeq(t, n + 1, Len(t))
<1>1. front \in Seq(Request) /\ Len(front) = Len(s) + n
  OBVIOUS
<1>2. \A i \in 1..Len(front) : front[i] = IF i <= Len(s) THEN s[i] ELSE t[i - Len(s)]
  OBVIOUS
<1>3. back \in Seq(Request) /\ Len(back) = Len(t) - n
  OBVIOUS
<1>4. \A i \in 1..Len(back) : back[i] = t[i + n]
  OBVIOUS
<1> HIDE DEF front, back
<1>5. front \o back \in Seq(Request) /\ Len(front \o back) = Len(s) + Len(t)
  <2>1. front \o back \in Seq(Request) /\ Len(front \o back) = Len(front) + Len(back)
    BY <1>1, <1>3, ConcatProperties
  <2>2. Len(s) \in Nat /\ Len(t) \in Nat /\ n \in Nat
    OBVIOUS
  <2> QED BY <1>1, <1>3, <2>1, <2>2
<1>6. \A i \in 1..Len(front \o back) : (front \o back)[i] =
        IF i <= Len(s) THEN s[i] ELSE t[i - Len(s)]
  <2> TAKE i \in 1..Len(front \o back)
  <2>1. CASE i <= Len(front)
    BY <1>1, <1>2, <1>3, <1>5, <2>1
  <2>2. CASE i > Len(front)
    <3>1. (front \o back)[i] = back[i - Len(front)] /\ i - Len(front) \in 1..Len(back)
      BY <1>1, <1>3, <1>5, <2>2, ConcatProperties
    <3>2. back[i - Len(front)] = t[(i - Len(front)) + n]
      BY <1>4, <3>1
    <3>3. (i - Len(front)) + n = i - Len(s) /\ i > Len(s)
      <4>1. Len(s) \in Nat /\ n \in Nat /\ i \in Nat
        <5>1. Len(front \o back) \in Nat /\ Len(s) \in Nat /\ n \in Nat
          BY <1>5
        <5> HIDE DEF front, back
        <5> QED BY <5>1
      <4> QED BY <1>1, <2>2, <4>1
    <3>4. ~(i <= Len(s))
      <4>1. Len(s) \in Nat /\ i \in Nat
        BY <1>5
      <4> QED BY <3>3, <4>1
    <3>5. (front \o back)[i] = t[i - Len(s)]
      BY <3>1, <3>2, <3>3
    <3> QED BY <3>4, <3>5
  <2> QED BY <1>1, <1>5, <2>1, <2>2
<1>7. s \o t \in Seq(Request) /\ Len(s \o t) = Len(s) + Len(t)
  OBVIOUS
<1>8. \A i \in 1..Len(s \o t) : (s \o t)[i] = IF i <= Len(s) THEN s[i] ELSE t[i - Len(s)]
  OBVIOUS
<1>9. front \o back = s \o t
  BY <1>5, <1>6, <1>7, <1>8, SeqEqual
<1> QED BY <1>9 DEF front, back

\* What is appended to the end of two lists is appended to the second.
LEMMA AppendInPlace ==
  ASSUME NEW s \in Seq(Request), NEW t \in Seq(Request), NEW r \in Request
  PROVE  s \o Append(t, r) = Append(s \o t, r) /\ Append(t, r) \in Seq(Request)
OBVIOUS

\* A client's pieces are its own one by one.
LEMMA FromAppend ==
  ASSUME NEW buf \in Seq(Stream!Piece), NEW c, From(buf, c), NEW piece \in Stream!Piece,
         Sender[piece.of] = c
  PROVE  From(Append(buf, piece), c) /\ Append(buf, piece) \in Seq(Stream!Piece)
BY DEF From

\* Two buffers from one client are one buffer from it.
LEMMA FromConcat ==
  ASSUME NEW s \in Seq(Stream!Piece), NEW t \in Seq(Stream!Piece), NEW c, From(s, c), From(t, c)
  PROVE  From(s \o t, c) /\ s \o t \in Seq(Stream!Piece)
BY DEF From

\* A buffer without a piece, and a sequence without connections.
LEMMA NoPiece == \A c : <<>> \in Seq(Stream!Piece) /\ From(<<>>, c)
BY DEF From

\* The lists a connection begins with.
LEMMA Empty == <<>> \in Seq(Conn) /\ <<>> \in Seq(Request) /\ Len(<<>>) = 0
OBVIOUS

-----------------------------------------------------------------------------
(* Types.                                                                  *)

\* What queues up is of its kind.
LEMMA BuffersTyped ==
  ASSUME TypeOK
  PROVE  /\ backlog \in Seq(Conn)
         /\ inbox \in [Conn -> Seq(Stream!Piece)] /\ recv_buf \in [Conn -> Seq(Stream!Piece)]
         /\ answers \in [Conn -> Seq(Request)] /\ send_buf \in [Conn -> Seq(Request)]
BY DEF TypeOK

\* A request has its place in the pool.
LEMMA TaskTyped == ASSUME TypeOK PROVE task \in [Request -> Pool!Progress]
BY DEF TypeOK

\* Destroy keeps the types of what it changes.
LEMMA DestroyTypes ==
  ASSUME TypeOK, NEW closed \in SUBSET Conn, NEW gone \in SUBSET Conn, Destroy(closed, gone)
  PROVE  /\ fd' \in [Conn -> Fd \cup {NoFd}] /\ sock' \in [Fd -> Conn \cup {NoConn}]
         /\ epoll' \subseteq Fd /\ ready' \subseteq epoll' /\ running' \subseteq Conn
         /\ recv_buf' \in [Conn -> Seq(Stream!Piece)] /\ send_buf' \in [Conn -> Seq(Request)]
<1>1. <<>> \in Seq(Stream!Piece) /\ <<>> \in Seq(Request)
  OBVIOUS
<1>2. recv_buf' \in [Conn -> Seq(Stream!Piece)] /\ send_buf' \in [Conn -> Seq(Request)]
  BY <1>1 DEF Destroy, TypeOK
<1>3. /\ fd' \in [Conn -> Fd \cup {NoFd}] /\ sock' \in [Fd -> Conn \cup {NoConn}]
      /\ epoll' \subseteq Fd /\ ready' \subseteq epoll' /\ running' \subseteq Conn
  BY DEF Destroy, TypeOK
<1> QED BY <1>2, <1>3

\* Write keeps the types of what it changes.
LEMMA WriteTypes ==
  ASSUME TypeOK, NEW c \in Conn, NEW r \in Request, Write(c, r), fd[c] # NoFd
  PROVE  answers' \in [Conn -> Seq(Request)] /\ send_buf' \in [Conn -> Seq(Request)] /\ alive' \in BOOLEAN
<1> DEFINE buf == Append(send_buf[c], r)
<1>1. buf \in Seq(Request) /\ <<>> \in Seq(Request)
  BY DEF TypeOK
<1> HIDE DEF buf
<1>2. ASSUME NEW n \in 0..Len(buf), Far(c) = "open",
             answers' = [answers EXCEPT ![sock[fd[c]]] = @ \o SubSeq(buf, 1, n)],
             send_buf' = [send_buf EXCEPT ![c] = Unsent(buf, n)], UNCHANGED alive
      PROVE  answers' \in [Conn -> Seq(Request)] /\ send_buf' \in [Conn -> Seq(Request)] /\ alive' \in BOOLEAN
  <2>1. sock[fd[c]] \in Conn
    BY <1>2 DEF TypeOK, Far
  <2>2. SubSeq(buf, 1, n) \in Seq(Request) /\ Unsent(buf, n) \in Seq(Request)
    BY <1>1, Halves DEF Unsent
  <2>3. answers[sock[fd[c]]] \o SubSeq(buf, 1, n) \in Seq(Request)
    <3>1. answers[sock[fd[c]]] \in Seq(Request)
      BY <2>1, BuffersTyped
    <3> QED BY <2>2, <3>1
  <2>4. answers' \in [Conn -> Seq(Request)]
    BY <1>2, <2>3, BuffersTyped
  <2>5. send_buf' \in [Conn -> Seq(Request)]
    BY <1>2, <2>2, BuffersTyped
  <2> QED BY <1>2, <2>4, <2>5 DEF TypeOK
<1>3. CASE Far(c) = "open"
  BY <1>2, <1>3 DEF Write, buf
<1>4. CASE Far(c) # "open"
  <2>1. /\ answers' = answers /\ alive' \in BOOLEAN
        /\ send_buf' = [send_buf EXCEPT ![c] = <<>>] \/ send_buf' = [send_buf EXCEPT ![c] = buf]
    BY <1>4 DEF Write, buf, TypeOK
  <2> QED BY <1>1, <2>1, BuffersTyped
<1> QED BY <1>3, <1>4

\* A connection stays as its client left it, but that one which was closed is sent
\* something.
PeersKept == \A d \in Conn : peer'[d] = peer[d] \/ (peer[d] = "closed" /\ peer'[d] = "deaf")

\* That is what Write does to them.
LEMMA WritePeers ==
  ASSUME TypeOK, NEW c \in Conn, NEW r \in Request, Write(c, r)
  PROVE  PeersKept /\ peer' \in [Conn -> {"absent", "open", "closed", "deaf", "reset"}]
<1>1. CASE UNCHANGED peer
  BY <1>1 DEF TypeOK, PeersKept
<1>2. CASE peer' # peer
  <2>1. /\ sock[fd[c]] # NoConn /\ peer[sock[fd[c]]] \in {"closed", "deaf"}
        /\ peer' = [peer EXCEPT ![sock[fd[c]]] = "deaf"]
    BY <1>2 DEF Write, Far
  <2> QED BY <2>1 DEF TypeOK, PeersKept
<1> QED BY <1>1, <1>2

\* Close keeps the types of what it changes.
LEMMA CloseTypes ==
  ASSUME TypeOK, NEW c \in Conn, Close(c)
  PROVE  /\ table' \in [Fd -> Conn \cup {NoConn}] /\ running' \subseteq Conn
         /\ recv_buf' \in [Conn -> Seq(Stream!Piece)] /\ send_buf' \in [Conn -> Seq(Request)]
<1>1. <<>> \in Seq(Stream!Piece) /\ <<>> \in Seq(Request)
  OBVIOUS
<1> QED BY <1>1 DEF Close, HandleClose, TypeOK

\* Each step keeps the types.
LEMMA TypesInductive == IInv /\ [Next]_vars => TypeOK'
<1> SUFFICES ASSUME IInv, [Next]_vars PROVE TypeOK'
  OBVIOUS
<1> USE ConnAssumption, RequestAssumption DEF IInv
<1>1. ASSUME NEW c \in Conn, Arrive(c) PROVE TypeOK'
  <2>1. backlog' \in Seq(Conn)
    BY <1>1, BuffersTyped DEF Arrive
  <2> QED BY <1>1, <2>1 DEF TypeOK, Arrive, objects, cycle, work
<1>2. ASSUME NEW c \in Conn, NEW how, Depart(c, how) \/ Refused(c) PROVE TypeOK'
  <2>1. CASE Depart(c, how)
    BY <2>1 DEF TypeOK, Depart, Edge, objects, cycle, work
  <2>2. CASE Refused(c)
    BY <2>2 DEF TypeOK, Refused, Edge, objects, cycle, work
  <2> QED BY <1>2, <2>1, <2>2
<1>3. ASSUME NEW r \in Request, Send(r) PROVE TypeOK'
  <2>1. PICK part \in {"whole", "bit", "front", "rest", "text", "pad"}, amount \in {"all", "part", "text"} :
          Transmit(r, part, amount)
    BY <1>3 DEF Send
  <2>2. inbox' \in [Conn -> Seq(Stream!Piece)]
    <3>1. [of |-> r, part |-> part] \in Stream!Piece
      BY DEF Stream!Piece
    <3> DEFINE piece == [of |-> r, part |-> part]
    <3>2. Append(inbox[Sender[r]], piece) \in Seq(Stream!Piece)
      <4>1. inbox[Sender[r]] \in Seq(Stream!Piece)
        BY BuffersTyped
      <4> QED BY <3>1, <4>1
    <3>3. inbox' = [inbox EXCEPT ![Sender[r]] = Append(@, piece)] \/ inbox' = inbox
      BY <2>1 DEF Transmit
    <3> HIDE DEF piece
    <3> QED BY <3>2, <3>3, BuffersTyped
  <2> QED BY <2>1, <2>2 DEF TypeOK, Transmit, Edge, objects, cycle, work
<1>4. CASE Wait
  <2>1. events' \subseteq [fd : Fd \cup {Listen}, kind : {"in", "out", "hup"}]
    BY <1>4 DEF Wait, Kind, TypeOK
  <2> QED BY <1>4, <2>1 DEF TypeOK, Wait, LoopAt, objects, work
<1>5. ASSUME NEW f \in Fd, HandleError(f) PROVE TypeOK'
  BY <1>5 DEF TypeOK, HandleError, Event, LoopAt, Returned, RemoveFromEpoll, objects, work
<1>6. ASSUME NEW f \in Fd, HandleWritable(f) PROVE TypeOK'
  BY <1>6 DEF TypeOK, HandleWritable, Event, LoopAt, Returned, kernel, objects, work
<1>7. ASSUME NEW f \in Fd, HandleStale(f) PROVE TypeOK'
  BY <1>7 DEF TypeOK, HandleStale, Event, LoopAt, kernel, objects, work
<1>8. ASSUME NEW f \in Fd, HandleEnd(f) PROVE TypeOK'
  <2>1. table[f] \in Conn
    BY <1>8 DEF TypeOK, HandleEnd
  <2>2. /\ table' \in [Fd -> Conn \cup {NoConn}] /\ running' \subseteq Conn
        /\ recv_buf' \in [Conn -> Seq(Stream!Piece)] /\ send_buf' \in [Conn -> Seq(Request)]
    BY <1>8, <2>1, CloseTypes DEF HandleEnd
  <2>3. inbox' \in [Conn -> Seq(Stream!Piece)]
    BY <1>8, NoPiece DEF TypeOK, HandleEnd
  <2> QED BY <1>8, <2>1, <2>2, <2>3 DEF TypeOK, HandleEnd, Close, Event, LoopAt, work
<1>9. ASSUME NEW f \in Fd, HandleData(f) PROVE TypeOK'
  <2> DEFINE c == table[f]
             buf == recv_buf[c] \o SubSeq(inbox[c], 1, Len(inbox[c]) - Len(Unread(c)))
  <2>1. c \in Conn
    BY <1>9 DEF TypeOK, HandleData
  <2>2. buf \in Seq(Stream!Piece)
    <3>1. recv_buf[c] \in Seq(Stream!Piece) /\ inbox[c] \in Seq(Stream!Piece)
      BY <2>1, BuffersTyped
    <3> HIDE DEF c
    <3>2. SubSeq(inbox[c], 1, Len(inbox[c]) - Len(Unread(c))) \in Seq(Stream!Piece)
      BY <3>1 DEF Unread
    <3> QED BY <3>1, <3>2
  <2>3. inbox' \in [Conn -> Seq(Stream!Piece)]
    BY <1>9, NoPiece, BuffersTyped DEF HandleData, Unread
  <2>4. recv_buf' \in [Conn -> Seq(Stream!Piece)]
    <3>1. recv_buf' = [recv_buf EXCEPT ![c] = buf] \/ recv_buf' = [recv_buf EXCEPT ![c] = <<>>]
            \/ recv_buf' = recv_buf
      BY <1>9 DEF HandleData
    <3> HIDE DEF c, buf
    <3> QED BY <2>1, <2>2, <3>1, NoPiece, BuffersTyped
  <2>5. \A r \in Stream!Decoded(buf) : r \in Request
    BY <2>2, DecodedIsFirst
  <2>6. request' \in (IF loop' = "enqueue" THEN Request ELSE {NoRequest}) /\ loop' \in {"return", "remove", "enqueue"}
    <3> HIDE DEF buf
    <3>1. request = NoRequest
      BY <1>9 DEF TypeOK, HandleData, Event, LoopAt
    <3> QED BY <1>9, <2>5, <3>1 DEF HandleData, buf
  <2>7. cur' = c /\ cur_fd' = f /\ events' \subseteq events
    BY <1>9 DEF HandleData, Event
  <2> HIDE DEF buf
  <2>8. UNCHANGED <<peer, sent, listening, backlog, arrived, sock, epoll, ready, answers,
                    fd, running, send_buf, table, is_stop, closing, task, pool, pool_running,
                    lambda, checked, alive>>
    BY <1>9 DEF HandleData, work
  <2> QED BY <2>1, <2>3, <2>4, <2>6, <2>7, <2>8 DEF TypeOK
<1>10. CASE AcceptFails
  BY <1>10 DEF TypeOK, AcceptFails, Event, LoopAt, Returned, kernel, objects, work
<1>11. CASE HandleNewConnection
  <2>1. Head(backlog) \in Conn /\ Tail(backlog) \in Seq(Conn)
    BY <1>11 DEF TypeOK, HandleNewConnection
  <2>2. PICK f \in Fd :
          /\ sock' = [sock EXCEPT ![f] = Head(backlog)] /\ fd' = [fd EXCEPT ![Head(backlog)] = f]
          /\ running' = IF peer[Head(backlog)] = "reset" THEN running ELSE running \cup {Head(backlog)}
          /\ table' = [table EXCEPT ![f] = IF @ = NoConn THEN Head(backlog) ELSE @]
          /\ epoll' = epoll \cup {f} /\ ready' = ready \cup {f}
    BY <1>11 DEF HandleNewConnection
  <2>3. /\ fd' \in [Conn -> Fd \cup {NoFd}] /\ sock' \in [Fd -> Conn \cup {NoConn}]
        /\ table' \in [Fd -> Conn \cup {NoConn}]
        /\ epoll' \subseteq Fd /\ ready' \subseteq epoll' /\ running' \subseteq Conn
    BY <2>1, <2>2 DEF TypeOK
  <2>4. events' \subseteq events
    BY <1>11 DEF HandleNewConnection, Event
  <2>5. UNCHANGED <<cur_fd, request, closing>> /\ loop = "next" /\ loop' = "return" /\ cur' = Head(backlog)
    BY <1>11 DEF HandleNewConnection, Event, LoopAt
  <2>6. backlog' = Tail(backlog) /\ UNCHANGED <<peer, sent, listening, arrived, inbox, answers, recv_buf, send_buf,
                 is_stop, work, alive>>
    BY <1>11 DEF HandleNewConnection
  <2> QED BY <2>1, <2>3, <2>4, <2>5, <2>6 DEF TypeOK, work
<1>12. CASE EnqueueAccepts
  <2>1. task' \in [Request -> Pool!Progress]
    BY <1>12 DEF TypeOK, EnqueueAccepts, Pool!Accept, Pool!Move, Pool!Progress
  <2>2. recv_buf' \in [Conn -> Seq(Stream!Piece)]
    BY <1>12, NoPiece DEF TypeOK, EnqueueAccepts
  <2> QED BY <1>12, <2>1, <2>2 DEF TypeOK, EnqueueAccepts, LoopAt, Pool!Accept, kernel
<1>13. CASE EnqueueRefuses
  <2>1. task' \in [Request -> Pool!Progress]
    BY <1>13 DEF TypeOK, EnqueueRefuses, Pool!Refuse, Pool!Move, Pool!Progress
  <2>2. recv_buf' \in [Conn -> Seq(Stream!Piece)]
    BY <1>13, NoPiece DEF TypeOK, EnqueueRefuses
  <2>3. /\ answers' \in [Conn -> Seq(Request)] /\ send_buf' \in [Conn -> Seq(Request)] /\ alive' \in BOOLEAN
        /\ peer' \in [Conn -> {"absent", "open", "closed", "deaf", "reset"}]
    <3>1. CASE cur \in running
      <4>1. cur \in Conn /\ request \in Request /\ fd[cur] # NoFd
        BY <1>13, <3>1 DEF TypeOK, Sockets, EnqueueRefuses, LoopAt
      <4> QED BY <1>13, <3>1, <4>1, WriteTypes, WritePeers DEF EnqueueRefuses
    <3>2. CASE cur \notin running
      BY <1>13, <3>2 DEF TypeOK, EnqueueRefuses
    <3> QED BY <3>1, <3>2
  <2> QED BY <1>13, <2>1, <2>2, <2>3 DEF TypeOK, EnqueueRefuses, LoopAt, Pool!Refuse
<1>14. CASE Remove
  BY <1>14 DEF TypeOK, Remove, LoopAt, RemoveFromEpoll, objects, work
<1>15. CASE Erase
  BY <1>15 DEF TypeOK, Erase, LoopAt, kernel, work
<1>16. CASE Return
  <2> DEFINE gone == Unheld(table, cur', lambda)
  <2>1. gone \in SUBSET Conn /\ Destroy({}, gone)
    BY <1>16 DEF Return, Unheld
  <2> HIDE DEF gone
  <2>2. /\ fd' \in [Conn -> Fd \cup {NoFd}] /\ sock' \in [Fd -> Conn \cup {NoConn}]
        /\ epoll' \subseteq Fd /\ ready' \subseteq epoll' /\ running' \subseteq Conn
        /\ recv_buf' \in [Conn -> Seq(Stream!Piece)] /\ send_buf' \in [Conn -> Seq(Request)]
    BY <2>1, DestroyTypes
  <2> QED BY <1>16, <2>2 DEF TypeOK, Return, LoopAt, Returned, DropLocal, work
<1>17. ASSUME NEW r \in Request, StartTask(r) PROVE TypeOK'
  BY <1>17 DEF TypeOK, StartTask, Pool!Take, Pool!Move, Pool!Progress, kernel, objects, cycle
<1>18. ASSUME NEW r \in Request, CheckRunning(r) PROVE TypeOK'
  <2>1. task' \in [Request -> Pool!Progress]
    BY <1>18, TaskTyped DEF CheckRunning, Pool!Finish, Pool!Move, Pool!Progress
  <2>2. checked' \subseteq Request /\ pool' = pool
    BY <1>18 DEF CheckRunning, Pool!Finish, TypeOK
  <2> QED BY <1>18, <2>1, <2>2 DEF TypeOK, CheckRunning, kernel, objects, cycle
<1>19. ASSUME NEW r \in Request, SendRes(r) PROVE TypeOK'
  <2>1. Sender[r] \in Conn /\ fd[Sender[r]] # NoFd
    BY <1>19 DEF SendRes, Closures, Held
  <2>2. answers' \in [Conn -> Seq(Request)] /\ send_buf' \in [Conn -> Seq(Request)] /\ alive' \in BOOLEAN
    BY <1>19, <2>1, WriteTypes DEF SendRes
  <2>3. peer' \in [Conn -> {"absent", "open", "closed", "deaf", "reset"}]
    BY <1>19, <2>1, WritePeers DEF SendRes
  <2> QED BY <1>19, <2>2, <2>3 DEF TypeOK, SendRes, Pool!Finish, Pool!Move, Pool!Progress, cycle
<1>20. ASSUME NEW r \in Request, DropTask(r) PROVE TypeOK'
  <2> DEFINE gone == Unheld(table, cur, lambda')
  <2>1. gone \in SUBSET Conn /\ Destroy({}, gone)
    BY <1>20 DEF DropTask, Unheld
  <2> HIDE DEF gone
  <2> QED BY <1>20, <2>1, DestroyTypes DEF TypeOK, DropTask, cycle
<1>21. CASE Interrupt
  BY <1>21 DEF TypeOK, Interrupt, kernel, objects, work
<1>22. CASE Terminate \/ TerminateHangs
  BY <1>22, Empty DEF TypeOK, Terminate, TerminateHangs, StopListening, objects, work
<1>23. CASE LoopEnds
  BY <1>23, Empty DEF TypeOK, LoopEnds, LoopAt, StopListening, objects, work
<1>24. CASE CloseOne
  <2>1. PICK f \in Fd : /\ table[f] \in running /\ HandleClose(table[f])
                        /\ Destroy({table[f]}, Unheld(table', cur, lambda))
    BY <1>24 DEF CloseOne
  <2> DEFINE gone == Unheld(table', cur, lambda)
  <2>2. gone \in SUBSET Conn /\ {table[f]} \in SUBSET Conn /\ Destroy({table[f]}, gone)
    BY <2>1 DEF Unheld, TypeOK
  <2> HIDE DEF gone
  <2> QED BY <1>24, <2>1, <2>2, DestroyTypes DEF TypeOK, CloseOne, HandleClose, work
<1>25. CASE CloseAllCrashes
  BY <1>25 DEF TypeOK, CloseAllCrashes, kernel, objects, cycle, work
<1>26. CASE CloseAllEnds
  <2> DEFINE gone == Unheld(table', cur, lambda)
  <2>1. gone \in SUBSET Conn /\ Destroy({}, gone)
    BY <1>26 DEF CloseAllEnds, Unheld
  <2> HIDE DEF gone
  <2> QED BY <1>26, <2>1, DestroyTypes DEF TypeOK, CloseAllEnds, ClearTable, work
<1>27. CASE ShutDown
  BY <1>27 DEF TypeOK, ShutDown, Pool!CloseDrained, Pool!Join, kernel, objects, cycle
<1>28. CASE UNCHANGED vars
  BY <1>28 DEF TypeOK, vars, kernel, objects, cycle, work
<1> QED
  BY <1>1, <1>2, <1>3, <1>4, <1>5, <1>6, <1>7, <1>8, <1>9, <1>10, <1>11, <1>12, <1>13, <1>14,
     <1>15, <1>16, <1>17, <1>18, <1>19, <1>20, <1>21, <1>22, <1>23, <1>24, <1>25, <1>26, <1>27, <1>28
  DEF Next, Clients, Loop, HandleEvent, HandleMessageSync

-----------------------------------------------------------------------------
(* Sockets, entries and references.                                        *)

\* The steps that touch no socket, no object's life and no entry.
Quiet ==
  \/ Wait \/ AcceptFails \/ EnqueueAccepts \/ EnqueueRefuses
  \/ Interrupt \/ CloseAllCrashes \/ ShutDown
  \/ \E f \in Fd : HandleWritable(f) \/ HandleStale(f) \/ HandleData(f)
  \/ \E r \in Request : Send(r) \/ StartTask(r) \/ CheckRunning(r) \/ SendRes(r)

\* The steps that destroy the objects nobody refers to any more.
Releasing == Return \/ CloseOne \/ CloseAllEnds \/ \E r \in Request : DropTask(r)

\* What a quiet step keeps.
LEMMA QuietKeeps ==
  ASSUME TypeOK, Quiet PROVE UNCHANGED <<backlog, sock, epoll, fd, running, table>> /\ PeersKept
<1> DEFINE Kept == UNCHANGED <<backlog, sock, epoll, fd, running, table>>
<1>0. UNCHANGED peer => PeersKept
  BY DEF PeersKept
<1>1. ASSUME NEW f \in Fd, HandleData(f) PROVE Kept /\ UNCHANGED peer
  BY <1>1 DEF HandleData
<1>2. ASSUME NEW f \in Fd, HandleWritable(f) \/ HandleStale(f) PROVE Kept /\ UNCHANGED peer
  BY <1>2 DEF HandleWritable, HandleStale, kernel, objects
<1>3. ASSUME NEW r \in Request, Send(r) PROVE Kept /\ UNCHANGED peer
  BY <1>3 DEF Send, Transmit, objects
<1>4. ASSUME NEW r \in Request, StartTask(r) \/ CheckRunning(r) PROVE Kept /\ UNCHANGED peer
  BY <1>4 DEF StartTask, CheckRunning, kernel, objects
<1>5. ASSUME \/ Wait \/ AcceptFails \/ EnqueueAccepts
             \/ Interrupt \/ CloseAllCrashes \/ ShutDown
      PROVE  Kept /\ UNCHANGED peer
  BY <1>5 DEF Wait, AcceptFails, EnqueueAccepts, Interrupt, CloseAllCrashes, ShutDown, kernel, objects
<1>6. ASSUME NEW r \in Request, SendRes(r) PROVE Kept /\ PeersKept
  <2>1. Sender[r] \in Conn
    BY RequestAssumption
  <2> QED BY <1>6, <2>1, WritePeers DEF SendRes
<1>7. CASE EnqueueRefuses
  <2>1. Kept
    BY <1>7 DEF EnqueueRefuses
  <2>2. CASE cur \in running
    <3>1. cur \in Conn /\ request \in Request /\ Write(cur, request)
      BY <1>7, <2>2 DEF EnqueueRefuses, LoopAt, TypeOK
    <3> QED BY <2>1, <3>1, WritePeers
  <2>3. CASE cur \notin running
    BY <1>0, <1>7, <2>1, <2>3 DEF EnqueueRefuses
  <2> QED BY <2>2, <2>3
<1> QED BY <1>0, <1>1, <1>2, <1>3, <1>4, <1>5, <1>6, <1>7 DEF Quiet

\* What a step that destroys objects does: those nobody will refer to are
\* destroyed, some more are closed, and nobody refers to more than before.
LEMMA ReleasingDestroys ==
  ASSUME TypeOK, Releasing
  PROVE  /\ \E closed \in SUBSET Conn : Destroy(closed, Unheld(table', cur', lambda'))
         /\ UNCHANGED <<peer, sent, backlog, inbox, answers, request, is_stop, task, checked>>
         /\ \A f \in Fd : table'[f] \in {table[f], NoConn}
         /\ cur' \in {cur, NoConn} /\ lambda' \subseteq lambda
<1> USE ConnAssumption
<1>1. CASE Return
  BY <1>1 DEF Return, DropLocal, work
<1>2. CASE CloseOne
  <2>1. PICK f \in Fd : /\ table[f] \in running /\ HandleClose(table[f])
                        /\ Destroy({table[f]}, Unheld(table', cur, lambda))
    BY <1>2 DEF CloseOne
  <2>2. {table[f]} \in SUBSET Conn
    BY <2>1 DEF TypeOK
  <2> QED BY <1>2, <2>1, <2>2 DEF CloseOne, HandleClose, TypeOK, work
<1>3. CASE CloseAllEnds
  BY <1>3 DEF CloseAllEnds, ClearTable, TypeOK, work
<1>4. ASSUME NEW r \in Request, DropTask(r)
      PROVE  /\ \E closed \in SUBSET Conn : Destroy(closed, Unheld(table', cur', lambda'))
             /\ UNCHANGED <<peer, sent, backlog, inbox, answers, request, is_stop, task, checked>>
             /\ \A g \in Fd : table'[g] \in {table[g], NoConn}
             /\ cur' \in {cur, NoConn} /\ lambda' \subseteq lambda
  BY <1>4 DEF DropTask, cycle
<1> QED BY <1>1, <1>2, <1>3, <1>4 DEF Releasing

\* What Unheld leaves out: the handler's object, those with an entry and those
\* of closures.
LEMMA UnheldIs ==
  ASSUME NEW entries, NEW local, NEW closures, NEW c \in Conn
  PROVE  c \in Unheld(entries, local, closures) <=>
           /\ fd[c] # NoFd /\ c # local
           /\ \A f \in Fd : entries[f] # c
           /\ \A r \in closures : Sender[r] # c
BY DEF Unheld

\* Destroying objects leaves the others with their sockets.
LEMMA DestroySockets ==
  ASSUME TypeOK, Sockets, NEW closed \in SUBSET Conn, NEW gone \in SUBSET Conn,
         \A c \in gone : fd[c] # NoFd, Destroy(closed, gone), peer' = peer
  PROVE  Sockets'
<1> USE ConnAssumption
<1> DEFINE shut == {fd[c] : c \in gone}
<1>1. /\ fd' = [c \in Conn |-> IF c \in gone THEN NoFd ELSE fd[c]]
      /\ sock' = [f \in Fd |-> IF f \in shut THEN NoConn ELSE sock[f]]
      /\ epoll' = epoll \ shut /\ running' = running \ (closed \cup gone)
  BY DEF Destroy
<1>2. \A c \in Conn : fd[c] \in shut => c \in gone
  BY DEF Sockets
<1>3. \A f \in shut : sock[f] \in gone
  BY DEF Sockets
<1> HIDE DEF shut
<1>4. ASSUME NEW c \in Conn, fd'[c] # NoFd PROVE sock'[fd'[c]] = c /\ peer'[c] # "absent"
  <2>1. c \notin gone /\ fd'[c] = fd[c] /\ fd[c] \in Fd /\ fd[c] \notin shut
    BY <1>1, <1>2, <1>4 DEF TypeOK
  <2> QED BY <1>1, <2>1, <1>4 DEF Sockets
<1>5. ASSUME NEW f \in Fd, sock'[f] # NoConn PROVE fd'[sock'[f]] = f
  <2>1. f \notin shut /\ sock'[f] = sock[f] /\ sock[f] \in Conn /\ fd[sock[f]] = f
    BY <1>1, <1>5 DEF Sockets, TypeOK
  <2>2. sock[f] \notin gone
    BY <2>1 DEF shut
  <2> QED BY <1>1, <2>1, <2>2
<1>6. \A f \in epoll' : sock'[f] # NoConn
  BY <1>1 DEF Sockets, TypeOK
<1>7. \A c \in running' : fd'[c] # NoFd
  BY <1>1 DEF Sockets, TypeOK
<1> QED BY <1>4, <1>5, <1>6, <1>7 DEF Sockets

\* Each step keeps Sockets.
LEMMA SocketsInductive == IInv /\ [Next]_vars => Sockets'
<1> SUFFICES ASSUME IInv, [Next]_vars PROVE Sockets'
  OBVIOUS
<1> USE ConnAssumption, RequestAssumption DEF IInv
<1>1. CASE Quiet \/ UNCHANGED vars
  <2>1. UNCHANGED <<sock, epoll, fd, running>> /\ PeersKept
    BY <1>1, QuietKeeps DEF PeersKept, vars, kernel, objects
  <2> QED BY <2>1 DEF Sockets, PeersKept
<1>2. CASE Releasing
  <2>1. PICK closed \in SUBSET Conn : Destroy(closed, Unheld(table', cur', lambda'))
    BY <1>2, ReleasingDestroys
  <2> DEFINE gone == Unheld(table', cur', lambda')
  <2>2. gone \in SUBSET Conn /\ \A c \in gone : fd[c] # NoFd
    BY DEF Unheld
  <2>3. peer' = peer /\ Destroy(closed, gone)
    BY <1>2, <2>1, ReleasingDestroys
  <2> HIDE DEF gone
  <2> QED BY <2>2, <2>3, DestroySockets
<1>3. ASSUME NEW c \in Conn, Arrive(c) PROVE Sockets'
  BY <1>3 DEF Sockets, TypeOK, Arrive, objects
<1>4. ASSUME NEW c \in Conn, NEW how, Depart(c, how) \/ Refused(c) PROVE Sockets'
  <2>1. UNCHANGED <<sock, epoll, fd, running>> /\ \A d \in Conn : peer[d] # "absent" => peer'[d] # "absent"
    BY <1>4 DEF TypeOK, Depart, Refused, objects
  <2> QED BY <2>1 DEF Sockets
<1>5. ASSUME NEW f \in Fd, HandleError(f) PROVE Sockets'
  BY <1>5 DEF Sockets, HandleError, RemoveFromEpoll, objects
<1>6. CASE HandleNewConnection
  <2> DEFINE c == Head(backlog)
  <2>1. c \in Conn /\ fd[c] = NoFd /\ peer[c] # "absent"
    <3>1. 1 \in 1..Len(backlog) /\ c = backlog[1]
      BY <1>6, BuffersTyped DEF HandleNewConnection
    <3>2. backlog[1] \in Conn
      BY <3>1, BuffersTyped
    <3> HIDE DEF c
    <3> QED BY <3>1, <3>2 DEF Backlog
  <2> HIDE DEF c
  <2>2. PICK f \in Fd :
          /\ sock[f] = NoConn
          /\ sock' = [sock EXCEPT ![f] = c] /\ fd' = [fd EXCEPT ![c] = f]
          /\ running' \subseteq running \cup {c} /\ epoll' = epoll \cup {f} /\ UNCHANGED peer
    BY <1>6 DEF HandleNewConnection, c
  <2>3. ASSUME NEW d \in Conn, fd'[d] # NoFd PROVE sock'[fd'[d]] = d /\ peer'[d] # "absent"
    <3>1. CASE d = c
      BY <2>1, <2>2, <3>1 DEF TypeOK
    <3>2. CASE d # c
      <4>1. fd'[d] = fd[d] /\ fd[d] \in Fd /\ fd[d] # f
        BY <2>2, <2>3, <3>2 DEF Sockets, TypeOK
      <4> QED BY <2>2, <2>3, <4>1 DEF Sockets, TypeOK
    <3> QED BY <3>1, <3>2
  <2>4. ASSUME NEW g \in Fd, sock'[g] # NoConn PROVE fd'[sock'[g]] = g
    <3>1. CASE g = f
      BY <2>1, <2>2, <3>1 DEF TypeOK
    <3>2. CASE g # f
      <4>1. sock'[g] = sock[g] /\ sock[g] \in Conn /\ fd[sock[g]] = g /\ g # NoFd
        BY <2>2, <2>4, <3>2 DEF Sockets, TypeOK
      <4>2. sock[g] # c
        BY <2>1, <4>1
      <4> QED BY <2>2, <4>1, <4>2 DEF TypeOK
    <3> QED BY <3>1, <3>2
  <2>5. ASSUME NEW g \in epoll' PROVE sock'[g] # NoConn
    BY <2>1, <2>2 DEF Sockets, TypeOK
  <2>6. ASSUME NEW d \in running' PROVE fd'[d] # NoFd
    BY <2>1, <2>2 DEF Sockets, TypeOK
  <2> QED BY <2>3, <2>4, <2>5, <2>6 DEF Sockets
<1>7. ASSUME NEW f \in Fd, HandleEnd(f) PROVE Sockets'
  BY <1>7 DEF Sockets, HandleEnd, Close
<1>8. CASE Remove \/ Erase \/ Terminate \/ TerminateHangs \/ LoopEnds
  BY <1>8 DEF Sockets, Remove, RemoveFromEpoll, Erase, Terminate, TerminateHangs, LoopEnds, StopListening, kernel, objects
<1> QED
  BY <1>1, <1>2, <1>3, <1>4, <1>5, <1>6, <1>7, <1>8
  DEF Next, Clients, Loop, HandleEvent, HandleMessageSync, Quiet, Releasing

\* Each step keeps EntriesOpen: in particular the number a new connection gets
\* is not that of an entry.
LEMMA EntriesInductive == IInv /\ [Next]_vars => EntriesOpen'
<1> SUFFICES ASSUME IInv, [Next]_vars PROVE EntriesOpen'
  OBVIOUS
<1> USE ConnAssumption, RequestAssumption DEF IInv
<1>1. CASE Quiet \/ UNCHANGED vars
  <2>1. UNCHANGED <<sock, fd, table>>
    BY <1>1, QuietKeeps DEF vars, kernel, objects
  <2> QED BY <2>1 DEF EntriesOpen
<1>2. CASE Releasing
  <2>1. PICK closed \in SUBSET Conn : Destroy(closed, Unheld(table', cur', lambda'))
    BY <1>2, ReleasingDestroys
  <2> DEFINE gone == Unheld(table', cur', lambda')
             shut == {fd[c] : c \in gone}
  <2>2. /\ fd' = [c \in Conn |-> IF c \in gone THEN NoFd ELSE fd[c]]
        /\ sock' = [f \in Fd |-> IF f \in shut THEN NoConn ELSE sock[f]]
    BY <2>1 DEF Destroy
  <2>3. ASSUME NEW f \in Fd, table'[f] # NoConn PROVE fd'[table'[f]] = f /\ sock'[f] = table'[f]
    <3> DEFINE c == table'[f]
    <3>1. c = table[f] /\ c \in Conn /\ fd[c] = f /\ sock[f] = c
      BY <1>2, <2>3, ReleasingDestroys DEF EntriesOpen, TypeOK
    <3>2. c \notin gone
      BY <3>1 DEF Unheld
    <3>3. f \notin shut
      <4>1. ASSUME NEW d \in gone, fd[d] = f PROVE FALSE
        <5>1. d \in Conn /\ fd[d] # NoFd
          BY DEF Unheld
        <5>2. sock[f] = d
          BY <4>1, <5>1 DEF Sockets
        <5> QED BY <3>1, <3>2, <5>2
      <4> QED BY <4>1
    <3> HIDE DEF gone, shut, c
    <3>4. fd'[c] = fd[c] /\ sock'[f] = sock[f]
      BY <2>2, <3>1, <3>2, <3>3
    <3>5. fd'[c] = f /\ sock'[f] = c
      BY <3>1, <3>4
    <3> QED BY <3>5 DEF c
  <2> QED BY <2>3 DEF EntriesOpen
<1>3. ASSUME NEW c \in Conn, Arrive(c) \/ Refused(c) \/ (\E how : Depart(c, how)) PROVE EntriesOpen'
  BY <1>3 DEF EntriesOpen, Arrive, Depart, Refused, objects
<1>4. ASSUME NEW f \in Fd, HandleError(f) PROVE EntriesOpen'
  BY <1>4 DEF EntriesOpen, HandleError, objects
<1>5. CASE HandleNewConnection
  <2> DEFINE c == Head(backlog)
  <2>1. c \in Conn /\ fd[c] = NoFd
    <3>1. 1 \in 1..Len(backlog) /\ c = backlog[1]
      BY <1>5, BuffersTyped DEF HandleNewConnection
    <3>2. backlog[1] \in Conn
      BY <3>1, BuffersTyped
    <3> HIDE DEF c
    <3> QED BY <3>1, <3>2 DEF Backlog
  <2> HIDE DEF c
  <2>2. PICK f \in Fd :
          /\ sock[f] = NoConn
          /\ sock' = [sock EXCEPT ![f] = c] /\ fd' = [fd EXCEPT ![c] = f]
          /\ table' = [table EXCEPT ![f] = IF @ = NoConn THEN c ELSE @]
    BY <1>5 DEF HandleNewConnection, c
  <2>3. table[f] = NoConn
    BY <2>2 DEF EntriesOpen, TypeOK
  <2>4. ASSUME NEW g \in Fd, table'[g] # NoConn PROVE fd'[table'[g]] = g /\ sock'[g] = table'[g]
    <3>1. CASE g = f
      BY <2>1, <2>2, <2>3, <3>1 DEF TypeOK
    <3>2. CASE g # f
      <4>1. table'[g] = table[g] /\ table[g] \in Conn /\ fd[table[g]] = g /\ sock[g] = table[g] /\ g # NoFd
        BY <2>2, <2>4, <3>2 DEF EntriesOpen, TypeOK
      <4>2. table[g] # c
        BY <2>1, <4>1
      <4> QED BY <2>2, <3>2, <4>1, <4>2 DEF TypeOK
    <3> QED BY <3>1, <3>2
  <2> QED BY <2>4 DEF EntriesOpen
<1>6. ASSUME NEW f \in Fd, HandleEnd(f) PROVE EntriesOpen'
  BY <1>6 DEF EntriesOpen, TypeOK, HandleEnd, Close, HandleClose
<1>7. CASE Remove \/ Terminate \/ TerminateHangs \/ LoopEnds
  BY <1>7 DEF EntriesOpen, Remove, Terminate, TerminateHangs, LoopEnds, StopListening, objects
<1>8. CASE Erase
  BY <1>8 DEF EntriesOpen, TypeOK, Erase, kernel
<1> QED
  BY <1>1, <1>2, <1>3, <1>4, <1>5, <1>6, <1>7, <1>8
  DEF Next, Clients, Loop, HandleEvent, HandleMessageSync, Quiet, Releasing

\* Each step keeps Backlog: only a connection that was absent joins it, and none
\* comes back.
LEMMA BacklogInductive == IInv /\ [Next]_vars => Backlog'
<1> SUFFICES ASSUME IInv, [Next]_vars PROVE Backlog'
  OBVIOUS
<1> USE ConnAssumption, RequestAssumption DEF IInv
<1>1. CASE Quiet \/ UNCHANGED vars
  <2>1. UNCHANGED <<backlog, fd>> /\ PeersKept
    BY <1>1, QuietKeeps DEF PeersKept, vars, kernel, objects
  <2>2. \A i \in 1..Len(backlog) : backlog[i] \in Conn
    BY DEF TypeOK
  <2> QED BY <2>1, <2>2 DEF Backlog, PeersKept
<1>2. CASE Releasing
  <2>1. UNCHANGED <<peer, backlog>> /\ \A c \in Conn : fd'[c] \in {fd[c], NoFd}
    BY <1>2, ReleasingDestroys DEF Destroy
  <2>2. \A i \in 1..Len(backlog) : backlog[i] \in Conn
    BY DEF TypeOK
  <2> QED BY <2>1, <2>2 DEF Backlog
<1>3. ASSUME NEW c \in Conn, Arrive(c) PROVE Backlog'
  <2>1. /\ peer[c] = "absent" /\ peer' = [peer EXCEPT ![c] = "open"]
        /\ backlog' = Append(backlog, c) /\ UNCHANGED fd
    BY <1>3 DEF Arrive, objects
  <2>2. fd[c] = NoFd
    BY <2>1 DEF Sockets
  <2>3. \A i \in 1..Len(backlog) : backlog[i] \in Conn /\ backlog[i] # c
    <3>1. \A i \in 1..Len(backlog) : backlog[i] \in Conn
      BY DEF TypeOK
    <3> QED BY <2>1, <3>1 DEF Backlog
  <2>4. \A d \in Conn : peer'[d] # "absent" <=> (d = c \/ peer[d] # "absent")
    BY <2>1 DEF TypeOK
  <2>5. /\ Len(backlog') = Len(backlog) + 1 /\ Len(backlog) \in Nat
        /\ \A i \in 1..Len(backlog') : backlog'[i] = IF i <= Len(backlog) THEN backlog[i] ELSE c
    BY <2>1, BuffersTyped
  <2>6. \A i \in 1..Len(backlog') : peer'[backlog'[i]] # "absent" /\ fd'[backlog'[i]] = NoFd
    BY <2>1, <2>2, <2>3, <2>4, <2>5 DEF Backlog
  <2>7. \A i, j \in 1..Len(backlog') : backlog'[i] = backlog'[j] => i = j
    BY <2>3, <2>5 DEF Backlog
  <2> QED BY <2>6, <2>7 DEF Backlog
<1>4. ASSUME NEW c \in Conn, NEW how, Depart(c, how) \/ Refused(c) PROVE Backlog'
  <2>1. UNCHANGED <<backlog, fd>> /\ \A d \in Conn : peer[d] # "absent" => peer'[d] # "absent"
    BY <1>4 DEF TypeOK, Depart, Refused, objects
  <2>2. \A i \in 1..Len(backlog) : backlog[i] \in Conn
    BY DEF TypeOK
  <2> QED BY <2>1, <2>2 DEF Backlog
<1>5. ASSUME NEW f \in Fd, HandleError(f) \/ HandleEnd(f) PROVE Backlog'
  BY <1>5 DEF Backlog, HandleError, HandleEnd, Close, objects
<1>6. CASE HandleNewConnection
  <2> DEFINE c == Head(backlog)
  <2>1. PICK f \in Fd : fd' = [fd EXCEPT ![c] = f]
    BY <1>6 DEF HandleNewConnection
  <2>2. backlog' = Tail(backlog) /\ UNCHANGED peer /\ backlog # <<>>
    BY <1>6 DEF HandleNewConnection
  <2>3. /\ Len(backlog') = Len(backlog) - 1 /\ Len(backlog) \in Nat \ {0} /\ c = backlog[1] /\ c \in Conn
        /\ \A i \in 1..Len(backlog') : backlog'[i] = backlog[i + 1]
    BY <2>2, BuffersTyped
  <2>4. \A i \in 1..Len(backlog) : backlog[i] \in Conn
    BY DEF TypeOK
  <2> HIDE DEF c
  <2>5. \A i \in 1..Len(backlog') : i + 1 \in 1..Len(backlog) /\ backlog[i + 1] # c
    BY <2>3 DEF Backlog
  <2>6. \A d \in Conn : d # c => fd'[d] = fd[d]
    BY <2>1 DEF TypeOK
  <2> QED BY <2>2, <2>3, <2>4, <2>5, <2>6 DEF Backlog
<1>7. CASE Remove \/ Erase
  BY <1>7 DEF Backlog, Remove, Erase, kernel, objects
<1>8. CASE Terminate \/ TerminateHangs \/ LoopEnds
  BY <1>8, Empty DEF Backlog, Terminate, TerminateHangs, LoopEnds, StopListening
<1> QED
  BY <1>1, <1>2, <1>3, <1>4, <1>5, <1>6, <1>7, <1>8
  DEF Next, Clients, Loop, HandleEvent, HandleMessageSync, Quiet, Releasing

\* Each step keeps Held.
LEMMA HeldInductive == IInv /\ [Next]_vars => Held'
<1> SUFFICES ASSUME IInv, [Next]_vars PROVE Held'
  OBVIOUS
<1> USE ConnAssumption, RequestAssumption DEF IInv
<1>1. CASE Releasing
  <2>1. PICK closed \in SUBSET Conn : Destroy(closed, Unheld(table', cur', lambda'))
    BY <1>1, ReleasingDestroys
  <2> DEFINE gone == Unheld(table', cur', lambda')
  <2>2. \A c \in Conn : fd'[c] = IF c \in gone THEN NoFd ELSE fd[c]
    BY <2>1 DEF Destroy
  <2>3. \A c \in Conn : fd[c] # NoFd /\ c \notin gone =>
          c = cur' \/ (\E f \in Fd : table'[f] = c) \/ (\E r \in lambda' : Sender[r] = c)
    BY DEF Unheld
  <2>4. /\ cur' # NoConn => cur' \in Conn \ gone /\ fd[cur'] # NoFd
        /\ \A r \in lambda' : Sender[r] \in Conn \ gone /\ fd[Sender[r]] # NoFd
    BY <1>1, ReleasingDestroys DEF Unheld, Held, TypeOK
  <2> HIDE DEF gone
  <2> QED BY <2>2, <2>3, <2>4 DEF Held
<1>2. CASE \/ Wait \/ AcceptFails \/ EnqueueRefuses \/ Interrupt \/ CloseAllCrashes \/ ShutDown
           \/ Remove \/ Terminate \/ TerminateHangs \/ LoopEnds
           \/ \E f \in Fd : HandleWritable(f) \/ HandleError(f)
  BY <1>2 DEF Held, Wait, AcceptFails, EnqueueRefuses, Interrupt, CloseAllCrashes, ShutDown, Remove,
              Terminate, TerminateHangs, LoopEnds, HandleWritable, HandleError, objects, cycle, work
<1>3. ASSUME NEW r \in Request, Send(r) \/ StartTask(r) \/ CheckRunning(r) \/ SendRes(r) PROVE Held'
  BY <1>3 DEF Held, Send, Transmit, StartTask, CheckRunning, SendRes, objects, cycle, work
<1>4. ASSUME NEW c \in Conn, Arrive(c) \/ Refused(c) \/ (\E how : Depart(c, how)) PROVE Held'
  BY <1>4 DEF Held, Arrive, Depart, Refused, objects, cycle, work
<1>5. ASSUME NEW f \in Fd, HandleStale(f) \/ HandleData(f) PROVE Held'
  <2>1. cur' = table[f] /\ UNCHANGED <<fd, table, lambda>> /\ cur = NoConn
    BY <1>5 DEF HandleStale, HandleData, Event, LoopAt, TypeOK, objects, work
  <2> QED BY <2>1 DEF Held, EntriesOpen
<1>6. CASE HandleNewConnection
  <2> DEFINE c == Head(backlog)
  <2>1. c \in Conn
    BY <1>6 DEF HandleNewConnection, TypeOK
  <2>2. PICK f \in Fd : fd' = [fd EXCEPT ![c] = f] /\ table' = [table EXCEPT ![f] = IF @ = NoConn THEN c ELSE @]
    BY <1>6 DEF HandleNewConnection
  <2>3. cur' = c /\ cur = NoConn /\ UNCHANGED lambda
    BY <1>6 DEF HandleNewConnection, Event, LoopAt, TypeOK, work
  <2> HIDE DEF c
  <2>4. \A d \in Conn : fd'[d] = IF d = c THEN f ELSE fd[d]
    BY <2>2 DEF TypeOK
  <2>5. \A g \in Fd : table[g] # NoConn => table'[g] = table[g]
    BY <2>2 DEF TypeOK
  <2>6. \A d \in Conn : fd'[d] # NoFd =>
          d = cur' \/ (\E g \in Fd : table'[g] = d) \/ (\E r \in lambda' : Sender[r] = d)
    BY <2>1, <2>3, <2>4, <2>5 DEF Held
  <2>7. fd'[cur'] # NoFd /\ \A r \in lambda' : fd'[Sender[r]] # NoFd
    BY <2>1, <2>3, <2>4 DEF Held, TypeOK
  <2> QED BY <2>6, <2>7 DEF Held
<1>7. ASSUME NEW f \in Fd, HandleEnd(f) PROVE Held'
  <2>1. /\ cur' = table[f] /\ cur = NoConn /\ UNCHANGED <<fd, lambda>> /\ table[f] \in Conn
        /\ table' = [table EXCEPT ![fd[table[f]]] = NoConn]
    BY <1>7 DEF HandleEnd, Close, HandleClose, Event, LoopAt, TypeOK, work
  <2>2. \A g \in Fd : table[g] # table[f] => table'[g] = table[g]
    BY <2>1 DEF EntriesOpen, TypeOK
  <2>3. fd[table[f]] # NoFd
    BY <2>1 DEF EntriesOpen
  <2> QED BY <2>1, <2>2, <2>3 DEF Held
<1>8. CASE EnqueueAccepts
  <2>1. lambda' = lambda \cup {request} /\ UNCHANGED <<fd, table, cur>> /\ Sender[request] = cur /\ cur \in Conn
    BY <1>8 DEF EnqueueAccepts, LoopAt, Local, TypeOK
  <2> QED BY <2>1 DEF Held
<1>9. CASE Erase
  <2>1. /\ table' = [table EXCEPT ![cur_fd] = NoConn] /\ UNCHANGED <<fd, cur, lambda>>
        /\ cur_fd \in Fd /\ table[cur_fd] \in {cur, NoConn}
    BY <1>9 DEF Erase, LoopAt, Local, work
  <2>2. \A g \in Fd : table[g] # NoConn /\ table[g] # cur => table'[g] = table[g]
    BY <2>1 DEF TypeOK
  <2> QED BY <2>1, <2>2 DEF Held
<1>10. CASE UNCHANGED vars
  BY <1>10 DEF Held, vars, objects, cycle, work
<1> QED
  BY <1>1, <1>2, <1>3, <1>4, <1>5, <1>6, <1>7, <1>8, <1>9, <1>10
  DEF Next, Clients, Loop, HandleEvent, HandleMessageSync, Releasing

-----------------------------------------------------------------------------
(* The handler and the closures.                                           *)

\* What the receive buffer of an entry decodes to is a request of its client.
LEMMA OwnRequest ==
  ASSUME TypeOK, Streams, NEW c \in Conn, NEW n \in 0..Len(inbox[c]),
         NEW r \in Stream!Decoded(recv_buf[c] \o SubSeq(inbox[c], 1, n))
  PROVE  Sender[r] = c
<1>1. SubSeq(inbox[c], 1, n) \in Seq(Stream!Piece) /\ From(SubSeq(inbox[c], 1, n), c)
  BY DEF TypeOK, Streams, From
<1>2. recv_buf[c] \in Seq(Stream!Piece) /\ From(recv_buf[c], c)
  BY DEF TypeOK, Streams
<1> DEFINE buf == recv_buf[c] \o SubSeq(inbox[c], 1, n)
<1>3. buf \in Seq(Stream!Piece) /\ From(buf, c)
  BY <1>1, <1>2, FromConcat
<1>4. r \in Stream!Decoded(buf)
  OBVIOUS
<1> HIDE DEF buf
<1>5. Len(buf) > 0 /\ buf[1].of = r
  BY <1>3, <1>4, DecodedIsFirst
<1> QED BY <1>3, <1>5 DEF From

\* What is unread of an inbox starts somewhere in it.
LEMMA UnreadIs ==
  ASSUME TypeOK, NEW c \in Conn
  PROVE  Len(inbox[c]) - Len(Unread(c)) \in 0..Len(inbox[c])
BY DEF TypeOK, Unread

\* Each step keeps Local: nobody else gets the number the handler works with.
LEMMA LocalInductive == IInv /\ [Next]_vars => Local'
<1> SUFFICES ASSUME IInv, [Next]_vars PROVE Local'
  OBVIOUS
<1> USE ConnAssumption, RequestAssumption DEF IInv
<1>1. CASE \/ Interrupt \/ CloseAllCrashes \/ ShutDown
           \/ \E r \in Request : Send(r) \/ StartTask(r) \/ CheckRunning(r) \/ SendRes(r) \/ DropTask(r)
           \/ \E c \in Conn : Arrive(c) \/ Refused(c) \/ \E how : Depart(c, how)
  <2>1. UNCHANGED <<table, loop, events, cur, cur_fd, request, closing>>
    BY <1>1 DEF Interrupt, CloseAllCrashes, ShutDown, Send, Transmit, StartTask, CheckRunning, SendRes,
                DropTask, Arrive, Depart, Refused, objects, cycle
  <2> QED BY <2>1 DEF Local
<1>2. CASE Return \/ Wait \/ AcceptFails \/ \E f \in Fd : HandleError(f) \/ HandleWritable(f)
  BY <1>2 DEF Local, Return, Wait, AcceptFails, HandleError, HandleWritable, Returned
<1>3. CASE CloseOne
  <2>1. /\ closing' = "broken" /\ UNCHANGED <<loop, events, cur, cur_fd, request>>
        /\ \A f \in Fd : table'[f] \in {table[f], NoConn}
    BY <1>3, ReleasingDestroys DEF CloseOne, Releasing
  <2> QED BY <2>1 DEF Local
<1>4. CASE CloseAllEnds
  BY <1>4 DEF Local, CloseAllEnds, ClearTable
<1>5. ASSUME NEW f \in Fd, HandleStale(f) PROVE Local'
  BY <1>5 DEF Local, HandleStale, objects
<1>6. ASSUME NEW f \in Fd, HandleEnd(f) PROVE Local'
  <2>1. loop' = "remove" /\ cur_fd' = f /\ table' = [table EXCEPT ![fd[table[f]]] = NoConn]
    BY <1>6 DEF HandleEnd, Close, HandleClose
  <2>2. fd[table[f]] = f
    BY <1>6 DEF HandleEnd, EntriesOpen, TypeOK
  <2> QED BY <2>1, <2>2 DEF Local, TypeOK
<1>7. ASSUME NEW f \in Fd, HandleData(f) PROVE Local'
  <2> DEFINE c == table[f]
             buf == recv_buf[c] \o SubSeq(inbox[c], 1, Len(inbox[c]) - Len(Unread(c)))
  <2>1. c \in Conn /\ cur' = c /\ cur_fd' = f /\ UNCHANGED table
    BY <1>7 DEF HandleData, TypeOK
  <2>2. \A r \in Stream!Decoded(buf) : Sender[r] = c
    BY <2>1, UnreadIs, OwnRequest
  <2>3. loop' \in {"return", "remove"} \/ (loop' = "enqueue" /\ request' \in Stream!Decoded(buf))
    <3> HIDE DEF buf
    <3> QED BY <1>7 DEF HandleData, buf
  <2> HIDE DEF buf
  <2> QED BY <2>1, <2>2, <2>3 DEF Local
<1>8. CASE HandleNewConnection \/ EnqueueAccepts \/ EnqueueRefuses
  BY <1>8 DEF Local, HandleNewConnection, EnqueueAccepts, EnqueueRefuses
<1>9. CASE Remove
  BY <1>9 DEF Local, Remove, LoopAt, objects
<1>10. CASE Erase
  BY <1>10 DEF Local, Erase
<1>11. CASE Terminate \/ TerminateHangs \/ LoopEnds
  BY <1>11 DEF Local, TypeOK, Terminate, TerminateHangs, LoopEnds, LoopAt, objects
<1>12. CASE UNCHANGED vars
  BY <1>12 DEF Local, vars, objects, cycle
<1> QED
  BY <1>1, <1>2, <1>3, <1>4, <1>5, <1>6, <1>7, <1>8, <1>9, <1>10, <1>11, <1>12
  DEF Next, Clients, Loop, HandleEvent, HandleMessageSync

\* Each step keeps Closures.
LEMMA ClosuresInductive == IInv /\ [Next]_vars => Closures'
<1> SUFFICES ASSUME IInv, [Next]_vars PROVE Closures'
  OBVIOUS
<1> USE ConnAssumption, RequestAssumption DEF IInv
<1>1. CASE \/ Interrupt \/ CloseAllCrashes \/ Wait \/ AcceptFails \/ HandleNewConnection
           \/ Remove \/ Erase \/ Return \/ Terminate \/ TerminateHangs \/ LoopEnds \/ CloseOne \/ CloseAllEnds
           \/ \E f \in Fd : HandleError(f) \/ HandleWritable(f) \/ HandleStale(f) \/ HandleEnd(f)
           \/ \E c \in Conn : Arrive(c) \/ Refused(c) \/ \E how : Depart(c, how)
           \/ UNCHANGED vars
  <2>1. UNCHANGED <<task, lambda, checked>>
    BY <1>1 DEF Interrupt, CloseAllCrashes, Wait, AcceptFails, HandleNewConnection, Remove, Erase, Return,
                Terminate, TerminateHangs, LoopEnds, CloseOne, CloseAllEnds, HandleError, HandleWritable, HandleStale,
                HandleEnd, Arrive, Depart, Refused, vars, work
  <2> QED BY <2>1 DEF Closures
<1>2. ASSUME NEW f \in Fd, HandleData(f) PROVE Closures'
  BY <1>2 DEF Closures, HandleData, work
<1>3. ASSUME NEW r \in Request, Send(r) PROVE Closures'
  BY <1>3 DEF Closures, Send, Transmit, work
<1>4. CASE ShutDown
  BY <1>4 DEF Closures, ShutDown, Pool!CloseDrained, Pool!Join
<1>5. CASE EnqueueAccepts \/ EnqueueRefuses
  <2>1. checked' = checked /\ request \in Request
    BY <1>5 DEF EnqueueAccepts, EnqueueRefuses, LoopAt, TypeOK
  <2> QED BY <1>5, <2>1 DEF Closures, TypeOK, EnqueueAccepts, EnqueueRefuses, Pool!Accept, Pool!Refuse, Pool!Move
<1>6. ASSUME NEW r \in Request, StartTask(r) PROVE Closures'
  BY <1>6 DEF Closures, TypeOK, StartTask, Pool!Take, Pool!Move
<1>7. ASSUME NEW r \in Request, CheckRunning(r) PROVE Closures'
  BY <1>7 DEF Closures, TypeOK, CheckRunning, Pool!Finish, Pool!Move
<1>8. ASSUME NEW r \in Request, SendRes(r) PROVE Closures'
  BY <1>8 DEF Closures, TypeOK, SendRes, Pool!Finish, Pool!Move
<1>9. ASSUME NEW r \in Request, DropTask(r) PROVE Closures'
  BY <1>9 DEF Closures, DropTask
<1> QED
  BY <1>1, <1>2, <1>3, <1>4, <1>5, <1>6, <1>7, <1>8, <1>9
  DEF Next, Clients, Loop, HandleEvent, HandleMessageSync

-----------------------------------------------------------------------------
(* What is received and what is given.                                     *)

\* Each step keeps Streams.
LEMMA StreamsInductive == IInv /\ [Next]_vars => Streams'
<1> SUFFICES ASSUME IInv, [Next]_vars PROVE Streams'
  OBVIOUS
<1> USE ConnAssumption, RequestAssumption DEF IInv
<1>1. CASE \/ Interrupt \/ CloseAllCrashes \/ ShutDown \/ Wait \/ AcceptFails \/ HandleNewConnection
           \/ Remove \/ Erase \/ Terminate \/ TerminateHangs \/ LoopEnds
           \/ \E f \in Fd : HandleError(f) \/ HandleWritable(f) \/ HandleStale(f)
           \/ \E c \in Conn : Arrive(c) \/ Refused(c) \/ \E how : Depart(c, how)
           \/ \E r \in Request : StartTask(r) \/ CheckRunning(r) \/ SendRes(r)
           \/ UNCHANGED vars
  <2>1. UNCHANGED <<inbox, recv_buf>>
    BY <1>1 DEF Interrupt, CloseAllCrashes, ShutDown, Wait, AcceptFails, HandleNewConnection, Remove, Erase,
                Terminate, TerminateHangs, LoopEnds, StopListening, HandleError, HandleWritable, HandleStale,
                Arrive, Depart, Refused, StartTask, CheckRunning, SendRes, vars, kernel, objects
  <2> QED BY <2>1 DEF Streams
<1>2. CASE Releasing
  <2>1. inbox' = inbox /\ \A c \in Conn : recv_buf'[c] \in {recv_buf[c], <<>>}
    BY <1>2, ReleasingDestroys DEF Destroy
  <2> QED BY <2>1, NoPiece DEF Streams
<1>3. ASSUME NEW r \in Request, Send(r) PROVE Streams'
  <2>1. PICK part \in {"whole", "bit", "front", "rest", "text", "pad"}, amount \in {"all", "part", "text"} :
          Transmit(r, part, amount)
    BY <1>3 DEF Send
  <2> DEFINE piece == [of |-> r, part |-> part]
             c == Sender[r]
  <2>2. piece \in Stream!Piece /\ piece.of = r
    BY DEF Stream!Piece
  <2>3. c \in Conn /\ recv_buf' = recv_buf /\ inbox' = [inbox EXCEPT ![c] = Append(@, piece)]
    BY <2>1 DEF Transmit, objects
  <2>4. From(inbox[c], c) /\ inbox[c] \in Seq(Stream!Piece)
    BY <2>3 DEF Streams, TypeOK
  <2> HIDE DEF piece
  <2>5. From(Append(inbox[c], piece), c)
    BY <2>2, <2>4, FromAppend
  <2> HIDE DEF c
  <2> QED BY <2>3, <2>5 DEF Streams, TypeOK
<1>4. ASSUME NEW f \in Fd, HandleEnd(f) PROVE Streams'
  BY <1>4, NoPiece DEF Streams, TypeOK, HandleEnd, Close
<1>5. ASSUME NEW f \in Fd, HandleData(f) PROVE Streams'
  <2> DEFINE c == table[f]
             read == SubSeq(inbox[c], 1, Len(inbox[c]) - Len(Unread(c)))
             buf == recv_buf[c] \o read
  <2>1. c \in Conn
    BY <1>5 DEF HandleData, TypeOK
  <2>2. read \in Seq(Stream!Piece) /\ From(read, c)
    <3>1. inbox[c] \in Seq(Stream!Piece) /\ From(inbox[c], c)
      BY <2>1, BuffersTyped DEF Streams
    <3> HIDE DEF c
    <3> QED BY <3>1 DEF From, Unread
  <2>3. From(buf, c)
    <3>1. recv_buf[c] \in Seq(Stream!Piece) /\ From(recv_buf[c], c)
      BY <2>1, BuffersTyped DEF Streams
    <3> HIDE DEF c, read
    <3> QED BY <2>1, <2>2, <3>1, FromConcat
  <2>4. inbox' = [inbox EXCEPT ![c] = <<>>]
    BY <1>5 DEF HandleData, Unread
  <2> HIDE DEF read
  <2>5. recv_buf' = [recv_buf EXCEPT ![c] = buf] \/ recv_buf' = [recv_buf EXCEPT ![c] = <<>>]
    BY <1>5 DEF HandleData, read
  <2> HIDE DEF c, buf
  <2>6. From(<<>>, c)
    BY DEF From
  <2>7. ASSUME NEW d \in Conn PROVE From(inbox'[d], d) /\ From(recv_buf'[d], d)
    BY <2>1, <2>3, <2>4, <2>5, <2>6, BuffersTyped DEF Streams
  <2> QED BY <2>7 DEF Streams
<1>6. CASE EnqueueAccepts \/ EnqueueRefuses
  <2>1. inbox' = inbox /\ recv_buf' = [recv_buf EXCEPT ![cur] = <<>>]
    BY <1>6 DEF EnqueueAccepts, EnqueueRefuses, kernel
  <2> QED BY <2>1, NoPiece DEF Streams, TypeOK
<1> QED
  BY <1>1, <1>2, <1>3, <1>4, <1>5, <1>6
  DEF Next, Clients, Loop, HandleEvent, HandleMessageSync, Releasing

\* Write adds one answer to what its client is given, and nothing to what the
\* others are.
LEMMA WriteGives ==
  ASSUME TypeOK, Sockets, Given, NEW c \in Conn, fd[c] # NoFd,
         NEW r \in Request, Sender[r] = c, r \notin Settled, Write(c, r)
  PROVE  \A d \in Conn : Once(answers'[d] \o send_buf'[d], d, Settled \cup {r})
<1> USE ConnAssumption
<1> DEFINE buf == Append(send_buf[c], r)
<1>1. sock[fd[c]] = c /\ answers[c] \in Seq(Request) /\ send_buf[c] \in Seq(Request)
  BY BuffersTyped DEF Sockets
<1>2. buf \in Seq(Request) /\ answers[c] \o buf = Append(answers[c] \o send_buf[c], r)
  <2>1. \A s, t \in Seq(Request) :
          s \o Append(t, r) = Append(s \o t, r) /\ Append(t, r) \in Seq(Request)
    BY AppendInPlace
  <2> QED BY <1>1, <2>1
<1>3. Once(answers[c] \o buf, c, Settled \cup {r})
  <2>1. answers[c] \o send_buf[c] \in Seq(Request)
    BY <1>1
  <2>2. Once(answers[c] \o send_buf[c], c, Settled)
    BY DEF Given
  <2> DEFINE given == answers[c] \o send_buf[c]
             more == Settled \cup {r}
  <2>3. answers[c] \o buf = Append(given, r)
    BY <1>2
  <2>4. Once(Append(given, r), c, more)
    <3> HIDE DEF given
    <3> QED BY <2>1, <2>2, OnceAppend DEF given
  <2> HIDE DEF given, more, buf
  <2>5. Once(answers[c] \o buf, c, more)
    BY <2>3, <2>4
  <2> QED BY <2>5 DEF more
<1>4. ASSUME NEW d \in Conn PROVE Once(answers[d] \o send_buf[d], d, Settled \cup {r})
  <2>1. answers[d] \o send_buf[d] \in Seq(Request)
    BY DEF TypeOK
  <2> QED BY <2>1, OnceMore DEF Given
<1> HIDE DEF buf
<1>5. ASSUME NEW n \in 0..Len(buf),
             answers' = [answers EXCEPT ![sock[fd[c]]] = @ \o SubSeq(buf, 1, n)],
             send_buf' = [send_buf EXCEPT ![c] = Unsent(buf, n)]
      PROVE  \A d \in Conn : Once(answers'[d] \o send_buf'[d], d, Settled \cup {r})
  <2>1. (answers[c] \o SubSeq(buf, 1, n)) \o SubSeq(buf, n + 1, Len(buf)) = answers[c] \o buf
    BY <1>1, <1>2, SentInPlace
  <2>2. answers'[c] = answers[c] \o SubSeq(buf, 1, n) /\ send_buf'[c] = SubSeq(buf, n + 1, Len(buf))
    BY <1>1, <1>5 DEF TypeOK, Unsent
  <2>3. \A d \in Conn \ {c} : answers'[d] = answers[d] /\ send_buf'[d] = send_buf[d]
    BY <1>1, <1>5 DEF TypeOK
  <2>4. Once(answers'[c] \o send_buf'[c], c, Settled \cup {r})
    BY <1>3, <2>1, <2>2
  <2> QED BY <1>4, <2>3, <2>4
<1>6. ASSUME send_buf' = [send_buf EXCEPT ![c] = <<>>], UNCHANGED answers
      PROVE  \A d \in Conn : Once(answers'[d] \o send_buf'[d], d, Settled \cup {r})
  <2>1. Once(answers[c] \o <<>>, c, Settled \cup {r})
    BY <1>1, <1>4, OncePrefix
  <2>2. send_buf'[c] = <<>> /\ \A d \in Conn \ {c} : send_buf'[d] = send_buf[d]
    BY <1>6 DEF TypeOK
  <2> QED BY <1>4, <1>6, <2>1, <2>2
<1>7. ASSUME send_buf' = [send_buf EXCEPT ![c] = buf], UNCHANGED answers
      PROVE  \A d \in Conn : Once(answers'[d] \o send_buf'[d], d, Settled \cup {r})
  <2>1. send_buf'[c] = buf /\ \A d \in Conn \ {c} : send_buf'[d] = send_buf[d]
    BY <1>7 DEF TypeOK
  <2> QED BY <1>3, <1>4, <1>7, <2>1
<1> QED BY <1>5, <1>6, <1>7 DEF Write, buf

\* Each step keeps Given: a request is answered by the worker that finishes it,
\* or by the loop when the pool refuses it.
LEMMA GivenInductive == IInv /\ [Next]_vars => Given'
<1> SUFFICES ASSUME IInv, [Next]_vars PROVE Given'
  OBVIOUS
<1> USE ConnAssumption, RequestAssumption DEF IInv
<1>1. CASE \/ Interrupt \/ CloseAllCrashes \/ Wait \/ AcceptFails \/ HandleNewConnection
           \/ Remove \/ Erase \/ Terminate \/ TerminateHangs \/ LoopEnds
           \/ \E f \in Fd : HandleError(f) \/ HandleWritable(f) \/ HandleStale(f)
           \/ \E c \in Conn : Arrive(c) \/ Refused(c) \/ \E how : Depart(c, how)
           \/ UNCHANGED vars
  <2>1. UNCHANGED <<answers, send_buf, task>>
    BY <1>1 DEF Interrupt, CloseAllCrashes, Wait, AcceptFails, HandleNewConnection, Remove, Erase,
                Terminate, TerminateHangs, LoopEnds, StopListening, HandleError, HandleWritable, HandleStale,
                Arrive, Depart, Refused, vars, kernel, objects, work
  <2> QED BY <2>1 DEF Given, Settled
<1>2. CASE ShutDown \/ \E r \in Request : Send(r)
  <2>1. UNCHANGED <<answers, send_buf, task>>
    BY <1>2 DEF ShutDown, Pool!CloseDrained, Pool!Join, Send, Transmit, kernel, objects, work
  <2> QED BY <2>1 DEF Given, Settled
<1>3. ASSUME NEW f \in Fd, HandleData(f) PROVE Given'
  <2>1. UNCHANGED <<answers, send_buf, task>>
    BY <1>3 DEF HandleData, work
  <2> QED BY <2>1 DEF Given, Settled
<1>4. ASSUME UNCHANGED <<answers, task>>, \A c \in Conn : send_buf'[c] \in {send_buf[c], <<>>}
      PROVE  Given'
  <2>1. ASSUME NEW c \in Conn PROVE Once(answers[c] \o send_buf'[c], c, Settled)
    <3>1. answers[c] \in Seq(Request) /\ send_buf[c] \in Seq(Request)
      BY DEF TypeOK
    <3>2. Once(answers[c] \o send_buf[c], c, Settled)
      BY DEF Given
    <3>3. Once(answers[c] \o <<>>, c, Settled)
      BY <3>1, <3>2, OncePrefix
    <3> QED BY <1>4, <3>2, <3>3
  <2> QED BY <1>4, <2>1 DEF Given, Settled
<1>5. CASE Releasing
  <2>1. UNCHANGED <<answers, task>> /\ \A c \in Conn : send_buf'[c] \in {send_buf[c], <<>>}
    BY <1>5, ReleasingDestroys DEF Destroy
  <2> QED BY <1>4, <2>1
<1>6. ASSUME NEW f \in Fd, HandleEnd(f) PROVE Given'
  <2>1. UNCHANGED <<answers, task>> /\ \A c \in Conn : send_buf'[c] \in {send_buf[c], <<>>}
    BY <1>6 DEF HandleEnd, Close, TypeOK, work
  <2> QED BY <1>4, <2>1
<1>7. ASSUME UNCHANGED <<answers, send_buf>>, Settled \subseteq Settled' PROVE Given'
  <2>1. ASSUME NEW c \in Conn PROVE Once(answers[c] \o send_buf[c], c, Settled')
    <3>1. answers[c] \o send_buf[c] \in Seq(Request)
      BY DEF TypeOK
    <3>2. Once(answers[c] \o send_buf[c], c, Settled)
      BY DEF Given
    <3> QED BY <1>7, <3>1, <3>2, OnceMore
  <2> QED BY <1>7, <2>1 DEF Given
<1>8. CASE EnqueueAccepts
  <2>1. UNCHANGED <<answers, send_buf>> /\ Settled \subseteq Settled'
    BY <1>8 DEF EnqueueAccepts, Pool!Accept, Pool!Move, Settled, TypeOK, kernel
  <2> QED BY <1>7, <2>1
<1>9. CASE EnqueueRefuses
  <2>1. /\ cur = Sender[request] /\ request \in Request /\ request \notin Settled
        /\ Settled' = Settled \cup {request}
    BY <1>9 DEF EnqueueRefuses, LoopAt, Local, TypeOK, Pool!Refuse, Pool!Move, Settled
  <2>2. CASE cur \in running
    <3>1. Write(cur, request) /\ fd[cur] # NoFd /\ cur \in Conn
      BY <1>9, <2>1, <2>2 DEF EnqueueRefuses, Sockets, TypeOK
    <3>2. \A d \in Conn : Once(answers'[d] \o send_buf'[d], d, Settled \cup {request})
      BY <2>1, <3>1, WriteGives
    <3> QED BY <2>1, <3>2 DEF Given
  <2>3. CASE cur \notin running
    <3>1. UNCHANGED <<answers, send_buf>>
      BY <1>9, <2>3 DEF EnqueueRefuses
    <3> QED BY <1>7, <2>1, <3>1
  <2> QED BY <2>2, <2>3
<1>10. ASSUME NEW r \in Request, StartTask(r) PROVE Given'
  <2>1. UNCHANGED <<answers, send_buf>> /\ Settled \subseteq Settled'
    BY <1>10 DEF StartTask, Pool!Take, Pool!Move, Settled, TypeOK, kernel, objects
  <2> QED BY <1>7, <2>1
<1>11. ASSUME NEW r \in Request, CheckRunning(r) PROVE Given'
  <2>1. UNCHANGED <<answers, send_buf>> /\ Settled \subseteq Settled'
    BY <1>11 DEF CheckRunning, Pool!Finish, Pool!Move, Settled, TypeOK, kernel, objects
  <2> QED BY <1>7, <2>1
<1>12. ASSUME NEW r \in Request, SendRes(r) PROVE Given'
  <2>1. r \notin Settled /\ Settled' = Settled \cup {r}
    BY <1>12, TaskTyped DEF SendRes, Pool!Finish, Pool!Move, Settled
  <2>2. Sender[r] \in Conn /\ fd[Sender[r]] # NoFd /\ Write(Sender[r], r)
    BY <1>12 DEF SendRes, Closures, Held
  <2>3. \A d \in Conn : Once(answers'[d] \o send_buf'[d], d, Settled \cup {r})
    BY <2>1, <2>2, WriteGives
  <2> QED BY <2>1, <2>3 DEF Given
<1> QED
  BY <1>1, <1>2, <1>3, <1>5, <1>6, <1>8, <1>9, <1>10, <1>11, <1>12
  DEF Next, Clients, Loop, HandleEvent, HandleMessageSync, Releasing

-----------------------------------------------------------------------------
(* Edges.                                                                  *)

\* What an event can be waiting for on descriptor f.
Due(f) == inbox[sock[f]] # <<>> \/ Left(sock[f])

\* The loop will look at f, or forget it.
OnItsWay(f) ==
  \/ f \in ready \/ (loop = "remove" /\ cur_fd = f)
  \/ \E e \in events : e.fd = f /\ e.kind \in {"in", "hup"}

\* The property, in these words.
LEMMA NoEventLostIs == NoEventLost <=> \A f \in epoll : Due(f) => OnItsWay(f)
BY DEF NoEventLost, Due, OnItsWay

\* The next event is not that of another descriptor.
LEMMA EventIs ==
  ASSUME NEW f, NEW kind, Event(f, kind)
  PROVE  \A e \in events : e \in events' \/ (e.fd = f /\ e.kind = kind)
BY DEF Event

\* Each step keeps NoEventLost.
LEMMA EventsInductive == IInv /\ [Next]_vars => NoEventLost'
<1> SUFFICES ASSUME IInv, [Next]_vars, NEW g \in epoll', Due(g)' PROVE OnItsWay(g)'
  BY DEF NoEventLost, Due, OnItsWay
<1> USE ConnAssumption, RequestAssumption DEF IInv
<1>0. g \in epoll /\ Due(g) => OnItsWay(g)
  BY DEF NoEventLost, Due, OnItsWay
<1>1. CASE \/ Interrupt \/ CloseAllCrashes \/ ShutDown \/ EnqueueAccepts \/ EnqueueRefuses
           \/ \E r \in Request : StartTask(r) \/ CheckRunning(r) \/ SendRes(r)
           \/ UNCHANGED vars
  <2>1. /\ UNCHANGED <<inbox, sock, epoll, ready, events, cur_fd>>
        /\ loop = "remove" => loop' = "remove"
    BY <1>1 DEF Interrupt, CloseAllCrashes, ShutDown, EnqueueAccepts, EnqueueRefuses, LoopAt, StartTask,
                CheckRunning, SendRes, vars, kernel, cycle
  <2>2. PeersKept
    BY <1>1, QuietKeeps DEF Quiet, PeersKept, vars, kernel
  <2>3. sock[g] \in Conn
    BY <2>1 DEF Sockets, TypeOK
  <2> QED BY <1>0, <2>1, <2>2, <2>3 DEF Due, Left, PeersKept, OnItsWay
<1>2. CASE Terminate \/ TerminateHangs \/ LoopEnds
  <2>1. /\ UNCHANGED <<peer, inbox, sock, epoll, ready, events, cur_fd>>
        /\ loop = "remove" => loop' = "remove"
    BY <1>2 DEF Terminate, TerminateHangs, LoopEnds, LoopAt, StopListening
  <2> QED BY <1>0, <2>1 DEF Due, Left, OnItsWay
<1>3. CASE Releasing
  <2>1. PICK closed \in SUBSET Conn : Destroy(closed, Unheld(table', cur', lambda'))
    BY <1>3, ReleasingDestroys
  <2>2. /\ UNCHANGED <<peer, inbox>> /\ g \in epoll /\ (g \in ready => g \in ready')
        /\ sock'[g] = sock[g]
    <3>1. g \in Fd
      BY TypesInductive DEF TypeOK
    <3> QED BY <1>3, <2>1, <3>1, ReleasingDestroys DEF Destroy
  <2>3. UNCHANGED events /\ (loop = "remove" => loop' = "remove" /\ UNCHANGED cur_fd)
    BY <1>3 DEF Releasing, Return, LoopAt, CloseOne, CloseAllEnds, DropTask, cycle
  <2> QED BY <1>0, <2>2, <2>3 DEF Due, Left, OnItsWay
<1>4. ASSUME NEW c \in Conn, Arrive(c) PROVE OnItsWay(g)'
  <2>1. UNCHANGED <<inbox, sock, epoll, ready, events, cur_fd, loop>> /\ peer' = [peer EXCEPT ![c] = "open"]
    BY <1>4 DEF Arrive, cycle
  <2>2. sock[g] \in Conn
    BY <2>1 DEF Sockets, TypeOK
  <2> QED BY <1>0, <2>1, <2>2 DEF Due, Left, OnItsWay, TypeOK
<1>5. ASSUME NEW c \in Conn, NEW how, Depart(c, how) \/ Refused(c) PROVE OnItsWay(g)'
  <2>1. /\ UNCHANGED <<inbox, sock, epoll, events, cur_fd, loop>>
        /\ ready' = ready \cup {f \in epoll : sock[f] = c}
        /\ \A d \in Conn \ {c} : peer'[d] = peer[d]
    BY <1>5 DEF Depart, Refused, Edge, TypeOK, cycle
  <2>2. sock[g] \in Conn
    BY <2>1 DEF Sockets, TypeOK
  <2> QED BY <1>0, <2>1, <2>2 DEF Due, Left, OnItsWay
<1>6. ASSUME NEW r \in Request, Send(r) PROVE OnItsWay(g)'
  <2>1. PICK part, amount : Transmit(r, part, amount)
    BY <1>6 DEF Send
  <2>2. /\ UNCHANGED <<peer, sock, epoll, events, cur_fd, loop>>
        /\ ready' = ready \cup {f \in epoll : sock[f] = Sender[r]}
        /\ \A d \in Conn \ {Sender[r]} : inbox'[d] = inbox[d]
    BY <2>1 DEF Transmit, Edge, TypeOK, cycle
  <2>3. sock[g] \in Conn
    BY <2>2 DEF Sockets, TypeOK
  <2> QED BY <1>0, <2>2, <2>3 DEF Due, Left, OnItsWay
<1>7. CASE Wait
  <2>1. /\ UNCHANGED <<peer, inbox, sock, epoll>> /\ loop = "wait"
        /\ \A f \in ready : [fd |-> f, kind |-> Kind(f)] \in events'
    BY <1>7 DEF Wait, LoopAt
  <2>2. Due(g)
    BY <2>1 DEF Due, Left
  <2>3. g \in ready
    BY <1>0, <2>1, <2>2 DEF OnItsWay, Local
  <2>4. Kind(g) \in {"in", "hup"}
    BY <2>2 DEF Kind, Due, Left
  <2>5. [fd |-> g, kind |-> Kind(g)].fd = g /\ [fd |-> g, kind |-> Kind(g)].kind = Kind(g)
    OBVIOUS
  <2> QED BY <2>1, <2>3, <2>4, <2>5 DEF OnItsWay
<1>8. ASSUME NEW f \in Fd, HandleError(f) PROVE OnItsWay(g)'
  <2>1. /\ UNCHANGED <<peer, inbox, sock>> /\ epoll' = epoll \ {f} /\ ready' = ready \ {f}
        /\ Event(f, "hup") /\ loop # "remove"
    BY <1>8 DEF HandleError, RemoveFromEpoll, Event, LoopAt
  <2> QED BY <1>0, <2>1, EventIs DEF Due, Left, OnItsWay
<1>9. ASSUME NEW f \in Fd, HandleWritable(f) PROVE OnItsWay(g)'
  <2>1. UNCHANGED <<peer, inbox, sock, epoll, ready>> /\ Event(f, "out") /\ loop # "remove"
    BY <1>9 DEF HandleWritable, Event, LoopAt, kernel
  <2> QED BY <1>0, <2>1, EventIs DEF Due, Left, OnItsWay
<1>10. ASSUME NEW f \in Fd, HandleStale(f) PROVE OnItsWay(g)'
  <2>1. /\ UNCHANGED <<peer, inbox, sock, epoll, ready>> /\ Event(f, "in") /\ loop # "remove"
        /\ loop' = "remove" /\ cur_fd' = f
    BY <1>10 DEF HandleStale, Event, LoopAt, kernel
  <2> QED BY <1>0, <2>1, EventIs DEF Due, Left, OnItsWay
<1>11. ASSUME NEW f \in Fd, HandleEnd(f) PROVE OnItsWay(g)'
  <2>1. /\ UNCHANGED <<peer, sock, epoll, ready>> /\ Event(f, "in") /\ loop # "remove"
        /\ loop' = "remove" /\ cur_fd' = f
        /\ table[f] \in Conn /\ inbox' = [inbox EXCEPT ![table[f]] = <<>>]
    BY <1>11 DEF HandleEnd, Close, Event, LoopAt, TypeOK
  <2>2. CASE g # f
    <3>1. sock[g] \in Conn /\ sock[g] # table[f]
      BY <2>1, <2>2 DEF Sockets, EntriesOpen, TypeOK
    <3>2. inbox'[sock[g]] = inbox[sock[g]]
      BY <2>1, <3>1 DEF TypeOK
    <3> QED BY <1>0, <2>1, <2>2, <3>2, EventIs DEF Due, Left, OnItsWay
  <2> QED BY <2>1, <2>2 DEF OnItsWay
<1>12. ASSUME NEW f \in Fd, HandleData(f) PROVE OnItsWay(g)'
  <2>1. /\ UNCHANGED <<peer, sock, epoll, ready>> /\ Event(f, "in") /\ loop # "remove"
        /\ table[f] \in Conn /\ inbox' = [inbox EXCEPT ![table[f]] = <<>>]
        /\ ~Left(table[f])
    BY <1>12 DEF HandleData, ReadEnds, Unread, Event, LoopAt, TypeOK
  <2>2. sock[g] \in Conn /\ sock[f] = table[f]
    BY <2>1 DEF Sockets, EntriesOpen, TypeOK
  <2>3. g # f /\ Due(g)
    BY <2>1, <2>2 DEF Due, Left, TypeOK
  <2> QED BY <1>0, <2>1, <2>3, EventIs DEF OnItsWay
<1>13. CASE AcceptFails
  <2>1. /\ UNCHANGED <<peer, inbox, sock, epoll, ready>> /\ Event(Listen, "in") /\ loop # "remove"
        /\ g # Listen
    BY <1>13 DEF AcceptFails, Event, LoopAt, TypeOK, kernel
  <2> QED BY <1>0, <2>1, EventIs DEF Due, Left, OnItsWay
<1>14. CASE HandleNewConnection
  <2>1. PICK f \in Fd : /\ sock' = [sock EXCEPT ![f] = Head(backlog)]
                        /\ epoll' = epoll \cup {f} /\ ready' = ready \cup {f}
    BY <1>14 DEF HandleNewConnection
  <2>2. CASE g = f
    BY <2>1, <2>2 DEF OnItsWay
  <2>3. CASE g # f
    <3>1. /\ UNCHANGED <<peer, inbox>> /\ Event(Listen, "in") /\ loop # "remove"
          /\ g \in epoll /\ g # Listen /\ sock'[g] = sock[g]
      BY <1>14, <2>1, <2>3 DEF HandleNewConnection, Event, LoopAt, TypeOK
    <3> QED BY <1>0, <2>1, <3>1, EventIs DEF Due, Left, OnItsWay
  <2> QED BY <2>2, <2>3
<1>15. CASE Remove
  <2>1. UNCHANGED <<peer, inbox, sock, events>> /\ epoll' = epoll \ {cur_fd} /\ ready' = ready \ {cur_fd}
    BY <1>15 DEF Remove, RemoveFromEpoll
  <2> QED BY <1>0, <2>1 DEF Due, Left, OnItsWay
<1>16. CASE Erase
  <2>1. UNCHANGED <<peer, inbox, sock, epoll, ready, events>> /\ loop # "remove"
    BY <1>16 DEF Erase, LoopAt, kernel
  <2> QED BY <1>0, <2>1 DEF Due, Left, OnItsWay
<1> QED
  BY <1>1, <1>2, <1>3, <1>4, <1>5, <1>6, <1>7, <1>8, <1>9, <1>10, <1>11, <1>12, <1>13, <1>14, <1>15, <1>16
  DEF Next, Clients, Loop, HandleEvent, HandleMessageSync, Releasing

-----------------------------------------------------------------------------
(* Theorems.                                                               *)

\* The invariant holds at first.
LEMMA InitIInv == Init => IInv
<1> SUFFICES ASSUME Init PROVE IInv
  OBVIOUS
<1> USE ConnAssumption, RequestAssumption
<1>1. TypeOK
  <2>1. /\ inbox \in [Conn -> Seq(Stream!Piece)] /\ recv_buf \in [Conn -> Seq(Stream!Piece)]
        /\ answers \in [Conn -> Seq(Request)] /\ send_buf \in [Conn -> Seq(Request)]
        /\ backlog \in Seq(Conn)
    BY NoPiece, Empty DEF Init
  <2>2. task \in [Request -> Pool!Progress] /\ pool \in {"open", "closed", "joined"}
    BY DEF Init, Pool!Init, Pool!Progress
  <2> QED BY <2>1, <2>2 DEF Init, TypeOK
<1>2. Sockets /\ EntriesOpen /\ Held /\ Local
  BY DEF Init, Sockets, EntriesOpen, Held, Local
<1>3. Backlog /\ Streams
  BY NoPiece, Empty DEF Init, Backlog, Streams
<1>4. Closures
  BY DEF Init, Pool!Init, Closures
<1>5. Given
  BY OnceNothing DEF Init, Given
<1>6. NoEventLost
  BY DEF Init, NoEventLost
<1> QED BY <1>1, <1>2, <1>3, <1>4, <1>5, <1>6 DEF IInv

\* The invariant holds in every reachable state, for any numbers of connections,
\* descriptors and requests, and any world.
THEOREM Invariance == Spec => []IInv
<1>1. IInv /\ [Next]_vars => IInv'
  BY TypesInductive, SocketsInductive, EntriesInductive, BacklogInductive, HeldInductive, LocalInductive,
     ClosuresInductive, StreamsInductive, GivenInductive, EventsInductive DEF IInv
<1> QED BY <1>1, InitIInv, PTL DEF Spec

\* Every variable keeps its type.
THEOREM TypeCorrect == Spec => []TypeOK
<1>1. IInv => TypeOK
  BY DEF IInv
<1> QED BY <1>1, Invariance, PTL

\* An entry of m_connects is that of an open connection whose descriptor it is,
\* whoever closes what while the loop, the workers and CloseAll are at work: a
\* number that is used again has no entry left.
THEOREM TableIsOpen == Spec => []EntriesOpen
<1>1. IInv => EntriesOpen
  BY DEF IInv
<1> QED BY <1>1, Invariance, PTL

\* Edge-triggered epoll loses nothing: what a watched connection has to be read,
\* or its end, is reported, or about to be.
THEOREM NoEdgeMissed == Spec => []NoEventLost
<1>1. IInv => NoEventLost
  BY DEF IInv
<1> QED BY <1>1, Invariance, PTL

\* An answer goes to the client that asked, once, also when the descriptor's
\* number has changed hands in between.
THEOREM AnswersToTheRightClient == Spec => []AnswersRight
<1>1. IInv => AnswersRight
  <2> SUFFICES ASSUME IInv, NEW c \in Conn
               PROVE  /\ \A i \in 1..Len(answers[c]) : Sender[answers[c][i]] = c
                      /\ \A i, j \in 1..Len(answers[c]) : answers[c][i] = answers[c][j] => i = j
    BY DEF AnswersRight
  <2>1. answers[c] \in Seq(Request) /\ send_buf[c] \in Seq(Request)
    BY DEF IInv, TypeOK
  <2>2. Once(answers[c] \o send_buf[c], c, Settled)
    BY DEF IInv, Given
  <2>3. Once(answers[c] \o <<>>, c, Settled)
    BY <2>1, <2>2, OncePrefix
  <2>4. answers[c] \o <<>> = answers[c]
    BY <2>1
  <2>5. Once(answers[c], c, Settled)
    BY <2>3, <2>4
  <2> QED BY <2>5 DEF Once
<1> QED BY <1>1, Invariance, PTL

\* When the server has stopped and the workers have let go of their requests,
\* nothing refers to a connection any more: all of them are closed.
THEOREM NoConnectionLeft == Spec => []ReleasedAtEnd
<1>1. IInv => ReleasedAtEnd
  BY ConnAssumption DEF IInv, Held, Local, ReleasedAtEnd
<1> QED BY <1>1, Invariance, PTL

-----------------------------------------------------------------------------
(* A server that no signal stops.                                          *)

NoSignals == {"SIGINT", "SIGTERM"} \cap World = {}

\* Without signals each step keeps Unlisted.
LEMMA UnlistedInductive == NoSignals /\ IInv /\ Unlisted /\ [Next]_vars => Unlisted'
<1> SUFFICES ASSUME NoSignals, IInv, Unlisted, [Next]_vars PROVE Unlisted'
  OBVIOUS
<1> USE ConnAssumption, RequestAssumption DEF IInv
<1>1. closing = "no" /\ loop # "ended" /\ ~is_stop
  BY DEF Unlisted
<1>2. ~Interrupt /\ ~Terminate /\ ~TerminateHangs /\ ~LoopEnds /\ ~CloseOne /\ ~CloseAllCrashes /\ ~CloseAllEnds
  BY <1>1 DEF NoSignals, Interrupt, Terminate, TerminateHangs, LoopEnds, CloseOne, CloseAllCrashes, CloseAllEnds
<1>3. ASSUME NEW c \in Conn, fd[c] # NoFd, fd[c] \in epoll
      PROVE  table[fd[c]] = c \/ (loop = "remove" /\ cur = c /\ cur_fd = fd[c])
  BY <1>3 DEF Unlisted
<1>4. CASE \/ ShutDown \/ \E r \in Request : Send(r) \/ StartTask(r) \/ CheckRunning(r) \/ SendRes(r)
           \/ \E c \in Conn : Arrive(c) \/ Refused(c) \/ \E how : Depart(c, how)
           \/ UNCHANGED vars
  <2>1. UNCHANGED <<fd, epoll, table, loop, cur, cur_fd, closing, is_stop>>
    BY <1>4 DEF ShutDown, Send, Transmit, StartTask, CheckRunning, SendRes, Arrive, Depart, Refused, vars, kernel,
                objects, cycle
  <2> QED BY <2>1 DEF Unlisted
<1>5. CASE \/ Wait \/ AcceptFails \/ EnqueueAccepts \/ EnqueueRefuses
           \/ \E f \in Fd : HandleWritable(f) \/ HandleStale(f)
  <2>1. /\ UNCHANGED <<fd, epoll, table, closing, is_stop>>
        /\ loop # "remove" /\ loop' \notin {"erase", "ended"}
    BY <1>5 DEF Wait, AcceptFails, EnqueueAccepts, EnqueueRefuses, HandleWritable, HandleStale, Returned,
                Event, LoopAt, kernel, objects
  <2> QED BY <1>3, <2>1 DEF Unlisted
<1>6. ASSUME NEW f \in Fd, HandleData(f) PROVE Unlisted'
  <2>1. /\ UNCHANGED <<fd, epoll, table, closing, is_stop>>
        /\ loop # "remove" /\ loop' \notin {"erase", "ended"}
    BY <1>6 DEF HandleData, Event, LoopAt
  <2> QED BY <1>3, <2>1 DEF Unlisted
<1>7. ASSUME NEW f \in Fd, HandleError(f) PROVE Unlisted'
  <2>1. /\ UNCHANGED <<fd, table, closing, is_stop>> /\ epoll' \subseteq epoll
        /\ loop # "remove" /\ loop' \notin {"erase", "ended"}
    BY <1>7 DEF HandleError, RemoveFromEpoll, Returned, Event, LoopAt, objects
  <2> QED BY <1>3, <2>1 DEF Unlisted
<1>8. ASSUME NEW f \in Fd, HandleEnd(f) PROVE Unlisted'
  <2> DEFINE c == table[f]
  <2>1. /\ UNCHANGED <<fd, epoll, closing, is_stop>> /\ loop # "remove"
        /\ loop' = "remove" /\ cur' = c /\ cur_fd' = f
        /\ c \in Conn /\ table' = [table EXCEPT ![fd[c]] = NoConn]
    BY <1>8 DEF HandleEnd, Close, HandleClose, Event, LoopAt, TypeOK
  <2>2. fd[c] = f
    BY <2>1 DEF EntriesOpen
  <2> HIDE DEF c
  <2>3. ASSUME NEW d \in Conn, fd[d] # NoFd, fd[d] \in epoll, d # c PROVE table'[fd[d]] = d
    <3>1. table[fd[d]] = d /\ fd[d] \in Fd
      BY <1>3, <2>1, <2>3 DEF TypeOK
    <3>2. fd[d] # f
      BY <2>1, <2>2, <2>3 DEF Sockets, TypeOK
    <3> QED BY <2>1, <2>2, <3>1, <3>2 DEF TypeOK
  <2> QED BY <1>1, <2>1, <2>2, <2>3 DEF Unlisted
<1>9. CASE HandleNewConnection
  <2> DEFINE c == Head(backlog)
  <2>1. c \in Conn
    BY <1>9 DEF HandleNewConnection, TypeOK
  <2>2. PICK f \in Fd : /\ sock[f] = NoConn /\ fd' = [fd EXCEPT ![c] = f] /\ epoll' = epoll \cup {f}
                        /\ table' = [table EXCEPT ![f] = IF @ = NoConn THEN c ELSE @]
    BY <1>9 DEF HandleNewConnection
  <2>3. UNCHANGED <<closing, is_stop>> /\ loop = "next" /\ loop' = "return"
    BY <1>9 DEF HandleNewConnection, Event, LoopAt
  <2> HIDE DEF c
  <2>4. table[f] = NoConn
    BY <2>2 DEF EntriesOpen, TypeOK
  <2>5. ASSUME NEW d \in Conn, fd'[d] # NoFd, fd'[d] \in epoll' PROVE table'[fd'[d]] = d
    <3>1. CASE d = c
      BY <2>1, <2>2, <2>4, <3>1 DEF TypeOK
    <3>2. CASE d # c
      <4>1. fd'[d] = fd[d] /\ fd[d] \in Fd /\ fd[d] # NoFd
        BY <2>2, <2>5, <3>2 DEF TypeOK
      <4>2. fd[d] # f
        BY <2>2, <4>1 DEF Sockets
      <4>3. table[fd[d]] = d
        BY <1>3, <2>2, <2>3, <2>5, <4>1, <4>2
      <4> QED BY <2>2, <4>1, <4>2, <4>3 DEF TypeOK
    <3> QED BY <3>1, <3>2
  <2> QED BY <1>1, <2>3, <2>5 DEF Unlisted
<1>10. CASE Remove
  <2>1. /\ UNCHANGED <<fd, table, cur, cur_fd, closing, is_stop>> /\ epoll' = epoll \ {cur_fd}
        /\ loop' = "erase"
    BY <1>10 DEF Remove, RemoveFromEpoll, objects
  <2> QED BY <1>1, <1>3, <2>1 DEF Unlisted
<1>11. CASE Erase
  <2>1. /\ UNCHANGED <<fd, epoll, closing, is_stop>> /\ table' = [table EXCEPT ![cur_fd] = NoConn]
        /\ loop' = "return" /\ loop = "erase" /\ cur_fd \notin epoll
    BY <1>11 DEF Erase, LoopAt, Unlisted, kernel
  <2>2. ASSUME NEW c \in Conn, fd[c] # NoFd, fd[c] \in epoll PROVE table'[fd[c]] = c
    BY <1>3, <2>1, <2>2 DEF TypeOK
  <2> QED BY <1>1, <2>1, <2>2 DEF Unlisted
<1>12. CASE Return \/ \E r \in Request : DropTask(r)
  <2>1. /\ \A c \in Conn : fd'[c] # NoFd => fd'[c] = fd[c]
        /\ epoll' \subseteq epoll
    BY <1>12, ReleasingDestroys DEF Releasing, Destroy
  <2>2. UNCHANGED <<table, closing, is_stop>>
    BY <1>12 DEF Return, DropTask, cycle
  <2>3. \/ loop = "return" /\ loop' \in {"wait", "next"}
        \/ UNCHANGED <<loop, cur, cur_fd>>
    BY <1>12 DEF Return, LoopAt, Returned, DropTask, cycle
  <2> QED BY <1>1, <1>3, <2>1, <2>2, <2>3 DEF Unlisted
<1> QED
  BY <1>2, <1>4, <1>5, <1>6, <1>7, <1>8, <1>9, <1>10, <1>11, <1>12
  DEF Next, Clients, Loop, HandleEvent, HandleMessageSync

\* Without signals epoll has forgotten a descriptor before it is closed, whether
\* the loop or the worker that holds the last reference closes it.
THEOREM ForgottenBeforeClosed == NoSignals /\ Spec => DelBeforeClose
<1> DEFINE Forgotten == \A c \in Conn : fd[c] # NoFd /\ fd'[c] = NoFd => fd[c] \notin epoll
<1> SUFFICES ASSUME NoSignals PROVE Spec => DelBeforeClose
  OBVIOUS
<1>1. Init => Unlisted
  BY ConnAssumption DEF Init, Unlisted
<1>2. IInv /\ Unlisted /\ [Next]_vars => [Forgotten]_vars
  <2> SUFFICES ASSUME IInv, Unlisted, Next PROVE Forgotten
    OBVIOUS
  <2> USE ConnAssumption, RequestAssumption DEF IInv
  <2>1. CASE Return \/ \E r \in Request : DropTask(r)
    <3>1. \A c \in Conn : fd'[c] # fd[c] => c \in Unheld(table', cur', lambda')
      BY <2>1, ReleasingDestroys DEF Releasing, Destroy
    <3>2. \A c \in Conn : fd'[c] # fd[c] => c # cur' /\ \A f \in Fd : table'[f] # c
      BY <3>1 DEF Unheld
    <3>3. table' = table /\ (loop = "return" \/ cur' = cur)
      BY <2>1 DEF Return, LoopAt, DropTask, cycle
    <3> QED BY <3>2, <3>3 DEF Unlisted, TypeOK
  <2>2. CASE HandleNewConnection
    BY <2>2 DEF HandleNewConnection, TypeOK
  <2>3. CASE fd' = fd
    BY <2>3
  <2>4. Return \/ (\E r \in Request : DropTask(r)) \/ HandleNewConnection \/ fd' = fd
    <3>1. Quiet => fd' = fd
      BY QuietKeeps
    <3>2. ~CloseOne /\ ~CloseAllEnds /\ ~LoopEnds
      BY DEF Unlisted, CloseOne, CloseAllEnds, LoopEnds
    <3>3. ASSUME \/ Remove \/ Erase \/ Terminate \/ TerminateHangs
                 \/ \E f \in Fd : HandleError(f) \/ HandleEnd(f)
                 \/ \E c \in Conn : Arrive(c) \/ Refused(c) \/ \E how : Depart(c, how)
          PROVE  fd' = fd
      BY <3>3 DEF Remove, Erase, Terminate, TerminateHangs, HandleError, HandleEnd, Close, Arrive, Depart,
                  Refused, objects
    <3> QED BY <3>1, <3>2, <3>3 DEF Next, Clients, Loop, HandleEvent, HandleMessageSync, Quiet
  <2> QED BY <2>1, <2>2, <2>3, <2>4
<1>3. [][Forgotten]_vars => DelBeforeClose
  BY PTL DEF DelBeforeClose
<1>4. IInv /\ Unlisted /\ [Next]_vars => Unlisted'
  BY UnlistedInductive
<1> QED BY <1>1, <1>2, <1>3, <1>4, Invariance, PTL DEF Spec

=============================================================================
