----------------------------- MODULE RpcClient -----------------------------
(***************************************************************************)
(* rpc::RpcClient: one program thread that connects, calls and disconnects *)
(* (include/rpc_client.h, client/rpc_client.cpp), with the client's side   *)
(* of rpc::Connect below it.  The network and the server beyond it are     *)
(* external: the server answers when it likes, in one piece or two, with   *)
(* what its services say (Services) or an error of its own, in any order,  *)
(* or never, or it closes.                                                 *)
(*                                                                         *)
(* A definition named X_Y, Y being what goes wrong, is X with a plausible  *)
(* mistake in it and no part of the specification.                         *)
(***************************************************************************)
EXTENDS Integers, Sequences

CONSTANTS
  MaxCalls,     \* bound: the calls the program makes
  MaxConnects,  \* bound: the calls of Connect, the constructor's included
  RetryTimes,   \* retry_times_
  Padded,       \* the calls whose encoded answer ends in the padding '='
  Network,      \* what may go wrong: "no_server", "unreachable", "split", "close", "refuse"
  Workload,     \* what the calls may be: a set of [1..MaxCalls -> Queries!Query]
  Listed,       \* the servers ZooKeeper lists, a sequence
  Dead,         \* those of them that nobody answers at
  load_balance, \* of the client's configuration
  ClientHash    \* std::hash of client_ip, or NoClient

Balance == INSTANCE LoadBalance
Queries == INSTANCE Services

ASSUME BoundAssumption == MaxCalls \in Nat /\ MaxConnects \in Nat \ {0} /\ RetryTimes \in Nat \ {0}
ASSUME NetworkAssumption ==
  /\ Padded \subseteq 1..MaxCalls
  /\ Network \subseteq {"no_server", "unreachable", "split", "close", "refuse"}
ASSUME WorkloadAssumption == Workload \subseteq [1..MaxCalls -> Queries!Query]
ASSUME ListedAssumption == Listed \in Seq(Nat \ {0}) /\ Listed # <<>> /\ ClientHash \in Nat \cup {Balance!NoClient}

VARIABLES
  program,       \* where the program is
  is_connected,  \* is_connected_
  conn,          \* conn_ is not null
  running,       \* conn_'s is_running_
  server,        \* the server Connect has chosen, 0 for none
  current_index, \* of RanceLoad
  query,         \* what the calls are
  retry_count,   \* of the loop in Connect
  connects,      \* how often Connect has been called
  sockets,       \* the descriptors the client has open
  sequence_id,   \* sequence_id_, the number of the last call
  recv_buf,      \* conn_'s recv_buf_
  first_call,    \* the first call made on this connection
  asked,         \* the requests the server has and has not answered
  inbox,         \* pieces of answers on their way
  half,          \* the piece that follows the half of an answer that was sent, if any
  server_open,   \* the server has not closed
  errors,        \* the requests it has answered with an error of its own
  result         \* what each call has returned, and whose answer it took

client == <<program, is_connected, conn, running, retry_count, connects, sockets,
            sequence_id, recv_buf, first_call>>
choice == <<server, current_index, query>>
network == <<asked, inbox, half, server_open, errors>>
vars == <<client, choice, network, result>>

Call == 1..MaxCalls
Stream == INSTANCE Framing WITH Message <- Call

\* What Call leaves behind: it failed, or it returned true with the answer to
\* some call, and with response set, or left as it was.
Failed == [returned |-> FALSE, answer |-> 0, set |-> FALSE]
Outcome == {Failed} \cup [returned : {TRUE}, answer : Call, set : BOOLEAN]

-----------------------------------------------------------------------------
Init ==
  /\ program = "constructing" /\ is_connected = FALSE /\ conn = FALSE /\ running = FALSE
  /\ retry_count = 0 /\ connects = 0 /\ sockets = 0 /\ sequence_id = 0
  /\ recv_buf = <<>> /\ first_call = 0
  /\ server = 0 /\ current_index = 0 /\ query \in Workload
  /\ asked = {} /\ inbox = <<>> /\ half = <<>> /\ server_open = FALSE /\ errors = {}
  /\ result = [c \in {} |-> Failed]

\* The constructor reads its configuration and asks for ZooKeeper, or throws.
\* Then it opens a socket, which nothing uses or closes, and calls Connect.
InitConfig ==
  /\ program = "constructing"
  /\ \/ program' = "connecting" /\ connects' = 1 /\ sockets' = 1
     \/ program' = "thrown" /\ "no_server" \in Network /\ UNCHANGED <<connects, sockets>>
  /\ UNCHANGED <<is_connected, conn, running, retry_count, sequence_id, recv_buf,
                 first_call, choice, network, result>>

-----------------------------------------------------------------------------
(* Connect.                                                                *)

ConnectBegins ==
  /\ program = "idle" /\ ~is_connected /\ connects < MaxConnects
  /\ program' = "connecting" /\ retry_count' = 0 /\ connects' = connects + 1 /\ server' = 0
  /\ UNCHANGED <<is_connected, conn, running, sockets, sequence_id, recv_buf, first_call,
                 current_index, query, network, result>>

\* What ZkHandler's GetServer may answer, when ZooKeeper does.
Chosen == Balance!SelectServers(load_balance, Listed, current_index, ClientHash)

\* One server is chosen, and only that one is tried.
GetServer ==
  /\ program = "connecting" /\ server = 0
  /\ server' \in Chosen
  /\ current_index' = Balance!NextIndex(load_balance, Listed, current_index, ClientHash)
  /\ UNCHANGED <<client, query, network, result>>

\* ZooKeeper names no server, or none is chosen: Connect returns false.  In the constructor that
\* is an exception.
GetServerFails ==
  /\ program = "connecting" /\ server = 0 /\ ("no_server" \in Network \/ Chosen = {})
  /\ program' = IF connects = 1 THEN "thrown" ELSE "idle"
  /\ UNCHANGED <<is_connected, conn, running, retry_count, connects, sockets, sequence_id,
                 recv_buf, first_call, choice, network, result>>

MoreRetries_OffByOne == retry_count <= RetryTimes
MoreRetries == retry_count < RetryTimes

AttemptFails_KeepsSocket == sockets' \in {sockets, sockets + 1}

\* No socket, or one that is closed again when TryConnect fails.
AttemptFails == UNCHANGED sockets

RetryFails ==
  /\ program = "connecting" /\ server # 0 /\ MoreRetries
  /\ server \in Dead \/ "unreachable" \in Network
  /\ AttemptFails /\ retry_count' = retry_count + 1
  /\ UNCHANGED <<program, is_connected, conn, running, connects, sequence_id, recv_buf,
                 first_call, choice, network, result>>

\* A new Connect object, with a descriptor and empty buffers of its own.
TryConnect ==
  /\ program = "connecting" /\ server # 0 /\ MoreRetries /\ server \notin Dead
  /\ conn' = TRUE /\ running' = TRUE /\ sockets' = sockets + 1
  /\ asked' = {} /\ inbox' = <<>> /\ half' = <<>> /\ server_open' = TRUE
  /\ is_connected' = TRUE /\ program' = "idle"
  /\ UNCHANGED <<retry_count, connects, sequence_id, recv_buf, first_call, choice, errors,
                 result>>

\* Every attempt has failed: Connect ends as if one had not.
RetriesExhausted ==
  /\ program = "connecting" /\ server # 0 /\ ~MoreRetries
  /\ is_connected' = TRUE /\ program' = "idle"
  /\ UNCHANGED <<conn, running, retry_count, connects, sockets, sequence_id, recv_buf,
                 first_call, choice, network, result>>

\* The buffers of a connection go with it.
Release_KeepsBuffer == UNCHANGED recv_buf
Release == recv_buf' = <<>>

\* conn_ is closed and released, and so is its descriptor.  Without a conn_
\* the process ends here.
DisConnect ==
  /\ program = "idle" /\ is_connected
  /\ is_connected' = FALSE
  /\ IF conn
     THEN /\ conn' = FALSE /\ running' = FALSE /\ sockets' = sockets - 1
          /\ server_open' = FALSE /\ asked' = {} /\ inbox' = <<>> /\ half' = <<>>
          /\ Release /\ first_call' = 0 /\ UNCHANGED <<program, errors>>
     ELSE program' = "crashed" /\ UNCHANGED <<conn, running, sockets, recv_buf, first_call, network>>
  /\ UNCHANGED <<retry_count, connects, sequence_id, choice, result>>

-----------------------------------------------------------------------------
(* Call.  (Not connected, it returns false and changes nothing.)            *)

Next_Id == sequence_id + 1

\* What a call has come to.
Recorded(call, outcome) ==
  result' = [c \in DOMAIN result \cup {call} |-> IF c = call THEN outcome ELSE result[c]]

Return(outcome) == program' = "idle" /\ Recorded(sequence_id, outcome)

\* SendRequest: the request is written, though it may never arrive whole.
SendRequest ==
  /\ program = "idle" /\ is_connected /\ conn /\ sequence_id < MaxCalls
  /\ sequence_id' = Next_Id
  /\ first_call' = IF first_call = 0 THEN Next_Id ELSE first_call
  /\ asked' = IF server_open THEN asked \cup {Next_Id} ELSE asked
  /\ program' = "waiting"
  /\ UNCHANGED <<is_connected, conn, running, retry_count, connects, sockets, recv_buf,
                 choice, inbox, half, server_open, errors, result>>

\* To a server that has closed, send() fails, or SIGPIPE ends the process.
SendFails ==
  /\ program = "idle" /\ is_connected /\ conn /\ sequence_id < MaxCalls /\ ~server_open
  /\ sequence_id' = Next_Id
  /\ \/ program' = "idle" /\ Recorded(Next_Id, Failed)
     \/ program' = "crashed" /\ UNCHANGED result
  /\ UNCHANGED <<is_connected, conn, running, retry_count, connects, sockets, recv_buf,
                 first_call, choice, network>>

\* Connected, and no connection: Call goes through the null conn_.
CallCrashes ==
  /\ program = "idle" /\ is_connected /\ ~conn /\ program' = "crashed"
  /\ UNCHANGED <<is_connected, conn, running, retry_count, connects, sockets, sequence_id,
                 recv_buf, first_call, choice, network, result>>

\* What the server has answered to call n.
Response(n) == IF n \in errors THEN Queries!SendErrorRes ELSE Queries!HandleMessageSync(query[n])

\* ReadWithTimeout, then ProcessResponse on everything received since the
\* connection was made: the buffer is never cleared, and the sequence id of
\* the answer is not looked at.  Nor is its error code.
ProcessResponse ==
  LET buf == recv_buf \o inbox IN
  /\ program = "waiting" /\ running /\ inbox # <<>> /\ server_open
  /\ recv_buf' = buf /\ inbox' = <<>>
  /\ \/ Stream!MayFail(buf) /\ Return(Failed)
     \/ \E m \in Stream!Decoded(buf) :
          LET read == Queries!ReadResult(Response(m), query[sequence_id]) IN
          \/ read = {} /\ Return(Failed)
          \/ \E set \in read : Return([returned |-> TRUE, answer |-> m, set |-> set])
  /\ UNCHANGED <<is_connected, conn, running, retry_count, connects, sockets, sequence_id,
                 first_call, choice, asked, half, server_open, errors>>

\* The end of the stream: Close, whatever came before it.
ReadFails ==
  /\ program = "waiting" /\ ~server_open
  /\ running' = FALSE /\ recv_buf' = <<>> /\ inbox' = <<>> /\ Return(Failed)
  /\ UNCHANGED <<is_connected, conn, retry_count, connects, sockets, sequence_id,
                 first_call, choice, asked, half, server_open, errors>>

TimesOut_Never == FALSE
TimesOut == inbox = <<>>

\* time_out_ms_ without anything to read; an answer may still come.
ReadTimesOut ==
  /\ program = "waiting" /\ server_open /\ TimesOut /\ Return(Failed)
  /\ UNCHANGED <<is_connected, conn, running, retry_count, connects, sockets, sequence_id,
                 recv_buf, first_call, choice, network>>

-----------------------------------------------------------------------------
(* The server, as far as the client can tell.                              *)

Deliver(n, part) == inbox' = Append(inbox, [of |-> n, part |-> part])

Cut(n) ==
  \/ Deliver(n, "front") /\ half' = <<[of |-> n, part |-> "rest"]>>
  \/ n \in Padded /\ Deliver(n, "text") /\ half' = <<[of |-> n, part |-> "pad"]>>

\* Its pool takes no more tasks.
Refused(n) == IF "refuse" \in Network THEN {errors \cup {n}} ELSE {}

Answer ==
  /\ server_open
  /\ \/ half = <<>> /\ \E n \in asked : /\ asked' = asked \ {n}
                                     /\ \/ Deliver(n, "whole") /\ UNCHANGED half
                                        \/ "split" \in Network /\ Cut(n)
                                     /\ errors' \in {errors} \cup Refused(n)
     \/ half # <<>> /\ inbox' = inbox \o half /\ half' = <<>> /\ UNCHANGED <<asked, errors>>
  /\ UNCHANGED <<client, choice, server_open, result>>

ServerCloses ==
  /\ "close" \in Network /\ server_open /\ server_open' = FALSE
  /\ UNCHANGED <<client, choice, asked, inbox, half, errors, result>>

-----------------------------------------------------------------------------
Connect ==
  \/ ConnectBegins \/ GetServer \/ GetServerFails \/ RetryFails \/ TryConnect \/ RetriesExhausted

CallSteps ==
  \/ SendRequest \/ SendFails \/ CallCrashes
  \/ ProcessResponse \/ ReadFails \/ ReadTimesOut

Next == InitConfig \/ Connect \/ DisConnect \/ CallSteps \/ Answer \/ ServerCloses

Spec == Init /\ [][Next]_vars

(* A call that has begun goes on: connect() and select() come back, at the  *)
(* latest when their timeout expires.  When to call is up to the program,   *)
(* and whether to answer up to the server.                                  *)
FairSpec ==
  /\ Spec /\ WF_vars(InitConfig) /\ WF_vars(program = "connecting" /\ Connect)
  /\ WF_vars(program = "waiting" /\ CallSteps)

-----------------------------------------------------------------------------
(* Properties.                                                             *)

TypeOK ==
  /\ program \in {"constructing", "idle", "connecting", "waiting", "thrown", "crashed"}
  /\ {is_connected, conn, running, server_open} \subseteq BOOLEAN /\ (running => conn)
  /\ retry_count \in 0..RetryTimes /\ connects \in 0..MaxConnects /\ sockets \in Nat
  /\ sequence_id \in 0..MaxCalls /\ first_call \in 0..sequence_id
  /\ recv_buf \in Seq(Stream!Piece) /\ inbox \in Seq(Stream!Piece)
  /\ server \in {0} \cup {Listed[i] : i \in 1..Len(Listed)} /\ current_index \in 0..MaxConnects
  /\ query \in Workload /\ errors \subseteq Call
  /\ asked \subseteq Call /\ Len(half) < 2 /\ half \in Seq(Stream!Piece)
  /\ DOMAIN result \subseteq Call /\ \A c \in DOMAIN result : result[c] \in Outcome

\* A call that returns true has the answer to a call made on the same
\* connection, itself or an earlier one; so the first call on a connection has
\* its own answer or none, late answers of earlier connections notwithstanding.
AnswerOfThisConnection ==
  [][\A c \in DOMAIN result' \ DOMAIN result :
       result'[c].returned => result'[c].answer \in first_call..c]_vars

\* However often connecting fails, the client has one descriptor for its
\* connection, and the one its constructor opened.
SocketsAccounted == sockets = (IF connects = 0 THEN 0 ELSE 1) + (IF conn THEN 1 ELSE 0)

\* What a service accepts, said of the call as its caller makes it.
Accepted(q) ==
  /\ q.form = "json" /\ q.serializer = "json" /\ "binary" \notin {q.args.message, q.args.user_id}
  /\ \/ q.service = "RpcService" /\ q.method = "echo"
        /\ q.args.message \in {"empty", "text"} /\ q.args.user_id # "other"
     \/ q.service = "UserService" /\ q.method = "get_username"
        /\ q.args.user_id \in {"empty", "text"}

\* A refusal is silent: Call returns true and leaves the response as it was.  It
\* does so only then, and every response that is set comes from a call that the
\* services accept: no error text, and nothing of a payload that could not be
\* serialized, gets to a caller as if it were a result.
SilentOnlyWhenRefused ==
  \A c \in DOMAIN result : result[c].returned =>
    (result[c].set <=> Accepted(query[result[c].answer]) /\ result[c].answer \notin errors)

\* Connect and Call return: every retry is counted, every wait has a timeout.
CallsReturn ==
  program \in {"constructing", "connecting", "waiting"} ~> program \in {"idle", "thrown", "crashed"}

\* A client that is connected has a connection.
ConnectedHasConnection == is_connected => conn

=============================================================================
