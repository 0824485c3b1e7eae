-------------------------- MODULE RpcClientProofs --------------------------
(***************************************************************************)
(* Safety of RpcClient for any number of calls, connects and retries, any  *)
(* program of calls, any list of servers and any network.  The inductive   *)
(* invariant says, besides the types: where the program can be with and    *)
(* without a connection (Places), that what is on its way or received on a *)
(* connection answers a request made on it (Streams), and what the results *)
(* so far come from (Results).                                             *)
(***************************************************************************)
EXTENDS RpcClient, TLAPS

\* With a connection the program is connected, and it only connects without one.
Places ==
  /\ conn => is_connected
  /\ program \in {"constructing", "connecting"} => ~is_connected
  /\ program = "constructing" => connects = 0
  /\ program \in {"idle", "connecting", "waiting"} => connects > 0
  /\ program = "waiting" => conn
  /\ ~conn => first_call = 0

\* How often round robin has moved on.
Turns ==
  /\ current_index <= connects
  /\ program = "connecting" /\ server = 0 => current_index < connects

\* The calls made on this connection, none without one.
Made == {n \in Call : first_call # 0 /\ first_call <= n /\ n <= sequence_id}

Answers(buf, calls) == \A i \in 1..Len(buf) : buf[i].of \in calls

Streams ==
  /\ asked \subseteq Made
  /\ Answers(recv_buf, Made \ asked)
  /\ Answers(inbox, Made \ asked)
  /\ Answers(half, Made \ asked)

Results ==
  /\ \A c \in DOMAIN result : c <= sequence_id
  /\ program = "waiting" => sequence_id > 0 /\ sequence_id \notin DOMAIN result
  /\ \A c \in DOMAIN result : result[c].returned =>
       result[c].answer <= sequence_id /\ result[c].answer \notin asked

IInv ==
  TypeOK /\ SocketsAccounted /\ Places /\ Turns /\ Streams /\ Results /\ SilentOnlyWhenRefused

-----------------------------------------------------------------------------
(* Services.                                                               *)

\* What is read as JSON is what was written as JSON.
LEMMA ReadsWhatWasWritten ==
  /\ Queries!JsonDeserialize(<<>>) = {}
  /\ \A form, value :
       Queries!JsonDeserialize(<<[form |-> form, value |-> value]>>) =
         IF form = "json" THEN {value} ELSE {}
BY DEF Queries!JsonDeserialize, Queries!ValuesIn

\* Nothing is found in a payload that is not JSON.
LEMMA NothingInNoJson ==
  ASSUME NEW q, NEW payload, Queries!JsonDeserialize(payload) = {}
  PROVE  Queries!HandleRequest(q, payload) = {}
BY DEF Queries!HandleRequest, Queries!UserService, Queries!RpcService, Queries!Usernames,
       Queries!HandleEcho

\* What the services accept is what comes back with a result.
LEMMA AcceptedHaveResults ==
  ASSUME NEW q \in Queries!Query
  PROVE  Queries!HandleMessageSync(q).result_data # <<>> <=> Accepted(q)
<1> DEFINE found == Queries!HandleRequest(q, Queries!Serialize(q))
<1>1. Queries!HandleMessageSync(q).result_data # <<>> <=> Queries!IsValid(q) /\ found # {}
  BY DEF Queries!HandleMessageSync, Queries!SendErrorRes, Queries!SendSuccessRes
<1>2. CASE ~(q.form = "json" /\ q.serializer = "json" /\ "binary" \notin {q.args.message, q.args.user_id})
  <2>1. Queries!JsonDeserialize(Queries!Serialize(q)) = {}
    <3>1. \/ Queries!Serialize(q) = <<>>
          \/ Queries!Serialize(q) = <<[form |-> "protobuf", value |-> q.args]>>
      BY <1>2 DEF Queries!Serialize, Queries!JsonSerialize, Queries!ProtobufSerialize, Queries!Query
    <3> QED BY <3>1, ReadsWhatWasWritten
  <2>2. found = {}
    BY <2>1, NothingInNoJson
  <2> QED BY <1>1, <1>2, <2>2 DEF Accepted
<1>3. CASE q.form = "json" /\ q.serializer = "json" /\ "binary" \notin {q.args.message, q.args.user_id}
  <2> DEFINE payload == <<[form |-> "json", value |-> q.args]>>
  <2>1. Queries!Serialize(q) = payload
    BY <1>3 DEF Queries!Serialize, Queries!JsonSerialize
  <2>2. Queries!JsonDeserialize(payload) = {q.args}
    BY ReadsWhatWasWritten
  <2>3. q.args.message \in Queries!Member /\ q.args.user_id \in Queries!Member
    BY DEF Queries!Query, Queries!Arguments
  <2>4. Queries!Usernames(payload) # {} <=> q.args.user_id \in {"empty", "text"}
    BY <2>2 DEF Queries!Usernames, Queries!IsString
  <2>5. Queries!HandleEcho(payload) # {} <=>
          q.args.message \in {"empty", "text"} /\ q.args.user_id # "other"
    BY <1>3, <2>2, <2>3 DEF Queries!HandleEcho, Queries!IsString, Queries!Member
  <2> HIDE DEF payload
  <2>6. found # {} <=>
          \/ q.service = "UserService" /\ q.method = "get_username" /\ Queries!Usernames(payload) # {}
          \/ q.service = "RpcService" /\ q.method = "echo" /\ Queries!HandleEcho(payload) # {}
    BY <2>1 DEF Queries!HandleRequest, Queries!UserService, Queries!RpcService
  <2> QED BY <1>1, <1>3, <2>4, <2>5, <2>6 DEF Accepted, Queries!IsValid
<1> QED BY <1>2, <1>3

\* When the caller's response is set, and when it is left as it was.
LEMMA SetMeansResult ==
  ASSUME NEW n, query[n] \in Queries!Query, NEW q, NEW set \in Queries!ReadResult(Response(n), q)
  PROVE  set \in BOOLEAN /\ (set <=> Accepted(query[n]) /\ n \notin errors)
<1>1. set \in BOOLEAN /\ (set <=> Response(n).result_data # <<>>)
  BY DEF Queries!ReadResult
<1>2. CASE n \in errors
  BY <1>1, <1>2 DEF Response, Queries!SendErrorRes
<1>3. CASE n \notin errors
  BY <1>1, <1>3, AcceptedHaveResults DEF Response
<1> QED BY <1>2, <1>3

-----------------------------------------------------------------------------
(* Buffers.                                                                *)

\* Buffers begin and end empty.
LEMMA NoPiece == <<>> \in Seq(Stream!Piece) /\ Len(<<>>) < 2
OBVIOUS

\* A piece by itself.
LEMMA OnePiece ==
  ASSUME NEW piece \in Stream!Piece
  PROVE  <<piece>> \in Seq(Stream!Piece) /\ Len(<<piece>>) < 2
OBVIOUS

\* Two buffers one after the other.
LEMMA AnswersConcat ==
  ASSUME NEW s \in Seq(Stream!Piece), NEW t \in Seq(Stream!Piece), NEW calls,
         Answers(s, calls), Answers(t, calls)
  PROVE  s \o t \in Seq(Stream!Piece) /\ Answers(s \o t, calls)
BY DEF Answers

\* A buffer that answers some calls answers more.
LEMMA AnswersMore ==
  ASSUME NEW buf \in Seq(Stream!Piece), NEW calls, NEW more, Answers(buf, calls), calls \subseteq more
  PROVE  Answers(buf, more)
BY DEF Answers

\* What a buffer is decoded to is what its first piece is of.
LEMMA DecodedIsFirst ==
  ASSUME NEW buf \in Seq(Stream!Piece), NEW calls, Answers(buf, calls),
         NEW m \in Stream!Decoded(buf)
  PROVE  m \in calls /\ m \in Call
<1>1. m \in Call /\ Len(buf) > 0 /\ buf[1].of = m
  BY DEF Stream!Decoded, Stream!Complete
<1> QED BY <1>1 DEF Answers

\* What the server sends answers a request that it had, and has no more.
LEMMA AnswerArrives ==
  ASSUME Answer, inbox \in Seq(Stream!Piece), half \in Seq(Stream!Piece), Len(half) < 2,
         asked \subseteq Call
  PROVE  /\ inbox' \in Seq(Stream!Piece) /\ half' \in Seq(Stream!Piece) /\ Len(half') < 2
         /\ \A calls : asked \subseteq calls /\ Answers(inbox, calls \ asked) /\ Answers(half, calls \ asked) =>
              Answers(inbox', calls \ asked') /\ Answers(half', calls \ asked')
         /\ asked' \subseteq asked
         /\ errors \subseteq errors' /\ errors' \subseteq errors \cup (asked \ asked')
<1>1. CASE half = <<>>
  <2>1. PICK n \in asked : /\ asked' = asked \ {n}
                          /\ \/ Deliver(n, "whole") /\ UNCHANGED half
                             \/ Cut(n)
                          /\ errors' \in {errors} \cup Refused(n)
    BY <1>1 DEF Answer
  <2>2. PICK part \in {"whole", "front", "text"} : Deliver(n, part)
    BY <2>1 DEF Cut
  <2>3. [of |-> n, part |-> part] \in Stream!Piece
    BY DEF Stream!Piece
  <2>4. half' = half \/ \E last \in {"rest", "pad"} : half' = <<[of |-> n, part |-> last]>>
    BY <2>1 DEF Cut
  <2>5. half' \in Seq(Stream!Piece) /\ Len(half') < 2
    <3>1. CASE \E last \in {"rest", "pad"} : half' = <<[of |-> n, part |-> last]>>
      <4>1. PICK last \in {"rest", "pad"} : half' = <<[of |-> n, part |-> last]>>
        BY <3>1
      <4>2. [of |-> n, part |-> last] \in Stream!Piece
        BY DEF Stream!Piece
      <4> QED BY <4>1, <4>2, OnePiece
    <3> QED BY <2>4, <3>1
  <2>6. inbox' \in Seq(Stream!Piece)
    BY <2>2, <2>3 DEF Deliver
  <2>7. ASSUME NEW calls, asked \subseteq calls, Answers(inbox, calls \ asked)
        PROVE  Answers(inbox', calls \ asked') /\ Answers(half', calls \ asked')
    <3>1. n \in calls \ asked'
      BY <2>1, <2>7
    <3>2. Answers(inbox', calls \ asked')
      BY <2>1, <2>2, <2>3, <2>7, <3>1 DEF Deliver, Answers
    <3>3. Answers(half', calls \ asked')
      BY <1>1, <2>4, <3>1 DEF Answers
    <3> QED BY <3>2, <3>3
  <2>8. errors \subseteq errors' /\ errors' \subseteq errors \cup (asked \ asked') /\ asked' \subseteq asked
    BY <2>1 DEF Refused
  <2> QED BY <2>5, <2>6, <2>7, <2>8
<1>2. CASE half # <<>>
  <2>1. inbox' = inbox \o half /\ half' = <<>> /\ asked' = asked /\ errors' = errors
    BY <1>2 DEF Answer
  <2>2. ASSUME NEW calls, Answers(inbox, calls \ asked), Answers(half, calls \ asked)
        PROVE  Answers(inbox', calls \ asked') /\ Answers(half', calls \ asked')
    BY <2>1, <2>2, AnswersConcat DEF Answers
  <2>3. inbox' \in Seq(Stream!Piece) /\ half' \in Seq(Stream!Piece) /\ Len(half') < 2
    <3> QED BY <2>1, NoPiece
  <2> QED BY <2>1, <2>2, <2>3
<1> QED BY <1>1, <1>2

\* Whatever way of balancing is configured, the server chosen is one that ZooKeeper lists.
LEMMA ChosenIsListed ==
  ASSUME NEW s \in Chosen, current_index \in Nat
  PROVE  s \in {Listed[i] : i \in 1..Len(Listed)} /\ s # 0
<1>1. Len(Listed) > 0 /\ \A i \in 1..Len(Listed) : Listed[i] # 0
  BY ListedAssumption
<1>2. current_index % Len(Listed) \in 0..Len(Listed) - 1
  BY <1>1, ListedAssumption
<1>3. ClientHash # -1 => ClientHash % Len(Listed) \in 0..Len(Listed) - 1
  BY <1>1, ListedAssumption DEF Balance!NoClient
<1>4. \E i \in 1..Len(Listed) : s = Listed[i]
  <2>1. \/ ClientHash # -1 /\ s \in Balance!HashLoad(Listed, ClientHash)
        \/ s \in Balance!RanceLoad(Listed, current_index)
        \/ s \in Balance!RandomLoad(Listed)
    BY DEF Chosen, Balance!SelectServers, Balance!NoClient
  <2>2. CASE ClientHash # -1 /\ s \in Balance!HashLoad(Listed, ClientHash)
    <3> DEFINE i == ClientHash % Len(Listed)
    <3>1. i \in 0..Len(Listed) - 1 /\ s = Listed[i + 1]
      BY <2>2, <1>3 DEF Balance!HashLoad
    <3> HIDE DEF i
    <3> QED BY <3>1, ListedAssumption
  <2>3. CASE s \in Balance!RanceLoad(Listed, current_index)
    <3> DEFINE i == current_index % Len(Listed)
    <3>1. i \in 0..Len(Listed) - 1 /\ s = Listed[i + 1]
      BY <2>3, <1>2 DEF Balance!RanceLoad
    <3> HIDE DEF i
    <3> QED BY <3>1, ListedAssumption
  <2>4. CASE s \in Balance!RandomLoad(Listed)
    BY <2>4, ListedAssumption DEF Balance!RandomLoad, Balance!ToSet
  <2> QED BY <2>1, <2>2, <2>3, <2>4
<1> QED BY <1>1, <1>4

-----------------------------------------------------------------------------
(* Types.                                                                  *)

\* The invariant holds when the program begins.
LEMMA InitIInv == Init => IInv
<1> SUFFICES ASSUME Init PROVE IInv
  OBVIOUS
<1> USE DEF Init
<1>1. TypeOK
  <2>1. DOMAIN result \subseteq Call /\ \A c \in DOMAIN result : result[c] \in Outcome
    OBVIOUS
  <2>2. /\ recv_buf \in Seq(Stream!Piece) /\ inbox \in Seq(Stream!Piece)
        /\ half \in Seq(Stream!Piece) /\ Len(half) < 2
    BY NoPiece
  <2>3. {is_connected, conn, running, server_open} \subseteq BOOLEAN /\ (running => conn)
    OBVIOUS
  <2>4. /\ retry_count \in 0..RetryTimes /\ connects \in 0..MaxConnects /\ sockets \in Nat
        /\ sequence_id \in 0..MaxCalls /\ first_call \in 0..sequence_id
        /\ current_index \in 0..MaxConnects
    BY BoundAssumption
  <2> HIDE DEF Init
  <2>5. /\ program = "constructing" /\ server = 0 /\ query \in Workload /\ errors = {} /\ asked = {}
    BY DEF Init
  <2> QED BY <2>1, <2>2, <2>3, <2>4, <2>5 DEF TypeOK
<1>2. SocketsAccounted /\ Places /\ Turns
  BY DEF SocketsAccounted, Places, Turns
<1>3. Streams
  BY DEF Streams, Answers
<1>4. Results /\ SilentOnlyWhenRefused
  BY DEF Results, SilentOnlyWhenRefused
<1> QED BY <1>1, <1>2, <1>3, <1>4 DEF IInv

\* A call that returns leaves one outcome behind.
LEMMA RecordedTypes ==
  ASSUME DOMAIN result \subseteq Call, \A c \in DOMAIN result : result[c] \in Outcome,
         NEW n \in Call, NEW outcome \in Outcome, Recorded(n, outcome)
  PROVE  DOMAIN result' \subseteq Call /\ \A c \in DOMAIN result' : result'[c] \in Outcome
BY DEF Recorded

\* Every step keeps the types.
LEMMA TypesInductive == IInv /\ [Next]_vars => TypeOK'
<1> SUFFICES ASSUME IInv, [Next]_vars PROVE TypeOK'
  OBVIOUS
<1> USE BoundAssumption DEF TypeOK, IInv, Places, Turns
<1>1. CASE InitConfig
  BY <1>1 DEF InitConfig, choice, network
<1>2. CASE ConnectBegins
  BY <1>2 DEF ConnectBegins, network
<1>3. CASE GetServer
  <2>1. server' \in {Listed[i] : i \in 1..Len(Listed)}
    BY <1>3, ChosenIsListed DEF GetServer
  <2>2. current_index' \in {current_index, current_index + 1}
    BY <1>3 DEF GetServer, Balance!NextIndex
  <2> QED BY <1>3, <2>1, <2>2 DEF GetServer, client, network
<1>4. CASE GetServerFails
  BY <1>4 DEF GetServerFails, choice, network
<1>5. CASE RetryFails
  BY <1>5 DEF RetryFails, MoreRetries, AttemptFails, choice, network
<1>6. CASE TryConnect
  BY <1>6, NoPiece DEF TryConnect, choice
<1>7. CASE RetriesExhausted
  BY <1>7 DEF RetriesExhausted, choice, network
<1>8. CASE DisConnect
  <2>1. CASE conn
    <3>1. sockets' \in Nat
      BY <1>8, <2>1 DEF DisConnect, SocketsAccounted
    <3>2. inbox' \in Seq(Stream!Piece) /\ half' \in Seq(Stream!Piece) /\ recv_buf' \in Seq(Stream!Piece)
          /\ Len(half') < 2
      BY <1>8, <2>1, NoPiece DEF DisConnect, Release
    <3>3. /\ program' = "idle" /\ is_connected' = FALSE /\ conn' = FALSE /\ running' = FALSE
          /\ server_open' = FALSE /\ asked' = {} /\ first_call' = 0
          /\ UNCHANGED <<retry_count, connects, sequence_id, server, current_index, query, errors, result>>
      BY <1>8, <2>1 DEF DisConnect, choice
    <3>4. {is_connected', conn', running', server_open'} \subseteq BOOLEAN /\ (running' => conn')
      BY <3>3
    <3>5. /\ DOMAIN result' \subseteq Call /\ \A c \in DOMAIN result' : result'[c] \in Outcome
          /\ retry_count' \in 0..RetryTimes /\ connects' \in 0..MaxConnects
          /\ sequence_id' \in 0..MaxCalls /\ first_call' \in 0..sequence_id'
          /\ server' \in {0} \cup {Listed[i] : i \in 1..Len(Listed)} /\ current_index' \in 0..MaxConnects
          /\ query' \in Workload /\ errors' \subseteq Call /\ asked' \subseteq Call
      BY <3>3
    <3> QED BY <3>1, <3>2, <3>3, <3>4, <3>5 DEF TypeOK
  <2>2. CASE ~conn
    BY <1>8, <2>2 DEF DisConnect, choice, network
  <2> QED BY <2>1, <2>2
<1>9. CASE SendRequest
  BY <1>9 DEF SendRequest, Next_Id, choice, Call
<1>10. CASE SendFails
  <2>1. Next_Id \in Call
    BY <1>10 DEF SendFails, Next_Id, Call
  <2>2. DOMAIN result' \subseteq Call /\ \A c \in DOMAIN result' : result'[c] \in Outcome
    BY <1>10, <2>1, RecordedTypes DEF SendFails, Outcome
  <2> QED BY <1>10, <2>1, <2>2 DEF SendFails, Next_Id, Call, choice, network
<1>11. CASE CallCrashes
  BY <1>11 DEF CallCrashes, choice, network
<1>12. CASE ProcessResponse
  <2>1. recv_buf \o inbox \in Seq(Stream!Piece)
    OBVIOUS
  <2>2. sequence_id \in Call
    BY <1>12 DEF ProcessResponse, Results, Call
  <2>3. PICK outcome \in Outcome : Return(outcome)
    <3>1. CASE Return(Failed)
      BY <3>1 DEF Outcome
    <3>2. CASE \E m \in Stream!Decoded(recv_buf \o inbox) :
                 \E set \in Queries!ReadResult(Response(m), query[sequence_id]) :
                   Return([returned |-> TRUE, answer |-> m, set |-> set])
      <4>1. PICK m \in Stream!Decoded(recv_buf \o inbox) :
              \E set \in Queries!ReadResult(Response(m), query[sequence_id]) :
                Return([returned |-> TRUE, answer |-> m, set |-> set])
        BY <3>2
      <4>2. PICK set \in Queries!ReadResult(Response(m), query[sequence_id]) :
              Return([returned |-> TRUE, answer |-> m, set |-> set])
        BY <4>1
      <4>3. m \in Call
        BY DEF Stream!Decoded, Stream!Complete
      <4>4. set \in BOOLEAN
        BY DEF Queries!ReadResult
      <4> QED BY <4>2, <4>3, <4>4 DEF Outcome
    <3> QED BY <1>12, <3>1, <3>2 DEF ProcessResponse
  <2>4. DOMAIN result' \subseteq Call /\ \A c \in DOMAIN result' : result'[c] \in Outcome
    BY <2>2, <2>3, RecordedTypes DEF Return
  <2> QED BY <1>12, <2>1, <2>3, <2>4, NoPiece DEF ProcessResponse, Return, choice
<1>13. CASE ReadFails
  <2>1. sequence_id \in Call
    BY <1>13 DEF ReadFails, Results, Call
  <2>2. DOMAIN result' \subseteq Call /\ \A c \in DOMAIN result' : result'[c] \in Outcome
    BY <1>13, <2>1, RecordedTypes DEF ReadFails, Return, Outcome
  <2> QED BY <1>13, <2>2, NoPiece DEF ReadFails, Return, choice
<1>14. CASE ReadTimesOut
  <2>1. sequence_id \in Call
    BY <1>14 DEF ReadTimesOut, Results, Call
  <2>2. DOMAIN result' \subseteq Call /\ \A c \in DOMAIN result' : result'[c] \in Outcome
    BY <1>14, <2>1, RecordedTypes DEF ReadTimesOut, Return, Outcome
  <2> QED BY <1>14, <2>2 DEF ReadTimesOut, Return, choice, network
<1>15. CASE Answer
  <2>1. inbox' \in Seq(Stream!Piece) /\ half' \in Seq(Stream!Piece) /\ Len(half') < 2
    BY <1>15, AnswerArrives
  <2>2. errors' \subseteq Call /\ asked' \subseteq Call
    BY <1>15 DEF Answer, Refused
  <2> QED BY <1>15, <2>1, <2>2 DEF Answer, client, choice
<1>16. CASE ServerCloses
  BY <1>16 DEF ServerCloses, client, choice
<1>17. CASE UNCHANGED vars
  BY <1>17 DEF vars, client, choice, network
<1> QED BY <1>1, <1>2, <1>3, <1>4, <1>5, <1>6, <1>7, <1>8, <1>9, <1>10, <1>11, <1>12, <1>13,
           <1>14, <1>15, <1>16, <1>17 DEF Next, Connect, CallSteps

-----------------------------------------------------------------------------
(* The connection and its descriptor.                                      *)

\* Every step of Connect and DisConnect keeps the books of the connection.
LEMMA ConnectionInductive == IInv /\ [Next]_vars => SocketsAccounted' /\ Places' /\ Turns'
<1> SUFFICES ASSUME IInv, [Next]_vars PROVE SocketsAccounted' /\ Places' /\ Turns'
  OBVIOUS
<1> USE DEF SocketsAccounted, Places, Turns
<1>0. /\ current_index \in Nat /\ connects \in Nat /\ sockets \in Nat /\ sequence_id \in Nat
      /\ SocketsAccounted /\ Places /\ Turns
      /\ conn \in BOOLEAN /\ is_connected \in BOOLEAN
  BY BoundAssumption DEF IInv, TypeOK
<1>1. CASE InitConfig
  BY <1>0, <1>1 DEF InitConfig, choice
<1>2. CASE ConnectBegins
  BY <1>0, <1>2 DEF ConnectBegins
<1>3. CASE GetServer
  <2>1. server' # 0
    BY <1>0, <1>3, ChosenIsListed DEF GetServer
  <2>2. current_index' \in {current_index, current_index + 1}
    BY <1>3 DEF GetServer, Balance!NextIndex
  <2> QED BY <1>0, <1>3, <2>1, <2>2 DEF GetServer, client
<1>4. CASE GetServerFails
  BY <1>0, <1>4 DEF GetServerFails, choice
<1>5. CASE RetryFails
  BY <1>0, <1>5 DEF RetryFails, AttemptFails, choice
<1>6. CASE TryConnect
  BY <1>0, <1>6 DEF TryConnect, choice
<1>7. CASE RetriesExhausted
  BY <1>0, <1>7 DEF RetriesExhausted, choice
<1>8. CASE DisConnect
  BY <1>0, <1>8 DEF DisConnect, choice
<1>9. CASE SendRequest
  BY <1>0, <1>9 DEF SendRequest, choice
<1>10. CASE SendFails
  BY <1>0, <1>10 DEF SendFails, choice
<1>11. CASE CallCrashes
  BY <1>0, <1>11 DEF CallCrashes, choice
<1>12. CASE ProcessResponse
  BY <1>0, <1>12 DEF ProcessResponse, Return, choice
<1>13. CASE ReadFails
  BY <1>0, <1>13 DEF ReadFails, Return, choice
<1>14. CASE ReadTimesOut
  BY <1>0, <1>14 DEF ReadTimesOut, Return, choice
<1>15. CASE Answer
  BY <1>0, <1>15 DEF Answer, client, choice
<1>16. CASE ServerCloses
  BY <1>0, <1>16 DEF ServerCloses, client, choice
<1>17. CASE UNCHANGED vars
  BY <1>0, <1>17 DEF vars, client, choice
<1> QED BY <1>1, <1>2, <1>3, <1>4, <1>5, <1>6, <1>7, <1>8, <1>9, <1>10, <1>11, <1>12, <1>13,
           <1>14, <1>15, <1>16, <1>17 DEF Next, Connect, CallSteps

-----------------------------------------------------------------------------
(* What is on its way, and what has been returned.                         *)

\* Every piece of an answer is of a request made on the same connection, and that
\* the server no longer has.
LEMMA StreamsInductive == IInv /\ [Next]_vars => Streams'
<1> SUFFICES ASSUME IInv, [Next]_vars PROVE Streams'
  OBVIOUS
<1>0. /\ recv_buf \in Seq(Stream!Piece) /\ inbox \in Seq(Stream!Piece) /\ half \in Seq(Stream!Piece)
      /\ Len(half) < 2 /\ sequence_id \in Nat /\ first_call \in 0..sequence_id /\ asked \subseteq Call
      /\ Streams /\ Places
  BY BoundAssumption DEF IInv, TypeOK
<1>1. ASSUME sequence_id' = sequence_id, recv_buf' = recv_buf, first_call' = first_call,
             asked' = asked, inbox' = inbox, half' = half
      PROVE  Streams'
  BY <1>0, <1>1 DEF Streams, Made, Answers
<1>2. CASE TryConnect
  <2>1. Made = {} /\ Made' = {}
    BY <1>0, <1>2 DEF TryConnect, Places, Made
  <2>2. Answers(recv_buf, {})
    BY <1>0, <2>1 DEF Streams, Answers
  <2> QED BY <1>2, <2>1, <2>2 DEF TryConnect, Streams, Answers
<1>3. CASE DisConnect /\ conn
  BY <1>3 DEF DisConnect, Release, Streams, Answers
<1>4. CASE SendRequest
  <2>1. Made \ asked \subseteq Made' \ asked' /\ asked' \subseteq Made'
    <3>1. asked \subseteq Made /\ MaxCalls \in Nat
      BY <1>0, BoundAssumption DEF Streams
    <3>2. Made \subseteq Made' /\ Next_Id \in Made' \ Made
      BY <1>0, <1>4, <3>1 DEF SendRequest, Made, Next_Id, Call
    <3>3. asked \subseteq asked' /\ asked' \subseteq asked \cup {Next_Id}
      BY <1>4 DEF SendRequest
    <3> QED BY <3>1, <3>2, <3>3
  <2>2. recv_buf' = recv_buf /\ inbox' = inbox /\ half' = half
    BY <1>4 DEF SendRequest
  <2> QED BY <1>0, <2>1, <2>2, AnswersMore DEF Streams, Answers
<1>5. CASE SendFails
  <2>1. Made \ asked \subseteq Made' \ asked' /\ asked' \subseteq Made'
    BY <1>0, <1>5 DEF SendFails, network, Streams, Made, Next_Id, Call
  <2>2. recv_buf' = recv_buf /\ inbox' = inbox /\ half' = half
    BY <1>5 DEF SendFails, network
  <2> QED BY <1>0, <2>1, <2>2, AnswersMore DEF Streams, Answers
<1>6. CASE ProcessResponse
  <2>1. Made' = Made /\ asked' = asked /\ half' = half /\ recv_buf' = recv_buf \o inbox /\ inbox' = <<>>
    BY <1>6 DEF ProcessResponse, Made
  <2>2. Answers(recv_buf', Made \ asked)
    BY <1>0, <2>1, AnswersConcat DEF Streams
  <2> QED BY <1>0, <2>1, <2>2 DEF Streams, Answers
<1>7. CASE ReadFails
  BY <1>0, <1>7 DEF ReadFails, Streams, Answers, Made
<1>8. CASE Answer
  <2>1. Made' = Made /\ recv_buf' = recv_buf
    BY <1>8 DEF Answer, client, Made
  <2>2. Answers(inbox', Made \ asked') /\ Answers(half', Made \ asked') /\ asked' \subseteq asked
    BY <1>0, <1>8, AnswerArrives DEF Streams
  <2>3. Answers(recv_buf, Made \ asked')
    BY <1>0, <2>2, AnswersMore DEF Streams
  <2>4. asked' \subseteq Made'
    BY <1>0, <2>1, <2>2 DEF Streams
  <2>5. Made' \ asked' = Made \ asked'
    BY <2>1
  <2> HIDE DEF Made
  <2> QED BY <2>1, <2>2, <2>3, <2>4, <2>5 DEF Streams, Answers
<1>9. CASE \/ InitConfig \/ ConnectBegins \/ GetServer \/ GetServerFails \/ RetryFails
           \/ RetriesExhausted \/ (DisConnect /\ ~conn) \/ CallCrashes \/ ReadTimesOut
           \/ ServerCloses \/ UNCHANGED vars
  <2>1. /\ sequence_id' = sequence_id /\ recv_buf' = recv_buf /\ first_call' = first_call
        /\ asked' = asked /\ inbox' = inbox /\ half' = half
    BY <1>9 DEF InitConfig, ConnectBegins, GetServer, GetServerFails, RetryFails, RetriesExhausted,
                DisConnect, CallCrashes, ReadTimesOut, ServerCloses, vars, client, network
  <2> QED BY <1>1, <2>1
<1> QED BY <1>2, <1>3, <1>4, <1>5, <1>6, <1>7, <1>8, <1>9 DEF Next, Connect, CallSteps

\* What ProcessResponse may leave: a failure, or the answer to a call of this
\* connection that the server no longer has, read as the query asks.
LEMMA WhatIsReturned ==
  ASSUME IInv, ProcessResponse
  PROVE  \E outcome \in Outcome :
           /\ Return(outcome)
           /\ outcome.returned =>
                /\ outcome.answer \in Made \ asked
                /\ outcome.set <=> (Accepted(query[outcome.answer]) /\ outcome.answer \notin errors)
<1>1. CASE Return(Failed)
  <2>1. Failed \in Outcome /\ ~Failed.returned
    BY DEF Outcome, Failed
  <2> QED BY <1>1, <2>1
<1>2. CASE \E m \in Stream!Decoded(recv_buf \o inbox) :
             \E set \in Queries!ReadResult(Response(m), query[sequence_id]) :
               Return([returned |-> TRUE, answer |-> m, set |-> set])
  <2>1. PICK m \in Stream!Decoded(recv_buf \o inbox) :
          \E set \in Queries!ReadResult(Response(m), query[sequence_id]) :
            Return([returned |-> TRUE, answer |-> m, set |-> set])
    BY <1>2
  <2>2. PICK set \in Queries!ReadResult(Response(m), query[sequence_id]) :
          Return([returned |-> TRUE, answer |-> m, set |-> set])
    BY <2>1
  <2>3. recv_buf \o inbox \in Seq(Stream!Piece) /\ Answers(recv_buf \o inbox, Made \ asked)
    BY AnswersConcat DEF IInv, TypeOK, Streams
  <2>4. m \in Call /\ m \in Made \ asked
    BY <2>3, DecodedIsFirst
  <2>5. query[m] \in Queries!Query
    BY <2>4, WorkloadAssumption DEF IInv, TypeOK, Call
  <2>6. set \in BOOLEAN /\ (set <=> Accepted(query[m]) /\ m \notin errors)
    BY <2>5, SetMeansResult
  <2> DEFINE outcome == [returned |-> TRUE, answer |-> m, set |-> set]
  <2>7. outcome \in Outcome /\ outcome.answer = m /\ outcome.set = set
    BY <2>4, <2>6 DEF Outcome
  <2> HIDE DEF outcome
  <2> QED BY <2>2, <2>4, <2>6, <2>7 DEF outcome
<1> QED BY <1>1, <1>2 DEF ProcessResponse

\* A call that has returned is not disturbed by what comes later.
LEMMA ResultsInductive == IInv /\ [Next]_vars => Results' /\ SilentOnlyWhenRefused'
<1> SUFFICES ASSUME IInv, [Next]_vars PROVE Results' /\ SilentOnlyWhenRefused'
  OBVIOUS
<1>0. /\ sequence_id \in Nat /\ DOMAIN result \subseteq Call /\ asked \subseteq Call
      /\ \A c \in DOMAIN result : result[c] \in Outcome
      /\ Results /\ SilentOnlyWhenRefused
  BY BoundAssumption DEF IInv, TypeOK
<1>00. Call \subseteq Nat
  BY DEF Call
<1>01. \A c \in DOMAIN result : c \in Nat /\ (result[c].returned => result[c].answer \in Nat)
  <2>1. ASSUME NEW outcome \in Outcome, outcome.returned PROVE outcome.answer \in Call
    <3>1. outcome # Failed
      BY <2>1 DEF Failed
    <3>2. outcome \in [returned : {TRUE}, answer : Call, set : BOOLEAN]
      BY <3>1 DEF Outcome
    <3> QED BY <3>2
  <2> QED BY <1>0, <1>00, <2>1
\* Nothing is returned: what the server has, and what it has answered with an
\* error, does not concern the calls that have returned.
<1>1. ASSUME result' = result, query' = query, sequence_id <= sequence_id', sequence_id' \in Nat,
             asked' \subseteq asked \cup {n \in Call : n > sequence_id},
             errors \subseteq errors', errors' \subseteq errors \cup asked,
             program' = "waiting" =>
               sequence_id' > sequence_id \/ (program = "waiting" /\ sequence_id' = sequence_id)
      PROVE  Results' /\ SilentOnlyWhenRefused'
  <2>1. Results'
    <3>1. \A c \in DOMAIN result' : c <= sequence_id'
      BY <1>0, <1>01, <1>1 DEF Results
    <3>2. program' = "waiting" => sequence_id' > 0 /\ sequence_id' \notin DOMAIN result'
      BY <1>0, <1>01, <1>1 DEF Results
    <3>3. \A c \in DOMAIN result' : result'[c].returned =>
            result'[c].answer <= sequence_id' /\ result'[c].answer \notin asked'
      BY <1>0, <1>00, <1>01, <1>1 DEF Results
    <3> QED BY <3>1, <3>2, <3>3 DEF Results
  <2>2. \A c \in DOMAIN result : result[c].returned =>
          (result[c].answer \in errors' <=> result[c].answer \in errors)
    BY <1>0, <1>1 DEF Results
  <2>3. SilentOnlyWhenRefused'
    BY <1>0, <1>1, <2>2 DEF SilentOnlyWhenRefused
  <2> QED BY <2>1, <2>3
\* A call returns.
<1>2. ASSUME NEW call \in Nat, call >= sequence_id, sequence_id' = call, program' # "waiting",
             NEW outcome \in Outcome, Recorded(call, outcome),
             asked' = asked, errors' = errors, query' = query,
             outcome.returned =>
               /\ outcome.answer \in Made \ asked
               /\ outcome.set <=> (Accepted(query[outcome.answer]) /\ outcome.answer \notin errors)
      PROVE  Results' /\ SilentOnlyWhenRefused'
  <2>1. /\ DOMAIN result' = DOMAIN result \cup {call}
        /\ \A c \in DOMAIN result' : result'[c] = IF c = call THEN outcome ELSE result[c]
    BY <1>2 DEF Recorded
  <2>2. outcome.returned => outcome.answer \in Call /\ outcome.answer <= sequence_id
    BY <1>2 DEF Made
  <2>3. Results'
    <3>1. \A c \in DOMAIN result' : c <= sequence_id'
      BY <1>0, <1>01, <1>2, <2>1 DEF Results
    <3>2. ASSUME NEW c \in DOMAIN result', result'[c].returned
          PROVE  result'[c].answer <= sequence_id' /\ result'[c].answer \notin asked'
      <4>1. CASE c = call
        <5>1. result'[c] = outcome
          BY <2>1, <4>1
        <5>2. outcome.answer \notin asked'
          BY <1>2, <3>2, <5>1
        <5>3. outcome.answer \in Nat /\ outcome.answer <= sequence_id
          BY <1>00, <2>2, <3>2, <5>1
        <5>4. sequence_id <= sequence_id' /\ sequence_id' \in Nat
          BY <1>0, <1>2
        <5>5. outcome.answer <= sequence_id'
          BY <1>0, <5>3, <5>4
        <5> QED BY <5>1, <5>2, <5>5
      <4>2. CASE c # call
        <5>1. c \in DOMAIN result /\ result'[c] = result[c]
          BY <2>1, <4>2
        <5> QED BY <1>0, <1>01, <1>2, <3>2, <5>1 DEF Results
      <4> QED BY <4>1, <4>2
    <3> QED BY <1>2, <3>1, <3>2 DEF Results
  <2>4. SilentOnlyWhenRefused'
    BY <1>0, <1>2, <2>1 DEF SilentOnlyWhenRefused
  <2> QED BY <2>3, <2>4
<1>3. CASE ProcessResponse
  <2>1. PICK outcome \in Outcome :
          /\ Return(outcome)
          /\ outcome.returned =>
               /\ outcome.answer \in Made \ asked
               /\ outcome.set <=> (Accepted(query[outcome.answer]) /\ outcome.answer \notin errors)
    BY <1>3, WhatIsReturned
  <2>2. /\ program' # "waiting" /\ Recorded(sequence_id, outcome) /\ sequence_id' = sequence_id
        /\ asked' = asked /\ errors' = errors /\ query' = query
    BY <1>3, <2>1 DEF ProcessResponse, Return, choice
  <2> QED BY <1>0, <1>2, <2>1, <2>2
<1>4. CASE ReadFails \/ ReadTimesOut
  <2>1. /\ program' # "waiting" /\ Recorded(sequence_id, Failed) /\ sequence_id' = sequence_id
        /\ asked' = asked /\ errors' = errors /\ query' = query
    BY <1>4 DEF ReadFails, ReadTimesOut, Return, choice, network
  <2>2. Failed \in Outcome /\ ~Failed.returned
    BY DEF Outcome, Failed
  <2> QED BY <1>0, <1>2, <2>1, <2>2
<1>5. CASE SendFails /\ program' = "idle"
  <2>1. /\ Recorded(Next_Id, Failed) /\ sequence_id' = Next_Id
        /\ asked' = asked /\ errors' = errors /\ query' = query
    BY <1>5 DEF SendFails, choice, network
  <2>2. Failed \in Outcome /\ ~Failed.returned
    BY DEF Outcome, Failed
  <2>3. Next_Id \in Nat /\ Next_Id >= sequence_id
    BY <1>0 DEF Next_Id
  <2> QED BY <1>2, <1>5, <2>1, <2>2, <2>3
<1>6. CASE SendRequest \/ (SendFails /\ program' # "idle")
  <2>1. /\ sequence_id' = sequence_id + 1 /\ result' = result /\ query' = query /\ errors' = errors
        /\ asked' \subseteq asked \cup {sequence_id + 1} /\ sequence_id + 1 \in Call
    BY <1>0, <1>6, BoundAssumption DEF SendRequest, SendFails, Next_Id, choice, network, Call
  <2> QED BY <1>0, <1>1, <2>1
<1>7. CASE Answer
  <2>1. /\ asked' \subseteq asked /\ errors \subseteq errors' /\ errors' \subseteq errors \cup asked
        /\ result' = result /\ query' = query /\ sequence_id' = sequence_id /\ program' = program
    BY <1>7 DEF Answer, Refused, client, choice
  <2> QED BY <1>0, <1>1, <2>1
<1>8. CASE \/ InitConfig \/ Connect \/ DisConnect \/ CallCrashes \/ ServerCloses \/ UNCHANGED vars
  <2>1. /\ asked' \subseteq asked /\ errors' = errors /\ result' = result /\ query' = query
        /\ sequence_id' = sequence_id /\ (program' = "waiting" => program = "waiting")
    BY <1>8 DEF InitConfig, Connect, ConnectBegins, GetServer, GetServerFails, RetryFails, TryConnect,
                RetriesExhausted, DisConnect, CallCrashes, ServerCloses, vars, client, choice, network
  <2> QED BY <1>0, <1>1, <2>1
<1> QED BY <1>3, <1>4, <1>5, <1>6, <1>7, <1>8 DEF Next, CallSteps

-----------------------------------------------------------------------------
(* The theorems.                                                           *)

\* What holds of every reachable state.
THEOREM Invariance == Spec => []IInv
<1>1. Init => IInv
  BY InitIInv
<1>2. IInv /\ [Next]_vars => IInv'
  BY TypesInductive, ConnectionInductive, StreamsInductive, ResultsInductive DEF IInv
<1> QED BY <1>1, <1>2, PTL DEF Spec

\* Every variable keeps to its type: no buffer holds anything but pieces of
\* answers, no descriptor is closed that was not open.
THEOREM TypeCorrect == Spec => []TypeOK
<1>1. IInv => TypeOK
  BY DEF IInv
<1> QED BY <1>1, Invariance, PTL

\* Connect and DisConnect neither leak a descriptor nor close one twice,
\* whichever attempts fail and in whatever order.
THEOREM Descriptors == Spec => []SocketsAccounted
<1>1. IInv => SocketsAccounted
  BY DEF IInv
<1> QED BY <1>1, Invariance, PTL

\* Whatever ProcessResponse takes for the answer, the caller's response is set
\* just when the services accept the call that it answers.
THEOREM Refusals == Spec => []SilentOnlyWhenRefused
<1>1. IInv => SilentOnlyWhenRefused
  BY DEF IInv
<1> QED BY <1>1, Invariance, PTL

\* ProcessResponse never takes an answer that was meant for a connection of
\* before, although it does not look at the sequence id.
THEOREM OwnConnection == Spec => AnswerOfThisConnection
<1> DEFINE OfThis == \A c \in DOMAIN result' \ DOMAIN result :
                       result'[c].returned => result'[c].answer \in first_call..c
<1>1. IInv /\ [Next]_vars => [OfThis]_vars
  <2> SUFFICES ASSUME IInv, Next PROVE OfThis
    OBVIOUS
  <2>1. CASE ProcessResponse
    <3>1. PICK outcome \in Outcome :
            Return(outcome) /\ (outcome.returned => outcome.answer \in Made \ asked)
      BY <2>1, WhatIsReturned
    <3>2. ASSUME NEW c \in DOMAIN result' \ DOMAIN result, result'[c].returned
          PROVE  result'[c].answer \in first_call..c
      <4>1. c = sequence_id /\ result'[c] = outcome
        BY <3>1, <3>2 DEF Return, Recorded
      <4>2. outcome.answer \in Made
        BY <3>1, <3>2, <4>1
      <4> QED BY <4>1, <4>2 DEF Made, Call
    <3> QED BY <3>2
  <2>2. CASE ReadFails \/ ReadTimesOut \/ SendFails
    BY <2>2 DEF ReadFails, ReadTimesOut, SendFails, Return, Recorded, Failed
  <2>3. CASE \/ InitConfig \/ Connect \/ DisConnect \/ SendRequest \/ CallCrashes
             \/ Answer \/ ServerCloses
    BY <2>3 DEF InitConfig, Connect, ConnectBegins, GetServer, GetServerFails, RetryFails, TryConnect,
                RetriesExhausted, DisConnect, SendRequest, CallCrashes, Answer, ServerCloses
  <2> QED BY <2>1, <2>2, <2>3 DEF Next, CallSteps
<1>2. Spec => [][OfThis]_vars
  BY <1>1, Invariance, PTL DEF Spec
<1> QED BY <1>2 DEF AnswerOfThisConnection

=============================================================================
