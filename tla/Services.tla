------------------------------ MODULE Services ------------------------------
(***************************************************************************)
(* What a call carries, what the server makes of it, and what the caller   *)
(* gets back: SerializerManager at both ends, and RpcRequest::IsValid,     *)
(* ServiceManager, UserService and RpcService in between.  Operators only; *)
(* text is reduced to what the code tells apart.                           *)
(*                                                                         *)
(* Data, a payload or a result, is a sequence: empty, or one element that  *)
(* says in which form it holds which value.  An operator that may fail     *)
(* returns the set of what it finds.                                       *)
(*                                                                         *)
(* A definition named X_Y, Y being what goes wrong, is X with a plausible  *)
(* mistake in it and no part of the specification.                         *)
(***************************************************************************)
EXTENDS Naturals, Sequences

\* A member of a JSON object: not there, not a string, "", a string, or a string
\* that is not UTF-8.
Member == {"absent", "other", "empty", "text", "binary"}
Arguments == [message : Member, user_id : Member]

\* serializer is what Call is told, form the type it is instantiated with.
Query == [service : {"", "UserService", "RpcService", "other"},
          method : {"", "get_username", "echo", "other"},
          serializer : {"json", "protobuf"}, form : {"json", "protobuf"}, args : Arguments]

-----------------------------------------------------------------------------
(* Serializers.                                                            *)

\* dump() refuses what is not UTF-8.
JsonSerialize(args) ==
  IF "binary" \in {args.message, args.user_id} THEN <<>>
  ELSE <<[form |-> "json", value |-> args]>>

\* A message whose fields have their defaults is no bytes at all.
ProtobufSerialize(args) ==
  IF {args.message, args.user_id} \subseteq {"absent", "empty"} THEN <<>>
  ELSE <<[form |-> "protobuf", value |-> args]>>

\* A type that does not go with the serializer is logged, and nothing is sent.
Serialize(q) ==
  IF q.form # q.serializer THEN <<>>
  ELSE IF q.serializer = "json" THEN JsonSerialize(q.args) ELSE ProtobufSerialize(q.args)

ValuesIn(data, form) == {data[i].value : i \in {j \in 1..Len(data) : data[j].form = form}}
JsonDeserialize(data) == ValuesIn(data, "json")
ProtobufDeserialize(data) == ValuesIn(data, "protobuf")
Deserialize(data, q) ==
  IF q.form # q.serializer THEN {}
  ELSE IF q.serializer = "json" THEN JsonDeserialize(data) ELSE ProtobufDeserialize(data)

-----------------------------------------------------------------------------
(* Services.                                                               *)

\* get<std::string>() of a member.
IsString(member) == member \in {"empty", "text"}
GetUsername(user_id) == "text"

Usernames(payload) ==
  {[message |-> "absent", username |-> GetUsername(args.user_id)] :
     args \in {a \in JsonDeserialize(payload) : IsString(a.user_id)}}

UserService_ErrorIsResult(method, payload) ==
  IF method # "get_username" THEN {}
  ELSE IF Usernames(payload) = {} THEN {[message |-> "absent", username |-> "absent"]}
  ELSE Usernames(payload)
UserService(method, payload) == IF method = "get_username" THEN Usernames(payload) ELSE {}

\* The user id may be left out; an empty one has no name.
HandleEcho(payload) ==
  {[message |-> args.message,
    username |-> IF args.user_id = "text" THEN GetUsername(args.user_id) ELSE "absent"] :
     args \in {a \in JsonDeserialize(payload) :
                 IsString(a.message) /\ (IsString(a.user_id) \/ a.user_id = "absent")}}

RpcService(method, payload) == IF method = "echo" THEN HandleEcho(payload) ELSE {}

HandleRequest(q, payload) ==
  CASE q.service = "UserService" -> UserService(q.method, payload)
    [] q.service = "RpcService" -> RpcService(q.method, payload)
    [] OTHER -> {}

-----------------------------------------------------------------------------
(* HandleMessageSync.                                                      *)

IsValid(q) == q.service # "" /\ q.method # ""

\* error_code is a uint32_t, and -1 the largest of them.
SendErrorRes == [error_code |-> "-1", result_data |-> <<>>]
SendSuccessRes(value) == [error_code |-> "0", result_data |-> <<[form |-> "json", value |-> value]>>]

HandleMessageSync(q) ==
  LET result == HandleRequest(q, Serialize(q)) IN
  IF ~IsValid(q) \/ result = {} THEN SendErrorRes
  ELSE SendSuccessRes(CHOOSE value \in result : TRUE)

\* Whether the end of ProcessResponse sets the caller's response; it returns
\* false when there is a result that cannot be read.  It does not ask for the
\* error code.
ReadResult(response, q) ==
  IF response.result_data = <<>> THEN {FALSE}
  ELSE {TRUE : value \in Deserialize(response.result_data, q)}

=============================================================================
