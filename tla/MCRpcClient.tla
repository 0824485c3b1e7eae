---------------------------- MODULE MCRpcClient ----------------------------
(* Values for the constants of RpcClient.                                  *)
EXTENDS RpcClient

AnyNetwork == {"no_server", "unreachable", "split", "close", "refuse"}
FirstPadded == {1}

\* Three servers, of which the last is gone and has not expired yet.
ThreeListed == <<1, 2, 3>>
LastDead == {3}

Ask(service, method, message, user_id) ==
  [service |-> service, method |-> method, serializer |-> "json", form |-> "json",
   args |-> [message |-> message, user_id |-> user_id]]
Echo == Ask("RpcService", "echo", "text", "text")

\* Two that are served and one that is sent by protobuf, which the services do
\* not read; the second of three wrong ways to ask, and of two that fail before
\* or after them.
Workloads ==
  {<<Echo, Ask("UserService", "get_username", "absent", "empty"),
     [Echo EXCEPT !.serializer = "protobuf", !.form = "protobuf"]>>,
   <<Ask("RpcService", "get_username", "text", "text"), Echo,
     Ask("UserService", "get_username", "text", "absent")>>,
   <<[Echo EXCEPT !.form = "protobuf"], Ask("RpcService", "echo", "binary", "text"),
     Ask("other", "echo", "text", "absent")>>}
=============================================================================
