---------------------------- MODULE LoadBalance ----------------------------
(***************************************************************************)
(* rpc::LoadBanlance: how a client chooses one of the servers it has been  *)
(* told of (connect_handler/load_balance.cpp).  Operators only: the one    *)
(* state, RanceLoad's counter, is a parameter.                             *)
(***************************************************************************)
EXTENDS Integers, SequencesExt

\* InitLoadBanlance: any other name falls back to "random".
Known == {"rance", "random", "hash"}
InitLoadBanlance(type) == IF type \in Known THEN type ELSE "random"

RanceLoad(servers, current_index) == {servers[(current_index % Len(servers)) + 1]}
HashLoad(servers, hash) == {servers[(hash % Len(servers)) + 1]}
RandomLoad(servers) == ToSet(servers)

\* The hash of a client_ip that is empty: nothing is chosen for it.
NoClient == -1

\* What the choice may be; {} stands for "".
SelectServers(type, servers, current_index, hash) ==
  IF servers = <<>> \/ hash = NoClient THEN {}
  ELSE CASE InitLoadBanlance(type) = "rance" -> RanceLoad(servers, current_index)
         [] InitLoadBanlance(type) = "hash" -> HashLoad(servers, hash)
         [] OTHER -> RandomLoad(servers)

\* fetch_add, whenever there was something to choose from.
NextIndex(type, servers, current_index, hash) ==
  IF InitLoadBanlance(type) = "rance" /\ SelectServers(type, servers, current_index, hash) # {}
  THEN current_index + 1 ELSE current_index

=============================================================================
