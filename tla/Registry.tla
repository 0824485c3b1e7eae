------------------------------ MODULE Registry ------------------------------
(***************************************************************************)
(* How servers announce themselves in ZooKeeper and clients find them:     *)
(* rpc::ZkHandler and rpc::ServiceRegistry in the server's main and in the *)
(* client's Connect.  Every call of the ZooKeeper library is a step of its *)
(* own.  ZooKeeper itself is external: sessions that connect, are lost,    *)
(* come back or expire, and ephemeral nodes that go with their session.    *)
(*                                                                         *)
(* A definition named X_Y, Y being what goes wrong, is X with a plausible  *)
(* mistake in it and no part of the specification.                         *)
(***************************************************************************)
EXTENDS Integers, Sequences, FiniteSets, Functions

CONSTANTS
  Server,          \* processes that run the server's main
  Client,          \* processes with an RpcClient
  NodesOf,         \* a server's registry_nodes: a sequence of addresses
  Address,
  kMaxRetryTimes,  \* attempts of EnSureConnect
  MaxOpened,       \* bound: the handles each process opens; a server opens one per start
  MaxLosses        \* bound: how often a connection to ZooKeeper is lost

ASSUME ProcessAssumption == Server \cap Client = {} /\ IsFiniteSet(Server \cup Client)
ASSUME NodesAssumption == \A s \in Server : NodesOf[s] \in Seq(Address) /\ NodesOf[s] # <<>>
ASSUME RetryAssumption == kMaxRetryTimes \in Nat \ {0}
ASSUME BoundAssumption == MaxOpened \in [Server \cup Client -> Nat \ {0}] /\ MaxLosses \in Nat

Process == Server \cup Client
Session == UNION {{p} \X (1..MaxOpened[p]) : p \in Process}

VARIABLES
  point,    \* where each process is
  zk,       \* its ZkHandler
  reg,      \* a server's progress in RegistryAllNode
  query,    \* a client's progress in GetServers
  servers,  \* a client's servers_
  session,  \* what has become of each session
  path,     \* how many of the two levels /rpc_mt/<service> exist
  tree,     \* the addresses that have a node, and the sessions the nodes go with
  losses    \* connections lost so far

process == <<point, zk, reg, query, servers>>
zookeeper == <<session, path, tree, losses>>
vars == <<process, zookeeper>>

\* A handle is the number of a session of the process, or 0 for nullptr.
NoHandle == [handle |-> 0, lent |-> 0, cleaned |-> FALSE, retry |-> 0, opened |-> 0]
FreshReg == [node |-> 1, step |-> "check", level |-> 1, all_success |-> TRUE,
             adopted |-> FALSE, troubled |-> FALSE]
FreshQuery == [nodes |-> {}, left |-> {}, servers |-> {}, failed |-> {}]

Init ==
  /\ point = [p \in Process |-> IF p \in Server THEN "down" ELSE "idle"]
  /\ zk = [p \in Process |-> NoHandle]
  /\ reg = [s \in Server |-> FreshReg]
  /\ query = [c \in Client |-> FreshQuery]
  /\ servers = [c \in Client |-> {}]
  /\ session = [z \in Session |-> "none"]
  /\ path = 0 /\ tree = [a \in {} |-> <<>>] /\ losses = 0

-----------------------------------------------------------------------------
(* ZkHandle: a session reference counted over zk_client and the copy that  *)
(* ServiceRegistry borrows.                                                *)

Held(h) == {h.handle, h.lent} \ {0}
View(p) == session[<<p, zk[p].handle>>]
Lent(s) == session[<<s, zk[s].lent>>]

Without(nodes, gone) == Restrict(nodes, {a \in DOMAIN nodes : nodes[a] \notin gone})

\* The handler of p becomes h, when the nodes are these; a session that nothing
\* refers to any more is closed, and its nodes go, or, when ZooKeeper cannot be
\* reached, it is left to expire there.
Release(p, h, nodes) ==
  LET gone == {<<p, n>> : n \in Held(zk[p]) \ Held(h)} IN
  /\ zk' = [zk EXCEPT ![p] = h]
  /\ session' = [z \in Session |-> IF z \notin gone THEN session[z]
                                   ELSE IF session[z] = "lost" THEN "orphan" ELSE "closed"]
  /\ tree' = Without(nodes, {z \in gone : session[z] = "connected"})

\* Once only, whatever has been opened since: is_clean_up is static.
CleanedUp(h) ==
  IF h.cleaned THEN h ELSE [h EXCEPT !.handle = 0, !.lent = 0, !.cleaned = TRUE]

\* The process ends: CleanUp, and the destructor of what that has left.
Exit(p, nodes) ==
  /\ point' = [point EXCEPT ![p] = "down"]
  /\ Release(p, [NoHandle EXCEPT !.opened = zk[p].opened], nodes)

MakeZkHandle(p) ==
  IF zk[p].handle # 0 THEN UNCHANGED <<zk, session>>
  ELSE /\ zk[p].opened < MaxOpened[p]
       /\ zk' = [zk EXCEPT ![p].handle = zk[p].opened + 1, ![p].opened = zk[p].opened + 1]
       /\ session' = [session EXCEPT ![<<p, zk[p].opened + 1>>] = "new"]

-----------------------------------------------------------------------------
(* EnSureConnect.                                                          *)

\* GetServiceRegistry: the next thing a server does with the handler is to lend
\* its session to a new ServiceRegistry.
Borrow_OwnHandle(p) ==
  IF p \in Client THEN zk' = [zk EXCEPT ![p].retry = 0] /\ UNCHANGED session
  ELSE /\ zk[p].opened < MaxOpened[p]
       /\ zk' = [zk EXCEPT ![p].lent = zk[p].opened + 1, ![p].opened = @ + 1, ![p].retry = 0]
       /\ session' = [session EXCEPT ![<<p, zk[p].opened + 1>>] = "connected"]
Borrow(p) ==
  /\ zk' = [zk EXCEPT ![p].retry = 0, ![p].lent = IF p \in Server THEN zk[p].handle ELSE 0]
  /\ UNCHANGED session

MoreRetries_OffByOne(p) == zk[p].retry <= kMaxRetryTimes
MoreRetries(p) == zk[p].retry < kMaxRetryTimes

Connected(p) ==
  /\ point[p] = "connecting" /\ MoreRetries(p) /\ View(p) = "connected"
  /\ point' = [point EXCEPT ![p] = IF p \in Server THEN "registering" ELSE "children"]
  /\ Borrow(p)
  /\ UNCHANGED <<reg, query, servers, path, tree, losses>>

NotYet(p) ==
  /\ point[p] = "connecting" /\ MoreRetries(p)
  /\ View(p) \notin {"connected", "expired"}
  /\ zk' = [zk EXCEPT ![p].retry = @ + 1]
  /\ UNCHANGED <<point, reg, query, servers, zookeeper>>

\* The session has expired, or the attempts are used up.  A server's main
\* returns; a client has no servers, and may ask again.
NotConnected(p) ==
  /\ point[p] = "connecting" /\ (~MoreRetries(p) \/ View(p) = "expired")
  /\ \/ p \in Server /\ Exit(p, tree) /\ UNCHANGED servers
     \/ /\ p \in Client /\ Release(p, [CleanedUp(zk[p]) EXCEPT !.retry = 0], tree)
        /\ point' = [point EXCEPT ![p] = "idle"] /\ servers' = [servers EXCEPT ![p] = {}]
  /\ UNCHANGED <<reg, query, path, losses>>

EnSureConnect(p) == Connected(p) \/ NotYet(p) \/ NotConnected(p)

-----------------------------------------------------------------------------
(* A server: InitZkHandler, RegistryAllNode, the loop, and the end.        *)

Start(s) ==
  /\ point[s] = "down" /\ MakeZkHandle(s)
  /\ point' = [point EXCEPT ![s] = "connecting"] /\ reg' = [reg EXCEPT ![s] = FreshReg]
  /\ UNCHANGED <<query, servers, path, tree, losses>>

At(s, step) == point[s] = "registering" /\ reg[s].step = step

AllSuccess_LastOnly(s, ok) == ok
AllSuccess(s, ok) == reg[s].all_success /\ ok

\* The node at hand has been registered, or has not, which leaves these nodes:
\* on to the next one, to the loop, or out of main.
NodeDone(s, ok, r, nodes) ==
  LET all == AllSuccess(s, ok)
      last == r.node = Len(NodesOf[s]) IN
  /\ reg' = [reg EXCEPT ![s] = [r EXCEPT !.node = IF last THEN 1 ELSE @ + 1, !.step = "check",
                                         !.level = 1, !.all_success = all]]
  /\ IF last /\ ~all THEN Exit(s, nodes)
     ELSE /\ point' = IF last THEN [point EXCEPT ![s] = "serving"] ELSE point
          /\ tree' = nodes /\ UNCHANGED <<zk, session>>

\* A call finds no connection: the node fails.
NoConnection(s) ==
  /\ point[s] = "registering" /\ reg[s].step # "check"
  /\ Lent(s) # "connected" \/ reg[s].step = "unheard"
  /\ NodeDone(s, FALSE, [reg[s] EXCEPT !.troubled = TRUE], tree)
  /\ UNCHANGED <<query, servers, path, losses>>

IsConnected(s) ==
  /\ At(s, "check")
  /\ IF Lent(s) = "connected"
     THEN reg' = [reg EXCEPT ![s].step = "exists"] /\ UNCHANGED <<point, zk, session, tree>>
     ELSE NodeDone(s, FALSE, [reg[s] EXCEPT !.troubled = TRUE], tree)
  /\ UNCHANGED <<query, servers, path, losses>>

\* A level of the path is there: the next one, or the node itself.
LevelDone(s) ==
  reg' = [reg EXCEPT ![s] = IF reg[s].level = 2 THEN [@ EXCEPT !.step = "node"]
                            ELSE [@ EXCEPT !.step = "exists", !.level = 2]]

PathExists(s) ==
  /\ At(s, "exists") /\ Lent(s) = "connected"
  /\ IF path >= reg[s].level THEN LevelDone(s) ELSE reg' = [reg EXCEPT ![s].step = "create"]
  /\ UNCHANGED <<point, zk, query, servers, zookeeper>>

\* What zoo_create says, and when EnSurePath and CreateNode are content.
Created(exists) == IF exists THEN "ZNODEEXISTS" ELSE "ZOK"
Good_OnlyOk == {"ZOK"}
Good == {"ZOK", "ZNODEEXISTS"}

\* Another server may have been faster since PathExists.
CreatePath(s) ==
  /\ At(s, "create") /\ Lent(s) = "connected"
  /\ path' = IF path < reg[s].level THEN reg[s].level ELSE path
  /\ IF Created(path >= reg[s].level) \in Good
     THEN LevelDone(s) /\ UNCHANGED <<point, zk, session, tree>>
     ELSE NodeDone(s, FALSE, reg[s], tree)
  /\ UNCHANGED <<query, servers, losses>>

Addr(s) == NodesOf[s][reg[s].node]

Owner_Persistent(s) == <<s, 0>>
Owner(s) == <<s, zk[s].lent>>

Put(s) == [a \in DOMAIN tree \cup {Addr(s)} |-> IF a \in DOMAIN tree THEN tree[a] ELSE Owner(s)]

\* The node may be there from an earlier run of the server.
CreateNode(s) ==
  /\ At(s, "node") /\ Lent(s) = "connected"
  /\ NodeDone(s, Created(Addr(s) \in DOMAIN tree) \in Good,
              [reg[s] EXCEPT !.adopted = @ \/ Addr(s) \in DOMAIN tree], Put(s))
  /\ UNCHANGED <<query, servers, path, losses>>

\* The node is created and the connection lost before the answer.
AnswerLost(s) ==
  /\ At(s, "node") /\ Lent(s) = "connected" /\ losses < MaxLosses
  /\ tree' = Put(s) /\ session' = [session EXCEPT ![<<s, zk[s].lent>>] = "lost"]
  /\ losses' = losses + 1 /\ reg' = [reg EXCEPT ![s].step = "unheard"]
  /\ UNCHANGED <<point, zk, query, servers, path>>

Stop(s) ==
  /\ point[s] = "serving" /\ Exit(s, tree) /\ reg' = [reg EXCEPT ![s] = FreshReg]
  /\ UNCHANGED <<query, servers, path, losses>>

\* At any point, without a word to ZooKeeper.
Crash(s) ==
  /\ point[s] # "down" /\ point' = [point EXCEPT ![s] = "down"]
  /\ zk' = [zk EXCEPT ![s] = [NoHandle EXCEPT !.opened = zk[s].opened]]
  /\ session' = [z \in Session |->
       IF z \notin {<<s, n>> : n \in Held(zk[s])} THEN session[z]
       ELSE IF session[z] \in {"connected", "lost"} THEN "orphan" ELSE "closed"]
  /\ reg' = [reg EXCEPT ![s] = FreshReg]
  /\ UNCHANGED <<query, servers, path, tree, losses>>

Register(s) ==
  \/ IsConnected(s) \/ PathExists(s) \/ CreatePath(s)
  \/ CreateNode(s) \/ NoConnection(s)

-----------------------------------------------------------------------------
(* A client: GetServer, which is EnSureConnect, GetServers, UpdateServers  *)
(* and the choice of one of servers_.                                      *)

GetServer(c) ==
  /\ point[c] = "idle" /\ MakeZkHandle(c)
  /\ point' = [point EXCEPT ![c] = "connecting"]
  /\ UNCHANGED <<reg, query, servers, path, tree, losses>>

UpdateServers_KeepsOld(c, found) == servers' = [servers EXCEPT ![c] = IF found = {} THEN @ ELSE found]

\* GetServers has returned these, or nothing for a failure.
UpdateServers(c, found) == servers' = [servers EXCEPT ![c] = found]

GetChildren(c) ==
  /\ point[c] = "children"
  /\ IF View(c) = "connected" /\ path = 2
     THEN /\ point' = [point EXCEPT ![c] = "reading"]
          /\ query' = [query EXCEPT ![c].nodes = DOMAIN tree, ![c].left = DOMAIN tree] /\ UNCHANGED servers
     ELSE point' = [point EXCEPT ![c] = "idle"] /\ UpdateServers(c, {}) /\ UNCHANGED query
  /\ UNCHANGED <<zk, reg, zookeeper>>

Found(q, a) == [q EXCEPT !.left = @ \ {a}, !.servers = @ \cup {a}]
Failed(q, a) == [q EXCEPT !.left = @ \ {a}, !.failed = @ \cup {a}]

\* zoo_get for one of the nodes; it may have gone since, or the connection.
GetNode(c) ==
  /\ point[c] = "reading"
  /\ \E a \in query[c].left :
       query' = [query EXCEPT ![c] =
         IF View(c) = "connected" /\ a \in DOMAIN tree THEN Found(@, a) ELSE Failed(@, a)]
  /\ UNCHANGED <<point, zk, reg, servers, zookeeper>>

ReadAll(c) ==
  /\ point[c] = "reading" /\ query[c].left = {}
  /\ UpdateServers(c, query[c].servers) /\ point' = [point EXCEPT ![c] = "idle"]
  /\ query' = [query EXCEPT ![c] = FreshQuery]
  /\ UNCHANGED <<zk, reg, zookeeper>>

GetServers(c) == EnSureConnect(c) \/ GetChildren(c) \/ GetNode(c) \/ ReadAll(c)

-----------------------------------------------------------------------------
(* ZooKeeper.                                                              *)

Becomes(z, from, to) == session[z] = from /\ session' = [session EXCEPT ![z] = to]

Attach(z) ==
  /\ Becomes(z, "new", "connected") \/ Becomes(z, "lost", "connected")
  /\ UNCHANGED <<process, path, tree, losses>>

Lose(z) ==
  /\ losses < MaxLosses /\ losses' = losses + 1 /\ Becomes(z, "connected", "lost")
  /\ UNCHANGED <<process, path, tree>>

\* The session timeout: the nodes go, and the client learns of it when it comes
\* back.
Expire(z) ==
  /\ Becomes(z, "lost", "lapsed") \/ Becomes(z, "orphan", "closed")
  /\ tree' = Without(tree, {z})
  /\ UNCHANGED <<process, path, losses>>

Learn(z) == Becomes(z, "lapsed", "expired") /\ UNCHANGED <<process, path, tree, losses>>

-----------------------------------------------------------------------------

ServerSteps(s) == Start(s) \/ EnSureConnect(s) \/ Register(s) \/ AnswerLost(s) \/ Stop(s) \/ Crash(s)
ClientSteps(c) == GetServer(c) \/ GetServers(c)
ZooKeeperSteps(z) == Attach(z) \/ Lose(z) \/ Expire(z) \/ Learn(z)

Next ==
  \/ \E s \in Server : ServerSteps(s)
  \/ \E c \in Client : ClientSteps(c)
  \/ \E z \in Session : ZooKeeperSteps(z)

Spec == Init /\ [][Next]_vars

-----------------------------------------------------------------------------
(* Properties.                                                             *)

TypeOK ==
  /\ point \in [Process -> {"down", "connecting", "registering", "serving", "idle", "children", "reading"}]
  /\ \A s \in Server : point[s] \in {"down", "connecting", "registering", "serving"}
  /\ \A c \in Client : point[c] \in {"idle", "connecting", "children", "reading"}
  /\ zk \in [Process -> [handle : Nat, lent : Nat, cleaned : BOOLEAN,
                         retry : 0..kMaxRetryTimes, opened : Nat]]
  /\ \A p \in Process : Held(zk[p]) \subseteq 1..zk[p].opened /\ zk[p].opened <= MaxOpened[p]
  /\ reg \in [Server -> [node : Nat \ {0}, step : {"check", "exists", "create", "node", "unheard"},
                         level : 1..2, all_success : BOOLEAN, adopted : BOOLEAN,
                         troubled : BOOLEAN]]
  /\ \A s \in Server : reg[s].node <= Len(NodesOf[s])
  /\ query \in [Client -> [nodes : SUBSET Address, left : SUBSET Address,
                           servers : SUBSET Address, failed : SUBSET Address]]
  /\ servers \in [Client -> SUBSET Address]
  /\ session \in [Session -> {"none", "new", "connected", "lost", "lapsed", "expired", "orphan",
                              "closed"}]
  /\ path \in 0..2 /\ losses \in 0..MaxLosses
  /\ DOMAIN tree \subseteq Address /\ \A a \in DOMAIN tree : tree[a] \in Session

\* A process never has more than one session at ZooKeeper: the registry borrows
\* the handler's, and no handle is opened while another is still referred to.
OneSession ==
  \A p \in Process :
    Cardinality({n \in 1..MaxOpened[p] :
      session[<<p, n>>] \in {"new", "connected", "lost", "lapsed", "expired"}}) <= 1

\* A server that serves, with a session that has not expired, has every one of
\* its nodes, and they go with its own session; unless it took a node of an
\* earlier run for its own.
ServingListed ==
  \A s \in Server :
    point[s] = "serving" /\ View(s) \in {"connected", "lost"} /\ ~reg[s].adopted
    => \A i \in 1..Len(NodesOf[s]) :
         NodesOf[s][i] \in DOMAIN tree /\ tree[NodesOf[s][i]] = <<s, zk[s].handle>>

\* Registering fails for a lost connection and for nothing else: servers that
\* start together and create the same path do not get in each other's way.
NoFalseFailure ==
  [][\A s \in Server :
       point[s] = "registering" /\ point'[s] = "down" => reg'[s].troubled \/ Crash(s)]_vars

\* A client chooses among the servers that its last query listed and read: all of
\* them but the ones whose node had gone meanwhile, or that were asked about while
\* the connection was lost.  After a query that failed it has none, whatever it
\* knew before.
OnlyWhatWasListed ==
  [][\A c \in Client : point[c] # "idle" /\ point'[c] = "idle" =>
       /\ servers'[c] \subseteq query[c].nodes
       /\ point[c] = "reading" => query[c].nodes \ servers'[c] = query[c].failed]_vars

\* Every node goes with a session that a running process keeps up or that will
\* expire: a server that is gone, after a crash even, is not listed for ever.
NothingLeftBehind ==
  \A a \in DOMAIN tree :
    tree[a] \in Session /\ session[tree[a]] \in {"connected", "lost", "orphan"}

=============================================================================
