--------------------------- MODULE RegistryProofs ---------------------------
(***************************************************************************)
(* Safety of Registry for any servers, clients and addresses, any number   *)
(* of starts, retries and losses.  The inductive invariant says, besides   *)
(* the types: which sessions a process refers to (Handles) and when it     *)
(* does (Places), which nodes a server has at every point of               *)
(* RegistryAllNode (Listed), that a failure has a reason (Troubles), and   *)
(* how far a client's query has come (Queries).                            *)
(***************************************************************************)
EXTENDS Registry, FiniteSetTheorems, TLAPS

\* The sessions ZooKeeper knows and a handle stands for.
Living == {"new", "connected", "lost", "lapsed", "expired"}

\* The registry borrows the handler's session or none, the living sessions are
\* those referred to, and those to come are not there yet.
Handles ==
  \A p \in Process :
    /\ zk[p].lent \in {0, zk[p].handle}
    /\ \A n \in 1..MaxOpened[p] :
         /\ session[<<p, n>>] \in Living <=> n \in Held(zk[p])
         /\ n > zk[p].opened => session[<<p, n>>] = "none"

\* A server has a handle from start to end, and lends it when it has connected.
PlaceOf(s) ==
  /\ point[s] = "down" <=> zk[s].handle = 0
  /\ point[s] \in {"registering", "serving"} => zk[s].lent = zk[s].handle /\ View(s) # "new"

Places == \A s \in Server : PlaceOf(s)

\* The nodes of a server up to this one go with its session.
ListedTo(s, last) ==
  \A i \in 1..last : NodesOf[s][i] \in DOMAIN tree /\ tree[NodesOf[s][i]] = <<s, zk[s].handle>>

\* The session of s has not expired, and all its nodes so far were new.
Clean(s) == View(s) \in {"connected", "lost"} /\ reg[s].all_success /\ ~reg[s].adopted

\* While it serves or registers, and before it does.
ListedAt(s) ==
  /\ point[s] = "connecting" => reg[s].node = 1
  /\ point[s] = "serving" => reg[s].all_success
  /\ point[s] = "serving" /\ Clean(s) => ListedTo(s, Len(NodesOf[s]))
  /\ point[s] = "registering" /\ Clean(s) => ListedTo(s, reg[s].node - 1)

Listed == \A s \in Server : ListedAt(s)

\* A node that failed met a lost connection.
TroubleOf(s) == ~reg[s].all_success => reg[s].troubled

Troubles == \A s \in Server : TroubleOf(s)

\* Of what a query has listed each node is still to be read, read, or failed.
Queries ==
  \A c \in Client :
    IF point[c] = "reading"
    THEN /\ query[c].nodes = query[c].left \cup query[c].servers \cup query[c].failed
         /\ query[c].left \cap query[c].failed = {}
         /\ query[c].servers \cap (query[c].left \cup query[c].failed) = {}
    ELSE query[c] = FreshQuery

IInv ==
  TypeOK /\ Handles /\ Places /\ Listed /\ Troubles /\ Queries /\ NothingLeftBehind

-----------------------------------------------------------------------------
(* Sessions.                                                               *)

\* A session is a process's and has a number.
LEMMA SessionIs ==
  /\ \A p, n : <<p, n>> \in Session <=> p \in Process /\ n \in 1..MaxOpened[p]
  /\ \A z \in Session : \E p \in Process : \E n \in 1..MaxOpened[p] : z = <<p, n>>
<1>1. \A p, n : <<p, n>> \in Session <=> p \in Process /\ n \in 1..MaxOpened[p]
  <2>1. ASSUME NEW p, NEW n, <<p, n>> \in Session PROVE p \in Process /\ n \in 1..MaxOpened[p]
    <3>1. PICK q \in Process : <<p, n>> \in {q} \X (1..MaxOpened[q])
      BY <2>1 DEF Session
    <3> QED BY <3>1
  <2>2. ASSUME NEW p, NEW n, p \in Process, n \in 1..MaxOpened[p] PROVE <<p, n>> \in Session
    <3>1. <<p, n>> \in {p} \X (1..MaxOpened[p])
      BY <2>2
    <3> QED BY <2>2, <3>1 DEF Session
  <2> QED BY <2>1, <2>2
<1>2. ASSUME NEW z \in Session PROVE \E p \in Process : \E n \in 1..MaxOpened[p] : z = <<p, n>>
  <2>1. PICK q \in Process : z \in {q} \X (1..MaxOpened[q])
    BY DEF Session
  <2> QED BY <2>1
<1> QED BY <1>1, <1>2

ZkRec == [handle : Nat, lent : Nat, cleaned : BOOLEAN, retry : 0..kMaxRetryTimes, opened : Nat]
RegRec == [node : Nat \ {0}, step : {"check", "exists", "create", "node", "unheard"},
           level : 1..2, all_success : BOOLEAN, adopted : BOOLEAN, troubled : BOOLEAN]
States == {"none", "new", "connected", "lost", "lapsed", "expired", "orphan", "closed"}

\* What Release does: the sessions let go of end, and the nodes of those that
\* ZooKeeper could be told about go.
Released(p, h, nodes) ==
  /\ zk'[p] = h /\ DOMAIN zk' = Process /\ \A q \in Process \ {p} : zk'[q] = zk[q]
  /\ h \in ZkRec => zk' \in [Process -> ZkRec]
  /\ session' \in [Session -> States]
  /\ \A q \in Process : \A n \in 1..MaxOpened[q] :
       session'[<<q, n>>] =
         IF q = p /\ n \in Held(zk[p]) \ Held(h)
         THEN IF session[<<q, n>>] = "lost" THEN "orphan" ELSE "closed"
         ELSE session[<<q, n>>]
  /\ DOMAIN tree' = {a \in DOMAIN nodes : \A n \in Held(zk[p]) \ Held(h) :
                       ~(nodes[a] = <<p, n>> /\ session[<<p, n>>] = "connected")}
  /\ \A a \in DOMAIN tree' : tree'[a] = nodes[a]

\* Release does what Released says.
LEMMA ReleaseIs ==
  ASSUME TypeOK, NEW p \in Process, NEW h, NEW nodes, Release(p, h, nodes)
  PROVE  Released(p, h, nodes)
<1> DEFINE gone == {<<p, n>> : n \in Held(zk[p]) \ Held(h)}
<1>1. /\ zk' = [zk EXCEPT ![p] = h]
      /\ session' = [z \in Session |-> IF z \notin gone THEN session[z]
                                       ELSE IF session[z] = "lost" THEN "orphan" ELSE "closed"]
      /\ tree' = Without(nodes, {z \in gone : session[z] = "connected"})
  BY DEF Release
<1>2. \A q, n : <<q, n>> \in gone <=> q = p /\ n \in Held(zk[p]) \ Held(h)
  OBVIOUS
<1>3. \A z \in gone : \E n \in Held(zk[p]) \ Held(h) : z = <<p, n>>
  OBVIOUS
<1> HIDE DEF gone
<1>4. zk'[p] = h /\ DOMAIN zk' = Process /\ \A q \in Process \ {p} : zk'[q] = zk[q]
  BY <1>1 DEF TypeOK
<1>5. h \in ZkRec => zk' \in [Process -> ZkRec]
  BY <1>1 DEF TypeOK, ZkRec
<1>6. session' \in [Session -> States]
  BY <1>1 DEF TypeOK, States
<1>7. ASSUME NEW q \in Process, NEW n \in 1..MaxOpened[q]
      PROVE  session'[<<q, n>>] =
                IF q = p /\ n \in Held(zk[p]) \ Held(h)
                THEN IF session[<<q, n>>] = "lost" THEN "orphan" ELSE "closed"
                ELSE session[<<q, n>>]
  <2>1. <<q, n>> \in Session
    BY SessionIs
  <2> QED BY <1>1, <1>2, <2>1
<1>8. /\ DOMAIN tree' = {a \in DOMAIN nodes : \A n \in Held(zk[p]) \ Held(h) :
                              ~(nodes[a] = <<p, n>> /\ session[<<p, n>>] = "connected")}
      /\ \A a \in DOMAIN tree' : tree'[a] = nodes[a]
  <2> DEFINE closing == {z \in gone : session[z] = "connected"}
  <2>1. \A z : z \in closing <=>
          (\E n \in Held(zk[p]) \ Held(h) : z = <<p, n>> /\ session[<<p, n>>] = "connected")
    <3>1. ASSUME NEW z \in closing
          PROVE  \E n \in Held(zk[p]) \ Held(h) : z = <<p, n>> /\ session[<<p, n>>] = "connected"
      <4>1. z \in gone /\ session[z] = "connected"
        OBVIOUS
      <4>2. PICK n \in Held(zk[p]) \ Held(h) : z = <<p, n>>
        BY <1>3, <4>1
      <4> QED BY <4>1, <4>2
    <3>2. ASSUME NEW n \in Held(zk[p]) \ Held(h), session[<<p, n>>] = "connected"
          PROVE  <<p, n>> \in closing
      BY <1>2, <3>2
    <3> QED BY <3>1, <3>2
  <2>2. tree' = Without(nodes, closing)
    BY <1>1
  <2> HIDE DEF closing
  <2>3. /\ DOMAIN tree' = {a \in DOMAIN nodes : nodes[a] \notin closing}
        /\ \A a \in DOMAIN tree' : tree'[a] = nodes[a]
    <3>1. tree' = [a \in {a \in DOMAIN nodes : nodes[a] \notin closing} |-> nodes[a]]
      BY <2>2 DEF Without, Restrict
    <3> QED BY <3>1
  <2>4. \A a \in DOMAIN nodes : nodes[a] \notin closing <=>
          (\A n \in Held(zk[p]) \ Held(h) :
             ~(nodes[a] = <<p, n>> /\ session[<<p, n>>] = "connected"))
    BY <2>1
  <2> QED BY <2>3, <2>4
<1> QED BY <1>4, <1>5, <1>6, <1>7, <1>8 DEF Released

-----------------------------------------------------------------------------
(* What the calls of a server do to the node at hand.                      *)

\* It stays the node at hand.
Proceeds(s) ==
  /\ UNCHANGED <<point, zk, session, tree>>
  /\ \E step \in {"exists", "create", "node"} : \E level \in 1..2 :
       reg' = [reg EXCEPT ![s] = [@ EXCEPT !.step = step, !.level = level]]

\* It has failed.
FailsNode(s) == NodeDone(s, FALSE, [reg[s] EXCEPT !.troubled = TRUE], tree)

\* It is there now.
MakesNode(s) ==
  /\ Lent(s) = "connected"
  /\ NodeDone(s, TRUE, [reg[s] EXCEPT !.adopted = @ \/ Addr(s) \in DOMAIN tree], Put(s))

\* A call of EnSurePath and CreateNode leaves the node at hand, or settles it.
LEMMA RegisterIs ==
  ASSUME TypeOK, NEW s \in Server, Register(s)
  PROVE  /\ point[s] = "registering" /\ UNCHANGED <<query, servers, losses>>
         /\ path' \in 0..2
         /\ Proceeds(s) \/ FailsNode(s) \/ MakesNode(s)
<1>1. reg[s] \in RegRec /\ reg \in [Server -> RegRec]
  BY DEF TypeOK, RegRec
<1>2. path \in 0..2
  BY DEF TypeOK
<1>3. LevelDone(s) /\ UNCHANGED <<point, zk, session, tree>> => Proceeds(s)
  <2>1. ASSUME LevelDone(s), reg[s].level = 2
        PROVE  reg' = [reg EXCEPT ![s] = [@ EXCEPT !.step = "node", !.level = 2]]
    <3>1. [reg[s] EXCEPT !.step = "node"] = [reg[s] EXCEPT !.step = "node", !.level = 2]
      BY <1>1, <2>1 DEF RegRec
    <3> QED BY <2>1, <3>1 DEF LevelDone
  <2>2. ASSUME LevelDone(s), reg[s].level # 2
        PROVE  reg' = [reg EXCEPT ![s] = [@ EXCEPT !.step = "exists", !.level = 2]]
    BY <2>2 DEF LevelDone
  <2> QED BY <2>1, <2>2 DEF Proceeds
<1>4. ASSUME NEW step \in {"exists", "create"}, reg' = [reg EXCEPT ![s].step = step],
             UNCHANGED <<point, zk, session, tree>>
      PROVE  Proceeds(s)
  <2>1. [reg[s] EXCEPT !.step = step] = [reg[s] EXCEPT !.step = step, !.level = reg[s].level]
    BY <1>1 DEF RegRec
  <2>2. reg[s].level \in 1..2
    BY <1>1 DEF RegRec
  <2>3. reg' = [reg EXCEPT ![s] = [@ EXCEPT !.step = step, !.level = reg[s].level]]
    BY <1>4, <2>1
  <2> QED BY <1>4, <2>2, <2>3 DEF Proceeds
<1>5. CASE IsConnected(s)
  <2>1. CASE Lent(s) = "connected"
    BY <1>2, <1>4, <1>5, <2>1 DEF IsConnected, At
  <2>2. CASE Lent(s) # "connected"
    BY <1>2, <1>5, <2>2 DEF IsConnected, At, FailsNode
  <2> QED BY <2>1, <2>2
<1>6. CASE PathExists(s)
  <2>1. CASE path >= reg[s].level
    BY <1>2, <1>3, <1>6, <2>1 DEF PathExists, At, zookeeper
  <2>2. CASE ~(path >= reg[s].level)
    BY <1>2, <1>4, <1>6, <2>2 DEF PathExists, At, zookeeper
  <2> QED BY <2>1, <2>2
<1>7. CASE CreatePath(s)
  <2>1. Created(path >= reg[s].level) \in Good
    BY DEF Created, Good
  <2>2. path' \in 0..2
    BY <1>1, <1>2, <1>7 DEF CreatePath, RegRec
  <2> QED BY <1>3, <1>7, <2>1, <2>2 DEF CreatePath, At
<1>8. CASE CreateNode(s)
  <2>1. Created(Addr(s) \in DOMAIN tree) \in Good <=> TRUE
    BY DEF Created, Good
  <2>2. (Created(Addr(s) \in DOMAIN tree) \in Good) = TRUE
    BY <2>1
  <2> QED BY <1>2, <1>8, <2>2 DEF CreateNode, At, MakesNode
<1>9. CASE NoConnection(s)
  BY <1>2, <1>9 DEF NoConnection, FailsNode
<1> QED BY <1>5, <1>6, <1>7, <1>8, <1>9 DEF Register

\* The next node begins with its check.
LEMMA NextNode ==
  ASSUME NEW r \in RegRec, NEW node \in Nat \ {0}, NEW all \in BOOLEAN
  PROVE  [r EXCEPT !.node = node, !.step = "check", !.level = 1, !.all_success = all] \in RegRec
<1>1. [r EXCEPT !.node = node] \in RegRec
  BY DEF RegRec
<1>2. \A q \in RegRec : [q EXCEPT !.step = "check"] \in RegRec
  BY DEF RegRec
<1>3. \A q \in RegRec : [q EXCEPT !.level = 1] \in RegRec
  BY DEF RegRec
<1>4. \A q \in RegRec : [q EXCEPT !.all_success = all] \in RegRec
  BY DEF RegRec
<1>5. [r EXCEPT !.node = node, !.step = "check"] \in RegRec
  BY <1>1, <1>2
<1>6. [r EXCEPT !.node = node, !.step = "check", !.level = 1] \in RegRec
  BY <1>3, <1>5
<1> QED BY <1>4, <1>6

\* The node at hand is done with, one way or the other: main goes on, or ends.
LEMMA NodeDoneIs ==
  ASSUME TypeOK, NEW s \in Server, NEW ok \in BOOLEAN, NEW r \in RegRec, NEW nodes,
         r.node = reg[s].node, NodeDone(s, ok, r, nodes)
  PROVE  LET last == r.node = Len(NodesOf[s])
             all == reg[s].all_success /\ ok IN
         /\ reg' \in [Server -> RegRec] /\ \A q \in Server \ {s} : reg'[q] = reg[q]
         /\ reg'[s].node = IF last THEN 1 ELSE r.node + 1
         /\ reg'[s].node <= Len(NodesOf[s])
         /\ reg'[s].all_success = all
         /\ reg'[s].adopted = r.adopted /\ reg'[s].troubled = r.troubled
         /\ IF last /\ ~all THEN Exit(s, nodes)
            ELSE /\ point' = IF last THEN [point EXCEPT ![s] = "serving"] ELSE point
                 /\ tree' = nodes /\ UNCHANGED <<zk, session>>
<1> DEFINE last == r.node = Len(NodesOf[s])
           all == reg[s].all_success /\ ok
           node == IF last THEN 1 ELSE r.node + 1
           new == [r EXCEPT !.node = node, !.step = "check", !.level = 1, !.all_success = all]
<1>1. reg \in [Server -> RegRec] /\ reg[s] \in RegRec
  BY DEF TypeOK, RegRec
<1>2. Len(NodesOf[s]) \in Nat \ {0} /\ r.node \in Nat \ {0} /\ r.node <= Len(NodesOf[s])
  BY NodesAssumption DEF TypeOK, RegRec
<1>3. all \in BOOLEAN
  BY <1>1 DEF RegRec
<1>4. all = AllSuccess(s, ok)
  BY DEF AllSuccess
<1> HIDE DEF all, last
<1>5. reg' = [reg EXCEPT ![s] = new]
  BY <1>4 DEF NodeDone, last
<1>6. node \in Nat \ {0} /\ node <= Len(NodesOf[s])
  BY <1>2 DEF last
<1> HIDE DEF node
<1>7. /\ new.node = node /\ new.all_success = all /\ new.adopted = r.adopted
      /\ new.troubled = r.troubled
  BY DEF RegRec
<1>8. new \in RegRec
  BY <1>3, <1>6, NextNode
<1> HIDE DEF new
<1>9. reg'[s] = new /\ reg' \in [Server -> RegRec] /\ \A q \in Server \ {s} : reg'[q] = reg[q]
  BY <1>1, <1>5, <1>8
<1>10. IF last /\ ~all THEN Exit(s, nodes)
       ELSE /\ point' = IF last THEN [point EXCEPT ![s] = "serving"] ELSE point
            /\ tree' = nodes /\ UNCHANGED <<zk, session>>
  BY <1>4 DEF NodeDone, last
<1> QED BY <1>6, <1>7, <1>9, <1>10 DEF last, all, node

-----------------------------------------------------------------------------
(* What a step of a process does to its handler and to ZooKeeper.          *)

Steps(p) == (p \in Server /\ ServerSteps(p)) \/ (p \in Client /\ ClientSteps(p))

\* These nodes may be all there are, and nothing is missing among them.
Kept(nodes) ==
  /\ DOMAIN nodes \subseteq Address
  /\ \A a \in DOMAIN nodes :
       nodes[a] \in Session /\ session[nodes[a]] \in {"connected", "lost", "orphan"}
Grown(nodes) == \A a \in DOMAIN tree : a \in DOMAIN nodes /\ nodes[a] = tree[a]

\* The handler h may follow that of p, with no session that p does not hold.
Follows(p, h) ==
  /\ h \in ZkRec /\ h.lent \in {0, h.handle} /\ h.opened = zk[p].opened
  /\ Held(h) \subseteq Held(zk[p])

Keeps(p) ==
  /\ \E h : Follows(p, h) /\ h.handle = zk[p].handle /\ zk' = [zk EXCEPT ![p] = h]
  /\ session' = session /\ Kept(tree') /\ Grown(tree')
Opens(p) == zk[p].handle = 0 /\ zk[p].lent = 0 /\ MakeZkHandle(p) /\ tree' = tree
Drops(p) == \E h, nodes : Follows(p, h) /\ Kept(nodes) /\ Grown(nodes) /\ Release(p, h, nodes)

\* What a handler holds on to is its own session.
LEMMA HeldIs == ASSUME NEW h, h.lent \in {0, h.handle} PROVE Held(h) = {h.handle} \ {0}
BY DEF Held

\* Nothing has changed so far.
LEMMA TreeKept == ASSUME TypeOK, NothingLeftBehind PROVE Kept(tree) /\ Grown(tree)
BY DEF TypeOK, NothingLeftBehind, Kept, Grown

\* The node at hand goes with the session of its server.
LEMMA PutKept ==
  ASSUME TypeOK, Places, NothingLeftBehind, NEW s \in Server, point[s] = "registering",
         Lent(s) = "connected"
  PROVE  /\ Kept(Put(s)) /\ Grown(Put(s))
         /\ DOMAIN Put(s) = DOMAIN tree \cup {Addr(s)}
         /\ Addr(s) \notin DOMAIN tree => Put(s)[Addr(s)] = <<s, zk[s].handle>>
<1>1. zk[s].handle # 0 /\ zk[s].lent = zk[s].handle
  BY DEF Places, PlaceOf
<1>2. zk[s].handle \in 1..MaxOpened[s]
  <2>1. zk[s].handle \in 1..zk[s].opened /\ zk[s].opened <= MaxOpened[s] /\ zk[s].opened \in Nat
    BY <1>1 DEF TypeOK, Held, Process
  <2>2. MaxOpened[s] \in Nat
    BY BoundAssumption
  <2> QED BY <2>1, <2>2
<1>3. <<s, zk[s].handle>> \in Session
  BY <1>2, SessionIs DEF Process
<1>4. Addr(s) \in Address
  <2>1. reg[s].node \in 1..Len(NodesOf[s]) /\ NodesOf[s] \in Seq(Address)
    BY NodesAssumption DEF TypeOK
  <2> QED BY <2>1 DEF Addr
<1>5. /\ DOMAIN Put(s) = DOMAIN tree \cup {Addr(s)}
      /\ \A a \in DOMAIN Put(s) : Put(s)[a] = IF a \in DOMAIN tree THEN tree[a] ELSE Owner(s)
  BY DEF Put
<1>6. Owner(s) = <<s, zk[s].handle>> /\ session[Owner(s)] = "connected"
  BY <1>1 DEF Owner, Lent
<1>7. Kept(tree)
  BY TreeKept
<1> HIDE DEF Places, PlaceOf
<1> DEFINE put == Put(s)
<1>8. \A a \in DOMAIN put : put[a] = IF a \in DOMAIN tree THEN tree[a] ELSE Owner(s)
  BY <1>5
<1>9. DOMAIN put = DOMAIN tree \cup {Addr(s)}
  BY <1>5
<1> HIDE DEF put
<1>10. Kept(put)
  <2>1. DOMAIN put \subseteq Address
    BY <1>4, <1>7, <1>9 DEF Kept
  <2>2. ASSUME NEW a \in DOMAIN put
        PROVE  put[a] \in Session /\ session[put[a]] \in {"connected", "lost", "orphan"}
    <3>1. CASE a \in DOMAIN tree
      BY <1>7, <1>8, <3>1 DEF Kept
    <3>2. CASE a \notin DOMAIN tree
      BY <1>3, <1>6, <1>8, <3>2
    <3> QED BY <3>1, <3>2
  <2> QED BY <2>1, <2>2 DEF Kept
<1>11. Grown(put)
  BY <1>8, <1>9 DEF Grown
<1>12. Addr(s) \notin DOMAIN tree => put[Addr(s)] = <<s, zk[s].handle>>
  BY <1>6, <1>8, <1>9
<1> QED BY <1>9, <1>10, <1>11, <1>12 DEF put

\* A process that ends holds no session.
LEMMA ExitDrops ==
  ASSUME TypeOK, NEW p \in Process, NEW nodes, Kept(nodes), Grown(nodes), Exit(p, nodes)
  PROVE  Drops(p) /\ point' = [point EXCEPT ![p] = "down"] /\ zk'[p].handle = 0
<1> DEFINE h == [NoHandle EXCEPT !.opened = zk[p].opened]
<1>1. h.handle = 0 /\ h.lent = 0 /\ h.opened = zk[p].opened
  BY DEF NoHandle
<1>2. zk[p].opened \in Nat /\ NoHandle \in ZkRec
  BY RetryAssumption DEF TypeOK, NoHandle, ZkRec
<1>3. h \in ZkRec
  <2>1. \A g \in ZkRec, n \in Nat : [g EXCEPT !.opened = n] \in ZkRec
    BY DEF ZkRec
  <2> QED BY <1>2, <2>1
<1> HIDE DEF h
<1>4. Held(h) = {}
  BY <1>1 DEF Held
<1>5. Follows(p, h)
  BY <1>1, <1>3, <1>4 DEF Follows
<1>6. Release(p, h, nodes) /\ point' = [point EXCEPT ![p] = "down"]
  BY DEF Exit, h
<1>7. zk'[p].handle = 0
  <2>1. zk'[p] = h
    BY <1>6, ReleaseIs DEF Released
  <2> QED BY <1>1, <2>1
<1> QED BY <1>5, <1>6, <1>7 DEF Drops

\* A handler that stays as it is.
LEMMA Stays ==
  ASSUME TypeOK, Handles, NothingLeftBehind, NEW p \in Process, UNCHANGED <<zk, session, tree>>
  PROVE  Keeps(p)
<1>1. Follows(p, zk[p])
  BY DEF TypeOK, Handles, Follows, ZkRec
<1>2. zk' = [zk EXCEPT ![p] = zk[p]]
  BY DEF TypeOK
<1> QED BY <1>1, <1>2, TreeKept DEF Keeps

\* What is left of a client's handler that could not connect.
LEMMA CleanedUpFollows ==
  ASSUME TypeOK, Handles, NEW p \in Process
  PROVE  Follows(p, [CleanedUp(zk[p]) EXCEPT !.retry = 0])
<1> DEFINE h == CleanedUp(zk[p])
<1>1. zk[p] \in ZkRec /\ zk[p].lent \in {0, zk[p].handle}
  BY DEF TypeOK, ZkRec, Handles
<1>2. \A g \in ZkRec : [g EXCEPT !.retry = 0] \in ZkRec
  BY RetryAssumption DEF ZkRec
<1>3. \A g \in ZkRec : [g EXCEPT !.handle = 0] \in ZkRec
  BY DEF ZkRec
<1>4. \A g \in ZkRec : [g EXCEPT !.lent = 0] \in ZkRec
  BY DEF ZkRec
<1>5. \A g \in ZkRec : [g EXCEPT !.cleaned = TRUE] \in ZkRec
  BY DEF ZkRec
<1>6. CASE zk[p].cleaned
  <2>1. h = zk[p]
    BY <1>6 DEF CleanedUp
  <2>2. [zk[p] EXCEPT !.retry = 0] \in ZkRec
    BY <1>1, <1>2
  <2> QED BY <1>1, <2>1, <2>2 DEF Follows, Held, ZkRec
<1>7. CASE ~zk[p].cleaned
  <2>1. h = [zk[p] EXCEPT !.handle = 0, !.lent = 0, !.cleaned = TRUE]
    BY <1>7 DEF CleanedUp
  <2>2. [zk[p] EXCEPT !.handle = 0, !.lent = 0] \in ZkRec
    BY <1>1, <1>3, <1>4
  <2>3. h \in ZkRec
    BY <1>5, <2>1, <2>2
  <2>4. h.handle = 0 /\ h.lent = 0 /\ h.opened = zk[p].opened
    BY <1>1, <2>1 DEF ZkRec
  <2> HIDE DEF h
  <2>5. [h EXCEPT !.retry = 0] \in ZkRec
    BY <1>2, <2>3
  <2>6. /\ [h EXCEPT !.retry = 0].handle = 0 /\ [h EXCEPT !.retry = 0].lent = 0
        /\ [h EXCEPT !.retry = 0].opened = zk[p].opened
    BY <2>3, <2>4 DEF ZkRec
  <2>7. Held([h EXCEPT !.retry = 0]) = {}
    BY <2>6 DEF Held
  <2> QED BY <2>5, <2>6, <2>7 DEF Follows, h
<1> QED BY <1>6, <1>7

\* Connecting: the handler counts its attempts and lends its session.
LEMMA ConnectKinds ==
  ASSUME TypeOK, Handles, NothingLeftBehind, NEW p \in Process, EnSureConnect(p)
  PROVE  Keeps(p) \/ Drops(p)
<1>1. zk \in [Process -> ZkRec] /\ zk[p] \in ZkRec /\ zk[p].lent \in {0, zk[p].handle}
  BY DEF TypeOK, ZkRec, Handles
<1>2. \A g \in ZkRec, n \in 0..kMaxRetryTimes : [g EXCEPT !.retry = n] \in ZkRec
  BY DEF ZkRec
<1>3. \A g \in ZkRec, n \in Nat : [g EXCEPT !.lent = n] \in ZkRec
  BY DEF ZkRec
<1>4. CASE Connected(p)
  <2> DEFINE lent == IF p \in Server THEN zk[p].handle ELSE 0
             h == [zk[p] EXCEPT !.retry = 0, !.lent = lent]
  <2>1. zk' = [zk EXCEPT ![p] = h] /\ UNCHANGED <<session, tree>>
    BY <1>1, <1>4 DEF Connected, Borrow
  <2>2. lent \in {0, zk[p].handle} /\ lent \in Nat
    BY <1>1 DEF ZkRec
  <2> HIDE DEF lent
  <2>3. [zk[p] EXCEPT !.retry = 0] \in ZkRec
    BY <1>1, <1>2, RetryAssumption
  <2>4. h \in ZkRec
    BY <1>3, <2>2, <2>3
  <2>5. h.handle = zk[p].handle /\ h.lent = lent /\ h.opened = zk[p].opened
    BY <1>1 DEF ZkRec
  <2> HIDE DEF h
  <2>6. Held(h) \subseteq Held(zk[p])
    BY <1>1, <2>2, <2>5 DEF Held
  <2> QED BY <2>1, <2>2, <2>4, <2>5, <2>6, TreeKept DEF Keeps, Follows, Kept, Grown
<1>5. CASE NotYet(p)
  <2> DEFINE h == [zk[p] EXCEPT !.retry = zk[p].retry + 1]
  <2>1. zk' = [zk EXCEPT ![p] = h] /\ UNCHANGED <<session, tree>>
    BY <1>1, <1>5 DEF NotYet, zookeeper
  <2>2. zk[p].retry + 1 \in 0..kMaxRetryTimes
    BY <1>1, <1>5, RetryAssumption DEF NotYet, MoreRetries, ZkRec
  <2>3. h \in ZkRec
    BY <1>1, <1>2, <2>2
  <2>4. h.handle = zk[p].handle /\ h.lent = zk[p].lent /\ h.opened = zk[p].opened
    BY <1>1 DEF ZkRec
  <2> HIDE DEF h
  <2>5. Held(h) = Held(zk[p])
    BY <2>4 DEF Held
  <2> QED BY <1>1, <2>1, <2>3, <2>4, <2>5, TreeKept DEF Keeps, Follows, Kept, Grown
<1>6. CASE NotConnected(p)
  <2>1. CASE Exit(p, tree)
    BY <2>1, TreeKept, ExitDrops
  <2>2. CASE Release(p, [CleanedUp(zk[p]) EXCEPT !.retry = 0], tree)
    BY <2>2, TreeKept, CleanedUpFollows DEF Drops
  <2> QED BY <1>6, <2>1, <2>2 DEF NotConnected
<1> QED BY <1>4, <1>5, <1>6 DEF EnSureConnect

\* The first thing a process does is to open a handle, if it has none.
LEMMA MakeKinds ==
  ASSUME TypeOK, Handles, NothingLeftBehind, NEW p \in Process, MakeZkHandle(p), tree' = tree
  PROVE  Keeps(p) \/ Opens(p)
<1>1. CASE zk[p].handle # 0
  BY <1>1, Stays DEF MakeZkHandle
<1>2. CASE zk[p].handle = 0
  BY <1>2 DEF Handles, Opens
<1> QED BY <1>1, <1>2

\* A node that is done with leaves the handler alone, or ends the process.
LEMMA NodeKinds ==
  ASSUME TypeOK, Handles, Places, NothingLeftBehind, NEW s \in Server, point[s] = "registering",
         FailsNode(s) \/ MakesNode(s)
  PROVE  \E ok \in BOOLEAN, r \in RegRec : \E nodes :
           /\ Kept(nodes) /\ Grown(nodes) /\ NodeDone(s, ok, r, nodes) /\ r.node = reg[s].node
           /\ \/ /\ ok = FALSE /\ r.troubled = TRUE
              \/ /\ ok = TRUE /\ r.troubled = reg[s].troubled
                 /\ r.adopted = (reg[s].adopted \/ Addr(s) \in DOMAIN tree)
                 /\ nodes = Put(s) /\ Lent(s) = "connected"
<1>1. reg[s] \in RegRec
  BY DEF TypeOK, RegRec
<1>2. CASE FailsNode(s)
  <2> DEFINE r == [reg[s] EXCEPT !.troubled = TRUE]
  <2>1. r \in RegRec /\ r.node = reg[s].node /\ r.troubled = TRUE
    BY <1>1 DEF RegRec
  <2>2. NodeDone(s, FALSE, r, tree)
    BY <1>2 DEF FailsNode
  <2> HIDE DEF r
  <2> QED BY <2>1, <2>2, TreeKept
<1>3. CASE MakesNode(s)
  <2> DEFINE adopted == reg[s].adopted \/ Addr(s) \in DOMAIN tree
             r == [reg[s] EXCEPT !.adopted = adopted]
  <2>1. NodeDone(s, TRUE, r, Put(s)) /\ Lent(s) = "connected"
    BY <1>3 DEF MakesNode
  <2>2. adopted \in BOOLEAN
    BY <1>1 DEF RegRec
  <2>3. \A b \in BOOLEAN : [reg[s] EXCEPT !.adopted = b] \in RegRec
    BY <1>1 DEF RegRec
  <2>4. r.node = reg[s].node /\ r.troubled = reg[s].troubled /\ r.adopted = adopted
    BY <1>1 DEF RegRec
  <2>5. r \in RegRec
    BY <2>2, <2>3
  <2>6. Kept(Put(s)) /\ Grown(Put(s))
    BY <2>1, PutKept
  <2> HIDE DEF r
  <2> QED BY <2>1, <2>4, <2>5, <2>6
<1> QED BY <1>2, <1>3

\* A call of RegistryAllNode keeps the handler, or ends the process.
LEMMA RegisterKinds ==
  ASSUME TypeOK, Handles, Places, NothingLeftBehind, NEW s \in Server, Register(s)
  PROVE  /\ Keeps(s) \/ Drops(s)
         /\ point' \in {point, [point EXCEPT ![s] = "serving"], [point EXCEPT ![s] = "down"]}
         /\ reg' \in [Server -> RegRec] /\ reg'[s].node <= Len(NodesOf[s])
         /\ \A q \in Server \ {s} : reg'[q] = reg[q]
<1>1. Proceeds(s) \/ FailsNode(s) \/ MakesNode(s)
  BY RegisterIs
<1>2. point[s] = "registering" /\ s \in Process
  BY RegisterIs DEF Process
<1>3. CASE Proceeds(s)
  <2>1. PICK step \in {"exists", "create", "node"}, level \in 1..2 :
          reg' = [reg EXCEPT ![s] = [@ EXCEPT !.step = step, !.level = level]]
    BY <1>3 DEF Proceeds
  <2>2. reg \in [Server -> RegRec] /\ reg[s] \in RegRec /\ reg[s].node <= Len(NodesOf[s])
    BY DEF TypeOK, RegRec
  <2>3. \A r \in RegRec : [r EXCEPT !.step = step] \in RegRec
    BY DEF RegRec
  <2>4. \A r \in RegRec : [r EXCEPT !.level = level] \in RegRec
    BY DEF RegRec
  <2>5. [reg[s] EXCEPT !.step = step, !.level = level] \in RegRec
    BY <2>2, <2>3, <2>4
  <2>6. [reg[s] EXCEPT !.step = step, !.level = level].node = reg[s].node
    BY <2>2 DEF RegRec
  <2> QED BY <1>2, <1>3, <2>1, <2>2, <2>5, <2>6, Stays DEF Proceeds
<1>4. CASE FailsNode(s) \/ MakesNode(s)
  <2> PICK ok \in BOOLEAN, r \in RegRec : \E nodes :
          Kept(nodes) /\ Grown(nodes) /\ NodeDone(s, ok, r, nodes) /\ r.node = reg[s].node
    BY <1>2, <1>4, NodeKinds
  <2>1. PICK nodes :
          Kept(nodes) /\ Grown(nodes) /\ NodeDone(s, ok, r, nodes) /\ r.node = reg[s].node
    OBVIOUS
  <2>2. /\ reg' \in [Server -> RegRec] /\ \A q \in Server \ {s} : reg'[q] = reg[q]
        /\ reg'[s].node <= Len(NodesOf[s])
    BY <2>1, NodeDoneIs
  <2>3. \/ Exit(s, nodes)
        \/ point' \in {point, [point EXCEPT ![s] = "serving"]} /\ tree' = nodes /\ UNCHANGED <<zk, session>>
    BY <2>1, NodeDoneIs
  <2>4. CASE Exit(s, nodes)
    BY <1>2, <2>1, <2>2, <2>4, ExitDrops
  <2>5. CASE point' \in {point, [point EXCEPT ![s] = "serving"]} /\ tree' = nodes /\ UNCHANGED <<zk, session>>
    <3>1. Follows(s, zk[s]) /\ zk' = [zk EXCEPT ![s] = zk[s]]
      BY <1>2, <2>5 DEF TypeOK, Handles, Follows, ZkRec
    <3>2. Keeps(s)
      BY <2>1, <2>5, <3>1 DEF Keeps
    <3> QED BY <2>2, <2>5, <3>2
  <2> QED BY <2>3, <2>4, <2>5
<1> QED BY <1>1, <1>3, <1>4

\* What a step of a process is to its handler, and that it is nobody else's.
LEMMA StepIs ==
  ASSUME IInv, NEW p \in Process, Steps(p)
  PROVE  /\ \/ Keeps(p) \/ Opens(p) \/ Drops(p)
            \/ p \in Server /\ (AnswerLost(p) \/ Crash(p))
         /\ \A q \in Process \ {p} : point'[q] = point[q]
         /\ \A q \in Server \ {p} : reg'[q] = reg[q]
         /\ \A q \in Client \ {p} : query'[q] = query[q] /\ servers'[q] = servers[q]
<1> USE DEF IInv
<1>1. /\ point \in [Process -> {"down", "connecting", "registering", "serving", "idle",
                               "children", "reading"}]
      /\ DOMAIN reg = Server /\ DOMAIN query = Client /\ DOMAIN servers = Client
  BY DEF TypeOK
<1> DEFINE Others == /\ \A q \in Process \ {p} : point'[q] = point[q]
                     /\ \A q \in Server \ {p} : reg'[q] = reg[q]
                     /\ \A q \in Client \ {p} : query'[q] = query[q] /\ servers'[q] = servers[q]
<1>2. CASE EnSureConnect(p)
  <2>1. Keeps(p) \/ Drops(p)
    BY <1>2, ConnectKinds
  <2>2. Others
    BY <1>1, <1>2 DEF EnSureConnect, Connected, NotYet, NotConnected, Exit
  <2> QED BY <2>1, <2>2
<1>3. CASE p \in Server /\ Start(p)
  <2>1. Keeps(p) \/ Opens(p)
    BY <1>3, MakeKinds DEF Start
  <2> QED BY <1>1, <1>3, <2>1 DEF Start
<1>4. CASE p \in Client /\ GetServer(p)
  <2>1. Keeps(p) \/ Opens(p)
    BY <1>4, MakeKinds DEF GetServer
  <2> QED BY <1>1, <1>4, <2>1 DEF GetServer
<1>5. CASE p \in Server /\ Register(p)
  <2>1. Keeps(p) \/ Drops(p)
    BY <1>5, RegisterKinds
  <2>2. Others
    <3>1. UNCHANGED <<query, servers>>
      BY <1>5, RegisterIs
    <3> QED BY <1>1, <1>5, <3>1, RegisterKinds
  <2> QED BY <2>1, <2>2
<1>6. CASE p \in Server /\ Stop(p)
  <2>1. Drops(p)
    BY <1>6, TreeKept, ExitDrops DEF Stop
  <2> QED BY <1>1, <1>6, <2>1 DEF Stop, Exit
<1>7. CASE p \in Server /\ (AnswerLost(p) \/ Crash(p))
  BY <1>1, <1>7 DEF AnswerLost, Crash
<1>8. CASE p \in Client /\ (GetChildren(p) \/ GetNode(p) \/ ReadAll(p))
  <2>1. Keeps(p)
    BY <1>8, Stays DEF GetChildren, GetNode, ReadAll, zookeeper
  <2>2. Others
    BY <1>1, <1>8 DEF GetChildren, GetNode, ReadAll, zookeeper, UpdateServers
  <2> QED BY <2>1, <2>2
<1> QED BY <1>2, <1>3, <1>4, <1>5, <1>6, <1>7, <1>8
     DEF Steps, ServerSteps, ClientSteps, GetServers

\* What a step of p leaves: a handler in order, and everybody else's sessions
\* and nodes as they were.
Result(p) ==
  /\ zk' \in [Process -> ZkRec] /\ \A q \in Process \ {p} : zk'[q] = zk[q]
  /\ Held(zk'[p]) \subseteq 1..zk'[p].opened /\ zk'[p].opened <= MaxOpened[p]
  /\ zk'[p].lent \in {0, zk'[p].handle}
  /\ session' \in [Session -> States]
  /\ \A n \in 1..MaxOpened[p] :
       /\ session'[<<p, n>>] \in Living <=> n \in Held(zk'[p])
       /\ n > zk'[p].opened => session'[<<p, n>>] = "none"
  /\ \A q \in Process \ {p} : \A n \in 1..MaxOpened[q] : session'[<<q, n>>] = session[<<q, n>>]
  /\ \A q \in Process \ {p}, n \in Nat, a \in DOMAIN tree :
       tree[a] = <<q, n>> => a \in DOMAIN tree' /\ tree'[a] = tree[a]
  /\ DOMAIN tree' \subseteq Address /\ NothingLeftBehind'

\* What the invariant says of one handler.
LEMMA HandlerIs ==
  ASSUME TypeOK, Handles, NEW p \in Process
  PROVE  /\ zk[p] \in ZkRec /\ zk \in [Process -> ZkRec] /\ session \in [Session -> States]
         /\ MaxOpened[p] \in Nat \ {0} /\ zk[p].opened \in Nat /\ zk[p].handle \in Nat
         /\ Held(zk[p]) \subseteq 1..zk[p].opened /\ zk[p].opened <= MaxOpened[p]
         /\ Held(zk[p]) \subseteq 1..MaxOpened[p]
         /\ Held(zk[p]) = {zk[p].handle} \ {0}
<1>1. zk[p] \in ZkRec /\ zk \in [Process -> ZkRec] /\ session \in [Session -> States]
  BY DEF TypeOK, ZkRec, States
<1>2. MaxOpened[p] \in Nat \ {0}
  BY BoundAssumption DEF Process
<1>3. zk[p].opened \in Nat /\ zk[p].handle \in Nat
  BY <1>1 DEF ZkRec
<1>4. Held(zk[p]) \subseteq 1..zk[p].opened /\ zk[p].opened <= MaxOpened[p]
  BY DEF TypeOK
<1>5. 1..zk[p].opened \subseteq 1..MaxOpened[p]
  BY <1>2, <1>3, <1>4
<1>6. Held(zk[p]) = {zk[p].handle} \ {0}
  BY HeldIs DEF Handles
<1> QED BY <1>1, <1>2, <1>3, <1>4, <1>5, <1>6

\* A handler that follows its own is in order, with the sessions it keeps.
LEMMA FollowsFits ==
  ASSUME TypeOK, Handles, NEW p \in Process, NEW h, Follows(p, h)
  PROVE  Held(h) \subseteq 1..h.opened /\ h.opened <= MaxOpened[p]
BY HandlerIs DEF Follows

\* A step that keeps the handler.
LEMMA KeepsResult ==
  ASSUME TypeOK, Handles, NEW p \in Process, Keeps(p)
  PROVE  Result(p)
<1>1. PICK h : Follows(p, h) /\ h.handle = zk[p].handle /\ zk' = [zk EXCEPT ![p] = h]
  BY DEF Keeps
<1>2. h \in ZkRec /\ h.lent \in {0, h.handle} /\ h.opened = zk[p].opened
  BY <1>1 DEF Follows
<1>3. /\ zk' \in [Process -> ZkRec] /\ zk'[p] = h /\ \A q \in Process \ {p} : zk'[q] = zk[q]
  BY <1>1, <1>2, HandlerIs
<1>4. Held(h) = Held(zk[p])
  <2>1. Held(h) = {h.handle} \ {0}
    BY <1>2, HeldIs
  <2> QED BY <1>1, <2>1, HandlerIs
<1>5. Held(h) \subseteq 1..h.opened /\ h.opened <= MaxOpened[p]
  BY <1>1, FollowsFits
<1>6. session' = session /\ session \in [Session -> States]
  BY HandlerIs DEF Keeps
<1>7. \A n \in 1..MaxOpened[p] :
        /\ session[<<p, n>>] \in Living <=> n \in Held(h)
        /\ n > h.opened => session[<<p, n>>] = "none"
  BY <1>2, <1>4 DEF Handles
<1>8. DOMAIN tree' \subseteq Address /\ NothingLeftBehind'
  BY <1>6 DEF Keeps, Kept, NothingLeftBehind
<1>9. \A a \in DOMAIN tree : a \in DOMAIN tree' /\ tree'[a] = tree[a]
  BY DEF Keeps, Grown
<1> QED BY <1>2, <1>3, <1>5, <1>6, <1>7, <1>8, <1>9 DEF Result

\* A step that opens a handle.
LEMMA OpensResult ==
  ASSUME TypeOK, Handles, NothingLeftBehind, NEW p \in Process, Opens(p)
  PROVE  /\ Result(p) /\ zk'[p].handle # 0 /\ session'[<<p, zk'[p].handle>>] = "new"
<1> DEFINE n == zk[p].opened + 1
           h == [zk[p] EXCEPT !.handle = n, !.opened = n]
<1>1. /\ zk[p].handle = 0 /\ zk[p].lent = 0 /\ zk[p].opened < MaxOpened[p] /\ tree' = tree
      /\ zk' = [zk EXCEPT ![p].handle = n, ![p].opened = n]
      /\ session' = [session EXCEPT ![<<p, n>>] = "new"]
  BY DEF Opens, MakeZkHandle
<1>2. /\ zk[p] \in ZkRec /\ zk \in [Process -> ZkRec] /\ session \in [Session -> States]
      /\ MaxOpened[p] \in Nat /\ zk[p].opened \in Nat
  BY HandlerIs
<1>3. n \in 1..MaxOpened[p] /\ n \in Nat /\ n # 0 /\ n > zk[p].opened
  BY <1>1, <1>2
<1>4. session[<<p, n>>] = "none" /\ <<p, n>> \in Session
  BY <1>3, SessionIs DEF Handles
<1> HIDE DEF n
<1>5. zk' = [zk EXCEPT ![p] = h]
  BY <1>1, <1>2
<1>6. h.handle = n /\ h.opened = n /\ h.lent = 0
  BY <1>1, <1>2 DEF ZkRec
<1>7. h \in ZkRec
  <2>1. [zk[p] EXCEPT !.handle = n] \in ZkRec
    BY <1>2, <1>3 DEF ZkRec
  <2>2. \A g \in ZkRec : [g EXCEPT !.opened = n] \in ZkRec
    BY <1>3 DEF ZkRec
  <2> QED BY <2>1, <2>2
<1> HIDE DEF h
<1>8. /\ zk' \in [Process -> ZkRec] /\ zk'[p] = h /\ \A q \in Process \ {p} : zk'[q] = zk[q]
  BY <1>2, <1>5, <1>7
<1>9. Held(h) = {n}
  BY <1>3, <1>6 DEF Held
<1>10. Held(h) \subseteq 1..h.opened /\ h.opened <= MaxOpened[p]
  BY <1>2, <1>3, <1>6, <1>9
<1>11. session' \in [Session -> States] /\ session'[<<p, n>>] = "new"
  BY <1>1, <1>2, <1>4 DEF States
<1>12. ASSUME NEW q \in Process, NEW m \in 1..MaxOpened[q], q # p \/ m # n
       PROVE  session'[<<q, m>>] = session[<<q, m>>]
  <2>1. <<q, m>> # <<p, n>> /\ <<q, m>> \in Session
    BY <1>12, SessionIs
  <2> QED BY <1>1, <1>2, <2>1
<1>13. ASSUME NEW m \in 1..MaxOpened[p]
       PROVE  /\ session'[<<p, m>>] \in Living <=> m \in Held(h)
              /\ m > h.opened => session'[<<p, m>>] = "none"
  <2>1. CASE m = n
    BY <1>3, <1>6, <1>9, <1>11, <2>1 DEF Living
  <2>2. CASE m # n
    <3>1. session'[<<p, m>>] = session[<<p, m>>]
      BY <1>12, <2>2
    <3>2. session[<<p, m>>] \notin Living
      BY <1>1 DEF Handles, Held
    <3>3. m > h.opened => m > zk[p].opened
      BY <1>2, <1>3, <1>6
    <3> QED BY <1>9, <2>2, <3>1, <3>2, <3>3 DEF Handles
  <2> QED BY <2>1, <2>2
<1>14. DOMAIN tree' \subseteq Address /\ NothingLeftBehind'
  <2>1. \A a \in DOMAIN tree : tree[a] # <<p, n>>
    BY <1>4 DEF NothingLeftBehind
  <2>2. ASSUME NEW a \in DOMAIN tree
        PROVE  tree[a] \in Session /\ session'[tree[a]] \in {"connected", "lost", "orphan"}
    BY <1>1, <1>2, <2>1 DEF NothingLeftBehind
  <2> QED BY <1>1, <2>2 DEF NothingLeftBehind, TypeOK
<1> QED BY <1>1, <1>3, <1>6, <1>8, <1>10, <1>11, <1>12, <1>13, <1>14 DEF Result

\* The numbers of a process's sessions.
LEMMA Numbers ==
  ASSUME NEW q \in Process, NEW n \in Nat, <<q, n>> \in Session
  PROVE  n \in 1..MaxOpened[q]
BY SessionIs

\* A step that drops handles: their sessions end, and the nodes with them.
LEMMA DropsResult ==
  ASSUME TypeOK, Handles, NEW p \in Process, Drops(p)
  PROVE  Result(p)
<1>1. PICK h, nodes : Follows(p, h) /\ Kept(nodes) /\ Grown(nodes) /\ Release(p, h, nodes)
  BY DEF Drops
<1>1a. Released(p, h, nodes)
  BY <1>1, ReleaseIs
<1>2. h \in ZkRec /\ h.lent \in {0, h.handle} /\ h.opened = zk[p].opened /\ Held(h) \subseteq Held(zk[p])
  BY <1>1 DEF Follows
<1>3. /\ zk' \in [Process -> ZkRec] /\ zk'[p] = h /\ \A q \in Process \ {p} : zk'[q] = zk[q]
      /\ session' \in [Session -> States]
  BY <1>2, <1>1a DEF Released
<1>4. Held(h) \subseteq 1..h.opened /\ h.opened <= MaxOpened[p]
  BY <1>1, FollowsFits
<1>5. \A q \in Process : \A n \in 1..MaxOpened[q] :
        session'[<<q, n>>] =
          IF q = p /\ n \in Held(zk[p]) \ Held(h)
          THEN IF session[<<q, n>>] = "lost" THEN "orphan" ELSE "closed"
          ELSE session[<<q, n>>]
  BY <1>1a DEF Released
<1>6. /\ DOMAIN tree' = {a \in DOMAIN nodes : \A n \in Held(zk[p]) \ Held(h) :
                           ~(nodes[a] = <<p, n>> /\ session[<<p, n>>] = "connected")}
      /\ \A a \in DOMAIN tree' : tree'[a] = nodes[a]
  BY <1>1a DEF Released
<1>7. ASSUME NEW n \in 1..MaxOpened[p]
      PROVE  /\ session'[<<p, n>>] \in Living <=> n \in Held(h)
             /\ n > h.opened => session'[<<p, n>>] = "none"
  <2>1. CASE n \in Held(zk[p]) \ Held(h)
    <3>1. session'[<<p, n>>] \in {"orphan", "closed"}
      BY <1>5, <2>1
    <3>2. ~(n > h.opened)
      BY <1>2, <2>1, HandlerIs
    <3> QED BY <2>1, <3>1, <3>2 DEF Living
  <2>2. CASE n \notin Held(zk[p]) \ Held(h)
    <3>1. session'[<<p, n>>] = session[<<p, n>>]
      BY <1>5, <2>2
    <3>2. n \in Held(h) <=> n \in Held(zk[p])
      BY <1>2, <2>2
    <3> QED BY <1>2, <3>1, <3>2 DEF Handles
  <2> QED BY <2>1, <2>2
<1>8. \A q \in Process \ {p} : \A n \in 1..MaxOpened[q] : session'[<<q, n>>] = session[<<q, n>>]
  BY <1>5
<1>9. ASSUME NEW q \in Process \ {p}, NEW n \in Nat, NEW a \in DOMAIN tree, tree[a] = <<q, n>>
      PROVE  a \in DOMAIN tree' /\ tree'[a] = tree[a]
  <2>1. a \in DOMAIN nodes /\ nodes[a] = <<q, n>>
    BY <1>1, <1>9 DEF Grown
  <2>2. \A m : nodes[a] # <<p, m>>
    BY <2>1
  <2> QED BY <1>6, <1>9, <2>1, <2>2
<1>10. DOMAIN tree' \subseteq Address
  BY <1>1, <1>6 DEF Kept
<1>11. ASSUME NEW a \in DOMAIN tree'
       PROVE  tree'[a] \in Session /\ session'[tree'[a]] \in {"connected", "lost", "orphan"}
  <2>1. /\ a \in DOMAIN nodes /\ tree'[a] = nodes[a] /\ nodes[a] \in Session
        /\ session[nodes[a]] \in {"connected", "lost", "orphan"}
    BY <1>1, <1>6 DEF Kept
  <2> PICK q \in Process : \E n \in 1..MaxOpened[q] : nodes[a] = <<q, n>>
    BY <2>1, SessionIs
  <2>2. PICK n \in 1..MaxOpened[q] : nodes[a] = <<q, n>>
    OBVIOUS
  <2>3. CASE q = p /\ n \in Held(zk[p]) \ Held(h)
    <3>1. session[<<p, n>>] # "connected"
      BY <1>6, <2>2, <2>3
    <3>2. session[<<p, n>>] \in Living
      BY <2>2, <2>3 DEF Handles
    <3>3. session[<<p, n>>] = "lost"
      BY <2>1, <2>2, <2>3, <3>1, <3>2 DEF Living
    <3>4. session'[<<p, n>>] = "orphan"
      BY <1>5, <2>2, <2>3, <3>3
    <3> QED BY <2>1, <2>2, <2>3, <3>4
  <2>4. CASE ~(q = p /\ n \in Held(zk[p]) \ Held(h))
    <3>1. session'[<<q, n>>] = session[<<q, n>>]
      BY <1>5, <2>4
    <3> QED BY <2>1, <2>2, <3>1
  <2> QED BY <2>3, <2>4
<1>12. NothingLeftBehind'
  BY <1>11 DEF NothingLeftBehind
<1> QED BY <1>2, <1>3, <1>4, <1>7, <1>8, <1>9, <1>10, <1>12 DEF Result

\* The connection is lost between a node and its answer: the session is still the
\* server's, and the node goes with it.
LEMMA LostResult ==
  ASSUME TypeOK, Handles, Places, NothingLeftBehind, NEW s \in Server, AnswerLost(s)
  PROVE  Result(s) /\ zk' = zk
<1>1. /\ point[s] = "registering" /\ Lent(s) = "connected" /\ s \in Process
      /\ tree' = Put(s) /\ zk' = zk /\ session' = [session EXCEPT ![<<s, zk[s].lent>>] = "lost"]
  BY DEF AnswerLost, At, Process
<1>2. zk[s].lent = zk[s].handle /\ zk[s].handle # 0 /\ zk[s].lent \in {0, zk[s].handle}
  BY <1>1 DEF Places, PlaceOf
<1>3. zk[s].handle \in 1..MaxOpened[s] /\ zk[s].handle \in Held(zk[s])
  BY <1>1, <1>2, HandlerIs
<1>4. Kept(Put(s)) /\ Grown(Put(s))
  BY <1>1, PutKept
<1> DEFINE z == <<s, zk[s].handle>>
<1>5. z \in Session /\ session[z] = "connected" /\ session' = [session EXCEPT ![z] = "lost"]
  BY <1>1, <1>2, <1>3, SessionIs DEF Lent
<1> HIDE DEF z
<1>6. session' \in [Session -> States] /\ session'[z] = "lost"
  BY <1>1, <1>5, HandlerIs DEF States
<1>7. \A y \in Session \ {z} : session'[y] = session[y]
  BY <1>1, <1>5, HandlerIs
<1>8. ASSUME NEW n \in 1..MaxOpened[s]
      PROVE  /\ session'[<<s, n>>] \in Living <=> n \in Held(zk[s])
             /\ n > zk[s].opened => session'[<<s, n>>] = "none"
  <2>1. CASE n = zk[s].handle
    <3>1. ~(n > zk[s].opened)
      BY <1>1, <1>3, <2>1, HandlerIs
    <3> QED BY <1>3, <1>6, <2>1, <3>1 DEF Living, z
  <2>2. CASE n # zk[s].handle
    <3>1. session'[<<s, n>>] = session[<<s, n>>]
      BY <1>1, <1>7, <2>2, SessionIs DEF z
    <3> QED BY <1>1, <3>1 DEF Handles
  <2> QED BY <2>1, <2>2
<1>9. \A q \in Process \ {s} : \A n \in 1..MaxOpened[q] : session'[<<q, n>>] = session[<<q, n>>]
  BY <1>7, SessionIs DEF z
<1>10. \A a \in DOMAIN tree : a \in DOMAIN tree' /\ tree'[a] = tree[a]
  BY <1>1, <1>4 DEF Grown
<1>11. DOMAIN tree' \subseteq Address
  BY <1>1, <1>4 DEF Kept
<1>12. NothingLeftBehind'
  BY <1>1, <1>4, <1>6, <1>7 DEF Kept, NothingLeftBehind
<1>13. /\ zk' \in [Process -> ZkRec] /\ Held(zk'[s]) \subseteq 1..zk'[s].opened
       /\ zk'[s].opened <= MaxOpened[s]
  BY <1>1, HandlerIs
<1> QED BY <1>1, <1>2, <1>6, <1>8, <1>9, <1>10, <1>11, <1>12, <1>13 DEF Result

\* A process that dies says nothing to ZooKeeper: its nodes are still there, and
\* its session is left to expire.
LEMMA CrashResult ==
  ASSUME TypeOK, Handles, NothingLeftBehind, NEW s \in Server, Crash(s)
  PROVE  Result(s) /\ point'[s] = "down" /\ zk'[s].handle = 0
<1> DEFINE h == [NoHandle EXCEPT !.opened = zk[s].opened]
           gone == {<<s, n>> : n \in Held(zk[s])}
<1>1. /\ zk' = [zk EXCEPT ![s] = h] /\ tree' = tree /\ s \in Process
      /\ point' = [point EXCEPT ![s] = "down"]
      /\ session' = [z \in Session |->
           IF z \notin gone THEN session[z]
           ELSE IF session[z] \in {"connected", "lost"} THEN "orphan" ELSE "closed"]
  BY DEF Crash, Process
<1>2. h.handle = 0 /\ h.lent = 0 /\ h.opened = zk[s].opened
  BY DEF NoHandle
<1>3. h \in ZkRec
  <2>1. \A g \in ZkRec, n \in Nat : [g EXCEPT !.opened = n] \in ZkRec
    BY DEF ZkRec
  <2>2. NoHandle \in ZkRec /\ zk[s].opened \in Nat
    BY <1>1, HandlerIs, RetryAssumption DEF NoHandle, ZkRec
  <2> QED BY <2>1, <2>2
<1>4. \A q, n : <<q, n>> \in gone <=> q = s /\ n \in Held(zk[s])
  OBVIOUS
<1> HIDE DEF h, gone
<1>5. /\ zk' \in [Process -> ZkRec] /\ zk'[s] = h /\ \A q \in Process \ {s} : zk'[q] = zk[q]
  BY <1>1, <1>3, HandlerIs
<1>6. Held(h) = {} /\ Held(h) \subseteq 1..h.opened /\ h.opened <= MaxOpened[s]
  BY <1>1, <1>2, HandlerIs DEF Held
<1>7. session' \in [Session -> States]
  BY <1>1, HandlerIs DEF States
<1>8. ASSUME NEW q \in Process, NEW n \in 1..MaxOpened[q]
      PROVE  session'[<<q, n>>] =
               IF q = s /\ n \in Held(zk[s])
               THEN IF session[<<q, n>>] \in {"connected", "lost"} THEN "orphan" ELSE "closed"
               ELSE session[<<q, n>>]
  <2>1. <<q, n>> \in Session
    BY SessionIs
  <2> QED BY <1>1, <1>4, <2>1
<1>9. ASSUME NEW n \in 1..MaxOpened[s]
      PROVE  /\ session'[<<s, n>>] \in Living <=> n \in Held(h)
             /\ n > h.opened => session'[<<s, n>>] = "none"
  <2>1. CASE n \in Held(zk[s])
    <3>1. session'[<<s, n>>] \in {"orphan", "closed"}
      BY <1>1, <1>8, <2>1
    <3>2. ~(n > h.opened)
      BY <1>1, <1>2, <2>1, HandlerIs
    <3> QED BY <1>6, <3>1, <3>2 DEF Living
  <2>2. CASE n \notin Held(zk[s])
    <3>1. session'[<<s, n>>] = session[<<s, n>>]
      BY <1>1, <1>8, <2>2
    <3> QED BY <1>1, <1>2, <1>6, <2>2, <3>1 DEF Handles
  <2> QED BY <2>1, <2>2
<1>10. \A q \in Process \ {s} : \A n \in 1..MaxOpened[q] : session'[<<q, n>>] = session[<<q, n>>]
  BY <1>8
<1>11. ASSUME NEW a \in DOMAIN tree
       PROVE  tree[a] \in Session /\ session'[tree[a]] \in {"connected", "lost", "orphan"}
  <2>1. tree[a] \in Session /\ session[tree[a]] \in {"connected", "lost", "orphan"}
    BY DEF NothingLeftBehind
  <2>2. CASE tree[a] \in gone
    <3>1. PICK n \in Held(zk[s]) : tree[a] = <<s, n>>
      BY <2>2 DEF gone
    <3>2. n \in 1..MaxOpened[s]
      BY <1>1, <3>1, HandlerIs
    <3>3. session[tree[a]] \in Living
      BY <1>1, <3>1, <3>2 DEF Handles
    <3>4. session[tree[a]] \in {"connected", "lost"}
      BY <2>1, <3>3 DEF Living
    <3> QED BY <1>1, <2>1, <2>2, <3>4
  <2>3. CASE tree[a] \notin gone
    BY <1>1, <2>1, <2>3
  <2> QED BY <2>1, <2>2, <2>3
<1>12. DOMAIN tree' \subseteq Address /\ NothingLeftBehind'
  BY <1>1, <1>11 DEF NothingLeftBehind, TypeOK
<1>13. point'[s] = "down"
  BY <1>1 DEF TypeOK
<1> QED BY <1>1, <1>2, <1>5, <1>6, <1>7, <1>9, <1>10, <1>12, <1>13 DEF Result

\* So every step of a process leaves the handlers, the sessions and the nodes in
\* order.
LEMMA StepResult ==
  ASSUME IInv, NEW p \in Process, Steps(p)
  PROVE  Result(p)
BY StepIs, KeepsResult, OpensResult, DropsResult, LostResult, CrashResult DEF IInv

-----------------------------------------------------------------------------
(* ZooKeeper.                                                              *)

\* A session that becomes something else stays a living one, or was left behind.
LEMMA BecomesIs ==
  ASSUME TypeOK, Handles, NEW z \in Session, NEW from \in States, NEW to \in States,
         Becomes(z, from, to), zk' = zk, from # "none", from \in Living <=> to \in Living
  PROVE  /\ session' \in [Session -> States] /\ session[z] = from /\ session'[z] = to
         /\ \A y \in Session \ {z} : session'[y] = session[y]
         /\ Handles'
<1>1. /\ session' \in [Session -> States] /\ session[z] = from /\ session'[z] = to
      /\ \A y \in Session \ {z} : session'[y] = session[y]
  BY DEF Becomes, TypeOK, States
<1>2. ASSUME NEW p \in Process, NEW n \in 1..MaxOpened[p]
      PROVE  /\ session'[<<p, n>>] \in Living <=> n \in Held(zk[p])
             /\ n > zk[p].opened => session'[<<p, n>>] = "none"
  <2>1. <<p, n>> \in Session
    BY SessionIs
  <2> QED BY <1>1, <2>1 DEF Handles
<1>3. \A p \in Process : zk[p].lent \in {0, zk[p].handle}
  BY DEF Handles
<1> QED BY <1>1, <1>2, <1>3 DEF Handles

\* What ZooKeeper does of its own leaves the handles in order too, and no node
\* without a session.
LEMMA ZooKeeperResult ==
  ASSUME IInv, NEW z \in Session, ZooKeeperSteps(z)
  PROVE  /\ UNCHANGED <<process, path>> /\ losses' \in 0..MaxLosses
         /\ session' \in [Session -> States] /\ \A y \in Session \ {z} : session'[y] = session[y]
         /\ session[z] = "new" => session'[z] = "connected"
         /\ session'[z] \in {"connected", "lost"} => session[z] \in {"new", "connected", "lost"}
         /\ session'[z] # "new"
         /\ Handles' /\ NothingLeftBehind' /\ DOMAIN tree' \subseteq Address
         /\ \A a \in DOMAIN tree' : a \in DOMAIN tree /\ tree'[a] = tree[a]
         /\ \A a \in DOMAIN tree : tree[a] # z \/ session'[z] \in {"connected", "lost"} => a \in DOMAIN tree'
<1> USE DEF IInv
<1>1. zk' = zk /\ UNCHANGED <<process, path>> /\ losses' \in 0..MaxLosses
  BY BoundAssumption DEF ZooKeeperSteps, Attach, Lose, Expire, Learn, process, TypeOK
<1>2. DOMAIN tree \subseteq Address /\ NothingLeftBehind
  BY DEF TypeOK
<1>3. CASE Attach(z) \/ Lose(z) \/ Learn(z)
  <2>1. tree' = tree
    BY <1>3 DEF Attach, Lose, Learn
  <2>2. PICK from \in {"new", "lost", "connected", "lapsed"}, to \in {"connected", "lost", "expired"} :
          /\ Becomes(z, from, to)
          /\ from = "lapsed" <=> to = "expired"
    BY <1>3 DEF Attach, Lose, Learn
  <2>3. from \in States /\ to \in States /\ from # "none" /\ (from \in Living <=> to \in Living)
    BY DEF States, Living
  <2>4. /\ session' \in [Session -> States] /\ session[z] = from /\ session'[z] = to
        /\ \A y \in Session \ {z} : session'[y] = session[y]
        /\ Handles'
    BY <1>1, <2>2, <2>3, BecomesIs
  <2>5. session[z] = "new" => session'[z] = "connected"
    BY <1>3, <2>4 DEF Attach, Lose, Learn, Becomes
  <2>6. NothingLeftBehind'
    BY <1>2, <2>1, <2>2, <2>4 DEF NothingLeftBehind
  <2> QED BY <1>1, <1>2, <2>1, <2>2, <2>4, <2>5, <2>6
<1>4. CASE Expire(z)
  <2>1. tree' = Without(tree, {z})
    BY <1>4 DEF Expire
  <2>2. /\ DOMAIN tree' = {a \in DOMAIN tree : tree[a] # z}
        /\ \A a \in DOMAIN tree' : tree'[a] = tree[a]
    BY <2>1 DEF Without, Restrict
  <2>3. PICK from \in {"lost", "orphan"}, to \in {"lapsed", "closed"} :
          Becomes(z, from, to) /\ (from = "lost" <=> to = "lapsed")
    BY <1>4 DEF Expire
  <2>4. from \in States /\ to \in States /\ from # "none" /\ (from \in Living <=> to \in Living)
    BY <2>3 DEF States, Living
  <2>5. /\ session' \in [Session -> States] /\ session[z] = from /\ session'[z] = to
        /\ \A y \in Session \ {z} : session'[y] = session[y]
        /\ Handles'
    BY <1>1, <2>3, <2>4, BecomesIs
  <2>6. NothingLeftBehind'
    BY <1>2, <2>2, <2>5 DEF NothingLeftBehind
  <2> QED BY <1>1, <1>2, <2>2, <2>3, <2>5, <2>6
<1> QED BY <1>3, <1>4 DEF ZooKeeperSteps

-----------------------------------------------------------------------------
(* Every step keeps the invariant.                                         *)

\* A step is a process's or ZooKeeper's.
LEMMA NextIs ==
  ASSUME [Next]_vars
  PROVE  \/ \E p \in Process : Steps(p)
         \/ \E z \in Session : ZooKeeperSteps(z)
         \/ UNCHANGED vars
BY DEF Next, Process, Steps

Points == {"down", "connecting", "registering", "serving", "idle", "children", "reading"}
QueryRec == [nodes : SUBSET Address, left : SUBSET Address,
             servers : SUBSET Address, failed : SUBSET Address]

\* Where the processes are, and their progress.
Progress ==
  /\ point \in [Process -> Points]
  /\ \A s \in Server : point[s] \in {"down", "connecting", "registering", "serving"}
  /\ \A c \in Client : point[c] \in {"idle", "connecting", "children", "reading"}
  /\ reg \in [Server -> RegRec] /\ \A s \in Server : reg[s].node <= Len(NodesOf[s])
  /\ query \in [Client -> QueryRec] /\ servers \in [Client -> SUBSET Address]
  /\ path \in 0..2 /\ losses \in 0..MaxLosses

\* The types are those of the progress, the handlers and ZooKeeper.
LEMMA TypeIs ==
  TypeOK <=> /\ Progress /\ zk \in [Process -> ZkRec]
             /\ \A p \in Process : Held(zk[p]) \subseteq 1..zk[p].opened /\ zk[p].opened <= MaxOpened[p]
             /\ session \in [Session -> States]
             /\ DOMAIN tree \subseteq Address /\ \A a \in DOMAIN tree : tree[a] \in Session
BY DEF TypeOK, Progress, ZkRec, RegRec, QueryRec, States, Points

\* The nodes found, read and failed are addresses throughout a query.
LEMMA QueryTypes ==
  ASSUME TypeOK, NEW c \in Client, GetChildren(c) \/ GetNode(c) \/ ReadAll(c)
  PROVE  query' \in [Client -> QueryRec] /\ servers' \in [Client -> SUBSET Address]
<1>1. /\ query \in [Client -> QueryRec] /\ servers \in [Client -> SUBSET Address]
      /\ query[c] \in QueryRec /\ DOMAIN tree \subseteq Address
  BY TypeIs DEF Progress
<1>2. \A q \in QueryRec, as \in SUBSET Address :
        /\ [q EXCEPT !.nodes = as] \in QueryRec /\ [q EXCEPT !.left = as] \in QueryRec
        /\ [q EXCEPT !.servers = as] \in QueryRec /\ [q EXCEPT !.failed = as] \in QueryRec
  BY DEF QueryRec
<1>3. CASE GetChildren(c)
  <2>1. servers' \in [Client -> SUBSET Address]
    BY <1>1, <1>3 DEF GetChildren, UpdateServers
  <2>2. CASE query' = query
    BY <1>1, <2>1, <2>2
  <2>3. CASE query' = [query EXCEPT ![c].nodes = DOMAIN tree, ![c].left = DOMAIN tree]
    <3> DEFINE q == [query[c] EXCEPT !.nodes = DOMAIN tree]
    <3>1. query' = [query EXCEPT ![c] = [q EXCEPT !.left = DOMAIN tree]]
      BY <1>1, <2>3
    <3>2. q \in QueryRec
      BY <1>1, <1>2
    <3>3. [q EXCEPT !.left = DOMAIN tree] \in QueryRec
      BY <1>1, <1>2, <3>2
    <3> QED BY <1>1, <2>1, <3>1, <3>3
  <2> QED BY <1>3, <2>2, <2>3 DEF GetChildren
<1>4. CASE GetNode(c)
  <2>1. PICK a \in query[c].left :
          query' \in {[query EXCEPT ![c] = Found(query[c], a)], [query EXCEPT ![c] = Failed(query[c], a)]}
    BY <1>4 DEF GetNode
  <2>2. /\ query[c].left \ {a} \in SUBSET Address
        /\ query[c].servers \cup {a} \in SUBSET Address
        /\ query[c].failed \cup {a} \in SUBSET Address
    BY <1>1 DEF QueryRec
  <2> DEFINE q == [query[c] EXCEPT !.left = query[c].left \ {a}]
  <2>3. q \in QueryRec /\ q.servers = query[c].servers /\ q.failed = query[c].failed
    BY <1>1, <2>2 DEF QueryRec
  <2>4. /\ [q EXCEPT !.servers = query[c].servers \cup {a}] \in QueryRec
        /\ [q EXCEPT !.failed = query[c].failed \cup {a}] \in QueryRec
    BY <1>2, <2>2, <2>3
  <2>5. \/ query' = [query EXCEPT ![c] = [q EXCEPT !.servers = query[c].servers \cup {a}]]
        \/ query' = [query EXCEPT ![c] = [q EXCEPT !.failed = query[c].failed \cup {a}]]
    <3>1. Found(query[c], a) = [q EXCEPT !.servers = query[c].servers \cup {a}]
      BY <2>3 DEF Found
    <3>2. Failed(query[c], a) = [q EXCEPT !.failed = query[c].failed \cup {a}]
      BY <2>3 DEF Failed
    <3> HIDE DEF q
    <3> QED BY <2>1, <3>1, <3>2
  <2> HIDE DEF q
  <2>6. query' \in [Client -> QueryRec]
    BY <1>1, <2>4, <2>5
  <2> QED BY <1>1, <1>4, <2>6 DEF GetNode
<1>5. CASE ReadAll(c)
  <2>1. FreshQuery \in QueryRec
    BY DEF FreshQuery, QueryRec
  <2>2. query[c].servers \in SUBSET Address
    BY <1>1 DEF QueryRec
  <2> QED BY <1>1, <1>5, <2>1, <2>2 DEF ReadAll, UpdateServers
<1> QED BY <1>3, <1>4, <1>5

\* Where the processes may be, one by one.
LEMMA ProgressInductive ==
  ASSUME IInv, NEW p \in Process, Steps(p) PROVE Progress'
<1> USE ProcessAssumption DEF IInv, Progress
<1>1. Progress
  BY TypeIs
<1>2. FreshReg \in RegRec
  BY DEF FreshReg, RegRec
<1>3. \A s \in Server : Len(NodesOf[s]) \in Nat \ {0}
  BY NodesAssumption
<1>4. \A s \in Server : FreshReg.node <= Len(NodesOf[s])
  BY <1>3 DEF FreshReg
<1>5. CASE EnSureConnect(p)
  <2>1. UNCHANGED <<reg, query, path, losses>>
    BY <1>5 DEF EnSureConnect, Connected, NotYet, NotConnected, zookeeper
  <2>2. servers' \in [Client -> SUBSET Address]
    BY <1>1, <1>5 DEF EnSureConnect, Connected, NotYet, NotConnected, zookeeper
  <2>3. \/ point' = point
        \/ p \in Server /\ point' \in {[point EXCEPT ![p] = "registering"], [point EXCEPT ![p] = "down"]}
        \/ p \in Client /\ point' \in {[point EXCEPT ![p] = "children"], [point EXCEPT ![p] = "idle"]}
    BY <1>5 DEF EnSureConnect, Connected, NotYet, NotConnected, Exit, Process
  <2>4. /\ point' \in [Process -> Points]
        /\ \A s \in Server : point'[s] \in {"down", "connecting", "registering", "serving"}
        /\ \A c \in Client : point'[c] \in {"idle", "connecting", "children", "reading"}
    BY <1>1, <2>3 DEF Points, Process
  <2> QED BY <1>1, <2>1, <2>2, <2>4
<1>6. CASE p \in Server /\ (Start(p) \/ Stop(p) \/ Crash(p) \/ AnswerLost(p))
  <2>1. UNCHANGED <<query, servers>>
    BY <1>6 DEF Start, Stop, Crash, AnswerLost
  <2>2. path' \in 0..2 /\ losses' \in 0..MaxLosses
    BY <1>1, <1>6, BoundAssumption DEF Start, Stop, Crash, AnswerLost
  <2>3. point' \in {point, [point EXCEPT ![p] = "connecting"], [point EXCEPT ![p] = "down"]}
    BY <1>6 DEF Start, Stop, Crash, AnswerLost, Exit
  <2>4. /\ point' \in [Process -> Points]
        /\ \A s \in Server : point'[s] \in {"down", "connecting", "registering", "serving"}
        /\ \A c \in Client : point'[c] \in {"idle", "connecting", "children", "reading"}
    BY <1>1, <1>6, <2>3 DEF Points, Process
  <2>5. reg' = [reg EXCEPT ![p] = FreshReg] \/ reg' = [reg EXCEPT ![p].step = "unheard"]
    BY <1>6 DEF Start, Stop, Crash, AnswerLost
  <2>6. [reg[p] EXCEPT !.step = "unheard"] \in RegRec /\ [reg[p] EXCEPT !.step = "unheard"].node = reg[p].node
    BY <1>1, <1>6 DEF RegRec
  <2>7. reg' \in [Server -> RegRec] /\ \A s \in Server : reg'[s].node <= Len(NodesOf[s])
    BY <1>1, <1>2, <1>4, <1>6, <2>5, <2>6
  <2> QED BY <2>1, <1>1, <2>2, <2>4, <2>7
<1>7. CASE p \in Server /\ Register(p)
  <2>1. UNCHANGED <<query, servers, losses>> /\ path' \in 0..2
    BY <1>7, RegisterIs
  <2>2. /\ point' \in {point, [point EXCEPT ![p] = "serving"], [point EXCEPT ![p] = "down"]}
        /\ reg' \in [Server -> RegRec] /\ reg'[p].node <= Len(NodesOf[p])
        /\ \A q \in Server \ {p} : reg'[q] = reg[q]
    BY <1>7, RegisterKinds
  <2>3. /\ point' \in [Process -> Points]
        /\ \A s \in Server : point'[s] \in {"down", "connecting", "registering", "serving"}
        /\ \A c \in Client : point'[c] \in {"idle", "connecting", "children", "reading"}
    BY <1>1, <1>7, <2>2 DEF Points, Process
  <2>4. \A s \in Server : reg'[s].node <= Len(NodesOf[s])
    BY <1>1, <2>2
  <2> QED BY <1>1, <2>1, <2>2, <2>3, <2>4
<1>8. CASE p \in Client /\ GetServer(p)
  <2>1. point' = [point EXCEPT ![p] = "connecting"] /\ UNCHANGED <<reg, query, servers, path, losses>>
    BY <1>8 DEF GetServer
  <2>2. /\ point' \in [Process -> Points]
        /\ \A s \in Server : point'[s] \in {"down", "connecting", "registering", "serving"}
        /\ \A c \in Client : point'[c] \in {"idle", "connecting", "children", "reading"}
    BY <1>1, <1>8, <2>1 DEF Points, Process
  <2> QED BY <1>1, <2>1, <2>2
<1>9. CASE p \in Client /\ (GetChildren(p) \/ GetNode(p) \/ ReadAll(p))
  <2>1. query' \in [Client -> QueryRec] /\ servers' \in [Client -> SUBSET Address]
    BY <1>9, QueryTypes
  <2>2. UNCHANGED <<reg, path, losses>>
    BY <1>9 DEF GetChildren, GetNode, ReadAll, zookeeper
  <2>3. point' \in {point, [point EXCEPT ![p] = "reading"], [point EXCEPT ![p] = "idle"]}
    BY <1>9 DEF GetChildren, GetNode, ReadAll
  <2>4. /\ point' \in [Process -> Points]
        /\ \A s \in Server : point'[s] \in {"down", "connecting", "registering", "serving"}
        /\ \A c \in Client : point'[c] \in {"idle", "connecting", "children", "reading"}
    BY <1>1, <1>9, <2>3 DEF Points, Process
  <2> QED BY <1>1, <2>1, <2>2, <2>4
<1> QED BY <1>5, <1>6, <1>7, <1>8, <1>9 DEF Steps, ServerSteps, ClientSteps, GetServers

\* The types.
LEMMA TypeInductive == ASSUME IInv, [Next]_vars PROVE TypeOK'
<1> USE DEF IInv
<1>1. CASE \E p \in Process : Steps(p)
  <2> PICK p \in Process : Steps(p)
    BY <1>1
  <2>1. Progress' /\ Result(p)
    BY ProgressInductive, StepResult
  <2>2. ASSUME NEW q \in Process
        PROVE  Held(zk'[q]) \subseteq 1..zk'[q].opened /\ zk'[q].opened <= MaxOpened[q]
    <3>1. CASE q = p
      BY <2>1, <3>1 DEF Result
    <3>2. CASE q # p
      <4>1. zk'[q] = zk[q]
        BY <2>1, <3>2 DEF Result
      <4> QED BY <4>1, HandlerIs
    <3> QED BY <3>1, <3>2
  <2>3. /\ zk' \in [Process -> ZkRec] /\ session' \in [Session -> States]
        /\ DOMAIN tree' \subseteq Address /\ \A a \in DOMAIN tree' : tree'[a] \in Session
    BY <2>1 DEF Result, NothingLeftBehind
  <2>4. /\ Progress' /\ zk' \in [Process -> ZkRec]
        /\ \A q \in Process : Held(zk'[q]) \subseteq 1..zk'[q].opened /\ zk'[q].opened <= MaxOpened[q]
        /\ session' \in [Session -> States]
        /\ DOMAIN tree' \subseteq Address /\ \A a \in DOMAIN tree' : tree'[a] \in Session
    BY <2>1, <2>2, <2>3
  <2> HIDE DEF IInv
  <2> QED BY <2>4 DEF TypeOK, Progress, ZkRec, RegRec, QueryRec, States, Points
<1>2. CASE \E z \in Session : ZooKeeperSteps(z)
  <2> PICK z \in Session : ZooKeeperSteps(z)
    BY <1>2
  <2>1. /\ UNCHANGED <<process, path>> /\ losses' \in 0..MaxLosses
        /\ session' \in [Session -> States] /\ NothingLeftBehind' /\ DOMAIN tree' \subseteq Address
    BY ZooKeeperResult
  <2>2. Progress'
    BY <2>1, TypeIs DEF Progress, process
  <2>3. /\ zk' = zk /\ zk \in [Process -> ZkRec]
        /\ \A q \in Process : Held(zk[q]) \subseteq 1..zk[q].opened /\ zk[q].opened <= MaxOpened[q]
    BY <2>1, TypeIs DEF process
  <2>4. \A a \in DOMAIN tree' : tree'[a] \in Session
    BY <2>1 DEF NothingLeftBehind
  <2> HIDE DEF IInv
  <2>5. /\ Progress' /\ zk' \in [Process -> ZkRec]
        /\ \A q \in Process : Held(zk'[q]) \subseteq 1..zk'[q].opened /\ zk'[q].opened <= MaxOpened[q]
        /\ session' \in [Session -> States]
        /\ DOMAIN tree' \subseteq Address /\ \A a \in DOMAIN tree' : tree'[a] \in Session
    BY <2>1, <2>2, <2>3, <2>4
  <2> QED BY <2>5 DEF TypeOK, Progress, ZkRec, RegRec, QueryRec, States, Points
<1>3. CASE UNCHANGED vars
  BY <1>3 DEF vars, process, zookeeper, TypeOK, Process, Session, Held
<1> QED BY <1>1, <1>2, <1>3, NextIs

\* The handlers and their sessions.
LEMMA HandlesInductive == ASSUME IInv, [Next]_vars PROVE Handles'
<1> USE DEF IInv
<1>1. CASE \E p \in Process : Steps(p)
  <2> PICK p \in Process : Steps(p)
    BY <1>1
  <2>1. Result(p)
    BY StepResult
  <2>2. ASSUME NEW q \in Process
        PROVE  /\ zk'[q].lent \in {0, zk'[q].handle}
               /\ \A n \in 1..MaxOpened[q] :
                    /\ session'[<<q, n>>] \in Living <=> n \in Held(zk'[q])
                    /\ n > zk'[q].opened => session'[<<q, n>>] = "none"
    <3>1. CASE q = p
      BY <2>1, <3>1 DEF Result
    <3>2. CASE q # p
      <4>1. zk'[q] = zk[q] /\ \A n \in 1..MaxOpened[q] : session'[<<q, n>>] = session[<<q, n>>]
        BY <2>1, <3>2 DEF Result
      <4> QED BY <4>1 DEF Handles
    <3> QED BY <3>1, <3>2
  <2> QED BY <2>2 DEF Handles
<1>2. CASE \E z \in Session : ZooKeeperSteps(z)
  BY <1>2, ZooKeeperResult
<1>3. CASE UNCHANGED vars
  BY <1>3 DEF vars, process, zookeeper, Handles
<1> QED BY <1>1, <1>2, <1>3, NextIs

\* No node outlives its session.
LEMMA NothingLeftInductive == ASSUME IInv, [Next]_vars PROVE NothingLeftBehind'
<1>1. CASE \E p \in Process : Steps(p)
  BY <1>1, StepResult DEF Result
<1>2. CASE \E z \in Session : ZooKeeperSteps(z)
  BY <1>2, ZooKeeperResult
<1>3. CASE UNCHANGED vars
  BY <1>3 DEF vars, process, zookeeper, NothingLeftBehind, IInv
<1> QED BY <1>1, <1>2, <1>3, NextIs

\* A server whose place, handles and progress are as they were is where it was.
LEMMA StillThere ==
  ASSUME NEW s \in Server, PlaceOf(s), ListedAt(s), TroubleOf(s),
         point'[s] = point[s], zk'[s].handle = zk[s].handle, zk'[s].lent = zk[s].lent,
         reg'[s].node = reg[s].node, reg'[s].all_success = reg[s].all_success,
         reg'[s].adopted = reg[s].adopted, reg'[s].troubled = reg[s].troubled,
         point[s] \in {"registering", "serving"} =>
           LET view == session'[<<s, zk[s].handle>>] IN
           /\ view # "new"
           /\ view \in {"connected", "lost"} =>
                /\ View(s) \in {"connected", "lost"}
                /\ \A a \in DOMAIN tree :
                     tree[a] = <<s, zk[s].handle>> => a \in DOMAIN tree' /\ tree'[a] = tree[a]
  PROVE  PlaceOf(s)' /\ ListedAt(s)' /\ TroubleOf(s)'
<1>1. PlaceOf(s)'
  BY DEF PlaceOf, View
<1>2. TroubleOf(s)'
  BY DEF TroubleOf
<1>3. ASSUME NEW last, point[s] \in {"registering", "serving"}, Clean(s)', Clean(s) => ListedTo(s, last)
      PROVE  ListedTo(s, last)'
  <2>1. /\ View(s) \in {"connected", "lost"}
        /\ \A a \in DOMAIN tree :
             tree[a] = <<s, zk[s].handle>> => a \in DOMAIN tree' /\ tree'[a] = tree[a]
    BY <1>3 DEF Clean, View
  <2>2. Clean(s)
    BY <1>3, <2>1 DEF Clean
  <2> QED BY <1>3, <2>1, <2>2 DEF ListedTo
<1>4. point'[s] = "serving" /\ Clean(s)' => ListedTo(s, Len(NodesOf[s]))'
  BY <1>3 DEF ListedAt
<1>5. point'[s] = "registering" /\ Clean(s)' => ListedTo(s, reg[s].node - 1)'
  <2> DEFINE last == reg[s].node - 1
  <2>1. point'[s] = "registering" /\ Clean(s)' => \A i \in 1..last :
          NodesOf[s][i] \in DOMAIN tree' /\ tree'[NodesOf[s][i]] = <<s, zk'[s].handle>>
    <3>1. ASSUME point'[s] = "registering", Clean(s)'
          PROVE  \A i \in 1..last :
                   NodesOf[s][i] \in DOMAIN tree' /\ tree'[NodesOf[s][i]] = <<s, zk'[s].handle>>
      <4>1. /\ View(s) \in {"connected", "lost"}
            /\ \A a \in DOMAIN tree :
                 tree[a] = <<s, zk[s].handle>> => a \in DOMAIN tree' /\ tree'[a] = tree[a]
        BY <3>1 DEF Clean, View
      <4>2. Clean(s)
        BY <3>1, <4>1 DEF Clean
      <4>3. ListedTo(s, last)
        BY <3>1, <4>2 DEF ListedAt
      <4> QED BY <4>1, <4>3 DEF ListedTo
    <3> QED BY <3>1
  <2> QED BY <2>1 DEF ListedTo
<1> QED BY <1>1, <1>2, <1>4, <1>5 DEF ListedAt, ListedTo

\* A server that does not register is where it should be if it holds a handle just
\* when it runs.
LEMMA Elsewhere ==
  ASSUME NEW s \in Server, point'[s] \in {"down", "connecting"},
         point'[s] = "down" <=> zk'[s].handle = 0,
         point'[s] = "connecting" => reg'[s].node = 1, TroubleOf(s)'
  PROVE  PlaceOf(s)' /\ ListedAt(s)' /\ TroubleOf(s)'
BY DEF PlaceOf, ListedAt

\* A server that has done nothing itself.
LEMMA OtherServer ==
  ASSUME IInv, NEW p \in Process, Steps(p), NEW s \in Server, s # p
  PROVE  PlaceOf(s)' /\ ListedAt(s)' /\ TroubleOf(s)'
<1>1. point'[s] = point[s] /\ reg'[s] = reg[s] /\ s \in Process
  BY StepIs DEF Process
<1>2. Result(p)
  BY StepResult
<1>3. zk'[s] = zk[s]
  BY <1>1, <1>2 DEF Result
<1>4. PlaceOf(s) /\ ListedAt(s) /\ TroubleOf(s) /\ TypeOK /\ Handles
  BY DEF IInv, Places, Listed, Troubles
<1>5. ASSUME point[s] \in {"registering", "serving"}
      PROVE  /\ session'[<<s, zk[s].handle>>] = View(s) /\ View(s) # "new"
             /\ \A a \in DOMAIN tree :
                  tree[a] = <<s, zk[s].handle>> => a \in DOMAIN tree' /\ tree'[a] = tree[a]
  <2>1. zk[s].handle # 0 /\ View(s) # "new"
    BY <1>4, <1>5 DEF PlaceOf
  <2>2. zk[s].handle \in 1..MaxOpened[s] /\ zk[s].handle \in Nat
    BY <1>1, <1>4, <2>1, HandlerIs
  <2> QED BY <1>1, <1>2, <2>1, <2>2 DEF Result, View
<1> QED BY <1>1, <1>3, <1>4, <1>5, StillThere

\* ZooKeeper loses the nodes of a server only with its session.
LEMMA ServerAtZooKeeper ==
  ASSUME IInv, NEW z \in Session, ZooKeeperSteps(z), NEW s \in Server
  PROVE  PlaceOf(s)' /\ ListedAt(s)' /\ TroubleOf(s)'
<1>1. point' = point /\ reg' = reg /\ zk' = zk /\ s \in Process
  BY ZooKeeperResult DEF process, Process
<1>2. PlaceOf(s) /\ ListedAt(s) /\ TroubleOf(s) /\ TypeOK /\ Handles
  BY DEF IInv, Places, Listed, Troubles
<1>3. /\ \A y \in Session \ {z} : session'[y] = session[y]
      /\ session'[z] \in {"connected", "lost"} => session[z] \in {"new", "connected", "lost"}
      /\ session'[z] # "new"
      /\ \A a \in DOMAIN tree' : a \in DOMAIN tree /\ tree'[a] = tree[a]
      /\ \A a \in DOMAIN tree :
           tree[a] # z \/ session'[z] \in {"connected", "lost"} => a \in DOMAIN tree'
  BY ZooKeeperResult
<1>4. ASSUME point[s] \in {"registering", "serving"}
      PROVE  LET view == session'[<<s, zk[s].handle>>] IN
             /\ view # "new"
             /\ view \in {"connected", "lost"} =>
                  /\ View(s) \in {"connected", "lost"}
                  /\ \A a \in DOMAIN tree :
                       tree[a] = <<s, zk[s].handle>> => a \in DOMAIN tree' /\ tree'[a] = tree[a]
  <2>1. zk[s].handle # 0 /\ View(s) # "new"
    BY <1>2, <1>4 DEF PlaceOf
  <2>2. zk[s].handle \in 1..MaxOpened[s]
    BY <1>1, <1>2, <2>1, HandlerIs
  <2> DEFINE y == <<s, zk[s].handle>>
  <2>3. y \in Session /\ session[y] = View(s)
    BY <1>1, <2>2, SessionIs DEF View
  <2> HIDE DEF y
  <2>4. session'[y] # "new" /\ (session'[y] \in {"connected", "lost"} => View(s) \in {"connected", "lost"})
    BY <1>3, <2>1, <2>3
  <2>5. session'[y] \in {"connected", "lost"} =>
          \A a \in DOMAIN tree : tree[a] = y => a \in DOMAIN tree' /\ tree'[a] = tree[a]
    BY <1>3
  <2> QED BY <2>4, <2>5 DEF y
<1> QED BY <1>1, <1>2, <1>4, StillThere

\* Registering: a node that has been made is listed, one that has not is the end,
\* or will be.
LEMMA RegisteringServer ==
  ASSUME IInv, NEW s \in Server, Register(s)
  PROVE  PlaceOf(s)' /\ ListedAt(s)' /\ TroubleOf(s)'
<1> USE DEF IInv
<1>1. point[s] = "registering" /\ s \in Process /\ (Proceeds(s) \/ FailsNode(s) \/ MakesNode(s))
  BY RegisterIs DEF Process
<1>2. PlaceOf(s) /\ ListedAt(s) /\ TroubleOf(s)
  BY DEF Places, Listed, Troubles
<1>3. reg[s] \in RegRec /\ reg \in [Server -> RegRec]
  BY DEF TypeOK, RegRec
<1>4. CASE Proceeds(s)
  <2>1. UNCHANGED <<point, zk, session, tree>>
    BY <1>4 DEF Proceeds
  <2>2. /\ reg'[s].node = reg[s].node /\ reg'[s].all_success = reg[s].all_success
        /\ reg'[s].adopted = reg[s].adopted /\ reg'[s].troubled = reg[s].troubled
    BY <1>3, <1>4 DEF Proceeds, RegRec
  <2>3. View(s) # "new"
    BY <1>1, <1>2 DEF PlaceOf
  <2> QED BY <1>2, <2>1, <2>2, <2>3, StillThere DEF View
<1>5. CASE FailsNode(s) \/ MakesNode(s)
  <2> PICK ok \in BOOLEAN, r \in RegRec : \E nodes :
        /\ Kept(nodes) /\ Grown(nodes) /\ NodeDone(s, ok, r, nodes) /\ r.node = reg[s].node
        /\ \/ /\ ok = FALSE /\ r.troubled = TRUE
           \/ /\ ok = TRUE /\ r.troubled = reg[s].troubled
              /\ r.adopted = (reg[s].adopted \/ Addr(s) \in DOMAIN tree)
              /\ nodes = Put(s) /\ Lent(s) = "connected"
    BY <1>1, <1>5, NodeKinds
  <2>1. PICK nodes :
        /\ Kept(nodes) /\ Grown(nodes) /\ NodeDone(s, ok, r, nodes) /\ r.node = reg[s].node
        /\ \/ /\ ok = FALSE /\ r.troubled = TRUE
           \/ /\ ok = TRUE /\ r.troubled = reg[s].troubled
              /\ r.adopted = (reg[s].adopted \/ Addr(s) \in DOMAIN tree)
              /\ nodes = Put(s) /\ Lent(s) = "connected"
    OBVIOUS
  <2> DEFINE last == r.node = Len(NodesOf[s])
             all == reg[s].all_success /\ ok
  <2>2. /\ reg'[s].node = IF last THEN 1 ELSE r.node + 1
        /\ reg'[s].all_success = all
        /\ reg'[s].adopted = r.adopted /\ reg'[s].troubled = r.troubled
        /\ IF last /\ ~all THEN Exit(s, nodes)
           ELSE /\ point' = IF last THEN [point EXCEPT ![s] = "serving"] ELSE point
                /\ tree' = nodes /\ UNCHANGED <<zk, session>>
    BY <2>1, NodeDoneIs
  <2>3. TroubleOf(s)'
    BY <1>2, <2>1, <2>2 DEF TroubleOf
  <2> HIDE DEF last, all
  <2>4. CASE last /\ ~all
    <3>1. Exit(s, nodes)
      BY <2>2, <2>4
    <3>2. point'[s] = "down" /\ zk'[s].handle = 0
      <4>1. point' = [point EXCEPT ![s] = "down"] /\ zk'[s].handle = 0
        BY <1>1, <2>1, <3>1, ExitDrops
      <4> QED BY <1>1, <4>1 DEF TypeOK
    <3> QED BY <2>3, <3>2, Elsewhere
  <2>5. CASE ~(last /\ ~all)
    <3>1. /\ point' = IF last THEN [point EXCEPT ![s] = "serving"] ELSE point
          /\ tree' = nodes /\ UNCHANGED <<zk, session>>
      BY <2>2, <2>5
    <3>2. point'[s] = IF last THEN "serving" ELSE "registering"
      BY <1>1, <3>1 DEF TypeOK
    <3>3. PlaceOf(s)'
      BY <1>1, <1>2, <3>1, <3>2 DEF PlaceOf, View
    <3>4. last => reg'[s].all_success
      BY <2>2, <2>5
    <3>5. ASSUME Clean(s)'
          PROVE  \A i \in 1..r.node :
                   NodesOf[s][i] \in DOMAIN tree' /\ tree'[NodesOf[s][i]] = <<s, zk'[s].handle>>
      <4>1. View(s) \in {"connected", "lost"} /\ reg[s].all_success /\ ok /\ ~r.adopted
        BY <2>2, <3>1, <3>5 DEF Clean, View, all
      <4>2. /\ ~reg[s].adopted /\ Addr(s) \notin DOMAIN tree
            /\ nodes = Put(s) /\ Lent(s) = "connected"
        BY <2>1, <4>1
      <4>3. ListedTo(s, reg[s].node - 1)
        BY <1>1, <1>2, <4>1, <4>2 DEF ListedAt, Clean
      <4>4. /\ Grown(Put(s)) /\ DOMAIN Put(s) = DOMAIN tree \cup {Addr(s)}
            /\ Put(s)[Addr(s)] = <<s, zk[s].handle>>
        BY <1>1, <4>2, PutKept
      <4>5. tree' = Put(s) /\ zk' = zk
        BY <3>1, <4>2
      <4>6. NodesOf[s][r.node] = Addr(s) /\ r.node \in Nat \ {0} /\ r.node = reg[s].node
        BY <2>1 DEF Addr, RegRec
      <4>7. ASSUME NEW i \in 1..r.node
            PROVE  NodesOf[s][i] \in DOMAIN Put(s) /\ Put(s)[NodesOf[s][i]] = <<s, zk[s].handle>>
        <5>1. CASE i = r.node
          BY <4>4, <4>6, <5>1
        <5>2. CASE i # r.node
          <6>1. i \in 1..(reg[s].node - 1)
            BY <4>6, <5>2
          <6> QED BY <4>3, <4>4, <6>1 DEF ListedTo, Grown
        <5> QED BY <5>1, <5>2
      <4> QED BY <4>5, <4>7
    <3>6. r.node \in Nat \ {0} /\ (last => r.node = Len(NodesOf[s]))
      BY DEF RegRec, last
    <3>7. CASE last
      BY <3>2, <3>3, <3>4, <3>5, <3>6, <3>7, <2>3 DEF ListedAt, ListedTo
    <3>8. CASE ~last
      <4>1. reg'[s].node - 1 = r.node
        BY <2>2, <3>6, <3>8
      <4> QED BY <2>3, <3>2, <3>3, <3>5, <3>8, <4>1 DEF ListedAt, ListedTo
    <3> QED BY <3>7, <3>8
  <2> QED BY <2>4, <2>5
<1> QED BY <1>1, <1>4, <1>5

\* The server that has taken the step.
LEMMA OwnServer ==
  ASSUME IInv, NEW s \in Server, ServerSteps(s)
  PROVE  PlaceOf(s)' /\ ListedAt(s)' /\ TroubleOf(s)'
<1> USE DEF IInv
<1>1. /\ s \in Process /\ DOMAIN point = Process /\ DOMAIN reg = Server
      /\ zk[s] \in ZkRec /\ zk \in [Process -> ZkRec] /\ point[s] \in Points
  BY HandlerIs DEF Process, TypeOK, Points
<1>2. PlaceOf(s) /\ ListedAt(s) /\ TroubleOf(s)
  BY DEF Places, Listed, Troubles
<1>3. FreshReg.node = 1 /\ FreshReg.all_success
  BY DEF FreshReg
<1>4. CASE Start(s)
  <2>1. point[s] = "down" /\ point'[s] = "connecting" /\ reg'[s] = FreshReg /\ MakeZkHandle(s) /\ tree' = tree
    BY <1>1, <1>4 DEF Start
  <2>2. zk[s].handle = 0
    BY <1>2, <2>1 DEF PlaceOf
  <2>3. Opens(s)
    BY <1>1, <2>1, <2>2 DEF Opens, Handles
  <2>4. zk'[s].handle # 0
    BY <1>1, <2>3, OpensResult
  <2>5. TroubleOf(s)'
    BY <1>3, <2>1 DEF TroubleOf
  <2> QED BY <1>3, <2>1, <2>4, <2>5, Elsewhere
<1>5. CASE Connected(s)
  <2>1. /\ point[s] = "connecting" /\ View(s) = "connected" /\ point'[s] = "registering"
        /\ UNCHANGED <<reg, tree, session>>
        /\ zk' = [zk EXCEPT ![s].retry = 0, ![s].lent = zk[s].handle]
    BY <1>1, <1>5 DEF Connected, Borrow
  <2>2. zk'[s].handle = zk[s].handle /\ zk'[s].lent = zk[s].handle
    BY <1>1, <2>1 DEF ZkRec
  <2>3. PlaceOf(s)'
    BY <1>2, <2>1, <2>2 DEF PlaceOf, View
  <2>4. reg[s].node = 1
    BY <1>2, <2>1 DEF ListedAt
  <2>5. ListedAt(s)'
    BY <2>1, <2>4 DEF ListedAt, ListedTo
  <2> QED BY <1>2, <2>1, <2>3, <2>5 DEF TroubleOf
<1>6. CASE NotYet(s)
  <2>1. /\ point[s] = "connecting" /\ UNCHANGED <<point, reg>>
        /\ zk' = [zk EXCEPT ![s].retry = @ + 1]
    BY <1>6 DEF NotYet
  <2>2. zk'[s].handle = zk[s].handle /\ zk'[s].lent = zk[s].lent
    BY <1>1, <2>1 DEF ZkRec
  <2> QED BY <1>2, <2>1, <2>2, StillThere
<1>7. CASE NotConnected(s) \/ Stop(s)
  <2>1. Exit(s, tree)
    BY <1>7, ProcessAssumption DEF NotConnected, Stop
  <2>2. point' = [point EXCEPT ![s] = "down"] /\ zk'[s].handle = 0
    BY <1>1, <2>1, TreeKept, ExitDrops
  <2>3. reg' = reg \/ reg' = [reg EXCEPT ![s] = FreshReg]
    BY <1>7 DEF NotConnected, Stop
  <2>4. TroubleOf(s)'
    BY <1>1, <1>2, <1>3, <2>3 DEF TroubleOf
  <2> QED BY <1>1, <2>2, <2>4, Elsewhere
<1>8. CASE Register(s)
  BY <1>8, RegisteringServer
<1>9. CASE AnswerLost(s)
  <2>1. /\ point[s] = "registering" /\ Lent(s) = "connected" /\ point' = point /\ zk' = zk
        /\ reg' = [reg EXCEPT ![s].step = "unheard"] /\ tree' = Put(s)
        /\ session' = [session EXCEPT ![<<s, zk[s].lent>>] = "lost"]
    BY <1>9 DEF AnswerLost, At
  <2>2. zk[s].lent = zk[s].handle /\ zk[s].handle # 0
    BY <1>2, <2>1 DEF PlaceOf
  <2>3. View(s) = "connected"
    BY <2>1, <2>2 DEF Lent, View
  <2>4. <<s, zk[s].handle>> \in Session
    <3>1. zk[s].handle \in 1..MaxOpened[s]
      BY <1>1, <2>2, HandlerIs
    <3> QED BY <1>1, <3>1, SessionIs
  <2>5. session'[<<s, zk[s].handle>>] = "lost"
    BY <2>1, <2>2, <2>4 DEF TypeOK
  <2>6. \A a \in DOMAIN tree : a \in DOMAIN tree' /\ tree'[a] = tree[a]
    BY <2>1, PutKept DEF Grown
  <2>7. /\ reg'[s].node = reg[s].node /\ reg'[s].all_success = reg[s].all_success
        /\ reg'[s].adopted = reg[s].adopted /\ reg'[s].troubled = reg[s].troubled
    <3>1. reg[s] \in RegRec
      BY DEF TypeOK, RegRec
    <3> QED BY <1>1, <2>1, <3>1 DEF RegRec
  <2> HIDE DEF IInv
  <2> QED BY <1>2, <2>1, <2>3, <2>5, <2>6, <2>7, StillThere
<1>10. CASE Crash(s)
  <2>1. point'[s] = "down" /\ zk'[s].handle = 0
    BY <1>10, CrashResult
  <2>2. reg'[s] = FreshReg
    BY <1>1, <1>10 DEF Crash
  <2>3. TroubleOf(s)'
    BY <1>3, <2>2 DEF TroubleOf
  <2> QED BY <2>1, <2>3, Elsewhere
<1> QED BY <1>4, <1>5, <1>6, <1>7, <1>8, <1>9, <1>10 DEF ServerSteps, EnSureConnect

\* Where the servers are, what of theirs is listed, and why a node of theirs failed.
LEMMA ServersInductive == ASSUME IInv, [Next]_vars PROVE Places' /\ Listed' /\ Troubles'
<1>1. ASSUME NEW s \in Server PROVE PlaceOf(s)' /\ ListedAt(s)' /\ TroubleOf(s)'
  <2>1. CASE \E p \in Process : Steps(p)
    <3> PICK p \in Process : Steps(p)
      BY <2>1
    <3>1. CASE p # s
      BY <3>1, OtherServer
    <3>2. CASE p = s
      <4>1. ServerSteps(s)
        BY <3>2, ProcessAssumption DEF Steps
      <4> QED BY <4>1, OwnServer
    <3> QED BY <3>1, <3>2
  <2>2. CASE \E z \in Session : ZooKeeperSteps(z)
    BY <2>2, ServerAtZooKeeper
  <2>3. CASE UNCHANGED vars
    <3>1. PlaceOf(s) /\ ListedAt(s) /\ TroubleOf(s)
      BY DEF IInv, Places, Listed, Troubles
    <3>2. UNCHANGED <<point, zk, reg, session, tree>>
      BY <2>3 DEF vars, process, zookeeper
    <3> QED BY <3>1, <3>2 DEF PlaceOf, ListedAt, TroubleOf, ListedTo, Clean, View
  <2> QED BY <2>1, <2>2, <2>3, NextIs
<1> QED BY <1>1 DEF Places, Listed, Troubles

\* How far the clients' queries have come.
LEMMA QueriesInductive == ASSUME IInv, [Next]_vars PROVE Queries'
<1> USE ProcessAssumption DEF IInv
<1> SUFFICES ASSUME NEW c \in Client
             PROVE  IF point'[c] = "reading"
                    THEN /\ query'[c].nodes = query'[c].left \cup query'[c].servers \cup query'[c].failed
                         /\ query'[c].left \cap query'[c].failed = {}
                         /\ query'[c].servers \cap (query'[c].left \cup query'[c].failed) = {}
                    ELSE query'[c] = FreshQuery
  BY DEF Queries
<1>1. IF point[c] = "reading"
      THEN /\ query[c].nodes = query[c].left \cup query[c].servers \cup query[c].failed
           /\ query[c].left \cap query[c].failed = {}
           /\ query[c].servers \cap (query[c].left \cup query[c].failed) = {}
      ELSE query[c] = FreshQuery
  BY DEF Queries
<1>2. c \in Process /\ DOMAIN point = Process /\ query \in [Client -> QueryRec] /\ query[c] \in QueryRec
  BY DEF Process, TypeOK, QueryRec
<1>3. ASSUME point'[c] = point[c], query'[c] = query[c]
      PROVE  IF point'[c] = "reading"
             THEN /\ query'[c].nodes = query'[c].left \cup query'[c].servers \cup query'[c].failed
                  /\ query'[c].left \cap query'[c].failed = {}
                  /\ query'[c].servers \cap (query'[c].left \cup query'[c].failed) = {}
             ELSE query'[c] = FreshQuery
  BY <1>1, <1>3
<1>4. CASE \E p \in Process : Steps(p)
  <2> PICK p \in Process : Steps(p)
    BY <1>4
  <2>1. CASE p # c
    <3>1. point'[c] = point[c] /\ query'[c] = query[c]
      BY <1>2, <2>1, StepIs
    <3> QED BY <1>3, <3>1
  <2>2. CASE p = c
    <3>1. ClientSteps(c)
      BY <2>2 DEF Steps
    <3>2. CASE EnSureConnect(c)
      <4>1. query' = query /\ point[c] = "connecting" /\ point'[c] # "reading"
        BY <1>2, <3>2 DEF EnSureConnect, Connected, NotYet, NotConnected, Exit, zookeeper
      <4> QED BY <1>1, <4>1
    <3>3. CASE GetServer(c)
      <4>1. query' = query /\ point[c] = "idle" /\ point'[c] = "connecting"
        BY <1>2, <3>3 DEF GetServer
      <4> QED BY <1>1, <4>1
    <3>4. CASE GetChildren(c)
      <4>1. point[c] = "children" /\ query[c] = FreshQuery
        BY <1>1, <3>4 DEF GetChildren
      <4>2. CASE point' = [point EXCEPT ![c] = "idle"] /\ query' = query
        BY <1>2, <4>1, <4>2
      <4>3. CASE /\ point' = [point EXCEPT ![c] = "reading"]
                 /\ query' = [query EXCEPT ![c].nodes = DOMAIN tree, ![c].left = DOMAIN tree]
        <5>1. /\ query'[c].nodes = DOMAIN tree /\ query'[c].left = DOMAIN tree
              /\ query'[c].servers = query[c].servers /\ query'[c].failed = query[c].failed
          BY <1>2, <4>3 DEF QueryRec
        <5>2. query[c].servers = {} /\ query[c].failed = {}
          BY <4>1 DEF FreshQuery
        <5>3. point'[c] = "reading"
          BY <1>2, <4>3
        <5> QED BY <5>1, <5>2, <5>3
      <4> QED BY <3>4, <4>2, <4>3 DEF GetChildren
    <3>5. CASE GetNode(c)
      <4>1. PICK a \in query[c].left :
              query' \in {[query EXCEPT ![c] = Found(query[c], a)], [query EXCEPT ![c] = Failed(query[c], a)]}
        BY <3>5 DEF GetNode
      <4>2. point[c] = "reading" /\ point' = point
        BY <3>5 DEF GetNode
      <4>3. query'[c] = Found(query[c], a) \/ query'[c] = Failed(query[c], a)
        BY <1>2, <4>1
      <4>4. /\ query'[c].nodes = query[c].nodes /\ query'[c].left = query[c].left \ {a}
            /\ \/ query'[c].servers = query[c].servers \cup {a} /\ query'[c].failed = query[c].failed
               \/ query'[c].servers = query[c].servers /\ query'[c].failed = query[c].failed \cup {a}
        BY <1>2, <4>3 DEF Found, Failed, QueryRec
      <4> QED BY <1>1, <4>2, <4>4
    <3>6. CASE ReadAll(c)
      BY <1>2, <3>6 DEF ReadAll
    <3> QED BY <3>1, <3>2, <3>3, <3>4, <3>5, <3>6 DEF ClientSteps, GetServers
  <2> QED BY <2>1, <2>2
<1>5. CASE \E z \in Session : ZooKeeperSteps(z)
  <2>1. UNCHANGED process
    BY <1>5, ZooKeeperResult
  <2> QED BY <1>3, <2>1 DEF process
<1>6. CASE UNCHANGED vars
  BY <1>3, <1>6 DEF vars, process
<1> QED BY <1>4, <1>5, <1>6, NextIs

\* In the beginning there is no handle, no session and no node.
LEMMA InitInvariant == ASSUME Init PROVE IInv
<1> USE ProcessAssumption, RetryAssumption, BoundAssumption DEF Init
<1>1. /\ FreshReg \in RegRec /\ FreshReg.node = 1 /\ FreshReg.all_success
      /\ FreshQuery \in QueryRec /\ NoHandle \in ZkRec /\ NoHandle.handle = 0
      /\ NoHandle.lent = 0 /\ NoHandle.opened = 0
  BY DEF FreshReg, RegRec, FreshQuery, QueryRec, NoHandle, ZkRec
<1>2. Held(NoHandle) = {}
  BY <1>1 DEF Held
<1>3. \A s \in Server : Len(NodesOf[s]) \in Nat \ {0} /\ 1 <= Len(NodesOf[s])
  BY NodesAssumption
<1>4. \A p \in Process : MaxOpened[p] \in Nat \ {0}
  BY DEF Process
<1>5. \A p \in Process : point[p] = IF p \in Server THEN "down" ELSE "idle"
  OBVIOUS
<1>6. \A p \in Process : zk[p] = NoHandle
  OBVIOUS
<1>7. \A s \in Server : reg[s] = FreshReg
  OBVIOUS
<1>8. DOMAIN tree = {}
  OBVIOUS
<1>9. point \in [Process -> Points]
  BY DEF Points
<1>10. zk \in [Process -> ZkRec] /\ reg \in [Server -> RegRec] /\ query \in [Client -> QueryRec]
  BY <1>1
<1>11. session \in [Session -> States] /\ \A z \in Session : session[z] = "none"
  BY DEF States
<1>12. Progress
  <2>1. \A s \in Server : point[s] \in {"down", "connecting", "registering", "serving"}
    BY DEF Process
  <2>2. \A c \in Client : point[c] \in {"idle", "connecting", "children", "reading"}
    BY DEF Process
  <2>3. \A s \in Server : reg[s].node <= Len(NodesOf[s])
    BY <1>1, <1>3, <1>7
  <2>4. servers \in [Client -> SUBSET Address] /\ path \in 0..2 /\ losses \in 0..MaxLosses
    OBVIOUS
  <2> QED BY <1>9, <1>10, <2>1, <2>2, <2>3, <2>4 DEF Progress
<1>13. \A p \in Process : Held(zk[p]) \subseteq 1..zk[p].opened /\ zk[p].opened <= MaxOpened[p]
  BY <1>1, <1>2, <1>4, <1>6
<1>14. TypeOK
  BY <1>8, <1>10, <1>11, <1>12, <1>13, TypeIs
<1>15. Handles
  <2>1. \A p \in Process : \A n \in 1..MaxOpened[p] : session[<<p, n>>] = "none"
    BY <1>11, SessionIs
  <2> QED BY <1>1, <1>2, <1>6, <2>1 DEF Handles, Living
<1>16. \A s \in Server : PlaceOf(s) /\ ListedAt(s) /\ TroubleOf(s)
  BY <1>1, <1>5, <1>6, <1>7 DEF Process, PlaceOf, ListedAt, TroubleOf
<1>17. Queries
  BY <1>5 DEF Queries, Process
<1>18. NothingLeftBehind
  BY <1>8 DEF NothingLeftBehind
<1> QED BY <1>14, <1>15, <1>16, <1>17, <1>18 DEF IInv, Places, Listed, Troubles

-----------------------------------------------------------------------------
(* What follows.                                                           *)

\* The inductive invariant holds in every behaviour.
THEOREM Invariance == Spec => []IInv
<1>1. Init => IInv
  BY InitInvariant
<1>2. IInv /\ [Next]_vars => IInv'
  BY TypeInductive, HandlesInductive, ServersInductive, QueriesInductive, NothingLeftInductive DEF IInv
<1> QED BY <1>1, <1>2, PTL DEF Spec

\* Every variable stays within its type: among other things a server's nodes are
\* done one after another and no further, and a handler never counts past its retries.
THEOREM TypeCorrect == Spec => []TypeOK
<1>1. IInv => TypeOK
  BY DEF IInv
<1> QED BY <1>1, Invariance, PTL

\* A process has at most one session at ZooKeeper, over all the connections it
\* makes: EnSureConnect, the registry and CleanUp never leak a handle.
THEOREM OneSessionEach == Spec => []OneSession
<1>1. ASSUME IInv PROVE OneSession
  <2> SUFFICES ASSUME NEW p \in Process
               PROVE  Cardinality({n \in 1..MaxOpened[p] :
                        session[<<p, n>>] \in {"new", "connected", "lost", "lapsed", "expired"}}) <= 1
    BY DEF OneSession
  <2> DEFINE open == {n \in 1..MaxOpened[p] :
                        session[<<p, n>>] \in {"new", "connected", "lost", "lapsed", "expired"}}
  <2>1. open \subseteq Held(zk[p])
    BY <1>1 DEF IInv, Handles, Living
  <2>2. Held(zk[p]) \subseteq {zk[p].handle}
    BY <1>1, HandlerIs DEF IInv
  <2> HIDE DEF open
  <2>3. open \subseteq {zk[p].handle}
    BY <2>1, <2>2
  <2>4. IsFiniteSet({zk[p].handle}) /\ Cardinality({zk[p].handle}) = 1
    BY FS_Singleton
  <2>5. Cardinality(open) <= Cardinality({zk[p].handle})
    BY <2>3, <2>4, FS_Subset
  <2>6. Cardinality(open) <= 1
    BY <2>4, <2>5
  <2> QED BY <2>6 DEF open
<1> QED BY <1>1, Invariance, PTL

\* Who serves is listed, with all its nodes and for as long as its session lives,
\* unless a node of an earlier run has been taken for its own.
THEOREM WhoServesIsListed == Spec => []ServingListed
<1>1. ASSUME IInv PROVE ServingListed
  <2> SUFFICES ASSUME NEW s \in Server, point[s] = "serving", View(s) \in {"connected", "lost"},
                      ~reg[s].adopted
               PROVE  ListedTo(s, Len(NodesOf[s]))
    BY DEF ServingListed, ListedTo
  <2>1. ListedAt(s)
    BY <1>1 DEF IInv, Listed
  <2> QED BY <2>1 DEF ListedAt, Clean
<1> QED BY <1>1, Invariance, PTL

\* Who is gone does not stay listed: every node goes with a session that is kept
\* up or will expire, after a crash too.
THEOREM WhoIsGoneIsForgotten == Spec => []NothingLeftBehind
<1>1. IInv => NothingLeftBehind
  BY DEF IInv
<1> QED BY <1>1, Invariance, PTL

\* Registering fails for a lost connection and for nothing else: another server
\* that creates the same path at the same moment is not a failure.
THEOREM OnlyTroubleEndsRegistering == Spec => NoFalseFailure
<1> DEFINE Ends == \A s \in Server :
             point[s] = "registering" /\ point'[s] = "down" => reg'[s].troubled \/ Crash(s)
<1>1. ASSUME IInv, [Next]_vars PROVE Ends
  <2> SUFFICES ASSUME NEW s \in Server, point[s] = "registering", point'[s] = "down"
               PROVE  reg'[s].troubled \/ Crash(s)
    OBVIOUS
  <2>1. s \in Process /\ DOMAIN point = Process
    BY <1>1 DEF IInv, TypeOK, Process
  <2>2. CASE \E p \in Process : Steps(p)
    <3> PICK p \in Process : Steps(p)
      BY <2>2
    <3>1. p = s
      BY <1>1, <2>1, StepIs
    <3>2. ServerSteps(s)
      BY <3>1, ProcessAssumption DEF Steps
    <3>3. CASE Register(s)
      <4>1. Proceeds(s) \/ FailsNode(s) \/ MakesNode(s)
        BY <1>1, <3>3, RegisterIs DEF IInv
      <4>2. CASE Proceeds(s)
        BY <4>2 DEF Proceeds
      <4>3. CASE FailsNode(s) \/ MakesNode(s)
        <5> PICK ok \in BOOLEAN, r \in RegRec : \E nodes :
              /\ NodeDone(s, ok, r, nodes) /\ r.node = reg[s].node
              /\ (ok = FALSE /\ r.troubled = TRUE) \/ (ok = TRUE /\ r.troubled = reg[s].troubled)
          BY <1>1, <4>3, NodeKinds, <2>1 DEF IInv
        <5>1. PICK nodes :
              /\ NodeDone(s, ok, r, nodes) /\ r.node = reg[s].node
              /\ (ok = FALSE /\ r.troubled = TRUE) \/ (ok = TRUE /\ r.troubled = reg[s].troubled)
          OBVIOUS
        <5>2. TypeOK /\ TroubleOf(s)
          BY <1>1 DEF IInv, Troubles
        <5>3. /\ reg'[s].troubled = r.troubled
              /\ IF r.node = Len(NodesOf[s]) /\ ~(reg[s].all_success /\ ok) THEN TRUE
                 ELSE point' \in {point, [point EXCEPT ![s] = "serving"]}
          BY <5>1, <5>2, NodeDoneIs
        <5>4. ~(reg[s].all_success /\ ok)
          BY <2>1, <5>3
        <5> QED BY <5>1, <5>2, <5>3, <5>4 DEF TroubleOf
      <4> QED BY <4>1, <4>2, <4>3
    <3> QED BY <3>2, <3>3
         DEF ServerSteps, Start, EnSureConnect, Connected, NotYet, NotConnected, AnswerLost, Stop
  <2>3. CASE \E z \in Session : ZooKeeperSteps(z)
    BY <1>1, <2>3, ZooKeeperResult DEF process
  <2>4. CASE UNCHANGED vars
    BY <2>4 DEF vars, process
  <2> QED BY <1>1, <2>2, <2>3, <2>4, NextIs
<1>2. IInv /\ [Next]_vars => [Ends]_vars
  BY <1>1
<1> HIDE DEF Ends
<1>3. Spec => [][Ends]_vars
  BY <1>2, Invariance, PTL DEF Spec
<1> QED BY <1>3 DEF Ends, NoFalseFailure

\* A client chooses among what its last query has listed and read, and among
\* nothing after a query that failed.
THEOREM ChoosesAmongListed == Spec => OnlyWhatWasListed
<1> DEFINE Chooses == \A c \in Client : point[c] # "idle" /\ point'[c] = "idle" =>
             /\ servers'[c] \subseteq query[c].nodes
             /\ point[c] = "reading" => query[c].nodes \ servers'[c] = query[c].failed
<1>1. ASSUME IInv, [Next]_vars PROVE Chooses
  <2> SUFFICES ASSUME NEW c \in Client, point[c] # "idle", point'[c] = "idle"
               PROVE  /\ servers'[c] \subseteq query[c].nodes
                      /\ point[c] = "reading" => query[c].nodes \ servers'[c] = query[c].failed
    OBVIOUS
  <2>1. c \in Process /\ DOMAIN point = Process /\ DOMAIN servers = Client
    BY <1>1 DEF IInv, TypeOK, Process
  <2>2. IF point[c] = "reading"
        THEN /\ query[c].nodes = query[c].left \cup query[c].servers \cup query[c].failed
             /\ query[c].left \cap query[c].failed = {}
             /\ query[c].servers \cap (query[c].left \cup query[c].failed) = {}
        ELSE query[c] = FreshQuery
    BY <1>1 DEF IInv, Queries
  <2>3. CASE \E p \in Process : Steps(p)
    <3> PICK p \in Process : Steps(p)
      BY <2>3
    <3>1. p = c
      BY <1>1, <2>1, StepIs
    <3>2. ClientSteps(c)
      BY <3>1, ProcessAssumption DEF Steps
    <3>3. CASE NotConnected(c)
      BY <2>1, <3>3, ProcessAssumption DEF NotConnected
    <3>4. CASE GetChildren(c)
      <4>1. point[c] = "children"
        BY <3>4 DEF GetChildren
      <4>2. servers'[c] = {}
        BY <2>1, <3>4 DEF GetChildren, UpdateServers
      <4> QED BY <4>1, <4>2
    <3>5. CASE ReadAll(c)
      <4>1. point[c] = "reading" /\ query[c].left = {} /\ servers'[c] = query[c].servers
        BY <2>1, <3>5 DEF ReadAll, UpdateServers
      <4> QED BY <2>2, <4>1
    <3>6. CASE GetServer(c) \/ Connected(c) \/ NotYet(c) \/ GetNode(c)
      BY <2>1, <3>6, ProcessAssumption DEF GetServer, Connected, NotYet, GetNode
    <3> QED BY <3>2, <3>3, <3>4, <3>5, <3>6 DEF ClientSteps, GetServers, EnSureConnect
  <2>4. CASE \E z \in Session : ZooKeeperSteps(z)
    BY <1>1, <2>4, ZooKeeperResult DEF process
  <2>5. CASE UNCHANGED vars
    BY <2>5 DEF vars, process
  <2> QED BY <1>1, <2>3, <2>4, <2>5, NextIs
<1>2. IInv /\ [Next]_vars => [Chooses]_vars
  BY <1>1
<1> HIDE DEF Chooses
<1>3. Spec => [][Chooses]_vars
  BY <1>2, Invariance, PTL DEF Spec
<1> QED BY <1>3 DEF Chooses, OnlyWhatWasListed

=============================================================================
