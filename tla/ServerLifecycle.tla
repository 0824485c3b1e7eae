-------------------------- MODULE ServerLifecycle --------------------------
(***************************************************************************)
(* The server's process, from main to the last destructor                  *)
(* (server/server_main.cpp): it reads its configuration, makes the parts   *)
(* one after the other, lists itself in ZooKeeper, runs the loop, and is   *)
(* taken apart: by GreacefulShutdown, by the unwinding of main, by the     *)
(* destructors of the statics that exit() runs, and by the signal handlers *)
(* that may come at any moment, between two steps or inside one.           *)
(*                                                                         *)
(* The parts themselves are modelled elsewhere; here each is only none,    *)
(* live, closed (its object is there, what it stood for is not) or dead.   *)
(* Using a dead part is undefined: the process may crash, or go on.  The   *)
(* logger is a null pointer after spdlog::shutdown: using it is a crash.   *)
(*                                                                         *)
(* A definition named X_Y, Y being what goes wrong, is X with a plausible  *)
(* mistake in it and no part of the specification.                         *)
(***************************************************************************)
EXTENDS Integers, Sequences

CONSTANTS
  World,       \* what may happen: "faults" of calls, "clients", "stuck" tasks
  MaxSignals   \* bound: the signals the process gets

ASSUME WorldAssumption == World \subseteq {"faults", "clients", "stuck"} /\ MaxSignals \in Nat

VARIABLES
  pc,                    \* where the main thread is
  during,                \* who called GreacefulShutdown: main, its catch, atexit
  code,                  \* what main returns
  g_shutdown_requested,
  g_manager_cycle,       \* it is not null
  is_stop,               \* is_stop_
  is_running,            \* is_running_ of the cycle
  on_int,                \* the handler of SIGINT
  loaded,                \* what has been read of Config
  life,                  \* [Part -> Life]
  watched,               \* the listening socket is in listen_fds_
  exits,                 \* what exit() has to run, last in first out
  session,               \* the session with ZooKeeper, and whether it lists us
  is_clean_up,           \* the static of ZkHandler::CleanUp
  clients,               \* there are connections
  stuck,                 \* some task outlasts keep_alive_time
  signals,               \* how many signals have come
  outcome                \* what has become of the process

main == <<pc, during, code>>
flags == <<g_shutdown_requested, g_manager_cycle, is_stop, is_running, on_int>>
parts == <<loaded, life, watched, exits>>
zk == <<session, is_clean_up>>
world == <<clients, stuck, signals>>
vars == <<main, flags, parts, zk, world, outcome>>

\* "nodes" are the registry_nodes of the service configuration, "zk" is what
\* follows the host in ZooKeeper's.
Config == {"logger", "service", "nodes", "aes", "threads", "socket", "zk_host", "zk"}
Part == {"logger", "pool", "socket", "connects", "cycle", "services", "zk"}
Life == {"none", "live", "closed", "dead"}

Has(config) == config \in loaded
Fault == "faults" \in World

-----------------------------------------------------------------------------
(* Using parts that may be gone.                                           *)

Lives(part, l) == life' = [life EXCEPT ![part] = l]

\* Going on after the parts were used: not without a logger.
Usable(used) == "logger" \in used => life["logger"] # "closed"

\* The process ends in the middle of a step.
Crash == outcome' = "crashed" /\ UNCHANGED <<main, flags, parts, zk, world>>
Undefined(used) == (\E p \in used : life[p] \in {"none", "dead"}) \/ ~Usable(used)

\* ConnectManage::CloseAll erases from the table it iterates over.
CloseAllBreaks == clients

\* ManagerCycle::Stop, from its destructor or a signal handler.
Stop == is_running' = FALSE /\ is_stop' = TRUE
StopUses == {"cycle", "connects", "logger"} \cup (IF watched THEN {"socket"} ELSE {})
SocketClosed == IF watched /\ life["socket"] = "live" THEN "closed" ELSE life["socket"]

-----------------------------------------------------------------------------
\* main has installed SignHandle for both signals and handed its lambda to atexit.
Init ==
  /\ pc = "config" /\ during = "none" /\ code = 0
  /\ g_shutdown_requested = FALSE /\ g_manager_cycle = FALSE
  /\ is_stop = FALSE /\ is_running = FALSE /\ on_int = "SignHandle"
  /\ loaded = {} /\ life = [p \in Part |-> "none"] /\ watched = FALSE /\ exits = <<"lambda">>
  /\ session = "none" /\ is_clean_up = FALSE
  /\ clients = FALSE /\ stuck = FALSE /\ signals = 0 /\ outcome = "running"

At(here, there) == outcome = "running" /\ pc = here /\ pc' = there /\ UNCHANGED outcome

(* The parts are made.                                                     *)

(* RpcConfigManager::Init stops at the first file it cannot read, and main *)
(* does not ask how it went.                                               *)

\* The path of the executable, and SpdlogConfig.  From here on there is a
\* logger, spdlog's own at first: whatever happens, somebody logs something.
InitSpdlog ==
  /\ \/ At("config", "logger")
     \/ Fault /\ (At("config", "pool") \/ At("config", "thrown"))
  /\ Lives("logger", "live") /\ exits' = Append(exits, "logger")
  /\ UNCHANGED <<during, code, flags, loaded, watched, zk, world>>

\* A file is read and gives one of these, or is given up: it is not there, or an
\* entry has the wrong type, when those before it have been set already.
Read(here, there, gives, before) ==
  /\ \/ At(here, there) /\ \E g \in gives : loaded' = loaded \cup g
     \/ At(here, "pool") /\ Fault /\ \E g \in before : loaded' = loaded \cup g
  /\ UNCHANGED <<during, code, flags, life, watched, exits, zk, world>>

InitLogger == Read("logger", "service", {{"logger"}}, {{}})

\* A node without an address or a port is left out.
ReadService ==
  Read("service", "thread_aes",
       {{"service", "nodes"}} \cup (IF Fault THEN {{"service"}} ELSE {}), {{}, {"nodes"}})

InitThreadAes == Read("thread_aes", "service_socket", {{"aes", "threads"}}, {{}, {"aes"}})

ReadServiceSocket == Read("service_socket", "zk_config", {{"socket"}}, {{}})

\* It has no handler of its own, which changes nothing.
InitZkConfig == Read("zk_config", "pool", {{"zk_host", "zk"}}, {{}, {"zk_host"}})

\* ThreadSingle::Init.  Without the configuration, ThreadStruct has defaults.
CreatePool ==
  /\ At("pool", "socket") /\ Lives("pool", "live")
  /\ UNCHANGED <<during, code, flags, loaded, watched, exits, zk, world>>

\* The constructor throws before it has a thread, or its first threads end the
\* process when they are destroyed with the vector, unjoined.
CreatePoolFails ==
  /\ Fault
  /\ \/ At("pool", "thrown") /\ UNCHANGED <<during, code, flags, parts, zk, world>>
     \/ outcome = "running" /\ pc = "pool" /\ Crash

\* The steps of Socket's constructor.  What fails closes the descriptor and
\* throws, but for SetSocketOption, whose options may be set or not; only
\* SetNotBlocking, in it, throws.  g_socket_server is set when all is done.
SocketStep(here, there) ==
  /\ \/ At(here, there)
     \/ Fault /\ At(here, "thrown")
  /\ UNCHANGED <<during, code, flags, parts, zk, world>>

Create == SocketStep("socket", "option")
SetSocketOption == SocketStep("option", "bind")
Bind == SocketStep("bind", "listening")

Listens ==
  /\ \/ At("listening", "cycle") /\ Lives("socket", "live")
     \/ At("listening", "thrown") /\ Fault /\ UNCHANGED life
  /\ UNCHANGED <<during, code, flags, loaded, watched, exits, zk, world>>

\* ConnectManage's instance, and a ManagerCycle, which takes SIGINT for itself.
CreateCycle ==
  /\ exits' = Append(exits, "connects")
  /\ \/ /\ At("cycle", "listen") /\ on_int' = "sigHandle"
        /\ life' = [life EXCEPT !["connects"] = "live", !["cycle"] = "live"]
     \/ At("cycle", "thrown") /\ Fault /\ Lives("connects", "live") /\ UNCHANGED on_int
  /\ UNCHANGED <<during, code, g_shutdown_requested, g_manager_cycle, is_stop, is_running,
                 loaded, watched, zk, world>>

\* An early return of main.
ReturnMinusOne_Positive(here) == At(here, "leave") /\ code' = 1 /\ UNCHANGED during
ReturnMinusOne(here) == At(here, "leave") /\ code' = -1 /\ UNCHANGED during

AddListenFd ==
  /\ \/ At("listen", "services") /\ watched' = TRUE /\ UNCHANGED <<during, code>>
     \/ ReturnMinusOne("listen") /\ Fault /\ UNCHANGED watched
  /\ UNCHANGED <<flags, loaded, life, exits, zk, world>>

RegisterServices ==
  /\ At("services", "zk") /\ Lives("services", "live")
  /\ UNCHANGED <<during, code, flags, loaded, watched, exits, zk, world>>

Empty_Ignored == FALSE
Empty == ~Has("zk_host")

\* InitZkHandler connects, unless it has no configuration.  When it gives up it
\* may have cleaned up already.
InitZkHandler ==
  /\ Lives("zk", "live") /\ exits' = Append(exits, "zk")
  /\ \/ ~Empty /\ At("zk", "register") /\ session' = "open"
        /\ UNCHANGED <<during, code, is_clean_up>>
     \/ Empty /\ ReturnMinusOne("zk") /\ UNCHANGED zk
     \/ ~Empty /\ Fault /\ ReturnMinusOne("zk")
        /\ \/ is_clean_up' = TRUE /\ session' = "closed"
           \/ is_clean_up' = FALSE /\ session' = "open"
  /\ UNCHANGED <<flags, loaded, watched, world>>

\* To have no node to register is no failure; else a failure may leave some of
\* them registered.
RegistryAllNode ==
  /\ \/ At("register", "publish") /\ UNCHANGED <<during, code>>
        /\ session' = IF Has("nodes") THEN "listed" ELSE "open"
     \/ /\ Has("nodes") /\ Fault /\ ReturnMinusOne("register")
        /\ session' \in {"open", "listed"}
  /\ UNCHANGED <<flags, parts, is_clean_up, world>>

\* From here on SignHandle stops the cycle.
Publish ==
  /\ At("publish", "begin") /\ g_manager_cycle' = TRUE
  /\ UNCHANGED <<during, code, g_shutdown_requested, is_stop, is_running, on_int, parts, zk, world>>

-----------------------------------------------------------------------------
(* The loop (EventLoop).                                                   *)

LoopBegins_ClearsIsStop == is_stop' = FALSE
LoopBegins == UNCHANGED is_stop

Begin ==
  /\ At("begin", "loop") /\ is_running' = TRUE /\ LoopBegins
  /\ UNCHANGED <<during, code, g_shutdown_requested, g_manager_cycle, on_int, parts, zk, world>>

Serve ==
  /\ At("loop", "loop") /\ ~is_stop /\ is_running
  /\ clients' \in IF "clients" \in World THEN BOOLEAN ELSE {clients}
  /\ stuck' \in IF "stuck" \in World /\ clients THEN BOOLEAN ELSE {stuck}
  /\ UNCHANGED <<during, code, flags, parts, zk, signals>>

\* Accept cannot make the new socket non-blocking.
LoopThrows ==
  /\ At("loop", "thrown") /\ ~is_stop /\ is_running /\ Fault
  /\ UNCHANGED <<during, code, flags, parts, zk, world>>

LoopEnds ==
  /\ At("loop", "close_socket") /\ (is_stop \/ ~is_running)
  /\ is_running' = FALSE /\ g_shutdown_requested' = TRUE /\ during' = "main"
  /\ UNCHANGED <<code, g_manager_cycle, is_stop, on_int, parts, zk, world>>

\* ~ManagerCycle, when main returns or is left by an exception.
DestroyCycle(here, there) ==
  IF life["cycle"] = "live"
  THEN \/ At(here, there) /\ Usable(StopUses) /\ Stop /\ clients' = FALSE
          /\ life' = [life EXCEPT !["cycle"] = "dead", !["socket"] = SocketClosed]
          /\ UNCHANGED <<g_shutdown_requested, g_manager_cycle, on_int, loaded, watched, exits,
                         stuck, signals>>
       \/ outcome = "running" /\ pc = here /\ (Undefined(StopUses) \/ CloseAllBreaks) /\ Crash
  ELSE At(here, there) /\ UNCHANGED <<flags, parts, world>>

Leave == DestroyCycle("leave", "exit") /\ UNCHANGED <<during, code, zk>>

Catch ==
  /\ DestroyCycle("thrown", "close_socket") /\ UNCHANGED zk
  /\ \/ outcome' = "crashed" /\ UNCHANGED <<during, code>>
     \/ outcome' = "running" /\ during' = "catch" /\ code' = -1

-----------------------------------------------------------------------------
(* GreacefulShutdown, called by main, by its catch, or by the lambda at     *)
(* exit.  A singleton it is the first to ask for is made on the spot.      *)

Instance(part) == life[part] = "none"
Made(part) == IF Instance(part) THEN Append(exits, part) ELSE exits

\* What follows spdlog::shutdown does not get past its first line of log.
CloseSocket ==
  /\ \/ At("close_socket", "close_all") /\ Usable({"logger"})
        /\ life' = [life EXCEPT !["socket"] = IF @ = "none" THEN @ ELSE "dead"]
     \/ outcome = "running" /\ pc = "close_socket" /\ Undefined({"logger"}) /\ Crash
  /\ UNCHANGED <<during, code, flags, loaded, watched, exits, zk, world>>

CloseAll ==
  /\ \/ At("close_all", "stop_pool") /\ Usable({"logger"}) /\ clients' = FALSE
        /\ exits' = Made("connects")
        /\ life' = [life EXCEPT !["connects"] = IF Instance("connects") THEN "live" ELSE @]
     \/ /\ outcome = "running" /\ pc = "close_all" /\ ~Instance("connects")
        /\ Undefined({"logger", "connects"}) \/ CloseAllBreaks
        /\ Crash
  /\ UNCHANGED <<during, code, flags, loaded, watched, zk, stuck, signals>>

\* ThreadSingle::GetInstance takes mutex_ and, without a pool, calls Init, which
\* takes it again.
GetInstanceHangs == life["pool"] = "none"

\* GetStatus, ShutDown, Stop_Now.  A pool whose tasks last too long locks itself
\* out in ShutDown (ThreadPool).
StopPool ==
  /\ outcome = "running" /\ pc = "stop_pool"
  /\ IF GetInstanceHangs \/ (life["pool"] = "live" /\ stuck)
     THEN outcome' = "hung" /\ UNCHANGED <<pc, life>>
     ELSE outcome' = "running" /\ pc' = "clean_up" /\ Lives("pool", "closed")
  /\ UNCHANGED <<during, code, flags, loaded, watched, exits, zk, world>>

SessionCloses == session' = IF session = "none" THEN "none" ELSE "closed"

\* ZkHandler::CleanUp, once in the life of the process.
ZkCleanUp ==
  IF is_clean_up THEN UNCHANGED zk ELSE is_clean_up' = TRUE /\ SessionCloses

CleanUp ==
  /\ \/ At("clean_up", "log_off") /\ ZkCleanUp /\ exits' = Made("zk")
        /\ life' = [life EXCEPT !["zk"] = IF Instance("zk") THEN "live" ELSE @]
     \/ outcome = "running" /\ pc = "clean_up" /\ life["zk"] = "dead" /\ Crash
  /\ UNCHANGED <<during, code, flags, loaded, watched, world>>

\* spdlog::shutdown, and back to who called.
LogOff ==
  /\ At("log_off", IF during = "main" THEN "leave" ELSE "exit")
  /\ Lives("logger", "closed")
  /\ UNCHANGED <<during, code, flags, loaded, watched, exits, zk, world>>

-----------------------------------------------------------------------------
(* exit().                                                                 *)

Popped == exits' = SubSeq(exits, 1, Len(exits) - 1)
AtExit(what) == exits # <<>> /\ exits[Len(exits)] = what

DestroyZkHandler_NoCleanUp == UNCHANGED zk
DestroyZkHandler == ZkCleanUp

ExitZkHandler ==
  /\ At("exit", "exit") /\ AtExit("zk") /\ Popped /\ Lives("zk", "dead") /\ DestroyZkHandler
  /\ UNCHANGED <<during, code, flags, loaded, watched, world>>

ExitConnectManage ==
  /\ AtExit("connects")
  /\ \/ At("exit", "exit") /\ Usable({"logger"}) /\ Popped /\ Lives("connects", "dead")
        /\ clients' = FALSE
     \/ outcome = "running" /\ pc = "exit" /\ (Undefined({"logger"}) \/ CloseAllBreaks) /\ Crash
  /\ UNCHANGED <<during, code, flags, loaded, watched, zk, stuck, signals>>

ExitLogger ==
  /\ At("exit", "exit") /\ AtExit("logger") /\ Popped
  /\ life' = [life EXCEPT !["logger"] = IF @ = "closed" THEN @ ELSE "dead"]
  /\ UNCHANGED <<during, code, flags, loaded, watched, zk, world>>

\* The lambda: logs, and shuts down what nobody has asked to be shut down.
ExitLambda ==
  /\ AtExit("lambda")
  /\ \/ At("exit", "exit") /\ g_shutdown_requested /\ Popped /\ UNCHANGED during
     \/ At("exit", "close_socket") /\ ~g_shutdown_requested /\ Usable({"logger"}) /\ Popped
        /\ during' = "atexit"
     \/ outcome = "running" /\ pc = "exit" /\ ~g_shutdown_requested /\ Undefined({"logger"}) /\ Crash
  /\ UNCHANGED <<code, flags, loaded, life, watched, zk, world>>

\* g_socket_server and thread_instance_ go last: the one logs when it still has
\* a descriptor to close, and the other shuts the pool down.
StillOpen == "live" \in {life["socket"], life["pool"]}

ExitEnds ==
  /\ outcome = "running" /\ pc = "exit" /\ exits = <<>>
  /\ \/ /\ StillOpen => Usable({"logger"})
        /\ outcome' = IF life["pool"] = "live" /\ stuck THEN "hung"
                      ELSE IF code = 0 THEN "exited" ELSE "failed"
     \/ StillOpen /\ Undefined({"logger"}) /\ outcome' = "crashed"
  /\ UNCHANGED <<main, flags, parts, zk, world>>

-----------------------------------------------------------------------------
(* Signals.  They are handled on the main thread, wherever it is.          *)

\* Main may be in the middle of a call of the logger, or of ConnectManage, whose
\* mutex it holds: in the loop when there is somebody to serve, or when a signal
\* has interrupted epoll_wait.
InsideCall ==
  /\ life["logger"] = "live"
  /\ \/ pc = "loop" /\ ("clients" \in World \/ signals > 0)
     \/ pc \in {"thrown", "leave", "close_socket", "close_all", "stop_pool", "exit"}

\* Stop waits for a mutex that the thread it runs on holds.  Socket::Close has
\* closed the descriptor by the time it logs, and CloseAll comes after it.
SignHandleLocks ==
  /\ g_manager_cycle /\ InsideCall /\ outcome' = "locked"
  /\ g_shutdown_requested' = TRUE /\ Stop /\ Lives("socket", SocketClosed)
  /\ UNCHANGED <<main, g_manager_cycle, on_int, loaded, watched, exits, zk, clients, stuck>>

SignHandle ==
  \/ SignHandleLocks
  \/ /\ g_shutdown_requested' = TRUE
     /\ IF g_manager_cycle
        THEN /\ Usable(StopUses) /\ Stop /\ clients' = FALSE /\ Lives("socket", SocketClosed)
        ELSE UNCHANGED <<is_stop, is_running, clients, life>>
     /\ UNCHANGED <<main, g_manager_cycle, on_int, loaded, watched, exits, zk, stuck, outcome>>
  \/ g_manager_cycle /\ (Undefined(StopUses) \/ CloseAllBreaks)
     /\ outcome' = "crashed" /\ UNCHANGED <<main, flags, parts, zk, clients, stuck>>

sigHandle ==
  /\ is_stop' = TRUE
  /\ UNCHANGED <<main, g_shutdown_requested, g_manager_cycle, is_running, on_int, parts, zk,
                 clients, stuck, outcome>>

Signal(sig) ==
  /\ outcome = "running" /\ signals < MaxSignals /\ signals' = signals + 1
  /\ IF sig = "SIGINT" /\ on_int = "sigHandle" THEN sigHandle ELSE SignHandle

-----------------------------------------------------------------------------
Construct ==
  \/ InitSpdlog \/ InitLogger \/ ReadService \/ InitThreadAes \/ ReadServiceSocket \/ InitZkConfig
  \/ CreatePool \/ CreatePoolFails \/ Create \/ SetSocketOption \/ Bind \/ Listens
  \/ CreateCycle \/ AddListenFd
  \/ RegisterServices \/ InitZkHandler \/ RegistryAllNode \/ Publish \/ Begin

GreacefulShutdown == CloseSocket \/ CloseAll \/ StopPool \/ CleanUp \/ LogOff

Exit == ExitZkHandler \/ ExitConnectManage \/ ExitLogger \/ ExitLambda \/ ExitEnds

Proceed == Construct \/ LoopEnds \/ Leave \/ Catch \/ GreacefulShutdown \/ Exit

Next == Proceed \/ Serve \/ LoopThrows \/ \E sig \in {"SIGINT", "SIGTERM"} : Signal(sig)

\* The main thread goes on; epoll_wait returns once a second at the latest.
Spec == Init /\ [][Next]_vars /\ WF_vars(Proceed)

-----------------------------------------------------------------------------
(* Properties.                                                             *)

TypeOK ==
  /\ pc \in {"config", "logger", "service", "thread_aes", "service_socket", "zk_config",
             "pool", "socket", "option", "bind", "listening", "cycle", "listen", "services", "zk", "register",
             "publish", "begin", "loop", "thrown", "leave", "close_socket", "close_all",
             "stop_pool", "clean_up", "log_off", "exit"}
  /\ during \in {"none", "main", "catch", "atexit"} /\ code \in {0, -1}
  /\ {g_shutdown_requested, g_manager_cycle, is_stop, is_running, watched, is_clean_up,
      clients, stuck} \subseteq BOOLEAN
  /\ on_int \in {"SignHandle", "sigHandle"} /\ loaded \subseteq Config
  /\ life \in [Part -> Life] /\ exits \in Seq({"lambda", "logger", "connects", "zk"})
  /\ session \in {"none", "open", "listed", "closed"} /\ signals \in 0..MaxSignals
  /\ outcome \in {"running", "exited", "failed", "crashed", "hung", "locked"}

\* A server that clients are sent to, and that nobody has stopped, is able to
\* serve them, whichever step of main has failed on the way: it listens, its loop
\* watches the socket, pool and services are there, and, though main does not ask
\* whether the configuration could be read, it has been, its key and its port
\* included.  That rests on ZooKeeper's file being the last one, and on
\* InitZkHandler refusing to go on without a host.
ListedServes ==
  outcome = "running" /\ session = "listed" /\ ~is_stop /\ during = "none" =>
    /\ \A p \in {"pool", "socket", "connects", "cycle", "services"} : life[p] = "live"
    /\ watched
    /\ Config \ {"zk"} \subseteq loaded

\* A process that comes to its end by itself leaves no session behind, whichever
\* way it took.  One that never ends keeps its session alive: when it waits in a
\* shutdown, and is listed, a task keeps it; when a SIGTERM came inside a call and
\* the handler waits for its own thread, the listening socket is closed, so that
\* who is sent to it is refused instead of kept waiting.
GoneMeansUnlisted ==
  /\ outcome \in {"exited", "failed"} => session \in {"none", "closed"}
  /\ outcome = "hung" /\ session = "listed" => stuck
  /\ outcome = "locked" /\ session = "listed" => life["socket"] # "live"

\* A server that is told to stop, from the moment on when its cycle knows of it,
\* comes to an end, unless a task keeps it, or a SIGTERM came inside a call that
\* holds a lock the handler takes: no order of the signal and the start of the
\* loop lets it run on.
StopEnds ==
  g_manager_cycle /\ is_stop ~>
    outcome \in {"exited", "failed", "crashed", "locked"} \/ (outcome = "hung" /\ stuck)

\* A server that is told to stop in its loop exits, with code 0.
TermExitsCleanly == pc = "loop" /\ is_stop ~> outcome = "exited"

=============================================================================
