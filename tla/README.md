# rpc_mt in TLA+

rpc_mt is a small RPC framework in C++: a server that accepts TCP connections in
one epoll loop, decodes requests and hands them to a thread pool, a client
library that finds a server through ZooKeeper and calls it, and the pieces both
use (encryption, compression, message format, serializers, load balancing,
configuration, logging).  This directory holds TLA+ specifications of its
concurrent parts, TLC models that check them on small instances, and proofs,
checked by TLAPS, that hold for every instance.

## 1. The system

    client program --> RpcClient --TCP--> ManagerCycle (epoll loop, main thread)
                          |                  |  ConnectManage (table fd -> Connect)
                          |                  v
                     ZkHandler          ThreadSingle --> ThreadPool (workers)
                     LoadBanlance            |
                          |                  v
                      ZooKeeper <-- ZkHandler/ServiceRegistry <-- server_main

| Component | State | Operations | Talks to | Hard part | Correct when |
|---|---|---|---|---|---|
| Thread pool (`thread_pool.*`) | `task_queue`, `workers`, `current_thread_nums`, `active_threads_`, `state_`, `stop_`, one mutex, two condition variables | `Enqueue`, `WorkerThread`, `Pause`, `Resume`, `ShutDown`, `Stop_now`, destructor | callers through futures; workers through the queue | lost wakeups, `state_` written without the lock, idle exit against growth, shutdown against everything | no task lost or run twice, counters exact, nobody sleeps while there is work, shutdown leaves nothing behind |
| Pool singleton (`thread_single.*`) | one `unique_ptr`, one mutex | `Init`, `GetInstance` and forwarders | pool | `GetInstance` calls `Init` with the lock held | usable from every thread |
| Event loop (`manager_cycle.*`) | epoll set, listening sockets, `is_running_`, `is_stop_` | `Loop`, `HandleEvent`, `HandleNewConnection`, `HandleData`, `RemoveConnect`, `HandleMessage*`, `SendRes`, `Stop` | kernel, connection table, pool | edge-triggered events, stale events, answers written by workers while the loop closes | no event lost, answers go to who asked, descriptors leave epoll before they are closed |
| Connections (`connect.*`, `connect_manage.*`) | `fd_`, `is_running_`, receive and send buffers, table of `shared_ptr` | `Read`, `Write`, `Close`, `ProgressGetMessage`, `AddConnect`, `RemoveConnect`, `CloseAll` | kernel, loop (callbacks) | life time by reference counting over three holders, reuse of descriptor numbers, half messages | an entry's descriptor is open and its own |
| RPC client (`rpc_client.*`, `client_main.cpp`) | `conn_`, `is_connected_`, `sequence_id_` | `Connect`, `TryConnect`, `DisConnect`, `Call` | server, ZooKeeper | timeout against late answer, several answers in one buffer, retries exhausted | a call returns the answer to its own request or fails |
| ZooKeeper handler, registry (`zk_handler.*`, `service_registry.*`) | session handle, server list | `EnSureConnect`, `RegistryAllNode`, `Register`, `GetServers`, `CleanUp` | ZooKeeper | session expiry, ephemeral nodes of a previous incarnation, `CleanUp` once only | a live server is listed, a dead one disappears |
| Load balancing (`load_balance.*`) | chosen strategy, round-robin index | `InitLoadBanlance`, `SelectServers` | client | empty list, unknown name, empty client | picks a listed server; round robin goes on from call to call |
| Message format, encryption, compression (`rpc_protobuf.*`, `aes_encrypt.*`, `zstd_compress.*`) | none (a master key) | `Serializer`, `Deserializer`, `Encrypt`, `Decrypt` | connections, client | the Base64 decoder stops at the first `=`; 32-bit sizes | decoding inverts encoding |
| Services (`service*.h`) | table of handlers | `RegisterService`, `HandleRequest` | workers | filled before the loop runs; refusals carry no result | a caller gets the result of a request that was accepted, and nothing else |
| Serializers (`serializer_mananger.h`, `json_serializer.h`, `protobuf_serializer.h`) | none | `Serialize`, `Deserialize` | client, services | a payload that cannot be serialized is sent empty | what is read is what was written |
| Server main (`server_main.cpp`) | `g_shutdown_requested`, the globals | `main`, `SignHandle`, `GreacefulShutdown` | everything | signal handlers, exit handlers and destructors all shut parts down; any step may fail | a listed server serves, a process that ended is not listed, a signal ends it or closes its port |
| Configuration (`load_config/*`), logging (`log_manager.h`) | what was read of five files; the default logger | `Init` of each | main | a file that cannot be read stops the reading and nothing else; the logger goes before its users | as far as the server's life depends on them |
| Generated messages | stateless | | | none | not modelled |

The hazards of this code, each at its line and with the properties aimed at it,
are listed in `PROJECT.json`.


## 2. The modules

| Module | What it is | Extends / uses |
|---|---|---|
| `TaskPool` | what a pool promises about each task, abstractly | |
| `ThreadPool` | `rpc::ThreadPool`: workers, callers of `Enqueue`, the owner | refines `TaskPool` |
| `ThreadPoolProofs` | the inductive invariant of `ThreadPool` and what follows; the refinement of `TaskPool` | `ThreadPool` |
| `Framing` | what a receive buffer made of pieces of messages decodes to | |
| `EventLoop` | `ManagerCycle`, `Connect`, `ConnectManage`, the kernel below, the pool beside | instances of `TaskPool` and `Framing` |
| `EventLoopProofs` | the inductive invariant of `EventLoop` and what follows | `EventLoop` |
| `LoadBalance` | the three strategies of `LoadBanlance`, as operators | |
| `Services` | serializers, services and dispatch: what a call comes back as, as operators | |
| `RpcClient` | the client's connection and its calls | instances of `Framing`, `LoadBalance`, `Services` |
| `Cipher` | `AesEncrypt`: Base64 and the shift, as operators | |
| `RpcClientProofs` | the inductive invariant of `RpcClient` and what follows | `RpcClient` |
| `CipherProofs` | decoding inverts encoding | `Cipher` |
| `Codec` | messages as bytes through serializer, compression, cipher and a receive buffer | `Cipher`, checked against `Framing` |
| `MessageProofs` | a message comes back from its bytes, with words of 32 bits; what is read of less | `Codec`, `CipherProofs` |
| `CodecProofs` | the inductive invariant of `Codec` and what follows | `MessageProofs` |
| `ServerLifecycle` | the server's process from `main` to the last destructor | |
| `ServerLifecycleProofs` | the inductive invariant of `ServerLifecycle` and what follows | `ServerLifecycle` |
| `Registry` | `ZkHandler` and `ServiceRegistry` of several servers and clients, and ZooKeeper | |
| `RegistryProofs` | the inductive invariant of `Registry` and what follows | `Registry` |

`MC*` modules give the constants their values, one `.cfg` per run.

Two abstract specifications carry the composition.  `TaskPool` says of the pool
only that a task is new, refused, queued, taken, done or discarded, and that a
pool is open, closed or joined; `ThreadPool` is shown to implement it, and
`EventLoop` uses the pool through it.  `Framing` says what both ends take the
pieces of a TCP stream for; `Codec` shows, byte by byte, that the code decodes as
`Framing` says, and `EventLoop` and `RpcClient` use the stream through it.

In every module a definition named `X_Y` is `X` with the plausible mistake `Y` in
it.  No specification uses it; putting it in the place of `X` must break the
property that is there to notice (`PROJECT.json`, "mutants").

### ThreadPool

Workers, callers and one owner are three kinds of process.  What the code does
under `queue_mutex_` without letting go is one step; what it does outside the
lock, or reads there, is a step of its own: `state_` and `stop_` are atomics
written without the lock, so a worker looks at `state_` in the predicate of
`wait_for` and again before it pops, and `active_threads_` is counted after the
unlock.  A worker is `off`, or at `lock`, `park` (waiting on
`get_task_condition`), `blocked`, `late` (its wait timed out), `check`, `pick`
(it has found `state_` not paused, and holds the mutex), `popped`, `running`, `ran`
or `signal`.  `Pause` does not take the mutex and may come between that look and the
pop: `PauseHolds` says that a pause lets one task slip at most, whatever the number of
workers woken for the queue.  A caller of `Enqueue` is `new`, `blocked` on
`not_full_condition`, `woken`, `notify` (task pushed, `notify_one` to come),
`accepted` or `refused`.  The owner goes through `ShutDown` (`sd_*`, ending
`drained` or `self_deadlock`), `Stop_now` (`sn_*`, ending `halted`), `Pause`,
`Resume` and the destructor (`terminated` when it meets joinable threads).

Spurious wakeups and failures of thread creation are included.  Task bodies end
(a `packaged_task` swallows what they throw).  The statistics the pool does not
decide by are left out.  Slots of threads that have left are used again, so the
number of threads ever started is not bounded.  Calls on a stopped pool do
nothing and are left out.

### EventLoop

A `Conn` is a client's TCP connection together with the `Connect` the server
makes for it.  The object is kept alive by `m_connects` (`table`), by the handler
that is working on it (`cur`) and by the closure of a request in the pool
(`lambda`); when the last one lets go the destructor closes the descriptor and
its number may come back from `accept`.  `kernel` is the backlog with the edge of
the listening socket (one `accept` per edge), bytes not read, descriptors, the
epoll set and the edges due.  `loop` is where `Loop` is: `wait`, `next` event,
`enqueue` (blocked on the pool), `remove` and `erase` of `RemoveConnect`,
`return`, `ended`; `closing` is `CloseAll`.  SIGTERM runs `Stop` and `CloseAll` on
the loop's thread between any two steps (`Terminate`), or inside a call of the logger
or of `ConnectManage`, whose mutex the handler then waits for without end
(`TerminateHangs`, `closing = "stuck"`); SIGINT sets `is_stop_`, SIGPIPE may end the
process.  A client that has closed its end and gets an answer refuses it: `send()`
goes well (`peer = "deaf"`), the RST comes back when it likes (`Refused`), and the
loop may see `EPOLLHUP` before it has seen the end of the stream.  `HandleError` takes
the descriptor out of epoll and leaves entry and descriptor where they are, as the code
does.  `World` names what clients and owners may do in a run: `pipeline`,
`split`, `stall`, `close`, `reset`, `SIGINT`, `SIGTERM`, `shutdown`.

### Framing and Codec

Neither end delimits messages: the whole buffer is decoded.  A piece is `whole`,
the `bit` or `front` of a message with its `rest` to come, or, when the Base64
form ends in `=`, the `text` with (some of) its `pad` to come.  A message is
decoded when it is complete at the head of the buffer and nothing follows, or
its padding hides what follows, or what follows is one character, which decodes
to no byte.  All of this, the last two cases included, is what `Codec` finds when
every text is cut at every place.

`Codec` has words of `Width` bytes and a key of `kKEY_SIZE` bytes as parameters.
libzstd is a frame that knows its length: that is what it is to this code, which
asks for one frame and all of it.

### RpcClient, LoadBalance and Services

One program thread (`constructing`, `idle`, `connecting`, `waiting` in a call,
`thrown` out of the constructor, `crashed`), the connection it has, and a server
that answers when it likes, in one piece or two, or never, or closes.  The receive
buffer is not cleared after an answer and the sequence id of an answer is not
compared, and so it is in the model.  The constructor opens a socket that nothing
uses or closes: a connected client has two.

`Connect` asks ZooKeeper for the list once, chooses one server (`LoadBalance`; the
counter of round robin is `current_index`) and tries that one `RetryTimes` times,
whether anybody is there (`Dead`) or not.

`Services` is what becomes of a call's contents, by kinds of text: a member of the
arguments is absent, no string, empty, text, or not UTF-8; data is nothing, or a
value in one of two forms.  It follows the call through `Serialize`, `IsValid`,
`ServiceManager`, `UserService` or `RpcService`, and the end of `ProcessResponse`.
A service refuses with an error that has no result, and the client looks at the
result only.

### ServerLifecycle

The main thread's `pc` is the call of `main`, `GreacefulShutdown` or `exit()` it is
at.  A signal may come between any two of them, or inside one, in the middle of a call
of the logger or of `ConnectManage` (`InsideCall`): there `SignHandle` runs `Stop` on
the thread that holds the mutex `Stop` needs, and the process is `locked`
(`SignHandleLocks`).  By then `Socket::Close` has closed the listening descriptor, since
it logs afterwards and `CloseAll` comes later.  The allocator's lock, which a handler
may meet in the same way, is not modelled.  The parts (`life`) are `none`,
`live`, `closed` (a socket without its descriptor, a pool that is shut down, a
logger after `spdlog::shutdown`) or `dead`.  Using a part that is dead, or was never
made, is undefined, and the process may crash or go on; logging after
`spdlog::shutdown` goes through a null pointer.  `loaded` is what has been read of
the configuration: `main` goes on with whatever that is.  `exits` is the stack that
`exit()` runs: the lambda that `main` hands to `atexit` first, and so runs last, and
the destructors of the singletons in the order in which they were made.  `session`
is what ZooKeeper has of the process.  `World` names what may happen in a run:
`faults` of calls, `clients`, and `stuck` tasks, which outlast `keep_alive_time`.

The parts are seen from outside, by what the other modules show of them: a pool
whose tasks outlast the timeout locks itself out in `ShutDown` (`ThreadPool`),
`CloseAll` with connections may break the table it goes through (`EventLoop`),
registration may leave some of the nodes standing (`Registry`).

### Registry

Servers run the path of `main` through `ZkHandler` (`down`, `connecting`,
`registering`, `serving`), clients that of `GetServer` (`idle`, `connecting`,
`children`, `reading`).  Each call of the ZooKeeper library is a step; between
any two of them a connection may be lost (its call not made, or made and not
heard of), the session expire, another process act, or a server crash and start
again.  `zk` is the handler with its handle, the copy lent to `ServiceRegistry`
and the flag of `CleanUp`; `tree` gives the session that each node goes with.
A session is `new`, `connected`, `lost`, `lapsed` (expired, and its owner does not
know), `expired`, `orphan` (its process has gone without a word) or `closed`.

## 3. The runs

| Run | Instance | What is asked | States |
|---|---|---|---|
| `pool_safety` | 3 workers, 3 tasks of three priorities, core 1, max 3, queue 2, every call of the owner | `TypeOK`, `ThreadsAccounted`, `EachTaskOnce`, `QueueBounded`, `CleanStop`, `NoStrandedCaller`, `NoGrowthAfterStop`, `PauseHolds`, `ImplementsTaskPool` | 124 k |
| `pool_live` | 2 workers, one of them surplus, 2 tasks, `Pause`, `Resume`, `ShutDown`, `Stop_now` | `EveryTaskServed`, `ServedAfterResume`, `SurplusRetires`, `OwnerReturns` | 13 k |
| `pool_shutdown_timeout` | 2 workers, 2 tasks | finding: `ShutDownReturns` is violated | |
| `loop_traffic` | 2 connections, 2 descriptors, 3 requests; clients pipeline, split, do not read, leave | `TypeOK`, `NoEventLost`, `AnswersRight`, `DelBeforeClose` | 2.1 M |
| `loop_stop` | 2 requests; clients close and reset, either signal, the pool shut down | `EntriesOpen`, `ReleasedAtEnd` | 1.5 M |
| `loop_orderly` | 2 connections, 2 requests of one client, one after the other; clients split, leave, also before the answer | `AnsweredOrClosed`, `PeerGoneReleased` | 74 k |
| `client_calls` | 3 calls of 3 kinds of program, 3 connects to 3 servers of which one is gone, every trouble of the network | `TypeOK`, `SocketsAccounted`, `SilentOnlyWhenRefused`, `AnswerOfThisConnection`, `CallsReturn` | 665 k |
| `client_retry` | every attempt fails | finding: `ConnectedHasConnection` is violated | |
| `registry` | 2 servers, with two nodes and one, the first starting twice; a client with two handles; one connection lost | `TypeOK`, `OneSession`, `ServingListed`, `NothingLeftBehind`, `OnlyWhatWasListed`, `NoFalseFailure` | 1.8 M |
| `codec` | 2 messages of 3 requests or 4 responses, three sizes claimed, every cut | `TypeOK`, `InOrder`, `AsFraming`, `NothingMissing` | 34 k |
| `lifecycle` | every step of `main` may fail, clients, stuck tasks, two signals at any moment, between steps or inside a call | `TypeOK`, `ListedServes`, `GoneMeansUnlisted`, `StopEnds` | 5 k |
| `server_term` | one signal, no faults, no clients | finding: `TermExitsCleanly` is violated | |

Each property is stated in words above its definition.  Some name an exception, which
is what the code does and no more than it:

- `PauseHolds`: the one task whose worker had looked at `state_` before `Pause`.
- `AnsweredOrClosed` and `PeerGoneReleased`: a client that left with an answer due and
  refused it.  The loop forgets such a connection and keeps its entry and descriptor
  (manager_cycle.cpp:46-49); a running server leaks them until it ends, and then
  `ReleasedAtEnd` has them.  Without the exception both are violated.
- `StopEnds`: a task that outlasts the shutdown, or a SIGTERM that came inside a call
  and locked its own thread out (server_main.cpp:27).
- `GoneMeansUnlisted`: a process that never ends keeps its session.  One that waits in
  a shutdown while listed waits for a task; one that is `locked` has closed its port, so
  that clients that are still sent to it are refused and not kept waiting.

### The bounds, and why they are enough

*Pool.*  Three workers are one core thread and two surplus ones: the races of
the idle exit are between two workers that time out together, with a third that
is busy or being started.  Three tasks over a queue of two make a caller wait while
another is woken, and give the priority queue something to order.  For liveness two
tasks queued are what it takes to start a surplus worker; that a caller which waits
is not forgotten is `NoStrandedCaller`, in the larger run.
Workers are interchangeable (symmetry, in the run without liveness only).

*Loop.*  Two descriptors for two connections are what it takes for a number to be
used again while a worker still holds the connection that had it.  Two requests
on one connection are what it takes to pipeline, and, one after the other, for the
second to meet the `=` that the first left in the buffer; in `loop_traffic` a third
comes from the other client.  Longer streams repeat this: a buffer is cleared or the connection given
up after each decision, except for what `Framing` names.  Descriptors are
interchangeable (symmetry, in the runs without liveness).

*Client.*  Three servers of which the last is gone, taken in turn: the program gets
two connections that work and one that does not.  Three calls let the late answer to the first meet the second and the
third; a reconnection between any two of them separates the connections.  The three
programs are two calls that are served among others that are not, for each reason
there is: a wrong name, an argument missing, of the wrong kind or not UTF-8, a type
that does not go with the serializer, a serializer the services do not read.

*Registry.*  Two servers race for the path; two nodes of one server make partial
success; one restart is what it takes to meet a node of an earlier run; `CleanUp`
lets a client open two handles, whatever it does; one loss, anywhere, is followed
by a reconnection or by an expiry.  A second loss in another session repeats the
first; two losses in one registration are left out for size.

*Codec.*  Words of one byte, so that sums wrap where messages are still small; a
key of two bytes; messages that leave no, one and two `=`; two messages, since a
third finds what the second found.  The run fixes one random key; that the key
makes no difference is proved.

*Server.*  The process is one and goes through `main` once; nothing is bounded but
the signals.  Two let the one interrupt what the other has started, and SIGINT, whose
handler changes on the way, come before or after SIGTERM.  `server_term` has no
clients and one signal: its loop makes no call when the signal comes, so that it is not
`locked` and the crash is the way every behaviour with a signal in the loop ends.

Deadlock is not checked: each of these systems may come to rest (a pool shut
down, clients gone, no start left, the process ended), and the runs say so.

### Fairness

`ThreadPool`: strong fairness of each worker, each caller that has begun and the
owner: a thread that can go on does, also one that waits for a mutex which others
keep taking (the scheduler and `std::mutex` are not known to starve).
`PromptSpec` has no more than that; `FairSpec` adds that `wait_for` times out again
and again, which `keep_alive_time` guarantees.  The properties that need a timeout
have it as a premise of their own.  Clients of the pool, `Pause`,
`Resume` and the shutdowns are never obliged to happen.

`EventLoop`: weak fairness of the loop's thread and of each worker on its
request.  Clients, signals and owners are not fair.

`RpcClient`: weak fairness of the constructor, of a `Connect` and of a call that has begun: every wait in
them is a `select` or a `poll` with a timeout.  The server is not fair.

`ServerLifecycle`: weak fairness of the main thread's next step; `epoll_wait` comes
back once a second, so a loop that has been told to stop ends.  Signals, faults and
clients are not fair.

`Registry` and `Codec` have safety properties only.

## 4. What is proved

TLAPS proves the following for every value of the constants that their assumptions
allow: every number of workers, tasks and threads, every queue size and priority, every
number of connections, descriptors and requests, every set of servers, clients and
nodes, every program of calls, every master key, key size and text, and every `World`.
Each inductive invariant was checked by TLC on the instances of section 3, as an
invariant of the run, before it was proved; where it speaks of some sequence, as
`CutThrough` in `CodecProofs` does, TLC looked for it among the prefixes of the buffer.

*The pool* (`ThreadPoolProofs`, from `WorkerAssumption`, `TaskAssumption`,
`ConfigAssumption`, `OwnerAssumption`).  The inductive invariant is

    IInv == Shape /\ Hands /\ Counts /\ StopMarks /\ EachTaskOnce /\ QueueBounded

`Shape` types the variables.  The properties are not inductive: what `ShutDown`
concludes from `task_queue` and `active_threads_` depends on which step each
worker is at, so `Hands` ties a worker's position to the task it holds, `Counts`
ties the two counters to the positions (`current_thread_nums` to the threads
alive and the one a caller is starting, `active_threads_` to those that have
counted themselves), and `StopMarks` ties the owner's position to `stop_` and to
who may still be alive.  The lemma `Invariance` has one step per action.  From it:
`TypeCorrect`, `Accounting`, `TasksConserved`, `QueueLimit`, `CleanShutDown`, and
the action property `NoGrowth`.  `PauseKeeps`, an action property too, needs at most
one worker at `pick`, which nothing in the invariant says: `MutexHeldOnce` proves that
the mutex has one holder (`OneHolder`), from what each step does to the set of those
who hold it.  `NobodyStranded` is inductive given
`EachTaskOnce` (a caller that goes for a place brings a task that is not queued yet,
so it takes exactly one): each pop wakes one caller for the place it makes.

*The refinement* (`ThreadPoolProofs`).  `Refinement`: every step of the pool is
a step of `TaskPool`, or leaves it alone, under the mapping `Stage` / `PoolStage`.

*The cipher* (`CipherProofs`, from `KeySizeAssumption`, `MasterKeyAssumption`).
`ShiftInverse`, `Base64Inverse` and `DecryptInverse`: what was encrypted comes
back, and whatever follows a text that ends in `=` is not seen.  The argument for
Base64 is by place: byte `j` of the result depends on the two characters of its
group of four, which depend on the bytes of its group of three (`GroupOfFour`,
`Sextets`), and the characters it needs are always written (`CharPlaces`).

*The messages* (`MessageProofs`, from `WordAssumption`, `RandomKeyAssumption`,
`MessageAssumption`, `ContentAssumption` and those of `Cipher`).  Here `Width = 4` is a
hypothesis: it is what the code has, and the four digits of a word are compared one by
one (`DigitsDiffer`), where any width would take an induction with powers of 256.
`ContentAssumption` says that a message is strings and `uint32_t`s and, with its header,
shorter than 2^32: a longer one would be cut off by the word its length is written in,
and nothing in the code looks.  A word is found where it was written (`WordAtIs`), a
field (`FieldIs`), two fields and the header in front of them (`TwoFields`, `HeaderIs`);
then `RequestComesBack` and `ResponseComesBack`: serialized, compressed, encrypted and
all of it undone, a message is the message that was sent.  Of a header that exaggerates,
by any number, `RequestRead` and `ResponseRead` say exactly when it is believed, the
sums wrapping as they do in 32 bits.  `ServerHandsOn`, `ClientHandsOn` and
`ExcessHandedOnByNone` are about the steps that read.

Of less than a text, or more, something has to be said too.  Whatever its characters
are, a buffer that begins with a text's first characters decodes to the right key and the
right length of the frame or to too few bytes to have one, and then to a frame of
another length than it says, because the number of characters decides how many bytes
there are (`Counts`, `DecryptAgrees`): so half a text (`ReadShort`), and a text with two
characters or more behind it and no `=` (`ReadGarbled`), decode to nothing, for every
message and every key, and never to a message by accident.

*The stream* (`CodecProofs`, from the same and `BoundAssumption`).  The inductive
invariant is

    IInv == Typed /\ Sides /\ InOrder
            /\ open => Refused /\ \E k \in 0..Len(sent) : Placed(k)

`Placed(k)`: the first `k` messages have come.  `Shaped` ties the wire, the pieces and
the characters together: nothing is cut (`Uncut`), a text is cut and neither half has
come (`CutAhead`), one half has (`CutThrough`), or a server has handed the message on
when only the end of its padding was still to come (`PadAhead`).  In each the buffer is,
but for that half, `Between` texts: empty, or it begins with a whole text, or with the
end of a padding.  `BeginsOutcome` says what is read of any such buffer: nothing, when
`Framing` says it may fail, or the first message, when `Framing` has it.  That is all
that `AsFraming` needs.  `Order` is what keeps a server from handing a message on twice:
what it has handed on was sent before the message at the head of its buffer.
`Refused` says that a complete message that is still in a server's buffer is one whose
header it does not believe; otherwise a half that arrives behind it could bring it to be
handed on, and the buffer to be cleared in the middle of the next.  One lemma per action, with
`Read` taken apart into one piece (`TakeOne`) and one or two (`TakeSome`).  From it:
`TypeCorrect`, `HandedOnInOrder`, `DoesAsFraming`, `NothingIsMissing`, for any number of
messages, every content, key and excess, and wherever TCP cuts.

*The client* (`RpcClientProofs`, from `BoundAssumption`, `ListedAssumption`,
`WorkloadAssumption`).  The inductive invariant is

    IInv == TypeOK /\ SocketsAccounted /\ Places /\ Turns /\ Streams /\ Results
            /\ SilentOnlyWhenRefused

`AnswerOfThisConnection` depends on what is in the buffers: `Streams` says that every
piece on its way or received answers a request made since the connection was made
(`Made`) that the server no longer has, for which `Places` must say that there is
nothing without a connection.  `Results` separates the calls that have returned from
those the server may still refuse.  `SetMeansResult` is about the services: what
comes back with a result is what they accept.  From it: `TypeCorrect`,
`Descriptors`, `Refusals`, and the action property `OwnConnection`.  It holds for any
number of calls, of reconnections and of retries, and for every program.

*The loop* (`EventLoopProofs`, from `ConnAssumption`, `RequestAssumption`).  The
inductive invariant is

    IInv == TypeOK /\ Sockets /\ EntriesOpen /\ Backlog /\ Held /\ Local /\ Closures
            /\ Streams /\ Given /\ NoEventLost

The life of a `Connect` is the difficulty: three holders, of which one is a worker's
closure, decide when its descriptor is closed and its number used again.  `Held` says
that an object lives as long as one of them refers to it and no longer, `Sockets` that
the object and the descriptor know each other, `Local` what the handler at work still
has in `cur` and `cur_fd` when the table has changed under it, `Closures` that a request
in a worker's hands has a closure.  `EntriesOpen` is inductive with these.
`AnswersRight` needs to know where each answer comes from: `Streams` says that what is
in a receive buffer was sent by that client, `Given` that an answer is given once, to its
sender, and only when the pool is done with the request, which is `TaskPool`'s promise.
From the invariant: `TypeCorrect`, `TableIsOpen`, `NoEdgeMissed`,
`AnswersToTheRightClient` and `NoConnectionLeft`, with every signal, reset and shutdown
`World` may have.  `ForgottenBeforeClosed`, the action property `DelBeforeClose`, has the
hypothesis `NoSignals`, as its run has: `CloseAll` closes descriptors that are still in
the epoll set, and only a signal handler or the end of the process runs it.  It needs
`Unlisted`: without signals an object that has lost its entry is no longer watched, or
the loop is on its way to remove it.  `NoSignals` is a set of runs the server really has,
all of them until somebody stops it.

*The registry* (`RegistryProofs`, from `ProcessAssumption`, `NodesAssumption`,
`RetryAssumption`, `BoundAssumption`).  The inductive invariant is

    IInv == TypeOK /\ Handles /\ Places /\ Listed /\ Troubles /\ Queries /\ NothingLeftBehind

`OneSession` holds because the sessions that ZooKeeper knows of a process are exactly
those it has a handle for (`Handles`), and the handle lent to `ServiceRegistry` is the
handler's own or none, which depends on the point of the process (`Places`).
`ServingListed` is about the end of a loop over the nodes: `Listed` says how many of them
are in the tree at each turn of it, unless the session has expired in between.
`NothingLeftBehind` is inductive given `Handles`: a session passes to `orphan` when its
process crashes and takes its nodes along when it expires.  From it: `TypeCorrect`,
`OneSessionEach`, `WhoServesIsListed`, `WhoIsGoneIsForgotten`, and the action properties
`OnlyTroubleEndsRegistering` (from `Troubles`) and `ChoosesAmongListed` (from `Queries`:
a node that was listed is still to be read, read, or failed).  `MaxOpened` and
`MaxLosses` only bound the runs; the proofs hold for all values of them.

*The process* (`ServerLifecycleProofs`, from `WorldAssumption`).  The inductive
invariant is

    IInv == TypeOK /\ Reading /\ Built /\ Untouched /\ Up /\ Closing /\ GoneMeansUnlisted

`main` does not ask whether the configuration could be read; that a listed server has
read it all the same goes through the order of the files (`Reading`: ZooKeeper's host
comes last, and without it `InitZkHandler` returns).  `Built` and `Untouched` say what is
there at each line of `main`, and that no signal has reached it yet, because
`g_manager_cycle` is set after registering; `Up` keeps it so while the loop runs.
A signal that locks itself out needs `g_manager_cycle`, which `Built` ties to `watched`:
so `Stop` has gone through the listening socket, which is what `GoneMeansUnlisted` says
of a `locked` process.
`Closing` says that as long as a session is open the destructor of `ZkHandler` is still
on the stack of `exit()`, whoever starts the shutdown, and that `CleanUp`, which works
once, has not been used up.  From it: `TypeCorrect`, `WhoIsListedServes`,
`WhoEndsIsUnlisted`.

Model-checked only:

- The liveness properties (`EveryTaskServed`, `ServedAfterResume`, `SurplusRetires`,
  `OwnerReturns`, `AnsweredOrClosed`, `PeerGoneReleased`, `CallsReturn`, `StopEnds`):
  liveness under fairness is out of the prover's reach.
- Words of another width than four bytes: the run of `Codec` has one, so that the sums
  wrap, and the theorems four.
- The findings, which are violations.

## 5. Findings

1. `ThreadPool::ShutDown` locks itself out when its timeout expires: it calls
   `Stop_now` with `queue_mutex_` held (`pool_shutdown_timeout`; thread_pool.cpp:78,
   against the recovery server_main.cpp:46 has for this case).
2. A server that gets SIGTERM in its loop shuts everything down and then crashes:
   `~ManagerCycle` uses the socket and the logger that are gone (`server_term`;
   server_main.cpp:143, against scripts/zk_conn_test.sh:110, which asks for exit code
   0 and names the crash as a known problem).
3. `RpcClient::Connect` reports success when every attempt has failed
   (`client_retry`; rpc_client.cpp:76, against rpc_client.cpp:29).

Met while modelling, in the model as they are, and outside the properties: a
caller blocked in `Enqueue` is not woken by `Stop_now`; `CloseAll` closes descriptors
that are still in the epoll set (connect_manage.cpp:49), where the comment at
connect.cpp:124 has epoll's DEL come first; a signal that comes before the loop's
cycle is known is forgotten; a SIGTERM inside a call of the logger or of
`ConnectManage` locks the process out; a connection that ends in `EPOLLHUP` keeps its
entry and its descriptor; a client that gets a refusal is told that its call
succeeded; one `accept` per event of
the edge-triggered listening socket; an answer that `send` does not take at once
is never flushed; the second of two pipelined requests is lost; a request cut
inside its padding costs the connection its next request; a second answer on a
client's connection is decoded from the first; nothing registers again after a
session has expired, and `CleanUp` works once per process.  `PROJECT.json` has
them with their lines, under "hazards".

## 6. Not modelled

The generated messages are protoc's; nothing in src/ sends one.  The values in the
configuration files, beyond those the constants stand for, and the setters that
check them, are input.  What is logged is left out; that there is a logger to log
with is part of `ServerLifecycle`.  libzstd, JSON, ZooKeeper, TCP and the kernel are
external, and modelled as far as the code above them can tell.  `ServiceManager`'s
`HandleRequestAsync`, `ManagerCycle::Modify`, `CompressData` and `DecompressData` are
never called.  `RpcClient` is modelled for one program thread: it has no lock around
`Call`, and none is promised.  Texts of 2^31 bytes and more, where the `int` indices
of `AesEncrypt` overflow, are outside `Cipher`.

## 7. Plan

Done, in this order: `TaskPool`, `ThreadPool` with its proofs and refinement,
`Framing`, `EventLoop`, `RpcClient`, `Registry`, `Cipher` with its proofs, `Codec` with its own,
`ServerLifecycle`, `LoadBalance` and `Services` with the client that uses them and
its proofs, and the proofs about `EventLoop`, `Registry`, `ServerLifecycle` and, last,
what `Codec` does with pieces.  With these every invariant and action property that a
passing run checks is a theorem.

Next:

1. The hazards that have no property yet, when the code grows what they need: a session
   that expires and is not registered again, a buffer that is not flushed.
2. `Registry` with two losses in one registration, which is proved but too large to run.
