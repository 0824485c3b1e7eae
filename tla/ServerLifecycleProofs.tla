----------------------- MODULE ServerLifecycleProofs -----------------------
(***************************************************************************)
(* Safety of ServerLifecycle, whatever fails and however many signals come. *)
(* The inductive invariant says what main has read (Reading) and made       *)
(* (Built) when it is at a line, that nobody else has touched it so far     *)
(* (Untouched), what is up while the server is listed (Up), and who will    *)
(* close its session (Closing).                                             *)
(***************************************************************************)
EXTENDS ServerLifecycle, SequenceTheorems, TLAPS

\* The lines of main up to which something is so, from the last one back.
Registering == {"register", "publish"}
Serviced == {"zk"} \cup Registering
Watching == {"services"} \cup Serviced
Cycled == {"listen"} \cup Watching
Listening == {"cycle"} \cup Cycled
Pooled == {"socket", "option", "bind", "listening"} \cup Listening
Constructing ==
  {"config", "logger", "service", "thread_aes", "service_socket", "zk_config", "pool"} \cup Pooled

\* A file is read after those before it; ZooKeeper's is the last one.
Reading ==
  /\ pc \in {"service", "thread_aes", "service_socket", "zk_config"} => Has("logger")
  /\ pc \in {"thread_aes", "service_socket", "zk_config"} => Has("service")
  /\ pc \in {"service_socket", "zk_config"} => Has("aes") /\ Has("threads")
  /\ pc = "zk_config" => Has("socket")
  /\ Has("zk_host") =>
       Has("logger") /\ Has("service") /\ Has("aes") /\ Has("threads") /\ Has("socket")
  /\ pc = "register" => Has("zk_host")
  /\ session = "listed" => Has("zk_host") /\ Has("nodes")

\* A part is made after those before it.
Built ==
  /\ pc \in Pooled => life["pool"] = "live"
  /\ pc \in Listening => life["socket"] = "live"
  /\ pc \in Cycled => life["connects"] = "live" /\ life["cycle"] = "live"
  /\ pc \in Watching => watched
  /\ g_manager_cycle => watched
  /\ pc \in Serviced => life["services"] = "live"
  /\ session = "listed" => life["pool"] # "none"

\* Nothing is shut down while main still makes the parts, and a signal does not
\* reach the cycle.
Untouched ==
  /\ pc \in Constructing => during = "none" /\ ~g_manager_cycle /\ ~is_clean_up
  /\ pc \in Constructing \ Registering => session = "none"
  /\ pc = "register" => session = "open"

\* While the server is listed, and nobody has stopped it, it has all it takes.
Up ==
  session = "listed" /\ during = "none" /\ ~is_stop =>
    /\ pc \in {"publish", "begin", "loop", "thrown", "leave"}
    /\ \A p \in {"pool", "socket", "connects", "cycle", "services"} : life[p] = "live"
    /\ watched

\* This is among what is to be run.
Runs(what, s) == \E i \in 1..Len(s) : s[i] = what

\* A session that is open has a destructor to come that closes it.
Closing ==
  /\ is_clean_up => session \in {"none", "closed"}
  /\ session \in {"open", "listed"} => Runs("zk", exits)

IInv == TypeOK /\ Reading /\ Built /\ Untouched /\ Up /\ Closing /\ GoneMeansUnlisted

-----------------------------------------------------------------------------
(* Every step keeps it.                                                    *)

\* What the types say, piece by piece.
LEMMA TypeIs ==
  ASSUME TypeOK
  PROVE  /\ life \in [Part -> Life] /\ exits \in Seq({"lambda", "logger", "connects", "zk"})
         /\ g_shutdown_requested \in BOOLEAN /\ g_manager_cycle \in BOOLEAN /\ is_stop \in BOOLEAN
         /\ is_running \in BOOLEAN /\ watched \in BOOLEAN /\ is_clean_up \in BOOLEAN
         /\ clients \in BOOLEAN /\ stuck \in BOOLEAN /\ loaded \subseteq Config
BY DEF TypeOK

\* What has been read is what the line of main says.
LEMMA ReadingInductive == ASSUME IInv, [Next]_vars PROVE Reading'
<1> USE DEF IInv, Reading, Has, At, Crash, main, flags, parts, zk, world
<1>1. CASE InitSpdlog
  BY <1>1 DEF InitSpdlog
<1>2. CASE InitLogger \/ ReadService \/ InitThreadAes \/ ReadServiceSocket \/ InitZkConfig
  BY <1>2 DEF InitLogger, ReadService, InitThreadAes, ReadServiceSocket, InitZkConfig, Read
<1>3. CASE CreatePool \/ CreatePoolFails
  BY <1>3 DEF CreatePool, CreatePoolFails
<1>4. CASE Create \/ SetSocketOption \/ Bind
  BY <1>4 DEF Create, SetSocketOption, Bind, SocketStep
<1>5. CASE Listens
  BY <1>5 DEF Listens
<1>6. CASE CreateCycle
  BY <1>6 DEF CreateCycle
<1>7. CASE AddListenFd
  BY <1>7 DEF AddListenFd, ReturnMinusOne
<1>8. CASE RegisterServices
  BY <1>8 DEF RegisterServices
<1>9. CASE InitZkHandler
  BY <1>9 DEF InitZkHandler, ReturnMinusOne, Empty
<1>10. CASE RegistryAllNode
  BY <1>10 DEF RegistryAllNode, ReturnMinusOne
<1>11. CASE Publish \/ Begin
  BY <1>11 DEF Publish, Begin, LoopBegins
<1>12. CASE LoopEnds \/ Serve \/ LoopThrows
  BY <1>12 DEF LoopEnds, Serve, LoopThrows
<1>13. CASE Leave \/ Catch
  BY <1>13 DEF Leave, Catch, DestroyCycle, Stop
<1>14. CASE CloseSocket \/ CloseAll
  BY <1>14 DEF CloseSocket, CloseAll, Made
<1>15. CASE StopPool
  BY <1>15 DEF StopPool
<1>16. CASE CleanUp \/ LogOff
  BY <1>16 DEF CleanUp, LogOff, ZkCleanUp, SessionCloses, Made
<1>17. CASE ExitZkHandler
  BY <1>17 DEF ExitZkHandler, DestroyZkHandler, ZkCleanUp, SessionCloses
<1>18. CASE ExitConnectManage \/ ExitLogger \/ ExitLambda \/ ExitEnds
  BY <1>18 DEF ExitConnectManage, ExitLogger, ExitLambda, ExitEnds
<1>19. CASE \E sig \in {"SIGINT", "SIGTERM"} : Signal(sig)
  BY <1>19 DEF Signal, sigHandle, SignHandle, SignHandleLocks, Stop
<1>20. CASE UNCHANGED vars
  BY <1>20 DEF vars
<1> QED BY <1>1, <1>2, <1>3, <1>4, <1>5, <1>6, <1>7, <1>8, <1>9, <1>10, <1>11, <1>12, <1>13,
           <1>14, <1>15, <1>16, <1>17, <1>18, <1>19, <1>20
     DEF Next, Proceed, Construct, GreacefulShutdown, Exit

\* What has been made is what the line of main says.
LEMMA BuiltInductive == ASSUME IInv, [Next]_vars PROVE Built'
<1> USE DEF IInv, Built, Untouched, Constructing, Pooled, Listening, Cycled, Watching,
            Serviced, Registering, At, Crash, main, flags, parts, zk, world
<1>1. life \in [Part -> Life]
  BY TypeIs
<1>2. CASE InitSpdlog
  BY <1>1, <1>2 DEF InitSpdlog, Lives, Part
<1>3. CASE InitLogger \/ ReadService \/ InitThreadAes \/ ReadServiceSocket \/ InitZkConfig
  BY <1>1, <1>3 DEF InitLogger, ReadService, InitThreadAes, ReadServiceSocket, InitZkConfig,
         Read, Part
<1>4. CASE CreatePool \/ CreatePoolFails
  BY <1>1, <1>4 DEF CreatePool, CreatePoolFails, Lives, Part
<1>5. CASE Create \/ SetSocketOption \/ Bind
  BY <1>1, <1>5 DEF Create, SetSocketOption, Bind, SocketStep, Part
<1>6. CASE Listens
  BY <1>1, <1>6 DEF Listens, Lives, Part
<1>7. CASE CreateCycle
  BY <1>1, <1>7 DEF CreateCycle, Lives, Part
<1>8. CASE AddListenFd
  BY <1>1, <1>8 DEF AddListenFd, ReturnMinusOne, Part
<1>9. CASE RegisterServices
  BY <1>1, <1>9 DEF RegisterServices, Lives, Part
<1>10. CASE InitZkHandler
  BY <1>1, <1>10 DEF InitZkHandler, ReturnMinusOne, Empty, Lives, Part
<1>11. CASE RegistryAllNode
  BY <1>1, <1>11 DEF RegistryAllNode, ReturnMinusOne, Part
<1>12. CASE Publish \/ Begin
  BY <1>1, <1>12 DEF Publish, Begin, LoopBegins, Part
<1>13. CASE LoopEnds \/ Serve \/ LoopThrows
  BY <1>1, <1>13 DEF LoopEnds, Serve, LoopThrows, Part
<1>14. CASE Leave \/ Catch
  BY <1>1, <1>14 DEF Leave, Catch, DestroyCycle, Stop, SocketClosed, Part
<1>15. CASE CloseSocket \/ CloseAll
  BY <1>1, <1>15 DEF CloseSocket, CloseAll, Made, Part
<1>16. CASE StopPool
  BY <1>1, <1>16 DEF StopPool, Lives, Part
<1>17. CASE CleanUp \/ LogOff
  BY <1>1, <1>17 DEF CleanUp, LogOff, ZkCleanUp, SessionCloses, Made, Lives, Part
<1>18. CASE ExitZkHandler
  BY <1>1, <1>18 DEF ExitZkHandler, DestroyZkHandler, ZkCleanUp, SessionCloses, Lives, Part
<1>19. CASE ExitConnectManage \/ ExitLogger \/ ExitLambda \/ ExitEnds
  BY <1>1, <1>19 DEF ExitConnectManage, ExitLogger, ExitLambda, ExitEnds, Lives, Part
<1>20. CASE \E sig \in {"SIGINT", "SIGTERM"} : Signal(sig)
  BY <1>1, <1>20 DEF Signal, sigHandle, SignHandle, SignHandleLocks, Stop, Lives, SocketClosed,
         Part
<1>21. CASE UNCHANGED vars
  BY <1>1, <1>21 DEF vars, Part
<1> QED BY <1>2, <1>3, <1>4, <1>5, <1>6, <1>7, <1>8, <1>9, <1>10, <1>11, <1>12, <1>13, <1>14,
           <1>15, <1>16, <1>17, <1>18, <1>19, <1>20, <1>21
     DEF Next, Proceed, Construct, GreacefulShutdown, Exit

\* Nobody interferes while the parts are made.
LEMMA UntouchedInductive == ASSUME IInv, [Next]_vars PROVE Untouched'
<1> USE DEF IInv, Untouched, Constructing, Pooled, Listening, Cycled, Watching, Serviced,
            Registering, At, Crash, main, flags, parts, zk, world
<1>1. CASE InitSpdlog
  BY <1>1 DEF InitSpdlog
<1>2. CASE InitLogger \/ ReadService \/ InitThreadAes \/ ReadServiceSocket \/ InitZkConfig
  BY <1>2 DEF InitLogger, ReadService, InitThreadAes, ReadServiceSocket, InitZkConfig, Read
<1>3. CASE CreatePool \/ CreatePoolFails
  BY <1>3 DEF CreatePool, CreatePoolFails
<1>4. CASE Create \/ SetSocketOption \/ Bind
  BY <1>4 DEF Create, SetSocketOption, Bind, SocketStep
<1>5. CASE Listens
  BY <1>5 DEF Listens
<1>6. CASE CreateCycle
  BY <1>6 DEF CreateCycle
<1>7. CASE AddListenFd
  BY <1>7 DEF AddListenFd, ReturnMinusOne
<1>8. CASE RegisterServices
  BY <1>8 DEF RegisterServices
<1>9. CASE InitZkHandler
  BY <1>9 DEF InitZkHandler, ReturnMinusOne, Empty
<1>10. CASE RegistryAllNode
  BY <1>10 DEF RegistryAllNode, ReturnMinusOne
<1>11. CASE Publish \/ Begin
  BY <1>11 DEF Publish, Begin, LoopBegins
<1>12. CASE LoopEnds \/ Serve \/ LoopThrows
  BY <1>12 DEF LoopEnds, Serve, LoopThrows
<1>13. CASE Leave \/ Catch
  BY <1>13 DEF Leave, Catch, DestroyCycle, Stop
<1>14. CASE CloseSocket \/ CloseAll
  BY <1>14 DEF CloseSocket, CloseAll, Made
<1>15. CASE StopPool
  BY <1>15 DEF StopPool
<1>16. CASE CleanUp \/ LogOff
  BY <1>16 DEF CleanUp, LogOff, ZkCleanUp, SessionCloses, Made
<1>17. CASE ExitZkHandler
  BY <1>17 DEF ExitZkHandler, DestroyZkHandler, ZkCleanUp, SessionCloses
<1>18. CASE ExitConnectManage \/ ExitLogger \/ ExitLambda \/ ExitEnds
  BY <1>18 DEF ExitConnectManage, ExitLogger, ExitLambda, ExitEnds
<1>19. CASE \E sig \in {"SIGINT", "SIGTERM"} : Signal(sig)
  BY <1>19 DEF Signal, sigHandle, SignHandle, SignHandleLocks, Stop
<1>20. CASE UNCHANGED vars
  BY <1>20 DEF vars
<1> QED BY <1>1, <1>2, <1>3, <1>4, <1>5, <1>6, <1>7, <1>8, <1>9, <1>10, <1>11, <1>12, <1>13,
           <1>14, <1>15, <1>16, <1>17, <1>18, <1>19, <1>20
     DEF Next, Proceed, Construct, GreacefulShutdown, Exit

\* Who is listed, and not stopped, is up.
LEMMA UpInductive == ASSUME IInv, [Next]_vars PROVE Up'
<1> USE DEF IInv, Up, Built, Untouched, Constructing, Pooled, Listening, Cycled, Watching,
            Serviced, Registering, At, Crash, main, flags, parts, zk, world
<1>1. life \in [Part -> Life]
  BY TypeIs
<1>2. CASE InitSpdlog
  BY <1>1, <1>2 DEF InitSpdlog, Lives, Part
<1>3. CASE InitLogger \/ ReadService \/ InitThreadAes \/ ReadServiceSocket \/ InitZkConfig
  BY <1>1, <1>3 DEF InitLogger, ReadService, InitThreadAes, ReadServiceSocket, InitZkConfig,
         Read, Part
<1>4. CASE CreatePool \/ CreatePoolFails
  BY <1>1, <1>4 DEF CreatePool, CreatePoolFails, Lives, Part
<1>5. CASE Create \/ SetSocketOption \/ Bind
  BY <1>1, <1>5 DEF Create, SetSocketOption, Bind, SocketStep, Part
<1>6. CASE Listens
  BY <1>1, <1>6 DEF Listens, Lives, Part
<1>7. CASE CreateCycle
  BY <1>1, <1>7 DEF CreateCycle, Lives, Part
<1>8. CASE AddListenFd
  BY <1>1, <1>8 DEF AddListenFd, ReturnMinusOne, Part
<1>9. CASE RegisterServices
  BY <1>1, <1>9 DEF RegisterServices, Lives, Part
<1>10. CASE InitZkHandler
  BY <1>1, <1>10 DEF InitZkHandler, ReturnMinusOne, Empty, Lives, Part
<1>11. CASE RegistryAllNode
  BY <1>1, <1>11 DEF RegistryAllNode, ReturnMinusOne, Part
<1>12. CASE Publish \/ Begin
  BY <1>1, <1>12 DEF Publish, Begin, LoopBegins, Part
<1>13. CASE LoopEnds \/ Serve \/ LoopThrows
  BY <1>1, <1>13 DEF LoopEnds, Serve, LoopThrows, Part
<1>14. CASE Leave \/ Catch
  BY <1>1, <1>14 DEF Leave, Catch, DestroyCycle, Stop, SocketClosed, Part
<1>15. CASE CloseSocket \/ CloseAll
  BY <1>1, <1>15 DEF CloseSocket, CloseAll, Made, Part
<1>16. CASE StopPool
  BY <1>1, <1>16 DEF StopPool, Lives, Part
<1>17. CASE CleanUp \/ LogOff
  BY <1>1, <1>17 DEF CleanUp, LogOff, ZkCleanUp, SessionCloses, Made, Lives, Part
<1>18. CASE ExitZkHandler
  BY <1>1, <1>18 DEF ExitZkHandler, DestroyZkHandler, ZkCleanUp, SessionCloses, Lives, Part
<1>19. CASE ExitConnectManage \/ ExitLogger \/ ExitLambda \/ ExitEnds
  BY <1>1, <1>19 DEF ExitConnectManage, ExitLogger, ExitLambda, ExitEnds, Lives, Part
<1>20. CASE \E sig \in {"SIGINT", "SIGTERM"} : Signal(sig)
  BY <1>1, <1>20 DEF Signal, sigHandle, SignHandle, SignHandleLocks, Stop, Lives, SocketClosed,
         Part
<1>21. CASE UNCHANGED vars
  BY <1>1, <1>21 DEF vars, Part
<1> QED BY <1>2, <1>3, <1>4, <1>5, <1>6, <1>7, <1>8, <1>9, <1>10, <1>11, <1>12, <1>13, <1>14,
           <1>15, <1>16, <1>17, <1>18, <1>19, <1>20, <1>21
     DEF Next, Proceed, Construct, GreacefulShutdown, Exit

-----------------------------------------------------------------------------
(* What exit() has to run.                                                 *)

Handlers == {"lambda", "logger", "connects", "zk"}

\* The destructor of ZkHandler is among what this list has only grown to.
LEMMA AppendRuns ==
  ASSUME NEW s \in Seq(Handlers), NEW h \in Handlers
  PROVE  /\ Append(s, h) \in Seq(Handlers)
         /\ Runs("zk", s) \/ h = "zk" => Runs("zk", Append(s, h))
<1>1. /\ Append(s, h) \in Seq(Handlers) /\ Len(Append(s, h)) = Len(s) + 1
      /\ \A i \in 1..Len(s) : Append(s, h)[i] = s[i]
      /\ Append(s, h)[Len(s) + 1] = h /\ Len(s) \in Nat
  OBVIOUS
<1>2. 1..Len(s) \subseteq 1..(Len(s) + 1) /\ Len(s) + 1 \in 1..(Len(s) + 1)
  BY <1>1
<1> QED BY <1>1, <1>2 DEF Runs

\* It stays there while others are run.
LEMMA PopRuns ==
  ASSUME NEW s \in Seq(Handlers), s # <<>>
  PROVE  /\ SubSeq(s, 1, Len(s) - 1) \in Seq(Handlers)
         /\ Runs("zk", s) /\ s[Len(s)] # "zk" => Runs("zk", SubSeq(s, 1, Len(s) - 1))
<1>1. Len(s) \in Nat \ {0}
  BY EmptySeq
<1>2. /\ SubSeq(s, 1, Len(s) - 1) \in Seq(Handlers) /\ Len(SubSeq(s, 1, Len(s) - 1)) = Len(s) - 1
      /\ \A i \in 1..(Len(s) - 1) : SubSeq(s, 1, Len(s) - 1)[i] = s[i]
  <2> DEFINE n == Len(s) - 1
  <2>1. n \in Int /\ n >= 0 /\ \A i \in 1..n : s[i] \in Handlers
    BY <1>1
  <2> HIDE DEF n
  <2>2. /\ SubSeq(s, 1, n) \in Seq(Handlers)
        /\ Len(SubSeq(s, 1, n)) = IF 1 <= n THEN n - 1 + 1 ELSE 0
        /\ \A i \in 1..(n - 1 + 1) : SubSeq(s, 1, n)[i] = s[1 + i - 1]
    BY <2>1, SubSeqProperties
  <2>3. Len(SubSeq(s, 1, n)) = n /\ \A i \in 1..n : SubSeq(s, 1, n)[i] = s[i]
    BY <2>1, <2>2
  <2> QED BY <2>2, <2>3 DEF n
<1>3. \A i \in 1..Len(s) : i = Len(s) \/ i \in 1..(Len(s) - 1)
  BY <1>1
<1> QED BY <1>2, <1>3 DEF Runs

\* A session that is open will be closed.
LEMMA ClosingInductive == ASSUME IInv, [Next]_vars PROVE Closing'
<1> USE DEF IInv, Closing, Untouched, Constructing, Pooled, Listening, Cycled, Watching,
            Serviced, Registering, Handlers, At, Crash, main, flags, parts, zk, world
<1>1. exits \in Seq(Handlers)
  BY TypeIs DEF Handlers
<1>2. \A h \in Handlers :
        /\ Append(exits, h) \in Seq(Handlers)
        /\ (Runs("zk", exits) \/ h = "zk" => Runs("zk", Append(exits, h)))
  BY <1>1, AppendRuns
<1>3. exits # <<>> =>
        /\ SubSeq(exits, 1, Len(exits) - 1) \in Seq(Handlers)
        /\ Runs("zk", exits) /\ exits[Len(exits)] # "zk" =>
             Runs("zk", SubSeq(exits, 1, Len(exits) - 1))
  BY <1>1, PopRuns
<1>4. CASE InitSpdlog
  BY <1>1, <1>2, <1>3, <1>4 DEF InitSpdlog, Popped, AtExit, Made, Instance
<1>5. CASE InitLogger \/ ReadService \/ InitThreadAes \/ ReadServiceSocket \/ InitZkConfig
  BY <1>1, <1>2, <1>3, <1>5 DEF InitLogger, ReadService, InitThreadAes, ReadServiceSocket,
         InitZkConfig, Read, Popped, AtExit, Made, Instance
<1>6. CASE CreatePool \/ CreatePoolFails
  BY <1>1, <1>2, <1>3, <1>6 DEF CreatePool, CreatePoolFails, Popped, AtExit, Made, Instance
<1>7. CASE Create \/ SetSocketOption \/ Bind
  BY <1>1, <1>2, <1>3, <1>7 DEF Create, SetSocketOption, Bind, SocketStep, Popped, AtExit, Made,
         Instance
<1>8. CASE Listens
  BY <1>1, <1>2, <1>3, <1>8 DEF Listens, Popped, AtExit, Made, Instance
<1>9. CASE CreateCycle
  BY <1>1, <1>2, <1>3, <1>9 DEF CreateCycle, Popped, AtExit, Made, Instance
<1>10. CASE AddListenFd
  BY <1>1, <1>2, <1>3, <1>10 DEF AddListenFd, ReturnMinusOne, Popped, AtExit, Made, Instance
<1>11. CASE RegisterServices
  BY <1>1, <1>2, <1>3, <1>11 DEF RegisterServices, Popped, AtExit, Made, Instance
<1>12. CASE InitZkHandler
  BY <1>1, <1>2, <1>3, <1>12 DEF InitZkHandler, ReturnMinusOne, Empty, Popped, AtExit, Made,
         Instance
<1>13. CASE RegistryAllNode
  BY <1>1, <1>2, <1>3, <1>13 DEF RegistryAllNode, ReturnMinusOne, Popped, AtExit, Made, Instance
<1>14. CASE Publish \/ Begin
  BY <1>1, <1>2, <1>3, <1>14 DEF Publish, Begin, LoopBegins, Popped, AtExit, Made, Instance
<1>15. CASE LoopEnds \/ Serve \/ LoopThrows
  BY <1>1, <1>2, <1>3, <1>15 DEF LoopEnds, Serve, LoopThrows, Popped, AtExit, Made, Instance
<1>16. CASE Leave \/ Catch
  BY <1>1, <1>2, <1>3, <1>16 DEF Leave, Catch, DestroyCycle, Stop, Popped, AtExit, Made, Instance
<1>17. CASE CloseSocket
  BY <1>1, <1>2, <1>3, <1>17 DEF CloseSocket, Popped, AtExit, Made, Instance
<1>18. CASE CloseAll
  BY <1>1, <1>2, <1>3, <1>18 DEF CloseAll, Popped, AtExit, Made, Instance
<1>19. CASE StopPool
  BY <1>1, <1>2, <1>3, <1>19 DEF StopPool, Popped, AtExit, Made, Instance
<1>20. CASE CleanUp \/ LogOff
  BY <1>1, <1>2, <1>3, <1>20 DEF CleanUp, LogOff, ZkCleanUp, SessionCloses, Made, Popped, AtExit,
         Made, Instance
<1>21. CASE ExitZkHandler
  BY <1>1, <1>2, <1>3, <1>21 DEF ExitZkHandler, DestroyZkHandler, ZkCleanUp, SessionCloses,
         Popped, AtExit, Made, Instance
<1>22. CASE ExitConnectManage \/ ExitLogger \/ ExitLambda
  <2>1. UNCHANGED <<session, is_clean_up>>
    BY <1>22 DEF ExitConnectManage, ExitLogger, ExitLambda
  <2>2. AtExit("connects") \/ AtExit("logger") \/ AtExit("lambda")
    BY <1>22 DEF ExitConnectManage, ExitLogger, ExitLambda
  <2>3. exits' = exits \/ exits' = SubSeq(exits, 1, Len(exits) - 1)
    BY <1>22 DEF ExitConnectManage, ExitLogger, ExitLambda, Popped
  <2>4. Runs("zk", exits) => Runs("zk", exits')
    <3>1. exits # <<>> /\ exits[Len(exits)] # "zk"
      BY <2>2 DEF AtExit
    <3> QED BY <1>3, <2>3, <3>1
  <2> QED BY <2>1, <2>4
<1>23. CASE ExitEnds
  BY <1>1, <1>2, <1>3, <1>23 DEF ExitEnds, Popped, AtExit, Made, Instance
<1>24. CASE \E sig \in {"SIGINT", "SIGTERM"} : Signal(sig)
  BY <1>1, <1>2, <1>3, <1>24 DEF Signal, sigHandle, SignHandle, SignHandleLocks, Stop, Popped, AtExit, Made,
         Instance
<1>25. CASE UNCHANGED vars
  BY <1>1, <1>2, <1>3, <1>25 DEF vars, Popped, AtExit, Made, Instance
<1> QED BY <1>4, <1>5, <1>6, <1>7, <1>8, <1>9, <1>10, <1>11, <1>12, <1>13, <1>14, <1>15,
           <1>16, <1>17, <1>18, <1>19, <1>20, <1>21, <1>22, <1>23, <1>24, <1>25
     DEF Next, Proceed, Construct, GreacefulShutdown, Exit

\* Who ends has closed its session before.
LEMMA GoneInductive == ASSUME IInv, [Next]_vars PROVE GoneMeansUnlisted'
<1> USE DEF IInv, GoneMeansUnlisted, Built, Closing, At, Crash, main, flags, parts, zk,
            world
<1>1. exits = <<>> => ~Runs("zk", exits)
  BY DEF Runs
<1>2. session \in {"none", "open", "listed", "closed"}
  BY DEF TypeOK
<1>3. CASE InitSpdlog
  BY <1>1, <1>2, <1>3 DEF InitSpdlog, GetInstanceHangs
<1>4. CASE InitLogger \/ ReadService \/ InitThreadAes \/ ReadServiceSocket \/ InitZkConfig
  BY <1>1, <1>2, <1>4 DEF InitLogger, ReadService, InitThreadAes, ReadServiceSocket,
         InitZkConfig, Read, GetInstanceHangs
<1>5. CASE CreatePool \/ CreatePoolFails
  BY <1>1, <1>2, <1>5 DEF CreatePool, CreatePoolFails, GetInstanceHangs
<1>6. CASE Create \/ SetSocketOption \/ Bind
  BY <1>1, <1>2, <1>6 DEF Create, SetSocketOption, Bind, SocketStep, GetInstanceHangs
<1>7. CASE Listens
  BY <1>1, <1>2, <1>7 DEF Listens, GetInstanceHangs
<1>8. CASE CreateCycle
  BY <1>1, <1>2, <1>8 DEF CreateCycle, GetInstanceHangs
<1>9. CASE AddListenFd
  BY <1>1, <1>2, <1>9 DEF AddListenFd, ReturnMinusOne, GetInstanceHangs
<1>10. CASE RegisterServices
  BY <1>1, <1>2, <1>10 DEF RegisterServices, GetInstanceHangs
<1>11. CASE InitZkHandler
  BY <1>1, <1>2, <1>11 DEF InitZkHandler, ReturnMinusOne, Empty, GetInstanceHangs
<1>12. CASE RegistryAllNode
  BY <1>1, <1>2, <1>12 DEF RegistryAllNode, ReturnMinusOne, GetInstanceHangs
<1>13. CASE Publish \/ Begin
  BY <1>1, <1>2, <1>13 DEF Publish, Begin, LoopBegins, GetInstanceHangs
<1>14. CASE LoopEnds \/ Serve \/ LoopThrows
  BY <1>1, <1>2, <1>14 DEF LoopEnds, Serve, LoopThrows, GetInstanceHangs
<1>15. CASE Leave \/ Catch
  BY <1>1, <1>2, <1>15 DEF Leave, Catch, DestroyCycle, Stop, GetInstanceHangs
<1>16. CASE CloseSocket
  BY <1>1, <1>2, <1>16 DEF CloseSocket, GetInstanceHangs
<1>17. CASE CloseAll
  BY <1>1, <1>2, <1>17 DEF CloseAll, GetInstanceHangs
<1>18. CASE StopPool
  BY <1>1, <1>2, <1>18 DEF StopPool, GetInstanceHangs
<1>19. CASE CleanUp \/ LogOff
  BY <1>1, <1>2, <1>19 DEF CleanUp, LogOff, ZkCleanUp, SessionCloses, Made, GetInstanceHangs
<1>20. CASE ExitZkHandler
  BY <1>1, <1>2, <1>20 DEF ExitZkHandler, DestroyZkHandler, ZkCleanUp, SessionCloses,
         GetInstanceHangs
<1>21. CASE ExitConnectManage \/ ExitLogger \/ ExitLambda
  BY <1>1, <1>2, <1>21 DEF ExitConnectManage, ExitLogger, ExitLambda, GetInstanceHangs
<1>22. CASE ExitEnds
  BY <1>1, <1>2, <1>22 DEF ExitEnds, GetInstanceHangs
<1>23. CASE \E sig \in {"SIGINT", "SIGTERM"} : Signal(sig)
  <2>1. CASE SignHandleLocks
    <3>1. life'["socket"] = SocketClosed
      BY <2>1, TypeIs DEF SignHandleLocks, Lives, Part
    <3>2. watched /\ life'["socket"] # "live"
      BY <2>1, <3>1 DEF SignHandleLocks, SocketClosed
    <3> QED BY <2>1, <3>2 DEF SignHandleLocks
  <2>2. CASE outcome = "running" /\ outcome' \in {"running", "crashed"} /\ UNCHANGED session
    BY <2>2
  <2> QED BY <1>23, <2>1, <2>2 DEF Signal, sigHandle, SignHandle
<1>24. CASE UNCHANGED vars
  BY <1>1, <1>2, <1>24 DEF vars, GetInstanceHangs
<1> QED BY <1>3, <1>4, <1>5, <1>6, <1>7, <1>8, <1>9, <1>10, <1>11, <1>12, <1>13, <1>14,
           <1>15, <1>16, <1>17, <1>18, <1>19, <1>20, <1>21, <1>22, <1>23, <1>24
     DEF Next, Proceed, Construct, GreacefulShutdown, Exit

-----------------------------------------------------------------------------
(* The types, a few variables at a time.                                   *)

Marks ==
  /\ pc \in {"config", "logger", "service", "thread_aes", "service_socket", "zk_config",
             "pool", "socket", "option", "bind", "listening", "cycle", "listen", "services",
             "zk", "register", "publish", "begin", "loop", "thrown", "leave", "close_socket",
             "close_all", "stop_pool", "clean_up", "log_off", "exit"}
  /\ during \in {"none", "main", "catch", "atexit"} /\ code \in {0, -1}
  /\ outcome \in {"running", "exited", "failed", "crashed", "hung", "locked"}

Flags ==
  /\ g_shutdown_requested \in BOOLEAN /\ g_manager_cycle \in BOOLEAN /\ is_stop \in BOOLEAN
  /\ is_running \in BOOLEAN /\ watched \in BOOLEAN
  /\ clients \in BOOLEAN /\ stuck \in BOOLEAN
  /\ on_int \in {"SignHandle", "sigHandle"} /\ signals \in 0..MaxSignals

Session ==
  is_clean_up \in BOOLEAN /\ session \in {"none", "open", "listed", "closed"}

Parts == loaded \subseteq Config /\ life \in [Part -> Life]

Exits == exits \in Seq(Handlers)

\* The types are these.
LEMMA TypePieces == TypeOK <=> Marks /\ Flags /\ Session /\ Parts /\ Exits
BY DEF TypeOK, Marks, Flags, Session, Parts, Exits, Handlers

\* Where the process is.
LEMMA MarksInductive == ASSUME IInv, [Next]_vars PROVE Marks'
<1> USE DEF IInv, Marks, At, Crash, main, flags, parts, zk, world
<1>1. Marks
  BY TypePieces
<1>2. CASE InitSpdlog
  BY <1>1, <1>2 DEF InitSpdlog, AtExit
<1>3. CASE InitLogger \/ ReadService \/ InitThreadAes \/ ReadServiceSocket \/ InitZkConfig
  BY <1>1, <1>3 DEF InitLogger, ReadService, InitThreadAes, ReadServiceSocket, InitZkConfig,
         Read, AtExit
<1>4. CASE CreatePool \/ CreatePoolFails
  BY <1>1, <1>4 DEF CreatePool, CreatePoolFails, AtExit
<1>5. CASE Create \/ SetSocketOption \/ Bind
  BY <1>1, <1>5 DEF Create, SetSocketOption, Bind, SocketStep, AtExit
<1>6. CASE Listens
  BY <1>1, <1>6 DEF Listens, AtExit
<1>7. CASE CreateCycle
  BY <1>1, <1>7 DEF CreateCycle, AtExit
<1>8. CASE AddListenFd
  BY <1>1, <1>8 DEF AddListenFd, ReturnMinusOne, AtExit
<1>9. CASE RegisterServices
  BY <1>1, <1>9 DEF RegisterServices, AtExit
<1>10. CASE InitZkHandler
  BY <1>1, <1>10 DEF InitZkHandler, ReturnMinusOne, Empty, AtExit
<1>11. CASE RegistryAllNode
  BY <1>1, <1>11 DEF RegistryAllNode, ReturnMinusOne, AtExit
<1>12. CASE Publish \/ Begin
  BY <1>1, <1>12 DEF Publish, Begin, LoopBegins, AtExit
<1>13. CASE LoopEnds \/ Serve \/ LoopThrows
  BY <1>1, <1>13 DEF LoopEnds, Serve, LoopThrows, AtExit
<1>14. CASE Leave \/ Catch
  BY <1>1, <1>14 DEF Leave, Catch, DestroyCycle, Stop, AtExit
<1>15. CASE CloseSocket
  BY <1>1, <1>15 DEF CloseSocket, AtExit
<1>16. CASE CloseAll
  BY <1>1, <1>16 DEF CloseAll, AtExit
<1>17. CASE StopPool
  BY <1>1, <1>17 DEF StopPool, AtExit
<1>18. CASE CleanUp \/ LogOff
  BY <1>1, <1>18 DEF CleanUp, LogOff, ZkCleanUp, SessionCloses, Made, AtExit
<1>19. CASE ExitZkHandler
  BY <1>1, <1>19 DEF ExitZkHandler, DestroyZkHandler, ZkCleanUp, SessionCloses, AtExit
<1>20. CASE ExitConnectManage \/ ExitLogger \/ ExitLambda
  BY <1>1, <1>20 DEF ExitConnectManage, ExitLogger, ExitLambda, AtExit
<1>21. CASE ExitEnds
  BY <1>1, <1>21 DEF ExitEnds, AtExit
<1>22. CASE \E sig \in {"SIGINT", "SIGTERM"} : Signal(sig)
  BY <1>1, <1>22 DEF Signal, sigHandle, SignHandle, SignHandleLocks, Stop, AtExit
<1>23. CASE UNCHANGED vars
  BY <1>1, <1>23 DEF vars, AtExit
<1> QED BY <1>2, <1>3, <1>4, <1>5, <1>6, <1>7, <1>8, <1>9, <1>10, <1>11, <1>12, <1>13, <1>14,
           <1>15, <1>16, <1>17, <1>18, <1>19, <1>20, <1>21, <1>22, <1>23
     DEF Next, Proceed, Construct, GreacefulShutdown, Exit

\* What is set and cleared.
LEMMA FlagsInductive == ASSUME IInv, [Next]_vars PROVE Flags'
<1> USE DEF IInv, Flags, At, Crash, main, flags, parts, zk, world
<1>1. Flags
  BY TypePieces
<1>2. MaxSignals \in Nat
  BY WorldAssumption
<1>3. CASE InitSpdlog
  BY <1>1, <1>2, <1>3 DEF InitSpdlog
<1>4. CASE InitLogger \/ ReadService \/ InitThreadAes \/ ReadServiceSocket \/ InitZkConfig
  BY <1>1, <1>2, <1>4 DEF InitLogger, ReadService, InitThreadAes, ReadServiceSocket,
         InitZkConfig, Read
<1>5. CASE CreatePool \/ CreatePoolFails
  BY <1>1, <1>2, <1>5 DEF CreatePool, CreatePoolFails
<1>6. CASE Create \/ SetSocketOption \/ Bind
  BY <1>1, <1>2, <1>6 DEF Create, SetSocketOption, Bind, SocketStep
<1>7. CASE Listens
  BY <1>1, <1>2, <1>7 DEF Listens
<1>8. CASE CreateCycle
  BY <1>1, <1>2, <1>8 DEF CreateCycle
<1>9. CASE AddListenFd
  BY <1>1, <1>2, <1>9 DEF AddListenFd, ReturnMinusOne
<1>10. CASE RegisterServices
  BY <1>1, <1>2, <1>10 DEF RegisterServices
<1>11. CASE InitZkHandler
  BY <1>1, <1>2, <1>11 DEF InitZkHandler, ReturnMinusOne, Empty
<1>12. CASE RegistryAllNode
  BY <1>1, <1>2, <1>12 DEF RegistryAllNode, ReturnMinusOne
<1>13. CASE Publish \/ Begin
  BY <1>1, <1>2, <1>13 DEF Publish, Begin, LoopBegins
<1>14. CASE LoopEnds \/ Serve \/ LoopThrows
  BY <1>1, <1>2, <1>14 DEF LoopEnds, Serve, LoopThrows
<1>15. CASE Leave \/ Catch
  BY <1>1, <1>2, <1>15 DEF Leave, Catch, DestroyCycle, Stop
<1>16. CASE CloseSocket
  BY <1>1, <1>2, <1>16 DEF CloseSocket
<1>17. CASE CloseAll
  BY <1>1, <1>2, <1>17 DEF CloseAll
<1>18. CASE StopPool
  BY <1>1, <1>2, <1>18 DEF StopPool
<1>19. CASE CleanUp \/ LogOff
  BY <1>1, <1>2, <1>19 DEF CleanUp, LogOff, ZkCleanUp, SessionCloses, Made
<1>20. CASE ExitZkHandler
  BY <1>1, <1>2, <1>20 DEF ExitZkHandler, DestroyZkHandler, ZkCleanUp, SessionCloses
<1>21. CASE ExitConnectManage \/ ExitLogger \/ ExitLambda
  BY <1>1, <1>2, <1>21 DEF ExitConnectManage, ExitLogger, ExitLambda
<1>22. CASE ExitEnds
  BY <1>1, <1>2, <1>22 DEF ExitEnds
<1>23. CASE \E sig \in {"SIGINT", "SIGTERM"} : Signal(sig)
  <2>1. signals' \in 0..MaxSignals
    BY <1>1, <1>2, <1>23 DEF Signal
  <2>2. PICK sig \in {"SIGINT", "SIGTERM"} : Signal(sig)
    BY <1>23
  <2>3. CASE sigHandle
    BY <1>1, <2>1, <2>3 DEF sigHandle
  <2>4. CASE SignHandle
    BY <1>1, <2>1, <2>4 DEF SignHandle, SignHandleLocks, Stop
  <2> QED BY <2>2, <2>3, <2>4 DEF Signal
<1>24. CASE UNCHANGED vars
  BY <1>1, <1>2, <1>24 DEF vars
<1> QED BY <1>3, <1>4, <1>5, <1>6, <1>7, <1>8, <1>9, <1>10, <1>11, <1>12, <1>13, <1>14,
           <1>15, <1>16, <1>17, <1>18, <1>19, <1>20, <1>21, <1>22, <1>23, <1>24
     DEF Next, Proceed, Construct, GreacefulShutdown, Exit

\* The session with ZooKeeper.
LEMMA SessionInductive == ASSUME IInv, [Next]_vars PROVE Session'
<1> USE DEF IInv, Session, At, Crash, main, flags, parts, zk, world
<1>1. Session
  BY TypePieces
<1>2. CASE InitSpdlog
  BY <1>1, <1>2 DEF InitSpdlog
<1>3. CASE InitLogger \/ ReadService \/ InitThreadAes \/ ReadServiceSocket \/ InitZkConfig
  BY <1>1, <1>3 DEF InitLogger, ReadService, InitThreadAes, ReadServiceSocket, InitZkConfig, Read
<1>4. CASE CreatePool \/ CreatePoolFails
  BY <1>1, <1>4 DEF CreatePool, CreatePoolFails
<1>5. CASE Create \/ SetSocketOption \/ Bind
  BY <1>1, <1>5 DEF Create, SetSocketOption, Bind, SocketStep
<1>6. CASE Listens
  BY <1>1, <1>6 DEF Listens
<1>7. CASE CreateCycle
  BY <1>1, <1>7 DEF CreateCycle
<1>8. CASE AddListenFd
  BY <1>1, <1>8 DEF AddListenFd, ReturnMinusOne
<1>9. CASE RegisterServices
  BY <1>1, <1>9 DEF RegisterServices
<1>10. CASE InitZkHandler
  BY <1>1, <1>10 DEF InitZkHandler, ReturnMinusOne, Empty
<1>11. CASE RegistryAllNode
  BY <1>1, <1>11 DEF RegistryAllNode, ReturnMinusOne
<1>12. CASE Publish \/ Begin
  BY <1>1, <1>12 DEF Publish, Begin, LoopBegins
<1>13. CASE LoopEnds \/ Serve \/ LoopThrows
  BY <1>1, <1>13 DEF LoopEnds, Serve, LoopThrows
<1>14. CASE Leave \/ Catch
  BY <1>1, <1>14 DEF Leave, Catch, DestroyCycle, Stop
<1>15. CASE CloseSocket
  BY <1>1, <1>15 DEF CloseSocket
<1>16. CASE CloseAll
  BY <1>1, <1>16 DEF CloseAll
<1>17. CASE StopPool
  BY <1>1, <1>17 DEF StopPool
<1>18. CASE CleanUp \/ LogOff
  BY <1>1, <1>18 DEF CleanUp, LogOff, ZkCleanUp, SessionCloses, Made
<1>19. CASE ExitZkHandler
  BY <1>1, <1>19 DEF ExitZkHandler, DestroyZkHandler, ZkCleanUp, SessionCloses
<1>20. CASE ExitConnectManage \/ ExitLogger \/ ExitLambda
  BY <1>1, <1>20 DEF ExitConnectManage, ExitLogger, ExitLambda
<1>21. CASE ExitEnds
  BY <1>1, <1>21 DEF ExitEnds
<1>22. CASE \E sig \in {"SIGINT", "SIGTERM"} : Signal(sig)
  BY <1>1, <1>22 DEF Signal, sigHandle, SignHandle, SignHandleLocks, Stop
<1>23. CASE UNCHANGED vars
  BY <1>1, <1>23 DEF vars
<1> QED BY <1>2, <1>3, <1>4, <1>5, <1>6, <1>7, <1>8, <1>9, <1>10, <1>11, <1>12, <1>13, <1>14,
           <1>15, <1>16, <1>17, <1>18, <1>19, <1>20, <1>21, <1>22, <1>23
     DEF Next, Proceed, Construct, GreacefulShutdown, Exit

\* What was read and made.
LEMMA PartsInductive == ASSUME IInv, [Next]_vars PROVE Parts'
<1> USE DEF IInv, Parts, At, Crash, main, flags, parts, zk, world
<1>1. Parts
  BY TypePieces
<1>2. \A p \in Part : life[p] \in Life /\ \A l \in Life : [life EXCEPT ![p] = l] \in [Part -> Life]
  BY <1>1
<1>3. "none" \in Life /\ "live" \in Life /\ "closed" \in Life /\ "dead" \in Life
  BY DEF Life
<1>4. /\ "logger" \in Part /\ "pool" \in Part /\ "socket" \in Part /\ "connects" \in Part
      /\ "cycle" \in Part /\ "services" \in Part /\ "zk" \in Part
  BY DEF Part
<1>5. SocketClosed \in Life
  BY <1>2, <1>3, <1>4 DEF SocketClosed
<1>6. \A p, q \in Part : \A l, m \in Life : [life EXCEPT ![p] = l, ![q] = m] \in [Part -> Life]
  BY <1>1
<1>7. CASE InitSpdlog
  BY <1>1, <1>2, <1>3, <1>4, <1>5, <1>6, <1>7 DEF InitSpdlog, Lives
<1>8. CASE InitLogger \/ ReadService \/ InitThreadAes \/ ReadServiceSocket \/ InitZkConfig
  <2>1. life' = life
    BY <1>8 DEF InitLogger, ReadService, InitThreadAes, ReadServiceSocket, InitZkConfig, Read
  <2>2. loaded' \subseteq Config
    <3>1. CASE InitLogger
      BY <1>1, <3>1 DEF InitLogger, Read, Config
    <3>2. CASE ReadService
      BY <1>1, <3>2 DEF ReadService, Read, Config
    <3>3. CASE InitThreadAes
      BY <1>1, <3>3 DEF InitThreadAes, Read, Config
    <3>4. CASE ReadServiceSocket
      BY <1>1, <3>4 DEF ReadServiceSocket, Read, Config
    <3>5. CASE InitZkConfig
      BY <1>1, <3>5 DEF InitZkConfig, Read, Config
    <3> QED BY <1>8, <3>1, <3>2, <3>3, <3>4, <3>5
  <2> QED BY <1>1, <2>1, <2>2
<1>9. CASE CreatePool
  BY <1>1, <1>2, <1>3, <1>4, <1>5, <1>6, <1>9 DEF CreatePool, Lives
<1>10. CASE CreatePoolFails
  BY <1>1, <1>2, <1>3, <1>4, <1>5, <1>6, <1>10 DEF CreatePoolFails, Lives
<1>11. CASE Create \/ SetSocketOption \/ Bind
  BY <1>1, <1>2, <1>3, <1>4, <1>5, <1>6, <1>11 DEF Create, SetSocketOption, Bind, SocketStep
<1>12. CASE Listens
  BY <1>1, <1>2, <1>3, <1>4, <1>5, <1>6, <1>12 DEF Listens, Lives
<1>13. CASE CreateCycle
  BY <1>1, <1>2, <1>3, <1>4, <1>5, <1>6, <1>13 DEF CreateCycle, Lives
<1>14. CASE AddListenFd
  BY <1>1, <1>2, <1>3, <1>4, <1>5, <1>6, <1>14 DEF AddListenFd, ReturnMinusOne
<1>15. CASE RegisterServices
  BY <1>1, <1>2, <1>3, <1>4, <1>5, <1>6, <1>15 DEF RegisterServices, Lives
<1>16. CASE InitZkHandler
  BY <1>1, <1>2, <1>3, <1>4, <1>5, <1>6, <1>16 DEF InitZkHandler, ReturnMinusOne, Empty, Lives
<1>17. CASE RegistryAllNode
  BY <1>1, <1>2, <1>3, <1>4, <1>5, <1>6, <1>17 DEF RegistryAllNode, ReturnMinusOne
<1>18. CASE Publish \/ Begin
  BY <1>1, <1>2, <1>3, <1>4, <1>5, <1>6, <1>18 DEF Publish, Begin, LoopBegins
<1>19. CASE LoopEnds \/ Serve \/ LoopThrows
  BY <1>1, <1>2, <1>3, <1>4, <1>5, <1>6, <1>19 DEF LoopEnds, Serve, LoopThrows
<1>20. CASE Leave
  BY <1>1, <1>2, <1>3, <1>4, <1>5, <1>6, <1>20 DEF Leave, DestroyCycle
<1>21. CASE Catch
  BY <1>1, <1>2, <1>3, <1>4, <1>5, <1>6, <1>21 DEF Catch, DestroyCycle
<1>22. CASE CloseSocket
  BY <1>1, <1>2, <1>3, <1>4, <1>5, <1>6, <1>22 DEF CloseSocket
<1>23. CASE CloseAll
  BY <1>1, <1>2, <1>3, <1>4, <1>5, <1>6, <1>23 DEF CloseAll
<1>24. CASE StopPool
  BY <1>1, <1>2, <1>3, <1>4, <1>5, <1>6, <1>24 DEF StopPool, Lives
<1>25. CASE CleanUp
  BY <1>1, <1>2, <1>3, <1>4, <1>5, <1>6, <1>25 DEF CleanUp, ZkCleanUp, SessionCloses, Made, Lives
<1>26. CASE LogOff
  BY <1>1, <1>2, <1>3, <1>4, <1>5, <1>6, <1>26 DEF LogOff, ZkCleanUp, SessionCloses, Made, Lives
<1>27. CASE ExitZkHandler
  BY <1>1, <1>2, <1>3, <1>4, <1>5, <1>6, <1>27 DEF ExitZkHandler, DestroyZkHandler, ZkCleanUp,
         SessionCloses, Lives
<1>28. CASE ExitConnectManage
  BY <1>1, <1>2, <1>3, <1>4, <1>5, <1>6, <1>28 DEF ExitConnectManage, Lives
<1>29. CASE ExitLogger
  BY <1>1, <1>2, <1>3, <1>4, <1>5, <1>6, <1>29 DEF ExitLogger, Lives
<1>30. CASE ExitLambda
  BY <1>1, <1>2, <1>3, <1>4, <1>5, <1>6, <1>30 DEF ExitLambda, Lives
<1>31. CASE ExitEnds
  BY <1>1, <1>2, <1>3, <1>4, <1>5, <1>6, <1>31 DEF ExitEnds
<1>32. CASE \E sig \in {"SIGINT", "SIGTERM"} : Signal(sig)
  BY <1>1, <1>2, <1>3, <1>4, <1>5, <1>6, <1>32 DEF Signal, sigHandle, SignHandle, SignHandleLocks, Lives
<1>33. CASE UNCHANGED vars
  BY <1>1, <1>2, <1>3, <1>4, <1>5, <1>6, <1>33 DEF vars
<1> QED BY <1>7, <1>8, <1>9, <1>10, <1>11, <1>12, <1>13, <1>14, <1>15, <1>16, <1>17, <1>18,
           <1>19, <1>20, <1>21, <1>22, <1>23, <1>24, <1>25, <1>26, <1>27, <1>28, <1>29,
           <1>30, <1>31, <1>32, <1>33
     DEF Next, Proceed, Construct, GreacefulShutdown, Exit

\* What exit() runs.
LEMMA ExitsInductive == ASSUME IInv, [Next]_vars PROVE Exits'
<1> USE DEF IInv, Exits, At, Crash, main, flags, parts, zk, world
<1>1. exits \in Seq(Handlers)
  BY TypePieces
<1>2. \A h \in Handlers : Append(exits, h) \in Seq(Handlers)
  BY <1>1, AppendRuns
<1>3. exits # <<>> => SubSeq(exits, 1, Len(exits) - 1) \in Seq(Handlers)
  BY <1>1, PopRuns
<1>4. CASE InitSpdlog
  BY <1>1, <1>2, <1>3, <1>4 DEF InitSpdlog, Popped, AtExit, Made, Instance, Handlers
<1>5. CASE InitLogger \/ ReadService \/ InitThreadAes \/ ReadServiceSocket \/ InitZkConfig
  BY <1>1, <1>2, <1>3, <1>5 DEF InitLogger, ReadService, InitThreadAes, ReadServiceSocket,
         InitZkConfig, Read, Popped, AtExit, Made, Instance, Handlers
<1>6. CASE CreatePool \/ CreatePoolFails
  BY <1>1, <1>2, <1>3, <1>6 DEF CreatePool, CreatePoolFails, Popped, AtExit, Made, Instance,
         Handlers
<1>7. CASE Create \/ SetSocketOption \/ Bind
  BY <1>1, <1>2, <1>3, <1>7 DEF Create, SetSocketOption, Bind, SocketStep, Popped, AtExit, Made,
         Instance, Handlers
<1>8. CASE Listens
  BY <1>1, <1>2, <1>3, <1>8 DEF Listens, Popped, AtExit, Made, Instance, Handlers
<1>9. CASE CreateCycle
  BY <1>1, <1>2, <1>3, <1>9 DEF CreateCycle, Popped, AtExit, Made, Instance, Handlers
<1>10. CASE AddListenFd
  BY <1>1, <1>2, <1>3, <1>10 DEF AddListenFd, ReturnMinusOne, Popped, AtExit, Made, Instance,
         Handlers
<1>11. CASE RegisterServices
  BY <1>1, <1>2, <1>3, <1>11 DEF RegisterServices, Popped, AtExit, Made, Instance, Handlers
<1>12. CASE InitZkHandler
  BY <1>1, <1>2, <1>3, <1>12 DEF InitZkHandler, ReturnMinusOne, Empty, Popped, AtExit, Made,
         Instance, Handlers
<1>13. CASE RegistryAllNode
  BY <1>1, <1>2, <1>3, <1>13 DEF RegistryAllNode, ReturnMinusOne, Popped, AtExit, Made, Instance,
         Handlers
<1>14. CASE Publish \/ Begin
  BY <1>1, <1>2, <1>3, <1>14 DEF Publish, Begin, LoopBegins, Popped, AtExit, Made, Instance,
         Handlers
<1>15. CASE LoopEnds \/ Serve \/ LoopThrows
  BY <1>1, <1>2, <1>3, <1>15 DEF LoopEnds, Serve, LoopThrows, Popped, AtExit, Made, Instance,
         Handlers
<1>16. CASE Leave \/ Catch
  BY <1>1, <1>2, <1>3, <1>16 DEF Leave, Catch, DestroyCycle, Stop, Popped, AtExit, Made,
         Instance, Handlers
<1>17. CASE CloseSocket
  BY <1>1, <1>2, <1>3, <1>17 DEF CloseSocket, Popped, AtExit, Made, Instance, Handlers
<1>18. CASE CloseAll
  BY <1>1, <1>2, <1>3, <1>18 DEF CloseAll, Popped, AtExit, Made, Instance, Handlers
<1>19. CASE StopPool
  BY <1>1, <1>2, <1>3, <1>19 DEF StopPool, Popped, AtExit, Made, Instance, Handlers
<1>20. CASE CleanUp \/ LogOff
  BY <1>1, <1>2, <1>3, <1>20 DEF CleanUp, LogOff, ZkCleanUp, SessionCloses, Made, Popped, AtExit,
         Made, Instance, Handlers
<1>21. CASE ExitZkHandler
  BY <1>1, <1>2, <1>3, <1>21 DEF ExitZkHandler, DestroyZkHandler, ZkCleanUp, SessionCloses,
         Popped, AtExit, Made, Instance, Handlers
<1>22. CASE ExitConnectManage \/ ExitLogger \/ ExitLambda
  BY <1>1, <1>2, <1>3, <1>22 DEF ExitConnectManage, ExitLogger, ExitLambda, Popped, AtExit, Made,
         Instance, Handlers
<1>23. CASE ExitEnds
  BY <1>1, <1>2, <1>3, <1>23 DEF ExitEnds, Popped, AtExit, Made, Instance, Handlers
<1>24. CASE \E sig \in {"SIGINT", "SIGTERM"} : Signal(sig)
  BY <1>1, <1>2, <1>3, <1>24 DEF Signal, sigHandle, SignHandle, SignHandleLocks, Stop, Popped, AtExit, Made,
         Instance, Handlers
<1>25. CASE UNCHANGED vars
  BY <1>1, <1>2, <1>3, <1>25 DEF vars, Popped, AtExit, Made, Instance, Handlers
<1> QED BY <1>4, <1>5, <1>6, <1>7, <1>8, <1>9, <1>10, <1>11, <1>12, <1>13, <1>14, <1>15,
           <1>16, <1>17, <1>18, <1>19, <1>20, <1>21, <1>22, <1>23, <1>24, <1>25
     DEF Next, Proceed, Construct, GreacefulShutdown, Exit

\* The types.
LEMMA TypeInductive == ASSUME IInv, [Next]_vars PROVE TypeOK'
<1>1. Marks' /\ Flags' /\ Session' /\ Parts' /\ Exits'
  BY MarksInductive, FlagsInductive, SessionInductive, PartsInductive, ExitsInductive
<1> QED BY <1>1 DEF TypeOK, Marks, Flags, Session, Parts, Exits, Handlers

-----------------------------------------------------------------------------
(* The theorems.                                                           *)

\* A process that has read and made nothing satisfies the invariant.
LEMMA InitInvariant == Init => IInv
<1> SUFFICES ASSUME Init PROVE IInv
  OBVIOUS
<1>1. MaxSignals \in Nat
  BY WorldAssumption
<1>2. TypeOK
  <2>1. Marks /\ Session /\ Parts
    BY DEF Init, Marks, Session, Parts, Part, Life
  <2>2. Flags
    <3>1. signals \in 0..MaxSignals
      BY <1>1 DEF Init
    <3> QED BY <3>1 DEF Init, Flags
  <2>3. Exits
    <3>1. exits = <<"lambda">> /\ "lambda" \in Handlers
      BY DEF Init, Handlers
    <3> QED BY <3>1 DEF Exits
  <2> QED BY <2>1, <2>2, <2>3, TypePieces
<1>3. Reading /\ Built /\ Untouched /\ Up /\ Closing /\ GoneMeansUnlisted
  BY DEF Init, Reading, Has, Built, Untouched, Up, Closing, GoneMeansUnlisted, Constructing,
         Pooled, Listening, Cycled, Watching, Serviced, Registering
<1> QED BY <1>2, <1>3 DEF IInv

\* Whatever fails and whenever signals come, main and the handlers keep the invariant.
THEOREM Invariance == Spec => []IInv
<1>1. IInv /\ [Next]_vars => IInv'
  <2> SUFFICES ASSUME IInv, [Next]_vars PROVE IInv'
    OBVIOUS
  <2>1. TypeOK' /\ Reading' /\ Built' /\ Untouched'
    BY TypeInductive, ReadingInductive, BuiltInductive, UntouchedInductive
  <2>2. Up' /\ Closing' /\ GoneMeansUnlisted'
    BY UpInductive, ClosingInductive, GoneInductive
  <2> QED BY <2>1, <2>2 DEF IInv
<1> QED BY InitInvariant, <1>1, PTL DEF Spec

\* The state of the process has its types.
THEOREM TypeCorrect == Spec => []TypeOK
<1>1. IInv => TypeOK
  BY DEF IInv
<1> QED BY <1>1, Invariance, PTL

\* A server that clients are sent to, and that nobody has stopped, is able to
\* serve them, and has read all of its configuration but the end of ZooKeeper's,
\* whichever step of main has failed before.
THEOREM WhoIsListedServes == Spec => []ListedServes
<1>1. IInv => ListedServes
  BY DEF IInv, Up, Reading, Has, ListedServes, Config
<1> QED BY <1>1, Invariance, PTL

\* A process that ends by itself has closed its session.  One that waits in a
\* shutdown while it is listed waits for a task, and one whose SIGTERM handler
\* waits for its own thread has closed its listening socket.
THEOREM WhoEndsIsUnlisted == Spec => []GoneMeansUnlisted
<1>1. IInv => GoneMeansUnlisted
  BY DEF IInv
<1> QED BY <1>1, Invariance, PTL

=============================================================================
