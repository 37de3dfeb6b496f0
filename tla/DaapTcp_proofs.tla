--------------------------- MODULE DaapTcp_proofs ---------------------------
(***************************************************************************)
(* Proofs about the TLS transport, for any number of threads, lines and    *)
(* descriptors, and any number of references an SSL object holds.          *)
(***************************************************************************)
EXTENDS DaapTcp, SequenceTheorems, TLAPS

(* Where a thread holds write_mutex, apart from daapShutdownSSL().         *)
Holding == {"socket", "fail", "unlock"} \cup Connected

(* Who holds write_mutex, and what a thread is writing.                    *)
IMutex ==
    \A t \in Threads :
        /\ tpc[t] \in Holding => write_mutex = t
        /\ tpc[t] \in {"out", "lock"} => write_mutex # t
        /\ tpc[t] \in Shutdown /\ write_mutex # t => shutting
        /\ tpc[t] = "lock" \/ write_mutex = t => line[t] \in Lines

(* The socket and the SSL object of the write in progress.                 *)
ISocket ==
    proc = "running" => \A t \in Threads :
        /\ tpc[t] \in Connected => sockfd \in Fds /\ fds[sockfd] = "log"
        /\ tpc[t] \in {"handshake", "write", "close"} => cSSL.fd = sockfd
        /\ ~shutting /\ tpc[t] \in {"handshake", "write"} \cup Shutdown =>
               /\ cSSL.obj \in {"live", "shut"}
               /\ cSSL.fd = sockfd
               /\ sockfd \in Fds
               /\ fds[sockfd] = "log"

(* Without a context nothing was ever sent.                                *)
INoContext ==
    sslctx # "made" =>
        /\ hsFails = 0
        /\ writes = 0
        /\ \A t \in Threads :
               /\ tpc[t] \notin {"handshake", "write", "close"}
               /\ tpc[t] \in Shutdown => write_mutex # t

(* The references to the context a thread at location l is responsible for *)
(* on top of those of finished writes.                                     *)
Extra(l) ==
    IF l = "sd_ctx" THEN SSLRefs + 1
    ELSE IF l \in {"handshake", "write", "close", "sd_notify", "sd_free"} THEN SSLRefs
    ELSE 0

(* Until daapFinalize(): the count of references, exactly.                 *)
IRefs ==
    proc = "running" /\ ~shutting /\ sslctx = "made" =>
        /\ write_mutex = NoThread => ctxRefs + hsFails = 1 + SSLRefs * writes
        /\ \A t \in Threads : write_mutex = t =>
               ctxRefs + hsFails = 1 + SSLRefs * writes + Extra(tpc[t])

(* A socket carries something only between SSL_write() and close().        *)
IStream ==
    proc = "running" => \A f \in Fds :
        carried[f] # <<>> => f = sockfd /\ \E t \in Threads : tpc[t] = "close"

IInv ==
    /\ TypeOK
    /\ IMutex
    /\ ISocket
    /\ INoContext
    /\ IRefs
    /\ IStream
    /\ OneLinePerStream
    /\ UndefinedOnlyAfterFailures

-----------------------------------------------------------------------------
(* Initially everything is free and nothing was sent.                      *)
LEMMA InitInv == InitTcp => IInv
<1> SUFFICES ASSUME InitTcp PROVE IInv
  OBVIOUS
<1> USE TcpAssumption DEF InitTcp
<1>1. TypeOK
  BY EmptySeq DEF TypeOK, Locations
<1>2. IMutex /\ ISocket
  BY DEF IMutex, ISocket, Holding, Connected, Shutdown
<1>3. INoContext /\ IRefs
  BY DEF INoContext, IRefs
<1>4. IStream /\ OneLinePerStream /\ UndefinedOnlyAfterFailures
  BY DEF IStream, OneLinePerStream, UndefinedOnlyAfterFailures
<1>5. QED
  BY <1>1, <1>2, <1>3, <1>4 DEF IInv

(* Every step keeps the types.  SSL_write() appends a line because the     *)
(* holder of write_mutex has one; close() reads an open descriptor.        *)
LEMMA TypeStep == IInv /\ [Next]_vars => TypeOK'
<1> SUFFICES ASSUME IInv, [Next]_vars PROVE TypeOK'
  OBVIOUS
<1> USE TcpAssumption DEF IInv
<1>1. CASE daapInitializeSSL
  BY <1>1 DEF daapInitializeSSL, netVars, TypeOK, Locations, Connected, Shutdown, Holding
<1>2. CASE AppOpen
  BY <1>2 DEF AppOpen, LowestFree, tcpVars, netVars, TypeOK, Locations, Connected, Shutdown,
      Holding
<1>3. CASE AppClose
  BY <1>3 DEF AppClose, tcpVars, netVars, TypeOK, Locations, Connected, Shutdown, Holding
<1>4. CASE Reap
  BY <1>4 DEF Reap, TypeOK, Locations, Connected, Shutdown, Holding
<1>5. CASE Receive
  BY <1>5 DEF Receive, tcpVars, TypeOK, Locations, Connected, Shutdown, Holding
<1>6. CASE Lose
  BY <1>6 DEF Lose, tcpVars, TypeOK, Locations, Connected, Shutdown, Holding
<1>7. CASE CallerFault
  BY <1>7 DEF CallerFault, Stop, tcpVars, netVars, TypeOK, Locations, Connected, Shutdown,
      Holding
<1>8. ASSUME NEW t \in Threads, NEW l \in Lines, daapTCPLogWrite(t, l)
      PROVE  TypeOK'
  BY <1>8 DEF daapTCPLogWrite, At, Goto, netVars, TypeOK, Locations, Connected, Shutdown,
      Holding
<1>9. ASSUME NEW t \in Threads, daapShutdownSSL(t) PROVE TypeOK'
  BY <1>9 DEF daapShutdownSSL, At, Goto, netVars, TypeOK, Locations, Connected, Shutdown,
      Holding
<1>10. ASSUME NEW t \in Threads, LockWrite(t) PROVE TypeOK'
  BY <1>10 DEF LockWrite, At, Goto, netVars, TypeOK, Locations, Connected, Shutdown, Holding
<1>11. ASSUME NEW t \in Threads, Socket(t) PROVE TypeOK'
  BY <1>11 DEF Socket, LowestFree, At, Goto, netVars, TypeOK, Locations, Connected,
      Shutdown, Holding
<1>12. ASSUME NEW t \in Threads, Connect(t) PROVE TypeOK'
  BY <1>12 DEF Connect, At, Goto, netVars, TypeOK, Locations, Connected, Shutdown, Holding
<1>13. ASSUME NEW t \in Threads, SSLNew(t) PROVE TypeOK'
  <2>1. cSSL' \in [obj : {"null", "live", "shut", "freed"}, fd : Fds \cup {-1}]
    BY <1>13 DEF SSLNew, Stop, tcpVars, TypeOK
  <2>2. ctxRefs' \in Nat
    BY <1>13 DEF SSLNew, Stop, tcpVars, TypeOK
  <2>3. tpc' \in [Threads -> Locations]
    BY <1>13 DEF SSLNew, Goto, Stop, tcpVars, TypeOK, Locations, Connected
  <2>4. proc' \in {"running", "stopped", "undefined"}
    BY <1>13 DEF SSLNew, Stop, TypeOK
  <2>5. UNCHANGED <<write_mutex, sslctx, sockfd, fds, line, carried, network,
                    received, submitted, leaked, hsFails, writes, shutting>>
    BY <1>13 DEF SSLNew, Stop, tcpVars, netVars
  <2>6. QED
    BY <2>1, <2>2, <2>3, <2>4, <2>5 DEF TypeOK
<1>14. ASSUME NEW t \in Threads, Handshake(t) PROVE TypeOK'
  <2>1. leaked' \in Nat /\ hsFails' \in Nat
    BY <1>14 DEF Handshake, Stop, tcpVars, TypeOK
  <2>2. tpc' \in [Threads -> Locations]
    BY <1>14 DEF Handshake, Goto, Stop, tcpVars, TypeOK, Locations, Connected, Shutdown
  <2>3. proc' \in {"running", "stopped", "undefined"}
    BY <1>14 DEF Handshake, Stop, TypeOK
  <2>4. UNCHANGED <<write_mutex, sslctx, ctxRefs, cSSL, sockfd, fds, line, carried, network,
                    received, submitted, writes, shutting>>
    BY <1>14 DEF Handshake, Stop, tcpVars, netVars
  <2>5. QED
    BY <2>1, <2>2, <2>3, <2>4 DEF TypeOK
<1>15. ASSUME NEW t \in Threads, ShutdownCtx(t) PROVE TypeOK'
  BY <1>15 DEF ShutdownCtx, At, Goto, Stop, tcpVars, netVars, TypeOK, Locations, Connected,
      Shutdown, Holding
<1>16. ASSUME NEW t \in Threads, ShutdownNotify(t) PROVE TypeOK'
  BY <1>16 DEF ShutdownNotify, At, Goto, Stop, tcpVars, netVars, TypeOK, Locations,
      Connected, Shutdown, Holding
<1>17. ASSUME NEW t \in Threads, ShutdownFree(t) PROVE TypeOK'
  <2>1. cSSL' \in [obj : {"null", "live", "shut", "freed"}, fd : Fds \cup {-1}]
    BY <1>17 DEF ShutdownFree, Stop, tcpVars, TypeOK
  <2>2. ctxRefs' \in Nat
    BY <1>17 DEF ShutdownFree, Stop, tcpVars, TypeOK
  <2>3. tpc' \in [Threads -> Locations]
    BY <1>17 DEF ShutdownFree, Goto, Stop, tcpVars, TypeOK, Locations
  <2>4. proc' \in {"running", "stopped", "undefined"}
    BY <1>17 DEF ShutdownFree, Stop, TypeOK
  <2>5. UNCHANGED <<write_mutex, sslctx, sockfd, fds, line, carried, network,
                    received, submitted, leaked, hsFails, writes, shutting>>
    BY <1>17 DEF ShutdownFree, Stop, tcpVars, netVars
  <2>6. QED
    BY <2>1, <2>2, <2>3, <2>4, <2>5 DEF TypeOK
<1>18. ASSUME NEW t \in Threads, SSLWrite(t) PROVE TypeOK'
  <2>1. line[t] \in Lines
    BY <1>18 DEF SSLWrite, At, IMutex, Holding, Connected
  <2>2. carried' \in [Fds -> Seq(Lines)]
    <3>1. CASE carried' = carried
      BY <3>1 DEF TypeOK
    <3>2. CASE carried' = [carried EXCEPT ![cSSL.fd] = Append(@, line[t])]
      <4>1. \A f \in Fds : Append(carried[f], line[t]) \in Seq(Lines)
        BY <2>1 DEF TypeOK
      <4>2. QED
        BY <3>2, <4>1 DEF TypeOK
    <3>3. QED
      BY <1>18, <3>1, <3>2 DEF SSLWrite, Stop, tcpVars
  <2>3. QED
    BY <1>18, <2>2 DEF SSLWrite, At, Goto, Stop, tcpVars, netVars, TypeOK,
        Locations, Connected, Shutdown
<1>19. ASSUME NEW t \in Threads, Close(t) PROVE TypeOK'
  BY <1>19 DEF Close, At, Goto, TypeOK, Locations, Connected, Shutdown, Holding, ISocket
<1>20. ASSUME NEW t \in Threads, UnlockWrite(t) PROVE TypeOK'
  BY <1>20 DEF UnlockWrite, At, Goto, netVars, TypeOK, Locations, Connected, Shutdown,
      Holding
<1>21. ASSUME NEW t \in Threads, ConnectFailed(t) PROVE TypeOK'
  BY <1>21 DEF ConnectFailed, At, Goto, netVars, TypeOK, Locations, Connected, Shutdown,
      Holding
<1>22. CASE UNCHANGED vars
  BY <1>22 DEF vars, tcpVars, netVars, TypeOK, Locations, Connected, Shutdown, Holding
<1>23. QED
  BY <1>1, <1>2, <1>3, <1>4, <1>5, <1>6, <1>7, <1>8, <1>9, <1>10, <1>11, <1>12, <1>13,
      <1>14, <1>15, <1>16, <1>17, <1>18, <1>19, <1>20, <1>21, <1>22
      DEF Next, Host, Collector, Call, TcpStep

(* Every step keeps the lock discipline: only the holder of write_mutex is *)
(* past the lock, and it has a line to write.                              *)
LEMMA MutexStep == IInv /\ [Next]_vars => IMutex'
<1> SUFFICES ASSUME IInv, [Next]_vars PROVE IMutex'
  OBVIOUS
<1> USE TcpAssumption DEF IInv
<1>1. CASE daapInitializeSSL
  BY <1>1 DEF daapInitializeSSL, netVars, IMutex
<1>2. CASE AppOpen
  BY <1>2 DEF AppOpen, LowestFree, tcpVars, netVars, IMutex
<1>3. CASE AppClose
  BY <1>3 DEF AppClose, tcpVars, netVars, IMutex
<1>4. CASE Reap
  BY <1>4 DEF Reap, IMutex
<1>5. CASE Receive
  BY <1>5 DEF Receive, tcpVars, IMutex
<1>6. CASE Lose
  BY <1>6 DEF Lose, tcpVars, IMutex
<1>7. CASE CallerFault
  BY <1>7 DEF CallerFault, Stop, tcpVars, netVars, IMutex
<1>8. ASSUME NEW t \in Threads, NEW l \in Lines, daapTCPLogWrite(t, l)
      PROVE  IMutex'
  BY <1>8 DEF daapTCPLogWrite, At, Goto, netVars, TypeOK, IMutex, Connected, Shutdown,
      Holding
<1>9. ASSUME NEW t \in Threads, daapShutdownSSL(t) PROVE IMutex'
  BY <1>9 DEF daapShutdownSSL, At, Goto, netVars, TypeOK, IMutex, Connected, Shutdown,
      Holding
<1>10. ASSUME NEW t \in Threads, LockWrite(t) PROVE IMutex'
  BY <1>10 DEF LockWrite, At, Goto, netVars, TypeOK, IMutex, Connected, Shutdown, Holding
<1>11. ASSUME NEW t \in Threads, Socket(t) PROVE IMutex'
  BY <1>11 DEF Socket, LowestFree, At, Goto, netVars, TypeOK, IMutex, Connected, Shutdown,
      Holding
<1>12. ASSUME NEW t \in Threads, Connect(t) PROVE IMutex'
  BY <1>12 DEF Connect, At, Goto, netVars, TypeOK, IMutex, Connected, Shutdown, Holding
<1>13. ASSUME NEW t \in Threads, SSLNew(t) PROVE IMutex'
  BY <1>13 DEF SSLNew, At, Goto, Stop, tcpVars, netVars, TypeOK, IMutex, Connected,
      Shutdown, Holding
<1>14. ASSUME NEW t \in Threads, Handshake(t) PROVE IMutex'
  BY <1>14 DEF Handshake, At, Goto, Stop, tcpVars, netVars, TypeOK, IMutex, Connected,
      Shutdown, Holding
<1>15. ASSUME NEW t \in Threads, ShutdownCtx(t) PROVE IMutex'
  BY <1>15 DEF ShutdownCtx, At, Goto, Stop, tcpVars, netVars, TypeOK, IMutex, Connected,
      Shutdown, Holding
<1>16. ASSUME NEW t \in Threads, ShutdownNotify(t) PROVE IMutex'
  BY <1>16 DEF ShutdownNotify, At, Goto, Stop, tcpVars, netVars, TypeOK, IMutex, Connected,
      Shutdown, Holding
<1>17. ASSUME NEW t \in Threads, ShutdownFree(t) PROVE IMutex'
  BY <1>17 DEF ShutdownFree, At, Goto, Stop, tcpVars, netVars, TypeOK, IMutex, Connected,
      Shutdown, Holding
<1>18. ASSUME NEW t \in Threads, SSLWrite(t) PROVE IMutex'
  BY <1>18 DEF SSLWrite, At, Goto, Stop, tcpVars, netVars, TypeOK, IMutex, Connected,
      Shutdown, Holding
<1>19. ASSUME NEW t \in Threads, Close(t) PROVE IMutex'
  BY <1>19 DEF Close, At, Goto, TypeOK, IMutex, Connected, Shutdown, Holding
<1>20. ASSUME NEW t \in Threads, UnlockWrite(t) PROVE IMutex'
  BY <1>20 DEF UnlockWrite, At, Goto, netVars, TypeOK, IMutex, Connected, Shutdown, Holding
<1>21. ASSUME NEW t \in Threads, ConnectFailed(t) PROVE IMutex'
  BY <1>21 DEF ConnectFailed, At, Goto, netVars, TypeOK, IMutex, Connected, Shutdown,
      Holding
<1>22. CASE UNCHANGED vars
  BY <1>22 DEF vars, tcpVars, netVars, IMutex
<1>23. QED
  BY <1>1, <1>2, <1>3, <1>4, <1>5, <1>6, <1>7, <1>8, <1>9, <1>10, <1>11, <1>12, <1>13,
      <1>14, <1>15, <1>16, <1>17, <1>18, <1>19, <1>20, <1>21, <1>22
      DEF Next, Host, Collector, Call, TcpStep

(* Every step keeps the socket and the SSL object of the write in          *)
(* progress: only the holder of write_mutex assigns sockfd or makes an SSL *)
(* object, and the application closes only descriptors of its own.         *)
LEMMA SocketStep == IInv /\ [Next]_vars => ISocket'
<1> SUFFICES ASSUME IInv, [Next]_vars PROVE ISocket'
  OBVIOUS
<1> USE TcpAssumption DEF IInv
<1>1. CASE daapInitializeSSL
  BY <1>1 DEF daapInitializeSSL, netVars, TypeOK, ISocket, Connected, Shutdown
<1>2. CASE AppOpen
  BY <1>2 DEF AppOpen, LowestFree, tcpVars, netVars, TypeOK, ISocket, Connected, Shutdown
<1>3. CASE AppClose
  BY <1>3 DEF AppClose, tcpVars, netVars, TypeOK, ISocket, Connected, Shutdown
<1>4. CASE Reap
  BY <1>4 DEF Reap, TypeOK, ISocket, Connected, Shutdown
<1>5. CASE Receive
  BY <1>5 DEF Receive, tcpVars, TypeOK, ISocket, Connected, Shutdown
<1>6. CASE Lose
  BY <1>6 DEF Lose, tcpVars, TypeOK, ISocket, Connected, Shutdown
<1>7. CASE CallerFault
  BY <1>7 DEF CallerFault, Stop, tcpVars, netVars, TypeOK, ISocket, Connected, Shutdown
<1>8. ASSUME NEW t \in Threads, NEW l \in Lines, daapTCPLogWrite(t, l)
      PROVE  ISocket'
  BY <1>8 DEF daapTCPLogWrite, At, Goto, netVars, TypeOK, ISocket, Connected, Shutdown
<1>9. ASSUME NEW t \in Threads, daapShutdownSSL(t) PROVE ISocket'
  BY <1>9 DEF daapShutdownSSL, At, Goto, netVars, TypeOK, ISocket, Connected, Shutdown
<1>10. ASSUME NEW t \in Threads, LockWrite(t) PROVE ISocket'
  BY <1>10 DEF LockWrite, At, Goto, netVars, TypeOK, IMutex, ISocket, Connected, Shutdown,
      Holding
<1>11. ASSUME NEW t \in Threads, Socket(t) PROVE ISocket'
  BY <1>11 DEF Socket, LowestFree, At, Goto, netVars, TypeOK, IMutex, ISocket, Connected,
      Shutdown, Holding
<1>12. ASSUME NEW t \in Threads, Connect(t) PROVE ISocket'
  BY <1>12 DEF Connect, At, Goto, netVars, TypeOK, IMutex, ISocket, Connected, Shutdown,
      Holding
<1>13. ASSUME NEW t \in Threads, SSLNew(t) PROVE ISocket'
  BY <1>13 DEF SSLNew, At, Goto, Stop, tcpVars, netVars, TypeOK, IMutex, ISocket, Connected,
      Shutdown, Holding
<1>14. ASSUME NEW t \in Threads, Handshake(t) PROVE ISocket'
  BY <1>14 DEF Handshake, At, Goto, Stop, tcpVars, netVars, TypeOK, IMutex, ISocket,
      Connected, Shutdown, Holding
<1>15. ASSUME NEW t \in Threads, ShutdownCtx(t) PROVE ISocket'
  BY <1>15 DEF ShutdownCtx, At, Goto, Stop, tcpVars, netVars, TypeOK, IMutex, ISocket,
      Connected, Shutdown, Holding
<1>16. ASSUME NEW t \in Threads, ShutdownNotify(t) PROVE ISocket'
  BY <1>16 DEF ShutdownNotify, At, Goto, Stop, tcpVars, netVars, TypeOK, IMutex, ISocket,
      Connected, Shutdown, Holding
<1>17. ASSUME NEW t \in Threads, ShutdownFree(t) PROVE ISocket'
  BY <1>17 DEF ShutdownFree, At, Goto, Stop, tcpVars, netVars, TypeOK, IMutex, ISocket,
      Connected, Shutdown, Holding
<1>18. ASSUME NEW t \in Threads, SSLWrite(t) PROVE ISocket'
  BY <1>18 DEF SSLWrite, At, Goto, Stop, tcpVars, netVars, TypeOK, IMutex, ISocket,
      Connected, Shutdown, Holding
<1>19. ASSUME NEW t \in Threads, Close(t) PROVE ISocket'
  BY <1>19 DEF Close, At, Goto, TypeOK, IMutex, ISocket, Connected, Shutdown, Holding
<1>20. ASSUME NEW t \in Threads, UnlockWrite(t) PROVE ISocket'
  BY <1>20 DEF UnlockWrite, At, Goto, netVars, TypeOK, IMutex, ISocket, Connected, Shutdown,
      Holding
<1>21. ASSUME NEW t \in Threads, ConnectFailed(t) PROVE ISocket'
  BY <1>21 DEF ConnectFailed, At, Goto, netVars, TypeOK, IMutex, ISocket, Connected,
      Shutdown, Holding
<1>22. CASE UNCHANGED vars
  BY <1>22 DEF vars, tcpVars, netVars, TypeOK, ISocket, Connected, Shutdown
<1>23. QED
  BY <1>1, <1>2, <1>3, <1>4, <1>5, <1>6, <1>7, <1>8, <1>9, <1>10, <1>11, <1>12, <1>13,
      <1>14, <1>15, <1>16, <1>17, <1>18, <1>19, <1>20, <1>21, <1>22
      DEF Next, Host, Collector, Call, TcpStep

(* No step gets past SSL_new() without a context.                          *)
LEMMA NoContextStep == IInv /\ [Next]_vars => INoContext'
<1> SUFFICES ASSUME IInv, [Next]_vars PROVE INoContext'
  OBVIOUS
<1> USE TcpAssumption DEF IInv
<1>1. CASE daapInitializeSSL
  BY <1>1 DEF daapInitializeSSL, netVars, INoContext, Shutdown
<1>2. CASE AppOpen
  BY <1>2 DEF AppOpen, LowestFree, tcpVars, netVars, INoContext, Shutdown
<1>3. CASE AppClose
  BY <1>3 DEF AppClose, tcpVars, netVars, INoContext, Shutdown
<1>4. CASE Reap
  BY <1>4 DEF Reap, INoContext, Shutdown
<1>5. CASE Receive
  BY <1>5 DEF Receive, tcpVars, INoContext, Shutdown
<1>6. CASE Lose
  BY <1>6 DEF Lose, tcpVars, INoContext, Shutdown
<1>7. CASE CallerFault
  BY <1>7 DEF CallerFault, Stop, tcpVars, netVars, INoContext, Shutdown
<1>8. ASSUME NEW t \in Threads, NEW l \in Lines, daapTCPLogWrite(t, l)
      PROVE  INoContext'
  BY <1>8 DEF daapTCPLogWrite, At, Goto, netVars, TypeOK, IMutex, INoContext, Connected,
      Shutdown, Holding
<1>9. ASSUME NEW t \in Threads, daapShutdownSSL(t) PROVE INoContext'
  BY <1>9 DEF daapShutdownSSL, At, Goto, netVars, TypeOK, IMutex, INoContext, Connected,
      Shutdown, Holding
<1>10. ASSUME NEW t \in Threads, LockWrite(t) PROVE INoContext'
  BY <1>10 DEF LockWrite, At, Goto, netVars, TypeOK, IMutex, INoContext, Connected,
      Shutdown, Holding
<1>11. ASSUME NEW t \in Threads, Socket(t) PROVE INoContext'
  BY <1>11 DEF Socket, LowestFree, At, Goto, netVars, TypeOK, IMutex, INoContext, Connected,
      Shutdown, Holding
<1>12. ASSUME NEW t \in Threads, Connect(t) PROVE INoContext'
  BY <1>12 DEF Connect, At, Goto, netVars, TypeOK, IMutex, INoContext, Connected, Shutdown,
      Holding
<1>13. ASSUME NEW t \in Threads, SSLNew(t) PROVE INoContext'
  BY <1>13 DEF SSLNew, At, Goto, Stop, tcpVars, netVars, TypeOK, IMutex, INoContext,
      Connected, Shutdown, Holding
<1>14. ASSUME NEW t \in Threads, Handshake(t) PROVE INoContext'
  BY <1>14 DEF Handshake, At, Goto, Stop, tcpVars, netVars, TypeOK, IMutex, INoContext,
      Connected, Shutdown, Holding
<1>15. ASSUME NEW t \in Threads, ShutdownCtx(t) PROVE INoContext'
  BY <1>15 DEF ShutdownCtx, At, Goto, Stop, tcpVars, netVars, TypeOK, IMutex, INoContext,
      Connected, Shutdown, Holding
<1>16. ASSUME NEW t \in Threads, ShutdownNotify(t) PROVE INoContext'
  BY <1>16 DEF ShutdownNotify, At, Goto, Stop, tcpVars, netVars, TypeOK, IMutex, INoContext,
      Connected, Shutdown, Holding
<1>17. ASSUME NEW t \in Threads, ShutdownFree(t) PROVE INoContext'
  BY <1>17 DEF ShutdownFree, At, Goto, Stop, tcpVars, netVars, TypeOK, IMutex, INoContext,
      Connected, Shutdown, Holding
<1>18. ASSUME NEW t \in Threads, SSLWrite(t) PROVE INoContext'
  BY <1>18 DEF SSLWrite, At, Goto, Stop, tcpVars, netVars, TypeOK, IMutex, INoContext,
      Connected, Shutdown, Holding
<1>19. ASSUME NEW t \in Threads, Close(t) PROVE INoContext'
  BY <1>19 DEF Close, At, Goto, TypeOK, IMutex, INoContext, Connected, Shutdown, Holding
<1>20. ASSUME NEW t \in Threads, UnlockWrite(t) PROVE INoContext'
  BY <1>20 DEF UnlockWrite, At, Goto, netVars, TypeOK, IMutex, INoContext, Connected,
      Shutdown, Holding
<1>21. ASSUME NEW t \in Threads, ConnectFailed(t) PROVE INoContext'
  BY <1>21 DEF ConnectFailed, At, Goto, netVars, TypeOK, IMutex, INoContext, Connected,
      Shutdown, Holding
<1>22. CASE UNCHANGED vars
  BY <1>22 DEF vars, tcpVars, netVars, INoContext, Shutdown
<1>23. QED
  BY <1>1, <1>2, <1>3, <1>4, <1>5, <1>6, <1>7, <1>8, <1>9, <1>10, <1>11, <1>12, <1>13,
      <1>14, <1>15, <1>16, <1>17, <1>18, <1>19, <1>20, <1>21, <1>22
      DEF Next, Host, Collector, Call, TcpStep

(* Until daapFinalize() begins, every step keeps the count of references:  *)
(* a write that completes adds SSLRefs for good, a failed handshake takes  *)
(* one reference too many.                                                 *)
LEMMA RefsStep == IInv /\ [Next]_vars => IRefs'
<1> SUFFICES ASSUME IInv, [Next]_vars PROVE IRefs'
  OBVIOUS
<1> USE TcpAssumption DEF IInv
<1>1. CASE daapInitializeSSL
  <2> SUFFICES ASSUME proc' = "running", ~shutting', sslctx' = "made"
               PROVE  /\ write_mutex' = NoThread => ctxRefs' + hsFails' = 1 + SSLRefs * writes'
                      /\ \A t \in Threads : write_mutex' = t =>
                             ctxRefs' + hsFails' = 1 + SSLRefs * writes' + Extra(tpc'[t])
    BY DEF IRefs
  <2>1. ctxRefs' = 1 /\ hsFails' = 0 /\ writes' = 0 /\ SSLRefs * 0 = 0
    BY <1>1 DEF daapInitializeSSL, INoContext
  <2>2. ASSUME NEW t \in Threads, write_mutex' = t PROVE Extra(tpc'[t]) = 0
    <3>1. tpc[t] \notin Shutdown
      BY <1>1, <2>2 DEF daapInitializeSSL, INoContext
    <3>2. QED
      BY <1>1, <3>1 DEF daapInitializeSSL, INoContext, Extra, Shutdown
  <2>3. QED
    BY <2>1, <2>2
 
<1>2. CASE AppOpen
  BY <1>2 DEF AppOpen, LowestFree, tcpVars, netVars, TypeOK, IMutex, INoContext, IRefs,
      Extra, Connected, Shutdown, Holding
<1>3. CASE AppClose
  BY <1>3 DEF AppClose, tcpVars, netVars, TypeOK, IMutex, INoContext, IRefs, Extra,
      Connected, Shutdown, Holding
<1>4. CASE Reap
  BY <1>4 DEF Reap, TypeOK, IMutex, INoContext, IRefs, Extra, Connected, Shutdown, Holding
<1>5. CASE Receive
  BY <1>5 DEF Receive, tcpVars, TypeOK, IMutex, INoContext, IRefs, Extra, Connected,
      Shutdown, Holding
<1>6. CASE Lose
  BY <1>6 DEF Lose, tcpVars, TypeOK, IMutex, INoContext, IRefs, Extra, Connected, Shutdown,
      Holding
<1>7. CASE CallerFault
  BY <1>7 DEF CallerFault, Stop, tcpVars, netVars, TypeOK, IMutex, INoContext, IRefs, Extra,
      Connected, Shutdown, Holding
<1>8. ASSUME NEW t \in Threads, NEW l \in Lines, daapTCPLogWrite(t, l)
      PROVE  IRefs'
  BY <1>8 DEF daapTCPLogWrite, At, Goto, netVars, TypeOK, IMutex, INoContext, IRefs, Extra,
      Connected, Shutdown, Holding
<1>9. ASSUME NEW t \in Threads, daapShutdownSSL(t) PROVE IRefs'
  BY <1>9 DEF daapShutdownSSL, At, Goto, netVars, TypeOK, IMutex, INoContext, IRefs, Extra,
      Connected, Shutdown, Holding
<1>10. ASSUME NEW t \in Threads, LockWrite(t) PROVE IRefs'
  BY <1>10 DEF LockWrite, At, Goto, netVars, TypeOK, IMutex, INoContext, IRefs, Extra,
      Connected, Shutdown, Holding
<1>11. ASSUME NEW t \in Threads, Socket(t) PROVE IRefs'
  BY <1>11 DEF Socket, LowestFree, At, Goto, netVars, TypeOK, IMutex, INoContext, IRefs,
      Extra, Connected, Shutdown, Holding
<1>12. ASSUME NEW t \in Threads, Connect(t) PROVE IRefs'
  BY <1>12 DEF Connect, At, Goto, netVars, TypeOK, IMutex, INoContext, IRefs, Extra,
      Connected, Shutdown, Holding
<1>13. ASSUME NEW t \in Threads, SSLNew(t) PROVE IRefs'
  BY <1>13 DEF SSLNew, At, Goto, Stop, tcpVars, netVars, TypeOK, IMutex, INoContext, IRefs,
      Extra, Connected, Shutdown, Holding
<1>14. ASSUME NEW t \in Threads, Handshake(t) PROVE IRefs'
  <2> SUFFICES ASSUME proc' = "running", ~shutting', sslctx' = "made"
               PROVE  ctxRefs' + hsFails' = 1 + SSLRefs * writes' + Extra(tpc'[t])
    BY <1>14, TcpAssumption DEF IRefs, Handshake, At, Stop, tcpVars, IMutex, Holding, Connected
  <2>1. ctxRefs + hsFails = 1 + SSLRefs * writes + SSLRefs
    BY <1>14 DEF Handshake, At, Stop, tcpVars, IRefs, Extra, IMutex, Holding, Connected
  <2>2. UNCHANGED <<ctxRefs, writes>>
    BY <1>14 DEF Handshake, Stop, tcpVars
  <2>3. \/ hsFails' = hsFails /\ Extra(tpc'[t]) = SSLRefs
        \/ hsFails' = hsFails + 1 /\ Extra(tpc'[t]) = SSLRefs + 1
    BY <1>14 DEF Handshake, Goto, Stop, tcpVars, TypeOK, Extra
  <2>4. SSLRefs * writes \in Nat
    BY DEF TypeOK
  <2>5. ctxRefs \in Nat /\ hsFails \in Nat
    BY DEF TypeOK
  <2>6. SSLRefs * writes' = SSLRefs * writes
    BY <2>2
  <2> HIDE DEF IInv
  <2>7. QED
    BY <2>1, <2>2, <2>3, <2>4, <2>5, <2>6
<1>15. ASSUME NEW t \in Threads, ShutdownCtx(t) PROVE IRefs'
  BY <1>15 DEF ShutdownCtx, At, Goto, Stop, tcpVars, netVars, TypeOK, IMutex, INoContext,
      IRefs, Extra, Connected, Shutdown, Holding
<1>16. ASSUME NEW t \in Threads, ShutdownNotify(t) PROVE IRefs'
  BY <1>16 DEF ShutdownNotify, At, Goto, Stop, tcpVars, netVars, TypeOK, IMutex, INoContext,
      IRefs, Extra, Connected, Shutdown, Holding
<1>17. ASSUME NEW t \in Threads, ShutdownFree(t) PROVE IRefs'
  <2> SUFFICES ASSUME proc' = "running", ~shutting', sslctx' = "made"
               PROVE  ctxRefs' + hsFails' = 1 + SSLRefs * writes' + Extra(tpc'[t])
    BY <1>17, TcpAssumption DEF IRefs, ShutdownFree, At, Stop, tcpVars, IMutex, Shutdown
  <2>1. write_mutex = t /\ ~shutting /\ proc = "running" /\ sslctx = "made"
    BY <1>17 DEF ShutdownFree, At, Stop, tcpVars, IMutex, Shutdown
  <2>2. ctxRefs + hsFails = 1 + SSLRefs * writes + SSLRefs
    BY <1>17, <2>1 DEF ShutdownFree, At, IRefs, Extra
  <2>3. ctxRefs' = ctxRefs - SSLRefs
    BY <1>17, <2>1 DEF ShutdownFree, At, Stop, tcpVars, ISocket, Shutdown
  <2>4. hsFails' = hsFails /\ writes' = writes /\ Extra(tpc'[t]) = 0
    BY <1>17, <2>1 DEF ShutdownFree, Goto, Stop, tcpVars, TypeOK, Extra
  <2>5. SSLRefs * writes \in Nat
    BY DEF TypeOK
  <2>6. QED
    BY <2>2, <2>3, <2>4, <2>5 DEF TypeOK
<1>18. ASSUME NEW t \in Threads, SSLWrite(t) PROVE IRefs'
  BY <1>18 DEF SSLWrite, At, Goto, Stop, tcpVars, netVars, TypeOK, IMutex, INoContext,
      IRefs, Extra, Connected, Shutdown, Holding
<1>19. ASSUME NEW t \in Threads, Close(t) PROVE IRefs'
  BY <1>19 DEF Close, At, Goto, TypeOK, IMutex, INoContext, IRefs, Extra, Connected,
      Shutdown, Holding
<1>20. ASSUME NEW t \in Threads, UnlockWrite(t) PROVE IRefs'
  BY <1>20 DEF UnlockWrite, At, Goto, netVars, TypeOK, IMutex, INoContext, IRefs, Extra,
      Connected, Shutdown, Holding
<1>21. ASSUME NEW t \in Threads, ConnectFailed(t) PROVE IRefs'
  BY <1>21 DEF ConnectFailed, At, Goto, netVars, TypeOK, IMutex, INoContext, IRefs, Extra,
      Connected, Shutdown, Holding
<1>22. CASE UNCHANGED vars
  BY <1>22 DEF vars, tcpVars, netVars, TypeOK, IMutex, INoContext, IRefs, Extra, Connected,
      Shutdown, Holding
<1>23. QED
  BY <1>1, <1>2, <1>3, <1>4, <1>5, <1>6, <1>7, <1>8, <1>9, <1>10, <1>11, <1>12, <1>13,
      <1>14, <1>15, <1>16, <1>17, <1>18, <1>19, <1>20, <1>21, <1>22
      DEF Next, Host, Collector, Call, TcpStep

(* A socket carries something only after SSL_write(), and close() ends it. *)
LEMMA StreamStep == IInv /\ [Next]_vars => IStream'
<1> SUFFICES ASSUME IInv, [Next]_vars PROVE IStream'
  OBVIOUS
<1> USE TcpAssumption DEF IInv
<1>1. CASE daapInitializeSSL
  BY <1>1 DEF daapInitializeSSL, netVars, TypeOK, IStream
<1>2. CASE AppOpen
  BY <1>2 DEF AppOpen, LowestFree, tcpVars, netVars, TypeOK, IStream
<1>3. CASE AppClose
  BY <1>3 DEF AppClose, tcpVars, netVars, TypeOK, IStream
<1>4. CASE Reap
  BY <1>4 DEF Reap, TypeOK, IStream
<1>5. CASE Receive
  BY <1>5 DEF Receive, tcpVars, TypeOK, IStream
<1>6. CASE Lose
  BY <1>6 DEF Lose, tcpVars, TypeOK, IStream
<1>7. CASE CallerFault
  BY <1>7 DEF CallerFault, Stop, tcpVars, netVars, TypeOK, IStream
<1>8. ASSUME NEW t \in Threads, NEW l \in Lines, daapTCPLogWrite(t, l)
      PROVE  IStream'
  BY <1>8 DEF daapTCPLogWrite, At, Goto, netVars, TypeOK, IStream
<1>9. ASSUME NEW t \in Threads, daapShutdownSSL(t) PROVE IStream'
  BY <1>9 DEF daapShutdownSSL, At, Goto, netVars, TypeOK, IStream
<1>10. ASSUME NEW t \in Threads, LockWrite(t) PROVE IStream'
  BY <1>10 DEF LockWrite, At, Goto, netVars, TypeOK, IMutex, ISocket, IStream, Connected,
      Shutdown, Holding
<1>11. ASSUME NEW t \in Threads, Socket(t) PROVE IStream'
  BY <1>11 DEF Socket, LowestFree, At, Goto, netVars, TypeOK, IMutex, ISocket, IStream,
      Connected, Shutdown, Holding
<1>12. ASSUME NEW t \in Threads, Connect(t) PROVE IStream'
  BY <1>12 DEF Connect, At, Goto, netVars, TypeOK, IStream
<1>13. ASSUME NEW t \in Threads, SSLNew(t) PROVE IStream'
  BY <1>13 DEF SSLNew, At, Goto, Stop, tcpVars, netVars, TypeOK, IStream
<1>14. ASSUME NEW t \in Threads, Handshake(t) PROVE IStream'
  BY <1>14 DEF Handshake, At, Goto, Stop, tcpVars, netVars, TypeOK, IStream
<1>15. ASSUME NEW t \in Threads, ShutdownCtx(t) PROVE IStream'
  BY <1>15 DEF ShutdownCtx, At, Goto, Stop, tcpVars, netVars, TypeOK, IStream
<1>16. ASSUME NEW t \in Threads, ShutdownNotify(t) PROVE IStream'
  BY <1>16 DEF ShutdownNotify, At, Goto, Stop, tcpVars, netVars, TypeOK, IStream
<1>17. ASSUME NEW t \in Threads, ShutdownFree(t) PROVE IStream'
  BY <1>17 DEF ShutdownFree, At, Goto, Stop, tcpVars, netVars, TypeOK, IStream
<1>18. ASSUME NEW t \in Threads, SSLWrite(t) PROVE IStream'
  BY <1>18 DEF SSLWrite, At, Goto, Stop, tcpVars, netVars, TypeOK, IMutex, ISocket, IStream,
      Connected, Shutdown, Holding
<1>19. ASSUME NEW t \in Threads, Close(t) PROVE IStream'
  BY <1>19 DEF Close, At, Goto, TypeOK, IMutex, ISocket, IStream, Connected, Shutdown,
      Holding
<1>20. ASSUME NEW t \in Threads, UnlockWrite(t) PROVE IStream'
  BY <1>20 DEF UnlockWrite, At, Goto, netVars, TypeOK, IStream
<1>21. ASSUME NEW t \in Threads, ConnectFailed(t) PROVE IStream'
  BY <1>21 DEF ConnectFailed, At, Goto, netVars, TypeOK, IStream
<1>22. CASE UNCHANGED vars
  BY <1>22 DEF vars, tcpVars, netVars, TypeOK, IStream
<1>23. QED
  BY <1>1, <1>2, <1>3, <1>4, <1>5, <1>6, <1>7, <1>8, <1>9, <1>10, <1>11, <1>12, <1>13,
      <1>14, <1>15, <1>16, <1>17, <1>18, <1>19, <1>20, <1>21, <1>22
      DEF Next, Host, Collector, Call, TcpStep

(* A stream that is not empty and not longer than one line is one line.    *)
LEMMA SingleLine ==
    ASSUME NEW s \in Seq(Lines), s # <<>>, Len(s) <= 1
    PROVE  Len(s) = 1
<1>1. Len(s) \in Nat \ {0}
  BY EmptySeq, Zenon
<1>2. \A n \in Nat \ {0} : n <= 1 => n = 1
  OBVIOUS
<1>3. QED
  BY <1>1, <1>2, Zenon

(* SSL_write() finds the socket empty, so what close() or the kernel ends  *)
(* is one line.                                                            *)
LEMMA OneLineStep == IInv /\ [Next]_vars => OneLinePerStream'
<1> SUFFICES ASSUME IInv, [Next]_vars PROVE OneLinePerStream'
  OBVIOUS
<1> USE TcpAssumption DEF IInv
<1>1. CASE daapInitializeSSL
  BY <1>1 DEF daapInitializeSSL, netVars, OneLinePerStream
<1>2. CASE AppOpen
  BY <1>2 DEF AppOpen, LowestFree, tcpVars, netVars, OneLinePerStream
<1>3. CASE AppClose
  BY <1>3 DEF AppClose, tcpVars, netVars, OneLinePerStream
<1>4. CASE Reap
  <2>1. \A f \in Fds : carried[f] # <<>> => Len(carried[f]) = 1
    BY SingleLine DEF TypeOK, OneLinePerStream
  <2>2. \A s \in network' \cup received' : Len(s) = 1
    BY <1>4, <2>1 DEF Reap, OneLinePerStream
  <2>3. \A f \in Fds : carried'[f] = <<>>
    BY <1>4 DEF Reap
  <2>4. QED
    BY <2>2, <2>3 DEF OneLinePerStream
<1>5. CASE Receive
  BY <1>5 DEF Receive, tcpVars, OneLinePerStream
<1>6. CASE Lose
  BY <1>6 DEF Lose, tcpVars, OneLinePerStream
<1>7. CASE CallerFault
  BY <1>7 DEF CallerFault, Stop, tcpVars, netVars, OneLinePerStream
<1>8. ASSUME NEW t \in Threads, NEW l \in Lines, daapTCPLogWrite(t, l)
      PROVE  OneLinePerStream'
  BY <1>8 DEF daapTCPLogWrite, At, Goto, netVars, OneLinePerStream
<1>9. ASSUME NEW t \in Threads, daapShutdownSSL(t) PROVE OneLinePerStream'
  BY <1>9 DEF daapShutdownSSL, At, Goto, netVars, OneLinePerStream
<1>10. ASSUME NEW t \in Threads, LockWrite(t) PROVE OneLinePerStream'
  BY <1>10 DEF LockWrite, At, Goto, netVars, OneLinePerStream
<1>11. ASSUME NEW t \in Threads, Socket(t) PROVE OneLinePerStream'
  BY <1>11 DEF Socket, LowestFree, At, Goto, netVars, OneLinePerStream
<1>12. ASSUME NEW t \in Threads, Connect(t) PROVE OneLinePerStream'
  BY <1>12 DEF Connect, At, Goto, netVars, OneLinePerStream
<1>13. ASSUME NEW t \in Threads, SSLNew(t) PROVE OneLinePerStream'
  BY <1>13 DEF SSLNew, At, Goto, Stop, tcpVars, netVars, OneLinePerStream
<1>14. ASSUME NEW t \in Threads, Handshake(t) PROVE OneLinePerStream'
  BY <1>14 DEF Handshake, At, Goto, Stop, tcpVars, netVars, OneLinePerStream
<1>15. ASSUME NEW t \in Threads, ShutdownCtx(t) PROVE OneLinePerStream'
  BY <1>15 DEF ShutdownCtx, At, Goto, Stop, tcpVars, netVars, OneLinePerStream
<1>16. ASSUME NEW t \in Threads, ShutdownNotify(t) PROVE OneLinePerStream'
  BY <1>16 DEF ShutdownNotify, At, Goto, Stop, tcpVars, netVars, OneLinePerStream
<1>17. ASSUME NEW t \in Threads, ShutdownFree(t) PROVE OneLinePerStream'
  BY <1>17 DEF ShutdownFree, At, Goto, Stop, tcpVars, netVars, OneLinePerStream
<1>18. ASSUME NEW t \in Threads, SSLWrite(t) PROVE OneLinePerStream'
  BY <1>18 DEF SSLWrite, At, Goto, Stop, tcpVars, netVars, TypeOK, IMutex, ISocket, IStream,
      OneLinePerStream, Connected, Shutdown, Holding
<1>19. ASSUME NEW t \in Threads, Close(t) PROVE OneLinePerStream'
  <2>1. sockfd \in Fds
    BY <1>19 DEF Close, At, ISocket, Connected
  <2>2. carried[sockfd] # <<>> => Len(carried[sockfd]) = 1
    BY <2>1, SingleLine DEF TypeOK, OneLinePerStream
  <2>3. \A s \in network' \cup received' : Len(s) = 1
    BY <1>19, <2>2 DEF Close, OneLinePerStream
  <2>4. \A f \in Fds : Len(carried'[f]) <= 1
    BY <1>19 DEF Close, TypeOK, OneLinePerStream
  <2>5. QED
    BY <2>3, <2>4 DEF OneLinePerStream
<1>20. ASSUME NEW t \in Threads, UnlockWrite(t) PROVE OneLinePerStream'
  BY <1>20 DEF UnlockWrite, At, Goto, netVars, OneLinePerStream
<1>21. ASSUME NEW t \in Threads, ConnectFailed(t) PROVE OneLinePerStream'
  BY <1>21 DEF ConnectFailed, At, Goto, netVars, OneLinePerStream
<1>22. CASE UNCHANGED vars
  BY <1>22 DEF vars, tcpVars, netVars, OneLinePerStream
<1>23. QED
  BY <1>1, <1>2, <1>3, <1>4, <1>5, <1>6, <1>7, <1>8, <1>9, <1>10, <1>11, <1>12, <1>13,
      <1>14, <1>15, <1>16, <1>17, <1>18, <1>19, <1>20, <1>21, <1>22
      DEF Next, Host, Collector, Call, TcpStep

(* Where a freed context or SSL object is used before daapFinalize(), the  *)
(* count of references says that handshakes have failed too often.         *)
LEMMA UndefinedStep == IInv /\ [Next]_vars => UndefinedOnlyAfterFailures'
<1> SUFFICES ASSUME IInv, [Next]_vars PROVE UndefinedOnlyAfterFailures'
  OBVIOUS
<1> USE TcpAssumption DEF IInv
<1>1. CASE daapInitializeSSL
  BY <1>1 DEF daapInitializeSSL, netVars, UndefinedOnlyAfterFailures
<1>2. CASE AppOpen
  BY <1>2 DEF AppOpen, LowestFree, tcpVars, netVars, UndefinedOnlyAfterFailures
<1>3. CASE AppClose
  BY <1>3 DEF AppClose, tcpVars, netVars, UndefinedOnlyAfterFailures
<1>4. CASE Reap
  BY <1>4 DEF Reap, UndefinedOnlyAfterFailures
<1>5. CASE Receive
  BY <1>5 DEF Receive, tcpVars, UndefinedOnlyAfterFailures
<1>6. CASE Lose
  BY <1>6 DEF Lose, tcpVars, UndefinedOnlyAfterFailures
<1>7. CASE CallerFault
  BY <1>7 DEF CallerFault, Stop, tcpVars, netVars, UndefinedOnlyAfterFailures
<1>8. ASSUME NEW t \in Threads, NEW l \in Lines, daapTCPLogWrite(t, l)
      PROVE  UndefinedOnlyAfterFailures'
  BY <1>8 DEF daapTCPLogWrite, At, Goto, netVars, UndefinedOnlyAfterFailures
<1>9. ASSUME NEW t \in Threads, daapShutdownSSL(t) PROVE UndefinedOnlyAfterFailures'
  BY <1>9 DEF daapShutdownSSL, At, Goto, netVars, UndefinedOnlyAfterFailures
<1>10. ASSUME NEW t \in Threads, LockWrite(t) PROVE UndefinedOnlyAfterFailures'
  BY <1>10 DEF LockWrite, At, Goto, netVars, UndefinedOnlyAfterFailures
<1>11. ASSUME NEW t \in Threads, Socket(t) PROVE UndefinedOnlyAfterFailures'
  BY <1>11 DEF Socket, LowestFree, At, Goto, netVars, UndefinedOnlyAfterFailures
<1>12. ASSUME NEW t \in Threads, Connect(t) PROVE UndefinedOnlyAfterFailures'
  BY <1>12 DEF Connect, At, Goto, netVars, UndefinedOnlyAfterFailures
<1>13. ASSUME NEW t \in Threads, SSLNew(t) PROVE UndefinedOnlyAfterFailures'
  BY <1>13 DEF SSLNew, At, Goto, Stop, tcpVars, netVars, TypeOK, IMutex, ISocket,
      INoContext, IRefs, Extra, UndefinedOnlyAfterFailures, Connected, Shutdown, Holding
<1>14. ASSUME NEW t \in Threads, Handshake(t) PROVE UndefinedOnlyAfterFailures'
  BY <1>14 DEF Handshake, At, Goto, Stop, tcpVars, netVars, TypeOK, IMutex, ISocket,
      INoContext, IRefs, Extra, UndefinedOnlyAfterFailures, Connected, Shutdown, Holding
<1>15. ASSUME NEW t \in Threads, ShutdownCtx(t) PROVE UndefinedOnlyAfterFailures'
  BY <1>15 DEF ShutdownCtx, At, Goto, Stop, tcpVars, netVars, TypeOK, IMutex, ISocket,
      INoContext, IRefs, Extra, UndefinedOnlyAfterFailures, Connected, Shutdown, Holding
<1>16. ASSUME NEW t \in Threads, ShutdownNotify(t) PROVE UndefinedOnlyAfterFailures'
  BY <1>16 DEF ShutdownNotify, At, Goto, Stop, tcpVars, netVars, TypeOK, IMutex, ISocket,
      INoContext, IRefs, Extra, UndefinedOnlyAfterFailures, Connected, Shutdown, Holding
<1>17. ASSUME NEW t \in Threads, ShutdownFree(t) PROVE UndefinedOnlyAfterFailures'
  <2>1. CASE proc' # "undefined" \/ shutting
    <3>1. shutting' = shutting
      BY <1>17 DEF ShutdownFree, Stop, tcpVars
    <3>2. QED
      BY <2>1, <3>1 DEF UndefinedOnlyAfterFailures
  <2>2. CASE proc' = "undefined" /\ ~shutting
    <3>1. write_mutex = t
      BY <1>17, <2>2 DEF ShutdownFree, At, IMutex, Shutdown
    <3>2. cSSL.obj \in {"live", "shut"} /\ sslctx = "made"
      BY <1>17, <2>2, <3>1 DEF ShutdownFree, At, ISocket, INoContext, TypeOK, Shutdown
    <3>3. ctxRefs + hsFails = 1 + SSLRefs * writes + SSLRefs
      BY <1>17, <2>2, <3>1, <3>2 DEF ShutdownFree, At, IRefs, Extra
    <3>4. ctxRefs < SSLRefs /\ hsFails' = hsFails /\ writes' = writes
      BY <1>17, <2>2, <3>2 DEF ShutdownFree, At, Stop, tcpVars
    <3>5. SSLRefs * writes \in Nat
      BY DEF TypeOK
    <3>6. QED
      BY <3>3, <3>4, <3>5 DEF TypeOK, UndefinedOnlyAfterFailures
  <2>3. QED
    BY <2>1, <2>2
<1>18. ASSUME NEW t \in Threads, SSLWrite(t) PROVE UndefinedOnlyAfterFailures'
  BY <1>18 DEF SSLWrite, At, Goto, Stop, tcpVars, netVars, TypeOK, IMutex, ISocket,
      INoContext, IRefs, Extra, UndefinedOnlyAfterFailures, Connected, Shutdown, Holding
<1>19. ASSUME NEW t \in Threads, Close(t) PROVE UndefinedOnlyAfterFailures'
  BY <1>19 DEF Close, At, Goto, UndefinedOnlyAfterFailures
<1>20. ASSUME NEW t \in Threads, UnlockWrite(t) PROVE UndefinedOnlyAfterFailures'
  BY <1>20 DEF UnlockWrite, At, Goto, netVars, UndefinedOnlyAfterFailures
<1>21. ASSUME NEW t \in Threads, ConnectFailed(t) PROVE UndefinedOnlyAfterFailures'
  BY <1>21 DEF ConnectFailed, At, Goto, netVars, UndefinedOnlyAfterFailures
<1>22. CASE UNCHANGED vars
  BY <1>22 DEF vars, tcpVars, netVars, UndefinedOnlyAfterFailures
<1>23. QED
  BY <1>1, <1>2, <1>3, <1>4, <1>5, <1>6, <1>7, <1>8, <1>9, <1>10, <1>11, <1>12, <1>13,
      <1>14, <1>15, <1>16, <1>17, <1>18, <1>19, <1>20, <1>21, <1>22
      DEF Next, Host, Collector, Call, TcpStep

-----------------------------------------------------------------------------
(* The invariant is inductive, so it holds throughout.                     *)
THEOREM Invariance == SpecTcp => []IInv
<1>1. IInv /\ [Next]_vars => IInv'
  BY TypeStep, MutexStep, SocketStep, NoContextStep, RefsStep, StreamStep, OneLineStep,
     UndefinedStep DEF IInv
<1>2. QED
  BY InitInv, <1>1, PTL DEF SpecTcp

(* The type invariant of the transport holds for any number of threads.    *)
THEOREM TypeCorrect == SpecTcp => []TypeOK
<1>1. IInv => TypeOK
  BY DEF IInv
<1>2. QED
  BY Invariance, <1>1, PTL

(* The globals sockfd and cSSL of daap_tcp.c are the private state of the  *)
(* one thread that holds write_mutex, until daapFinalize() interferes.     *)
THEOREM ConnectionsAreOwned == SpecTcp => []OwnConnection
<1>1. IInv => OwnConnection
  BY DEF IInv, ISocket, OwnConnection
<1>2. QED
  BY Invariance, <1>1, PTL

(* Every stream that leaves the process is exactly one line, even when     *)
(* daapFinalize() interferes or the process stops at any point.            *)
THEOREM StreamsAreLines == SpecTcp => []OneLinePerStream
<1>1. IInv => OneLinePerStream
  BY DEF IInv
<1>2. QED
  BY Invariance, <1>1, PTL

(* Freed memory is used only after daapFinalize() has begun or after more  *)
(* failed handshakes than SSLRefs for every completed write.               *)
THEOREM UndefinedIsExplained == SpecTcp => []UndefinedOnlyAfterFailures
<1>1. IInv => UndefinedOnlyAfterFailures
  BY DEF IInv
<1>2. QED
  BY Invariance, <1>1, PTL

(* No call into daap_tcp.c closes or takes over a descriptor of the        *)
(* application.                                                            *)
THEOREM DescriptorsAreKept == SpecTcp => AppDescriptorsKept
<1> DEFINE Kept == tpc' # tpc => \A f \in Fds : fds[f] = "app" => fds'[f] = "app"
<1>1. IInv /\ [Next]_vars => [Kept]_vars
  <2> SUFFICES ASSUME IInv, Next, tpc' # tpc PROVE \A f \in Fds : fds[f] = "app" => fds'[f] = "app"
    OBVIOUS
  <2> USE DEF IInv
  <2>1. CASE daapInitializeSSL \/ Host \/ Collector \/ CallerFault
    BY <2>1 DEF daapInitializeSSL, Host, AppOpen, AppClose, Reap, Collector, Receive, Lose,
        CallerFault, Stop, tcpVars
  <2>2. ASSUME NEW t \in Threads, Call(t) PROVE fds' = fds
    BY <2>2 DEF Call, daapTCPLogWrite, daapShutdownSSL
  <2>3. ASSUME NEW t \in Threads, Socket(t)
        PROVE  \A f \in Fds : fds[f] = "app" => fds'[f] = "app"
    BY <2>3 DEF Socket, LowestFree, TypeOK
  <2>4. ASSUME NEW t \in Threads, Close(t)
        PROVE  \A f \in Fds : fds[f] = "app" => fds'[f] = "app"
    BY <2>4 DEF Close, At, TypeOK, ISocket, Connected
  <2>5. ASSUME NEW t \in Threads, TcpStep(t), ~Socket(t), ~Close(t) PROVE fds' = fds
    BY <2>5 DEF TcpStep, LockWrite, Connect, SSLNew, Handshake, ShutdownCtx, ShutdownNotify,
        ShutdownFree, SSLWrite, UnlockWrite, ConnectFailed, Stop
  <2>6. QED
    BY <2>1, <2>2, <2>3, <2>4, <2>5 DEF Next
<1>2. QED
  BY Invariance, <1>1, PTL DEF AppDescriptorsKept, SpecTcp

=============================================================================
