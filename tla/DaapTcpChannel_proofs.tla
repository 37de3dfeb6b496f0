----------------------- MODULE DaapTcpChannel_proofs -----------------------
(***************************************************************************)
(* What becomes of descriptors and of lines in the TLS transport, for any  *)
(* number of threads, lines and descriptors: proofs on top of the          *)
(* invariant of DaapTcp_proofs.                                            *)
(***************************************************************************)
EXTENDS DaapTcp_proofs, FiniteSetTheorems

Sockets == {f \in Fds : fds[f] = "log"}
Busy == \E t \in Threads : tpc[t] \in Connected

(* The open sockets are the leaked ones and that of the thread between     *)
(* socket() and the end of its attempt.                                    *)
IFds ==
    proc = "running" => Cardinality(Sockets) = leaked + (IF Busy THEN 1 ELSE 0)

(* The set of sockets is finite, as the descriptor table is.               *)
LEMMA SocketsFinite == IsFiniteSet(Sockets) /\ Cardinality(Sockets) \in Nat
<1>1. IsFiniteSet(Fds)
  BY FS_Interval, TcpAssumption DEF Fds
<1>2. Sockets \in SUBSET Fds
  BY DEF Sockets
<1>3. QED
  BY <1>1, <1>2, FS_Subset, FS_CardinalityType

(* write_mutex lets one thread at a time be between socket() and the end   *)
(* of its attempt.                                                         *)
LEMMA OneConnected ==
    ASSUME IInv, NEW t \in Threads, NEW u \in Threads,
           tpc[t] \in Connected \cup {"socket"}, tpc[u] \in Connected \cup {"socket"}
    PROVE  t = u
BY DEF IInv, IMutex, Holding

(* A step that touches no socket, fails no attempt and moves no thread     *)
(* into or out of one keeps the account.                                   *)
LEMMA FdsQuiet ==
    ASSUME IFds, Sockets' = Sockets, leaked' = leaked, Busy' <=> Busy,
           proc' = "running" => proc = "running"
    PROVE  IFds'
BY DEF IFds

(* Every step of daap_tcp.c keeps the account of the descriptors: what is  *)
(* open is the connection in use, or leaked by a call that failed.         *)
LEMMA FdsStep == IInv /\ IFds /\ [Next]_vars => IFds'
<1> SUFFICES ASSUME IInv, IFds, [Next]_vars PROVE IFds'
  OBVIOUS
<1> USE TcpAssumption DEF IInv
<1>1. CASE daapInitializeSSL \/ Collector \/ CallerFault \/ UNCHANGED vars
  BY <1>1 DEF daapInitializeSSL, Collector, Receive, Lose, CallerFault, Stop, tcpVars, netVars,
      vars, IFds, Sockets, Busy
<1>2. CASE AppOpen \/ AppClose
  <2>1. Sockets' = Sockets
    BY <1>2 DEF AppOpen, AppClose, LowestFree, Sockets, TypeOK
  <2>2. QED
    BY <1>2, <2>1, FdsQuiet DEF AppOpen, AppClose, tcpVars, Busy
<1>3. CASE Reap
  BY <1>3 DEF Reap, IFds
<1>4. ASSUME NEW t \in Threads, Call(t) \/ LockWrite(t) \/ ShutdownCtx(t)
              \/ ShutdownNotify(t) \/ ShutdownFree(t) \/ UnlockWrite(t) \/ ConnectFailed(t)
      PROVE  IFds'
  <2>1. \A u \in Threads : tpc'[u] \in Connected <=> tpc[u] \in Connected
    BY <1>4 DEF Call, daapTCPLogWrite, daapShutdownSSL, LockWrite, ShutdownCtx, ShutdownNotify,
        ShutdownFree, UnlockWrite, ConnectFailed, At, Goto, Stop, tcpVars, TypeOK, Connected
  <2>2. fds' = fds /\ leaked' = leaked /\ (proc' = "running" => proc = "running")
    BY <1>4 DEF Call, daapTCPLogWrite, daapShutdownSSL, LockWrite, ShutdownCtx, ShutdownNotify,
        ShutdownFree, UnlockWrite, ConnectFailed, At, Stop, tcpVars
  <2>3. QED
    BY <2>1, <2>2, FdsQuiet DEF Sockets, Busy
<1>5. ASSUME NEW t \in Threads, Socket(t) PROVE IFds'
  <2>1. ~Busy
    BY <1>5, OneConnected DEF Socket, At, Busy, Connected
  <2>2. ASSUME NEW f \in Fds, LowestFree(f), fds' = [fds EXCEPT ![f] = "log"], Goto(t, "connect")
        PROVE  IFds'
    <3>1. Sockets' = Sockets \cup {f} /\ f \notin Sockets
      BY <2>2 DEF LowestFree, Sockets, TypeOK
    <3>2. Busy'
      BY <2>2 DEF Goto, Busy, TypeOK, Connected
    <3>3. Cardinality(Sockets') = Cardinality(Sockets) + 1
      BY <3>1, SocketsFinite, FS_AddElement
    <3>4. QED
      BY <1>5, <2>1, <3>2, <3>3 DEF Socket, At, IFds, TypeOK
  <2>3. ASSUME fds' = fds, Goto(t, "fail") PROVE IFds'
    <3>1. ~Busy'
      BY <2>1, <2>3 DEF Goto, Busy, TypeOK, Connected
    <3>2. QED
      BY <1>5, <2>1, <2>3, <3>1, FdsQuiet DEF Socket, Sockets
  <2>4. QED
    BY <1>5, <2>2, <2>3 DEF Socket
<1>6. ASSUME NEW t \in Threads, Connect(t) \/ SSLNew(t) \/ Handshake(t) \/ SSLWrite(t) PROVE IFds'
  <2>1. CASE proc' # "running"
    BY <2>1 DEF IFds
  <2>2. CASE proc' = "running"
    <3>1. proc = "running" /\ Busy /\ fds' = fds
      BY <1>6, <2>2 DEF Connect, SSLNew, Handshake, SSLWrite, At, Busy, Connected, Stop
    <3>2. CASE leaked' = leaked /\ tpc'[t] \in Connected
      BY <3>1, <3>2, FdsQuiet DEF Sockets, Busy
    <3>3. CASE leaked' = leaked + 1 /\ (Goto(t, "fail") \/ Goto(t, "sd_ctx"))
      <4>1. ~Busy'
        BY <1>6, <3>3, OneConnected DEF Connect, SSLNew, Handshake, SSLWrite, At, Goto, Busy,
            TypeOK, Connected
      <4>2. Sockets' = Sockets
        BY <3>1 DEF Sockets
      <4>3. QED
        BY <3>1, <3>3, <4>1, <4>2, SocketsFinite DEF IFds, TypeOK
    <3>4. QED
      BY <1>6, <2>2, <3>2, <3>3 DEF Connect, SSLNew, Handshake, SSLWrite, Goto, Stop, TypeOK,
          Connected
  <2>3. QED
    BY <2>1, <2>2
<1>7. ASSUME NEW t \in Threads, Close(t) PROVE IFds'
  <2>1. sockfd \in Fds /\ fds[sockfd] = "log" /\ Busy
    BY <1>7 DEF Close, At, ISocket, Busy, Connected
  <2>2. Sockets' = Sockets \ {sockfd} /\ sockfd \in Sockets
    BY <1>7, <2>1 DEF Close, Sockets, TypeOK
  <2>3. Cardinality(Sockets') = Cardinality(Sockets) - 1
    BY <2>2, SocketsFinite, FS_RemoveElement
  <2>4. ~Busy'
    BY <1>7, OneConnected DEF Close, At, Goto, Busy, TypeOK, Connected
  <2>5. QED
    BY <1>7, <2>1, <2>3, <2>4, SocketsFinite DEF Close, At, IFds, TypeOK
<1>8. QED
  BY <1>1, <1>2, <1>3, <1>4, <1>5, <1>6, <1>7 DEF Next, Host, TcpStep

(* Every descriptor the transport opens is closed by the attempt that      *)
(* opened it, or lost by an attempt that failed: nothing else leaks, and   *)
(* nothing is closed twice.                                                *)
THEOREM DescriptorsAreAccounted == SpecTcp => []DescriptorAccounting
<1>1. InitTcp => IFds
  <2> SUFFICES ASSUME InitTcp PROVE Cardinality(Sockets) = 0 /\ leaked = 0 /\ ~Busy
    BY DEF IFds
  <2>1. Sockets = {}
    BY DEF InitTcp, Sockets
  <2>2. QED
    BY <2>1, FS_EmptySet DEF InitTcp, Busy, Connected
<1>2. IInv /\ IFds => DescriptorAccounting
  <2> SUFFICES ASSUME IInv, IFds, proc = "running"
               PROVE  Cardinality(Sockets) =
                          leaked + Cardinality({t \in Threads : tpc[t] \in Connected})
    BY DEF DescriptorAccounting, Sockets
  <2>1. CASE Busy
    <3>1. PICK t \in Threads : tpc[t] \in Connected
      BY <2>1 DEF Busy
    <3>2. {u \in Threads : tpc[u] \in Connected} = {t}
      BY <3>1, OneConnected
    <3>3. QED
      BY <2>1, <3>2, FS_Singleton DEF IFds
  <2>2. CASE ~Busy
    <3>1. {u \in Threads : tpc[u] \in Connected} = {}
      BY <2>2 DEF Busy
    <3>2. QED
      BY <2>2, <3>1, FS_EmptySet DEF IFds
  <2>3. QED
    BY <2>1, <2>2
<1>3. QED
  BY <1>1, <1>2, Invariance, FdsStep, PTL DEF SpecTcp

-----------------------------------------------------------------------------
(* Every line that is anywhere was handed to daapTCPLogWrite().            *)
ISubmitted ==
    /\ \A t \in Threads : line[t] \in Lines => line[t] \in submitted
    /\ \A l \in Lines : (\E f \in Fds : carried[f] = <<l>>) => l \in submitted
    /\ \A l \in Lines : <<l>> \in network \cup received => l \in submitted

(* Two threads never write the same line.                                  *)
IOneThread ==
    \A t, u \in Threads : line[t] = line[u] /\ line[t] \in Lines => t = u

(* A line that a thread has yet to write was not sent.                     *)
Written == {"close", "unlock", "fail"}
IUnwritten ==
    \A t \in Threads : line[t] \in Lines /\ tpc[t] \notin Written =>
        /\ \A f \in Fds : carried[f] # <<line[t]>>
        /\ <<line[t]>> \notin network \cup received

(* A stream is on one socket, or in the network, or at the collector.      *)
IOneCopy ==
    /\ \A f, g \in Fds : carried[f] = carried[g] /\ carried[f] # <<>> => f = g
    /\ \A f \in Fds : carried[f] # <<>> => carried[f] \notin network \cup received
    /\ network \cap received = {}

ILines == ISubmitted /\ IOneThread /\ IUnwritten /\ IOneCopy

(* A stream of one line.                                                   *)
LEMMA StreamOfLine ==
    ASSUME NEW s \in Seq(Lines), Len(s) = 1
    PROVE  \E l \in Lines : s = <<l>>
<1>1. s[1] \in Lines /\ s = <<s[1]>>
  OBVIOUS
<1>2. QED
  BY <1>1

(* SSL_write() on an empty stream leaves the one line on it.               *)
LEMMA AppendEmpty == \A l \in Lines : Append(<<>>, l) = <<l>>
OBVIOUS

(* SSL_write() finds its socket empty.                                     *)
LEMMA EmptySocket ==
    ASSUME IInv, NEW t \in Threads, proc = "running", tpc[t] = "write"
    PROVE  cSSL.fd = sockfd /\ sockfd \in Fds /\ carried[sockfd] = <<>> /\ line[t] \in Lines
BY DEF IInv, ISocket, IStream, IMutex, Holding, Connected

(* Steps that leave the streams and the lines in hand alone.               *)
LEMMA LinesQuiet ==
    ASSUME ILines, UNCHANGED <<carried, network, received, line, submitted>>,
           \A t \in Threads : tpc[t] \in Written => tpc'[t] \in Written
    PROVE  ILines'
BY DEF ILines, ISubmitted, IOneThread, IUnwritten, IOneCopy

(* Every step of daap_tcp.c keeps a line in one place: one thread writes   *)
(* it, on one stream, once.                                                *)
LEMMA LinesStep == IInv /\ ILines /\ [Next]_vars => ILines'
<1> SUFFICES ASSUME IInv, ILines, [Next]_vars PROVE ILines'
  OBVIOUS
<1> USE TcpAssumption
<1>1. CASE daapInitializeSSL \/ AppOpen \/ AppClose \/ CallerFault \/ UNCHANGED vars
  BY <1>1, LinesQuiet DEF daapInitializeSSL, AppOpen, AppClose, CallerFault, Stop, tcpVars,
      netVars, vars
<1>2. CASE Reap
  BY <1>2 DEF Reap, ILines, ISubmitted, IOneThread, IUnwritten, IOneCopy
<1>3. CASE Receive
  BY <1>3 DEF Receive, tcpVars, ILines, ISubmitted, IOneThread, IUnwritten, IOneCopy
<1>4. CASE Lose
  BY <1>4 DEF Lose, tcpVars, ILines, ISubmitted, IOneThread, IUnwritten, IOneCopy
<1>5. ASSUME NEW t \in Threads, NEW l \in Lines, daapTCPLogWrite(t, l) PROVE ILines'
  <2>1. /\ line' = [line EXCEPT ![t] = l] /\ submitted' = submitted \cup {l}
        /\ l \notin submitted /\ UNCHANGED <<carried, network, received>>
        /\ \A u \in Threads : u # t => tpc'[u] = tpc[u]
    BY <1>5 DEF daapTCPLogWrite, Goto, netVars, IInv, TypeOK
  <2>2. \A u \in Threads : line'[u] = IF u = t THEN l ELSE line[u]
    BY <2>1 DEF IInv, TypeOK
  <2>3. \A u \in Threads : line[u] # l
    BY <2>1 DEF ILines, ISubmitted
  <2>4. (\A f \in Fds : carried[f] # <<l>>) /\ <<l>> \notin network \cup received
    BY <2>1 DEF ILines, ISubmitted
  <2>5. ISubmitted'
    BY <2>1, <2>2 DEF ILines, ISubmitted
  <2>6. IOneThread'
    BY <2>1, <2>2, <2>3 DEF ILines, IOneThread
  <2>7. IUnwritten'
    BY <2>1, <2>2, <2>4 DEF ILines, IUnwritten
  <2>8. IOneCopy'
    BY <2>1 DEF ILines, IOneCopy
  <2>9. QED
    BY <2>5, <2>6, <2>7, <2>8 DEF ILines
<1>6. ASSUME NEW t \in Threads,
             daapShutdownSSL(t) \/ LockWrite(t) \/ Socket(t) \/ Connect(t) \/ SSLNew(t)
             \/ Handshake(t) \/ ShutdownCtx(t) \/ ShutdownNotify(t) \/ ShutdownFree(t)
      PROVE  ILines'
  <2>1. UNCHANGED <<carried, network, received, line, submitted>>
    BY <1>6 DEF daapShutdownSSL, LockWrite, Socket, Connect, SSLNew, Handshake, ShutdownCtx,
        ShutdownNotify, ShutdownFree, Stop, tcpVars, netVars
  <2>2. \A u \in Threads : tpc[u] \in Written => tpc'[u] \in Written
    BY <1>6 DEF daapShutdownSSL, LockWrite, Socket, Connect, SSLNew, Handshake, ShutdownCtx,
        ShutdownNotify, ShutdownFree, Stop, tcpVars, At, Goto, IInv, TypeOK, Written
  <2>3. QED
    BY <2>1, <2>2, LinesQuiet
<1>7. ASSUME NEW t \in Threads, UnlockWrite(t) \/ ConnectFailed(t) PROVE ILines'
  <2>1. /\ line' = [line EXCEPT ![t] = NoLine]
        /\ UNCHANGED <<submitted, carried, network, received>>
        /\ \A u \in Threads : u # t => tpc'[u] = tpc[u]
    BY <1>7 DEF UnlockWrite, ConnectFailed, Goto, netVars, IInv, TypeOK
  <2>2. \A u \in Threads : line'[u] = IF u = t THEN NoLine ELSE line[u]
    BY <2>1 DEF IInv, TypeOK
  <2>3. \A u \in Threads : line'[u] \in Lines => u # t /\ line'[u] = line[u]
    BY <2>2
  <2>4. ISubmitted' /\ IOneThread'
    BY <2>1, <2>3 DEF ILines, ISubmitted, IOneThread
  <2>5. IUnwritten'
    BY <2>1, <2>3 DEF ILines, IUnwritten
  <2>6. IOneCopy'
    BY <2>1 DEF ILines, IOneCopy
  <2>7. QED
    BY <2>4, <2>5, <2>6 DEF ILines
<1>8. ASSUME NEW t \in Threads, SSLWrite(t) PROVE ILines'
  <2>1. UNCHANGED <<network, received, line, submitted>>
    BY <1>8 DEF SSLWrite, Stop, tcpVars, netVars
  <2>2. \A u \in Threads : tpc[u] \in Written => tpc'[u] \in Written
    BY <1>8 DEF SSLWrite, Stop, tcpVars, At, Goto, IInv, TypeOK, Written
  <2>3. CASE carried' = carried
    BY <2>1, <2>2, <2>3, LinesQuiet
  <2>4. CASE carried' # carried
    <3>1. /\ tpc'[t] = "close" /\ proc = "running" /\ tpc[t] = "write"
          /\ carried' = [carried EXCEPT ![cSSL.fd] = Append(@, line[t])]
      BY <1>8, <2>4 DEF SSLWrite, Stop, tcpVars, At, Goto, IInv, TypeOK
    <3>2. /\ line[t] \in Lines /\ sockfd \in Fds
          /\ carried' = [carried EXCEPT ![sockfd] = <<line[t]>>]
      BY <3>1, EmptySocket, AppendEmpty DEF IInv, TypeOK
    <3>3. /\ \A f \in Fds : carried[f] # <<line[t]>>
          /\ <<line[t]>> \notin network \cup received
      BY <3>1, <3>2 DEF ILines, IUnwritten, Written
    <3>4. ISubmitted' /\ IOneThread' /\ IOneCopy'
      <4>1. \A f \in Fds : carried'[f] = IF f = sockfd THEN <<line[t]>> ELSE carried[f]
        BY <3>2 DEF IInv, TypeOK
      <4>2. ISubmitted'
        BY <2>1, <3>2, <4>1 DEF ILines, ISubmitted
      <4>3. IOneThread'
        BY <2>1 DEF ILines, IOneThread
      <4>4. IOneCopy'
        BY <2>1, <3>3, <4>1 DEF ILines, IOneCopy
      <4>5. QED
        BY <4>2, <4>3, <4>4
    <3>5. ASSUME NEW u \in Threads, line'[u] \in Lines, tpc'[u] \notin Written
          PROVE  /\ \A f \in Fds : carried'[f] # <<line'[u]>>
                 /\ <<line'[u]>> \notin network' \cup received'
      <4>1. line[u] # line[t]
        BY <2>1, <3>1, <3>2, <3>5 DEF Written, ILines, IOneThread
      <4>2. /\ \A f \in Fds : carried[f] # <<line[u]>>
            /\ <<line[u]>> \notin network \cup received
        BY <2>1, <2>2, <3>5 DEF ILines, IUnwritten
      <4>3. QED
        BY <2>1, <3>2, <4>1, <4>2 DEF IInv, TypeOK
    <3>6. QED
      BY <3>4, <3>5 DEF ILines, IUnwritten
  <2>5. QED
    BY <2>3, <2>4
<1>9. ASSUME NEW t \in Threads, Close(t) PROVE ILines'
  <2>1. sockfd \in Fds
    BY <1>9 DEF Close, At, IInv, ISocket, Connected
  <2>2. /\ \A f \in Fds : carried'[f] = IF f = sockfd THEN <<>> ELSE carried[f]
        /\ network' = IF carried[sockfd] = <<>> THEN network ELSE network \cup {carried[sockfd]}
        /\ UNCHANGED <<line, submitted, received>>
    BY <1>9 DEF Close, IInv, TypeOK
  <2>3. \A u \in Threads : tpc[u] \in Written => tpc'[u] \in Written
    BY <1>9 DEF Close, Goto, IInv, TypeOK, Written
  <2>4. ISubmitted' /\ IOneThread'
    BY <2>1, <2>2 DEF ILines, ISubmitted, IOneThread
  <2>5. IUnwritten'
    BY <2>1, <2>2, <2>3 DEF ILines, IUnwritten
  <2>6. IOneCopy'
    BY <2>1, <2>2 DEF ILines, IOneCopy
  <2>7. QED
    BY <2>4, <2>5, <2>6 DEF ILines
<1>10. QED
  BY <1>1, <1>2, <1>3, <1>4, <1>5, <1>6, <1>7, <1>8, <1>9 DEF Next, Host, Collector, Call, TcpStep

(* A line is in one place from daapLogWrite() to the collector.            *)
LEMMA LinesInvariance == SpecTcp => []ILines
<1>1. InitTcp => ILines
  BY TcpAssumption DEF InitTcp, ILines, ISubmitted, IOneThread, IUnwritten, IOneCopy
<1>2. QED
  BY <1>1, LinesStep, Invariance, PTL DEF SpecTcp

(* A set any two members of which are equal has at most one.               *)
LEMMA AtMostOne ==
    ASSUME NEW S, \A x, y \in S : x = y
    PROVE  IsFiniteSet(S) /\ Cardinality(S) <= 1
<1>1. CASE S = {}
  BY <1>1, FS_EmptySet
<1>2. CASE S # {}
  <2>1. PICK x : S = {x}
    BY <1>2
  <2>2. IsFiniteSet(S) /\ Cardinality(S) = 1
    BY <2>1, FS_Singleton, Zenon
  <2>3. QED
    BY <2>2
<1>3. QED
  BY <1>1, <1>2

(* The retry loop of daapTCPLogWrite(), other threads and the end of the   *)
(* process at any point never send a line twice.                           *)
THEOREM LinesAreSentOnce == SpecTcp => []NoLineTwice
<1>1. IInv /\ ILines => NoLineTwice
  <2> SUFFICES ASSUME IInv, ILines, NEW l \in Lines PROVE Cardinality(LineAt(l)) <= 1
    BY DEF NoLineTwice
  <2>1. ASSUME NEW r \in Seq(Lines), Len(r) <= 1, \E i \in DOMAIN r : r[i] = l PROVE r = <<l>>
    <3>1. r # <<>>
      BY <2>1
    <3>2. PICK k \in Lines : r = <<k>>
      BY <2>1, <3>1, SingleLine, StreamOfLine
    <3>3. QED
      BY <2>1, <3>2
  <2>2. \A f \in Fds : (\E i \in DOMAIN carried[f] : carried[f][i] = l) => carried[f] = <<l>>
    BY <2>1 DEF IInv, TypeOK, OneLinePerStream
  <2>3. \A r \in network \cup received : (\E i \in DOMAIN r : r[i] = l) => r = <<l>>
    <3>1. \A r \in network \cup received : r \in Seq(Lines) /\ Len(r) <= 1
      <4>1. \A r \in network \cup received : r \in Seq(Lines) /\ Len(r) = 1
        BY Zenon DEF IInv, TypeOK, OneLinePerStream
      <4>2. 1 <= 1
        OBVIOUS
      <4>3. QED
        BY <4>1, <4>2, Zenon
    <3>2. QED
      BY <2>1, <3>1
  <2>4. ASSUME NEW x \in LineAt(l)
        PROVE  \/ \E t \in Threads : x = <<"thread", t>> /\ line[t] = l /\ tpc[t] \notin Written
               \/ \E f \in Fds : x = <<"socket", f>> /\ carried[f] = <<l>>
               \/ x = <<"network", <<l>>>> /\ <<l>> \in network
               \/ x = <<"collector", <<l>>>> /\ <<l>> \in received
    BY <2>2, <2>3, <2>4 DEF LineAt, Written
  <2>5. \A x, y \in LineAt(l) : x = y
    <3> SUFFICES ASSUME NEW x \in LineAt(l), NEW y \in LineAt(l) PROVE x = y
      OBVIOUS
    <3>1. CASE \E t \in Threads : x = <<"thread", t>> /\ line[t] = l /\ tpc[t] \notin Written
      BY <2>4, <3>1 DEF ILines, IOneThread, IUnwritten
    <3>2. CASE \E f \in Fds : x = <<"socket", f>> /\ carried[f] = <<l>>
      BY <2>4, <3>2 DEF ILines, IUnwritten, IOneCopy
    <3>3. CASE x = <<"network", <<l>>>> /\ <<l>> \in network
      BY <2>4, <3>3 DEF ILines, IUnwritten, IOneCopy
    <3>4. CASE x = <<"collector", <<l>>>> /\ <<l>> \in received
      BY <2>4, <3>4 DEF ILines, IUnwritten, IOneCopy
    <3>5. QED
      BY <2>4, <3>1, <3>2, <3>3, <3>4
  <2>6. QED
    BY <2>5, AtMostOne
<1>2. QED
  BY <1>1, Invariance, LinesInvariance, PTL

-----------------------------------------------------------------------------
(* The refinement: what decides the status of a line.                      *)
InProgress == {"lock", "socket", "connect", "ssl_new", "handshake", "write"}
Sent(l) == <<l>> \in network \/ \E f \in Fds : carried[f] = <<l>>
InHand(l) == \E t \in Threads : line[t] = l /\ tpc[t] \in InProgress

(* The status of a line, as a chain of conditions: where daapTCPLogWrite() *)
(* has got with it.                                                        *)
LEMMA StatusIs ==
    ASSUME NEW l
    PROVE  Status(l) =
             IF <<l>> \in received THEN "delivered"
             ELSE IF Sent(l) THEN "sent"
             ELSE IF InHand(l) THEN "pending"
             ELSE IF l \in submitted THEN "lost" ELSE "new"
BY DEF Status, Sent, InHand, InProgress

(* The same after a step.                                                  *)
LEMMA StatusIsNext ==
    ASSUME NEW l
    PROVE  Status(l)' =
             IF <<l>> \in received' THEN "delivered"
             ELSE IF Sent(l)' THEN "sent"
             ELSE IF InHand(l)' THEN "pending"
             ELSE IF l \in submitted' THEN "lost" ELSE "new"
BY DEF Status, Sent, InHand, InProgress

(* A step that moves none of what decides the status of a line leaves the  *)
(* status.                                                                 *)
LEMMA SameStatus ==
    ASSUME NEW l, <<l>> \in received' <=> <<l>> \in received, Sent(l)' <=> Sent(l),
           InHand(l)' <=> InHand(l), l \in submitted' <=> l \in submitted
    PROVE  Status(l)' = Status(l)
BY StatusIs, StatusIsNext

(* One line moves and the others stay, or all of them stay.                *)
LEMMA MoveLine ==
    ASSUME NEW k \in Lines, NEW from, NEW to, Status(k) = from, Status(k)' = to,
           \A l \in Lines : l # k => Status(l)' = Status(l)
    PROVE  Channel!Move(k, from, to)
BY DEF Channel!Move

(* A step that moves no line stutters to the collector.                    *)
LEMMA NoMove ==
    ASSUME \A l \in Lines : Status(l)' = Status(l)
    PROVE  UNCHANGED [l \in Lines |-> Status(l)]
OBVIOUS

(* A step of thread t changes nothing for the lines of other threads.      *)
LEMMA OthersStay ==
    ASSUME NEW t \in Threads, \A u \in Threads : u # t => tpc'[u] = tpc[u], line' = line,
           NEW l, l # line[t]
    PROVE  InHand(l)' <=> InHand(l)
BY DEF InHand

(* Thread t alone decides whether its line is in hand.                     *)
LEMMA OwnLine ==
    ASSUME ILines, NEW t \in Threads, line[t] \in Lines
    PROVE  InHand(line[t]) <=> tpc[t] \in InProgress
BY DEF ILines, IOneThread, InHand

(* Thread t alone decides after its step, too, whether its line is in hand. *)
LEMMA OwnLineNext ==
    ASSUME ILines, NEW t \in Threads, line[t] \in Lines, line' = line
    PROVE  InHand(line[t])' <=> tpc'[t] \in InProgress
BY DEF ILines, IOneThread, InHand

(* A thread that goes on, in hand or not, with the streams as they are.    *)
LEMMA KeepsStatus ==
    ASSUME IInv, ILines, NEW t \in Threads, UNCHANGED <<line, submitted, carried, network, received>>,
           \A u \in Threads : u # t => tpc'[u] = tpc[u],
           tpc'[t] \in InProgress <=> tpc[t] \in InProgress
    PROVE  \A l \in Lines : Status(l)' = Status(l)
<1> SUFFICES ASSUME NEW l \in Lines PROVE Status(l)' = Status(l)
  OBVIOUS
<1>1. InHand(l)' <=> InHand(l)
  BY OthersStay, OwnLine, OwnLineNext
<1>2. QED
  BY <1>1, SameStatus DEF Sent

(* An attempt that ends without sending gives its line up.                 *)
LEMMA GivesUp ==
    ASSUME IInv, ILines, NEW t \in Threads, UNCHANGED <<line, submitted, carried, network, received>>,
           \A u \in Threads : u # t => tpc'[u] = tpc[u], line[t] \in Lines,
           tpc[t] \in InProgress, tpc'[t] \notin InProgress
    PROVE  Channel!GiveUp(line[t])
<1>1. <<line[t]>> \notin received /\ ~Sent(line[t]) /\ line[t] \in submitted
  BY DEF ILines, ISubmitted, IUnwritten, InProgress, Written, Sent
<1>2. InHand(line[t]) /\ ~InHand(line[t])'
  BY OwnLine, OwnLineNext
<1>3. Status(line[t]) = "pending"
  BY <1>1, <1>2, StatusIs
<1>4. ~Sent(line[t])'
  BY <1>1 DEF Sent
<1>5. Status(line[t])' = "lost"
  BY <1>1, <1>2, <1>4, StatusIsNext
<1>6. ASSUME NEW l \in Lines, l # line[t] PROVE Status(l)' = Status(l)
  BY <1>6, OthersStay, SameStatus DEF Sent
<1>7. QED
  BY <1>3, <1>5, <1>6, MoveLine DEF Channel!GiveUp

(* SSL_write() sends the line in hand.                                     *)
LEMMA Sends ==
    ASSUME IInv, ILines, NEW t \in Threads, SSLWrite(t), carried' # carried
    PROVE  Channel!Send(line[t])
<1>1. /\ tpc'[t] = "close" /\ proc = "running" /\ tpc[t] = "write"
      /\ carried' = [carried EXCEPT ![cSSL.fd] = Append(@, line[t])]
      /\ UNCHANGED <<line, submitted, network, received>>
      /\ \A u \in Threads : u # t => tpc'[u] = tpc[u]
  BY DEF SSLWrite, Stop, tcpVars, netVars, At, Goto, IInv, TypeOK
<1>2. line[t] \in Lines /\ sockfd \in Fds /\ carried[sockfd] = <<>> /\ cSSL.fd = sockfd
  BY <1>1, EmptySocket
<1>3. \A f \in Fds : carried'[f] = IF f = sockfd THEN <<line[t]>> ELSE carried[f]
  BY <1>1, <1>2, AppendEmpty DEF IInv, TypeOK
<1>4. <<line[t]>> \notin received /\ ~Sent(line[t]) /\ InHand(line[t])
  BY <1>1, <1>2 DEF ILines, IUnwritten, Written, Sent, InHand, InProgress
<1>5. Status(line[t]) = "pending"
  BY <1>4, StatusIs
<1>6. Sent(line[t])' /\ <<line'[t]>> \notin received'
  BY <1>1, <1>2, <1>3, <1>4 DEF Sent
<1>7. Status(line[t])' = "sent"
  BY <1>6, StatusIsNext
<1>8. ASSUME NEW l \in Lines, l # line[t] PROVE Status(l)' = Status(l)
  <2>1. Sent(l)' <=> Sent(l)
    BY <1>1, <1>2, <1>3, <1>8 DEF Sent
  <2>2. QED
    BY <1>1, <1>8, <2>1, OthersStay, SameStatus
<1>9. QED
  BY <1>1, <1>2, <1>5, <1>7, <1>8, MoveLine DEF Channel!Send

(* A stream that leaves the network was sent, and is in no other place.    *)
LEMMA InNetwork ==
    ASSUME IInv, ILines, NEW s \in network
    PROVE  \E k \in Lines : /\ s = <<k>> /\ <<k>> \notin received /\ k \in submitted
                            /\ \A f \in Fds : carried[f] # <<k>>
                            /\ ~InHand(k) /\ Status(k) = "sent"
<1>1. s \in Seq(Lines) /\ Len(s) = 1
  BY DEF IInv, TypeOK, OneLinePerStream
<1>2. PICK k \in Lines : s = <<k>>
  BY <1>1, StreamOfLine
<1>3. /\ <<k>> \notin received /\ k \in submitted
      /\ \A f \in Fds : carried[f] # <<k>>
  BY <1>2 DEF ILines, ISubmitted, IOneCopy
<1>4. ~InHand(k)
  BY <1>2 DEF ILines, IUnwritten, InHand, InProgress, Written
<1>5. Status(k) = "sent"
  BY <1>2, <1>3, StatusIs DEF Sent
<1>6. QED
  BY <1>2, <1>3, <1>4, <1>5

(* Every step of the transport is a step of LogChannel or changes no       *)
(* line's status.                                                          *)
LEMMA ChannelStep ==
    IInv /\ ILines /\ [Next]_vars => [Channel!Next]_([l \in Lines |-> Status(l)])
<1> SUFFICES ASSUME IInv, ILines, [Next]_vars
             PROVE  Channel!Next \/ UNCHANGED [l \in Lines |-> Status(l)]
  OBVIOUS
<1> USE TcpAssumption
<1>1. CASE daapInitializeSSL \/ AppOpen \/ AppClose \/ CallerFault \/ UNCHANGED vars
  <2>1. UNCHANGED <<tpc, line, submitted, carried, network, received>>
    BY <1>1 DEF daapInitializeSSL, AppOpen, AppClose, CallerFault, Stop, tcpVars, netVars, vars
  <2>2. \A l \in Lines : Status(l)' = Status(l)
    BY <2>1, SameStatus DEF Sent, InHand
  <2>3. QED
    BY <2>2, NoMove
<1>2. CASE Reap
  <2>1. ASSUME NEW l \in Lines PROVE Sent(l)' <=> Sent(l)
    BY <1>2 DEF Reap, Sent
  <2>2. \A l \in Lines : Status(l)' = Status(l)
    BY <1>2, <2>1, SameStatus DEF Reap, InHand
  <2>3. QED
    BY <2>2, NoMove
<1>3. CASE Receive
  <2>1. PICK s \in network : network' = network \ {s} /\ received' = received \cup {s}
    BY <1>3 DEF Receive
  <2>2. PICK k \in Lines : s = <<k>> /\ Status(k) = "sent"
    BY InNetwork
  <2>3. Status(k)' = "delivered"
    BY <2>1, <2>2, StatusIsNext
  <2>4. ASSUME NEW l \in Lines, l # k PROVE Status(l)' = Status(l)
    <3>1. /\ Sent(l)' <=> Sent(l)
          /\ <<l>> \in received' <=> <<l>> \in received
      BY <1>3, <2>1, <2>2, <2>4 DEF Receive, tcpVars, Sent
    <3>2. QED
      BY <1>3, <3>1, SameStatus DEF Receive, tcpVars, InHand
  <2>5. Channel!Deliver(k)
    BY <2>2, <2>3, <2>4, MoveLine DEF Channel!Deliver
  <2>6. QED
    BY <2>5 DEF Channel!Next
<1>4. CASE Lose
  <2>1. PICK s \in network : network' = network \ {s}
    BY <1>4 DEF Lose
  <2>2. PICK k \in Lines : /\ s = <<k>> /\ <<k>> \notin received /\ k \in submitted
                           /\ \A f \in Fds : carried[f] # <<k>>
                           /\ ~InHand(k) /\ Status(k) = "sent"
    BY InNetwork
  <2>3. UNCHANGED <<tpc, line, submitted, carried, received>>
    BY <1>4 DEF Lose, tcpVars
  <2>4. ~Sent(k)' /\ ~InHand(k)'
    BY <2>1, <2>2, <2>3 DEF Sent, InHand
  <2>5. Status(k)' = "lost"
    BY <2>2, <2>3, <2>4, StatusIsNext
  <2>6. ASSUME NEW l \in Lines, l # k PROVE Status(l)' = Status(l)
    <3>1. Sent(l)' <=> Sent(l)
      BY <2>1, <2>2, <2>3, <2>6 DEF Sent
    <3>2. QED
      BY <2>3, <3>1, SameStatus DEF InHand
  <2>7. Channel!Lose(k)
    BY <2>2, <2>5, <2>6, MoveLine DEF Channel!Lose
  <2>8. QED
    BY <2>7 DEF Channel!Next
<1>5. ASSUME NEW t \in Threads, NEW k \in Lines, daapTCPLogWrite(t, k)
      PROVE  Channel!Next
  <2>1. /\ line' = [line EXCEPT ![t] = k] /\ submitted' = submitted \cup {k}
        /\ k \notin submitted /\ UNCHANGED <<carried, network, received>>
        /\ tpc[t] = "out" /\ tpc' = [tpc EXCEPT ![t] = "lock"]
    BY <1>5 DEF daapTCPLogWrite, At, Goto, netVars
  <2>2. \A u \in Threads : line'[u] = IF u = t THEN k ELSE line[u]
    BY <2>1 DEF IInv, TypeOK
  <2>3. \A u \in Threads : tpc'[u] = IF u = t THEN "lock" ELSE tpc[u]
    BY <2>1 DEF IInv, TypeOK
  <2>4. <<k>> \notin received /\ ~Sent(k) /\ ~InHand(k)
    BY <2>1 DEF ILines, ISubmitted, Sent, InHand
  <2>5. Status(k) = "new"
    BY <2>1, <2>4, StatusIs
  <2>6. ~Sent(k)' /\ InHand(k)'
    BY <2>1, <2>2, <2>3, <2>4 DEF Sent, InHand, InProgress
  <2>7. Status(k)' = "pending"
    BY <2>1, <2>4, <2>6, StatusIsNext
  <2>8. ASSUME NEW l \in Lines, l # k PROVE Status(l)' = Status(l)
    <3>1. InHand(l)' <=> InHand(l)
      BY <2>1, <2>2, <2>3, <2>8 DEF InHand, InProgress
    <3>2. QED
      BY <2>1, <2>8, <3>1, SameStatus DEF Sent
  <2>9. Channel!Submit(k)
    BY <2>5, <2>7, <2>8, MoveLine DEF Channel!Submit
  <2>10. QED
    BY <2>9 DEF Channel!Next
<1>6. ASSUME NEW t \in Threads,
             daapShutdownSSL(t) \/ LockWrite(t) \/ SSLNew(t) \/ ShutdownCtx(t)
             \/ ShutdownNotify(t) \/ ShutdownFree(t)
      PROVE  UNCHANGED [l \in Lines |-> Status(l)]
  <2>1. UNCHANGED <<line, submitted, carried, network, received>>
    BY <1>6 DEF daapShutdownSSL, LockWrite, SSLNew, ShutdownCtx, ShutdownNotify, ShutdownFree,
        Stop, tcpVars, netVars
  <2>2. /\ \A u \in Threads : u # t => tpc'[u] = tpc[u]
        /\ tpc'[t] \in InProgress <=> tpc[t] \in InProgress
    BY <1>6 DEF daapShutdownSSL, LockWrite, SSLNew, ShutdownCtx, ShutdownNotify, ShutdownFree,
        Stop, tcpVars, At, Goto, IInv, TypeOK, InProgress
  <2>3. QED
    BY <2>1, <2>2, KeepsStatus, NoMove
<1>7. ASSUME NEW t \in Threads,
             Socket(t) \/ Connect(t) \/ Handshake(t) \/ (SSLWrite(t) /\ carried' = carried)
      PROVE  Channel!Next \/ UNCHANGED [l \in Lines |-> Status(l)]
  <2>1. UNCHANGED <<line, submitted, carried, network, received>>
    BY <1>7 DEF Socket, Connect, Handshake, SSLWrite, Stop, tcpVars, netVars
  <2>2. /\ \A u \in Threads : u # t => tpc'[u] = tpc[u]
        /\ tpc[t] \in InProgress
    BY <1>7 DEF Socket, Connect, Handshake, SSLWrite, Stop, tcpVars, At, Goto, IInv, TypeOK,
        InProgress
  <2>3. line[t] \in Lines
    BY <1>7 DEF Socket, Connect, Handshake, SSLWrite, At, IInv, IMutex, Holding, Connected
  <2>4. CASE tpc'[t] \in InProgress
    BY <2>1, <2>2, <2>4, KeepsStatus, NoMove
  <2>5. CASE tpc'[t] \notin InProgress
    <3>1. Channel!GiveUp(line[t])
      BY <2>1, <2>2, <2>3, <2>5, GivesUp
    <3>2. QED
      BY <2>3, <3>1 DEF Channel!Next
  <2>6. QED
    BY <2>4, <2>5
<1>8. ASSUME NEW t \in Threads, SSLWrite(t), carried' # carried PROVE Channel!Next
  <2>1. line[t] \in Lines
    BY <1>8, EmptySocket DEF SSLWrite, At
  <2>2. QED
    BY <1>8, <2>1, Sends DEF Channel!Next
<1>9. ASSUME NEW t \in Threads, Close(t) PROVE UNCHANGED [l \in Lines |-> Status(l)]
  <2>1. sockfd \in Fds
    BY <1>9 DEF Close, At, IInv, ISocket, Connected
  <2>2. /\ \A f \in Fds : carried'[f] = IF f = sockfd THEN <<>> ELSE carried[f]
        /\ network' = IF carried[sockfd] = <<>> THEN network ELSE network \cup {carried[sockfd]}
        /\ UNCHANGED <<line, submitted, received>>
    BY <1>9 DEF Close, IInv, TypeOK
  <2>3. ASSUME NEW l \in Lines PROVE Sent(l)' <=> Sent(l)
    BY <2>1, <2>2 DEF Sent
  <2>4. ASSUME NEW l \in Lines PROVE InHand(l)' <=> InHand(l)
    BY <1>9, <2>2 DEF Close, At, Goto, IInv, TypeOK, InHand, InProgress
  <2>5. \A l \in Lines : Status(l)' = Status(l)
    BY <2>2, <2>3, <2>4, SameStatus
  <2>6. QED
    BY <2>5, NoMove
<1>10. ASSUME NEW t \in Threads, UnlockWrite(t) \/ ConnectFailed(t)
       PROVE  UNCHANGED [l \in Lines |-> Status(l)]
  <2>1. /\ line' = [line EXCEPT ![t] = NoLine] /\ tpc' = [tpc EXCEPT ![t] = "out"]
        /\ UNCHANGED <<submitted, carried, network, received>>
        /\ tpc[t] \in {"unlock", "fail"}
    BY <1>10 DEF UnlockWrite, ConnectFailed, At, Goto, netVars
  <2>2. ASSUME NEW l \in Lines PROVE InHand(l)' <=> InHand(l)
    BY <2>1 DEF IInv, TypeOK, InHand, InProgress
  <2>3. \A l \in Lines : Status(l)' = Status(l)
    BY <2>1, <2>2, SameStatus DEF Sent
  <2>4. QED
    BY <2>3, NoMove
<1>11. QED
  BY <1>1, <1>2, <1>3, <1>4, <1>5, <1>6, <1>7, <1>8, <1>9, <1>10
      DEF Next, Host, Collector, Call, TcpStep

(* The transport implements LogChannel: for any number of threads, lines   *)
(* and descriptors a line is sent at most once, delivered at most once,    *)
(* and never taken up again after it was given up.                         *)
THEOREM TransportImplementsChannel == SpecTcp => ImplementsChannel
<1>1. InitTcp => Channel!Init
  <2> SUFFICES ASSUME InitTcp PROVE \A l \in Lines : Status(l) = "new"
    BY DEF Channel!Init
  <2> TAKE l \in Lines
  <2>1. <<l>> \notin received /\ ~Sent(l) /\ ~InHand(l) /\ l \notin submitted
    BY DEF InitTcp, Sent, InHand, InProgress
  <2>2. QED
    BY <2>1, StatusIs
<1>2. QED
  BY <1>1, ChannelStep, Invariance, LinesInvariance, PTL DEF SpecTcp, ImplementsChannel, Channel!Spec
=============================================================================
