------------------------------ MODULE DaapTcp ------------------------------
(***************************************************************************)
(* The TLS transport of the daap library (src/daap_tcp.c).                 *)
(*                                                                         *)
(* All state is process global: one SSL context, one SSL object pointer,   *)
(* one socket descriptor variable.  daapTCPLogWrite() opens a connection   *)
(* to the collector on the local host, writes ONE line and closes the      *)
(* socket, under write_mutex.  The line has no terminator: the end of the  *)
(* connection is what delimits it for the collector.  daapShutdownSSL()    *)
(* is called by a failed handshake (under write_mutex) and by              *)
(* daapFinalize() (without it).                                            *)
(*                                                                         *)
(* A step is one library or system call.  The process is "stopped" by      *)
(* exit(2), by a fault on a NULL SSL object or by the application itself.  *)
(* A use of freed memory makes it "undefined": the model says nothing      *)
(* about what follows.                                                     *)
(***************************************************************************)
EXTENDS Integers, Sequences, FiniteSets

CONSTANTS
    Threads,    \* the threads of the application that call the library
    Lines,      \* the influx lines handed to daapTCPLogWrite()
    MaxFd,      \* descriptors 1..MaxFd can be open at a time (RLIMIT_NOFILE)
    SSLRefs,    \* references to its SSL_CTX that one SSL object holds
    NoThread,   \* the owner of a free mutex
    NoLine      \* a thread that is writing nothing

ASSUME TcpAssumption ==
    /\ MaxFd \in Nat \ {0}
    /\ SSLRefs \in Nat \ {0}
    /\ NoThread \notin Threads
    /\ NoLine \notin Lines

VARIABLES
    proc,         \* the process: "running", "stopped" or "undefined"
    write_mutex,  \* holder of write_mutex
    sslctx,       \* "unset" (before daapInitializeSSL), "null" or "made"
    ctxRefs,      \* OpenSSL's reference count of the context; 0: freed
    cSSL,         \* the SSL object cSSL points at, and the descriptor it uses
    sockfd,       \* the descriptor of the current socket, -1 if none
    fds,          \* descriptor table: "free", "log" (a socket of ours), "app"
    tpc,          \* where each thread is in this file
    line,         \* the line each thread is writing
    carried,      \* what was written on the open socket at each descriptor
    network,      \* streams of closed connections the collector can still read
    received,     \* streams the collector has read to their end
    submitted,    \* history: the lines handed to daapTCPLogWrite()
    leaked,       \* history: attempts that failed after socket() succeeded
    hsFails,      \* history: SSL_connect() calls that failed
    writes,       \* history: connections closed after the SSL_write() loop
    shutting      \* history: daapFinalize() has called daapShutdownSSL()

tcpVars == <<write_mutex, sslctx, ctxRefs, cSSL, sockfd, tpc, line, carried,
             submitted, leaked, hsFails, writes, shutting>>
netVars == <<network, received>>
vars == <<proc, fds, tcpVars, netVars>>

Fds == 1 .. MaxFd

(* Control locations that hold write_mutex, in the order they are reached. *)
(* The sd_ locations are daapShutdownSSL(), entered from a failed handshake *)
(* when the thread holds write_mutex and from daapFinalize() when not.      *)
Shutdown == {"sd_ctx", "sd_notify", "sd_free"}
Connected == {"connect", "ssl_new", "handshake", "write", "close"}
Locations == {"out", "lock", "socket", "fail", "unlock"} \cup Connected \cup Shutdown

Goto(t, l) == tpc' = [tpc EXCEPT ![t] = l]

(* Thread t makes a step from location l of a live process.                *)
At(t, l) == proc = "running" /\ tpc[t] = l

(* The step is undefined behaviour, or ends the process.                   *)
Stop(how) == proc' = how /\ UNCHANGED <<fds, tcpVars, netVars>>

InitTcp ==
    /\ proc = "running"
    /\ write_mutex = NoThread
    /\ sslctx = "unset"
    /\ ctxRefs = 0
    /\ cSSL = [obj |-> "null", fd |-> -1]
    /\ sockfd = -1
    /\ fds = [f \in Fds |-> "free"]
    /\ tpc = [t \in Threads |-> "out"]
    /\ line = [t \in Threads |-> NoLine]
    /\ carried = [f \in Fds |-> <<>>]
    /\ network = {}
    /\ received = {}
    /\ submitted = {}
    /\ leaked = 0
    /\ hsFails = 0
    /\ writes = 0
    /\ shutting = FALSE

-----------------------------------------------------------------------------
(* Faulty variants of the actions below: plausible slips in this code that *)
(* the properties at the end of the module must tell from the real thing.  *)

(* LockWrite without pthread_mutex_lock().                                 *)
LockWriteUnguarded(t) ==
    /\ At(t, "lock")
    /\ write_mutex' = t
    /\ Goto(t, "socket")
    /\ UNCHANGED <<proc, sslctx, ctxRefs, cSSL, sockfd, fds, line, carried,
                   netVars, submitted, leaked, hsFails, writes, shutting>>

(* SSL_CTX_free() counts below zero.                                       *)
ShutdownCtxUnchecked(t) ==
    /\ At(t, "sd_ctx")
    /\ ctxRefs' = IF sslctx = "made" THEN ctxRefs - 1 ELSE ctxRefs
    /\ Goto(t, "sd_notify")
    /\ UNCHANGED <<proc, write_mutex, sslctx, cSSL, sockfd, fds, line, carried,
                   netVars, submitted, leaked, hsFails, writes, shutting>>

(* daapTCPConnect() goes on after daapShutdownSSL() instead of returning.  *)
ShutdownFreeNoReturn(t) ==
    /\ At(t, "sd_free")
    /\ cSSL.obj # "freed"
    /\ cSSL' = [cSSL EXCEPT !.obj = "freed"]
    /\ Goto(t, IF write_mutex = t THEN "write" ELSE "out")
    /\ UNCHANGED <<proc, write_mutex, sslctx, ctxRefs, sockfd, fds, line, carried,
                   netVars, submitted, leaked, hsFails, writes, shutting>>

(* The SSL_write() loop does not add up what it wrote, and starts again.   *)
SSLWriteResend(t) ==
    /\ At(t, "write")
    /\ cSSL.obj = "live"
    /\ carried' = [carried EXCEPT ![cSSL.fd] = Append(@, line[t])]
    /\ Goto(t, "close") \/ tpc' = tpc
    /\ UNCHANGED <<proc, write_mutex, sslctx, ctxRefs, cSSL, sockfd, fds, line,
                   netVars, submitted, leaked, hsFails, writes, shutting>>

(* The stream is ended with shutdown(), and the descriptor stays open.     *)
CloseLeaking(t) ==
    /\ At(t, "close")
    /\ network' = IF carried[sockfd] = <<>> THEN network ELSE network \cup {carried[sockfd]}
    /\ carried' = [carried EXCEPT ![sockfd] = <<>>]
    /\ writes' = writes + 1
    /\ Goto(t, "unlock")
    /\ UNCHANGED <<proc, write_mutex, sslctx, ctxRefs, cSSL, sockfd, fds, line,
                   received, submitted, leaked, hsFails, shutting>>

(* The SSL object is freed with its connection, and nothing else changes.  *)
CloseAndFree(t) ==
    /\ At(t, "close")
    /\ fds' = [fds EXCEPT ![sockfd] = "free"]
    /\ network' = IF carried[sockfd] = <<>> THEN network ELSE network \cup {carried[sockfd]}
    /\ carried' = [carried EXCEPT ![sockfd] = <<>>]
    /\ writes' = writes + 1
    /\ cSSL' = [cSSL EXCEPT !.obj = "freed"]
    /\ ctxRefs' = ctxRefs - SSLRefs
    /\ Goto(t, "unlock")
    /\ UNCHANGED <<proc, write_mutex, sslctx, sockfd, line,
                   received, submitted, leaked, hsFails, shutting>>

(* daapTCPClose(), which is commented out, is called after close().        *)
UnlockWriteClosesAgain(t) ==
    /\ At(t, "unlock")
    /\ fds' = [fds EXCEPT ![sockfd] = "free"]
    /\ write_mutex' = NoThread
    /\ line' = [line EXCEPT ![t] = NoLine]
    /\ Goto(t, "out")
    /\ UNCHANGED <<proc, sslctx, ctxRefs, cSSL, sockfd, carried,
                   netVars, submitted, leaked, hsFails, writes, shutting>>

(* The error path of daapTCPLogWrite() returns with write_mutex locked.    *)
ConnectFailedLocked(t) ==
    /\ At(t, "fail")
    /\ line' = [line EXCEPT ![t] = NoLine]
    /\ Goto(t, "out")
    /\ UNCHANGED <<proc, write_mutex, sslctx, ctxRefs, cSSL, sockfd, fds, carried,
                   netVars, submitted, leaked, hsFails, writes, shutting>>

-----------------------------------------------------------------------------
(* daapInitializeSSL(): the context is made, or left NULL when DAAP_CERTS  *)
(* is unset, too long, or names files that cannot be read.                 *)
daapInitializeSSL ==
    /\ proc = "running"
    /\ sslctx = "unset"
    /\ \/ sslctx' = "made" /\ ctxRefs' = 1
       \/ sslctx' = "null" /\ ctxRefs' = ctxRefs
    /\ UNCHANGED <<proc, write_mutex, cSSL, sockfd, fds, tpc, line, carried,
                   netVars, submitted, leaked, hsFails, writes, shutting>>

(* Thread t enters daapTCPLogWrite() with line l.                          *)
daapTCPLogWrite(t, l) ==
    /\ At(t, "out")
    /\ l \notin submitted
    /\ line' = [line EXCEPT ![t] = l]
    /\ submitted' = submitted \cup {l}
    /\ Goto(t, "lock")
    /\ UNCHANGED <<proc, write_mutex, sslctx, ctxRefs, cSSL, sockfd, fds,
                   carried, netVars, leaked, hsFails, writes, shutting>>

LockWrite(t) ==
    /\ At(t, "lock")
    /\ write_mutex = NoThread
    /\ write_mutex' = t
    /\ Goto(t, "socket")
    /\ UNCHANGED <<proc, sslctx, ctxRefs, cSSL, sockfd, fds, line, carried,
                   netVars, submitted, leaked, hsFails, writes, shutting>>

(* POSIX allocates the lowest free descriptor.                             *)
LowestFree(f) ==
    fds[f] = "free" /\ \A g \in Fds : fds[g] = "free" => f <= g

(* daapTCPConnect(): socket().  The result is stored in the global sockfd  *)
(* whether or not the call succeeds.                                       *)
Socket(t) ==
    /\ At(t, "socket")
    /\ \/ \E f \in Fds :
             /\ LowestFree(f)
             /\ fds' = [fds EXCEPT ![f] = "log"]
             /\ sockfd' = f
             /\ Goto(t, "connect")
       \/ /\ \A f \in Fds : fds[f] # "free"
          /\ sockfd' = -1
          /\ Goto(t, "fail")
          /\ fds' = fds
    /\ UNCHANGED <<proc, write_mutex, sslctx, ctxRefs, cSSL, line, carried,
                   netVars, submitted, leaked, hsFails, writes, shutting>>

(* daapTCPConnect(): connect().  The error path does not close sockfd.     *)
Connect(t) ==
    /\ At(t, "connect")
    /\ \/ Goto(t, "ssl_new") /\ leaked' = leaked
       \/ Goto(t, "fail") /\ leaked' = leaked + 1
    /\ UNCHANGED <<proc, write_mutex, sslctx, ctxRefs, cSSL, sockfd, fds, line,
                   carried, netVars, submitted, hsFails, writes, shutting>>

(* daapTCPConnect(): SSL_new(), SSL_set_fd().  SSL_new(NULL) returns NULL, *)
(* and SSL_set_fd(NULL, ..) dereferences it.  The SSL object of the        *)
(* previous connection is not freed.                                       *)
SSLNew(t) ==
    /\ At(t, "ssl_new")
    /\ \/ sslctx # "made" /\ Stop("stopped")
       \/ sslctx = "made" /\ ctxRefs = 0 /\ Stop("undefined")
       \/ /\ sslctx = "made"
          /\ ctxRefs > 0
          /\ cSSL' = [obj |-> "live", fd |-> sockfd]
          /\ ctxRefs' = ctxRefs + SSLRefs
          /\ Goto(t, "handshake")
          /\ UNCHANGED <<proc, write_mutex, sslctx, sockfd, fds, line, carried,
                         netVars, submitted, leaked, hsFails, writes, shutting>>

(* daapTCPConnect(): SSL_connect().  0 is taken for success.               *)
Handshake(t) ==
    /\ At(t, "handshake")
    /\ \/ cSSL.obj = "freed" /\ Stop("undefined")
       \/ /\ cSSL.obj # "freed"
          /\ \/ /\ Goto(t, "write")
                /\ UNCHANGED <<hsFails, leaked>>
             \/ /\ Goto(t, "sd_ctx")
                /\ hsFails' = hsFails + 1
                /\ leaked' = leaked + 1
          /\ UNCHANGED <<proc, write_mutex, sslctx, ctxRefs, cSSL, sockfd, fds,
                         line, carried, netVars, submitted, writes, shutting>>

-----------------------------------------------------------------------------
(* daapFinalize() calls daapShutdownSSL(), without write_mutex.            *)
daapShutdownSSL(t) ==
    /\ At(t, "out")
    /\ shutting' = TRUE
    /\ Goto(t, "sd_ctx")
    /\ UNCHANGED <<proc, write_mutex, sslctx, ctxRefs, cSSL, sockfd, fds, line,
                   carried, netVars, submitted, leaked, hsFails, writes>>

(* SSL_CTX_free(sslctx): drops one reference; sslctx keeps its value.      *)
(* SSL_CTX_free(NULL) does nothing.                                        *)
ShutdownCtx(t) ==
    /\ At(t, "sd_ctx")
    /\ \/ sslctx = "made" /\ ctxRefs = 0 /\ Stop("undefined")
       \/ /\ sslctx = "made" => ctxRefs > 0
          /\ ctxRefs' = IF sslctx = "made" THEN ctxRefs - 1 ELSE ctxRefs
          /\ Goto(t, "sd_notify")
          /\ UNCHANGED <<proc, write_mutex, sslctx, cSSL, sockfd, fds, line, carried,
                         netVars, submitted, leaked, hsFails, writes, shutting>>

(* Both SSL_shutdown(cSSL) calls.  They write to the descriptor number the *)
(* object was given, whatever that number names by now.                    *)
ShutdownNotify(t) ==
    /\ At(t, "sd_notify")
    /\ \/ cSSL.obj = "freed" /\ Stop("undefined")
       \/ /\ cSSL.obj # "freed"
          /\ IF cSSL.obj = "null"
               THEN cSSL' = cSSL
               ELSE cSSL' = [cSSL EXCEPT !.obj = "shut"]
          /\ Goto(t, "sd_free")
          /\ UNCHANGED <<proc, write_mutex, sslctx, ctxRefs, sockfd, fds, line, carried,
                         netVars, submitted, leaked, hsFails, writes, shutting>>

(* SSL_free(cSSL) gives back the references of the object; cSSL keeps its  *)
(* value.  A thread that holds write_mutex came from daapTCPConnect().     *)
ShutdownFree(t) ==
    /\ At(t, "sd_free")
    /\ \/ /\ cSSL.obj = "freed" \/ (cSSL.obj # "null" /\ ctxRefs < SSLRefs)
          /\ Stop("undefined")
       \/ /\ cSSL.obj # "freed"
          /\ IF cSSL.obj = "null"
               THEN UNCHANGED <<cSSL, ctxRefs>>
               ELSE /\ ctxRefs >= SSLRefs
                    /\ ctxRefs' = ctxRefs - SSLRefs
                    /\ cSSL' = [cSSL EXCEPT !.obj = "freed"]
          /\ Goto(t, IF write_mutex = t THEN "fail" ELSE "out")
          /\ UNCHANGED <<proc, write_mutex, sslctx, sockfd, fds, line, carried,
                         netVars, submitted, leaked, hsFails, writes, shutting>>

-----------------------------------------------------------------------------
(* daapTCPLogWrite(): the SSL_write() loop.  A blocking SSL_write() writes *)
(* the whole line, or fails: -1 is exit(2), anything lower leaves the loop.*)
(* 0 repeats the call, which is a stuttering step here.  After             *)
(* SSL_shutdown() only failure is left.                                    *)
SSLWrite(t) ==
    /\ At(t, "write")
    /\ \/ cSSL.obj = "freed" /\ Stop("undefined")
       \/ cSSL.obj # "freed" /\ Stop("stopped")
       \/ /\ cSSL.obj # "freed"
          /\ \/ cSSL.obj = "live" /\ carried' = [carried EXCEPT ![cSSL.fd] = Append(@, line[t])]
             \/ carried' = carried
          /\ Goto(t, "close")
          /\ UNCHANGED <<proc, write_mutex, sslctx, ctxRefs, cSSL, sockfd, fds, line,
                         netVars, submitted, leaked, hsFails, writes, shutting>>

(* daapTCPLogWrite(): close(sockfd).  The stream ends; cSSL is kept.       *)
Close(t) ==
    /\ At(t, "close")
    /\ fds' = [fds EXCEPT ![sockfd] = "free"]
    /\ network' = IF carried[sockfd] = <<>> THEN network ELSE network \cup {carried[sockfd]}
    /\ carried' = [carried EXCEPT ![sockfd] = <<>>]
    /\ writes' = writes + 1
    /\ Goto(t, "unlock")
    /\ UNCHANGED <<proc, write_mutex, sslctx, ctxRefs, cSSL, sockfd, line,
                   received, submitted, leaked, hsFails, shutting>>

(* daapTCPLogWrite(): unlock and return the count ...                      *)
UnlockWrite(t) ==
    /\ At(t, "unlock")
    /\ write_mutex' = NoThread
    /\ line' = [line EXCEPT ![t] = NoLine]
    /\ Goto(t, "out")
    /\ UNCHANGED <<proc, sslctx, ctxRefs, cSSL, sockfd, fds, carried,
                   netVars, submitted, leaked, hsFails, writes, shutting>>

(* ... or, when daapTCPConnect() failed, DAAP_ERROR.                       *)
ConnectFailed(t) ==
    /\ At(t, "fail")
    /\ write_mutex' = NoThread
    /\ line' = [line EXCEPT ![t] = NoLine]
    /\ Goto(t, "out")
    /\ UNCHANGED <<proc, sslctx, ctxRefs, cSSL, sockfd, fds, carried,
                   netVars, submitted, leaked, hsFails, writes, shutting>>

TcpStep(t) ==
    \/ LockWrite(t) \/ Socket(t) \/ Connect(t) \/ SSLNew(t) \/ Handshake(t)
    \/ ShutdownCtx(t) \/ ShutdownNotify(t) \/ ShutdownFree(t)
    \/ SSLWrite(t) \/ Close(t) \/ UnlockWrite(t) \/ ConnectFailed(t)

-----------------------------------------------------------------------------
(* Files and sockets opened outside daap_tcp.c, by the application or for  *)
(* /dev/null by daap_log.c, share the descriptor table.                    *)
AppOpen ==
    /\ proc = "running"
    /\ \E f \in Fds : LowestFree(f) /\ fds' = [fds EXCEPT ![f] = "app"]
    /\ UNCHANGED <<proc, tcpVars, netVars>>

AppClose ==
    /\ proc = "running"
    /\ \E f \in Fds : fds[f] = "app" /\ fds' = [fds EXCEPT ![f] = "free"]
    /\ UNCHANGED <<proc, tcpVars, netVars>>

(* The kernel closes the descriptors of a process that has stopped.        *)
Reap ==
    /\ proc # "running"
    /\ \E f \in Fds : fds[f] # "free"
    /\ fds' = [f \in Fds |-> "free"]
    /\ network' = network \cup {carried[f] : f \in {g \in Fds : carried[g] # <<>>}}
    /\ carried' = [f \in Fds |-> <<>>]
    /\ UNCHANGED <<proc, received, write_mutex, sslctx, ctxRefs, cSSL, sockfd, tpc,
                   line, submitted, leaked, hsFails, writes, shutting>>

(* The collector reads a stream to its end, in any order; or a stream is   *)
(* lost with the collector or the connection.                              *)
Receive ==
    /\ \E s \in network : network' = network \ {s} /\ received' = received \cup {s}
    /\ UNCHANGED <<proc, fds, tcpVars>>

Lose ==
    /\ \E s \in network : network' = network \ {s}
    /\ UNCHANGED <<proc, fds, tcpVars, received>>

Host == AppOpen \/ AppClose \/ Reap
Collector == Receive \/ Lose

(* Any thread may write a line once daapInitializeSSL() was called, and    *)
(* any thread may finalize.                                                *)
Call(t) ==
    \/ sslctx # "unset" /\ \E l \in Lines : daapTCPLogWrite(t, l)
    \/ daapShutdownSSL(t)

(* The rest of the process stops it; after daapFinalize() has begun it may *)
(* also use memory that was freed (DaapLib: WriteBuild, FinalizeFree).     *)
CallerFault ==
    /\ proc = "running"
    /\ Stop("stopped") \/ (shutting /\ Stop("undefined"))

Next ==
    \/ daapInitializeSSL \/ Host \/ Collector \/ CallerFault
    \/ \E t \in Threads : Call(t) \/ TcpStep(t)

SpecTcp == InitTcp /\ [][Next]_vars

-----------------------------------------------------------------------------
TypeOK ==
    /\ proc \in {"running", "stopped", "undefined"}
    /\ write_mutex \in Threads \cup {NoThread}
    /\ sslctx \in {"unset", "null", "made"}
    /\ ctxRefs \in Nat
    /\ cSSL \in [obj : {"null", "live", "shut", "freed"}, fd : Fds \cup {-1}]
    /\ sockfd \in Fds \cup {-1}
    /\ fds \in [Fds -> {"free", "log", "app"}]
    /\ tpc \in [Threads -> Locations]
    /\ line \in [Threads -> Lines \cup {NoLine}]
    /\ carried \in [Fds -> Seq(Lines)]
    /\ network \subseteq Seq(Lines)
    /\ received \subseteq Seq(Lines)
    /\ submitted \subseteq Lines
    /\ leaked \in Nat
    /\ hsFails \in Nat
    /\ writes \in Nat
    /\ shutting \in BOOLEAN

(* write_mutex (daap_tcp.c:118-144) makes the globals sockfd and cSSL the  *)
(* private state of one thread: between socket() and close() the           *)
(* descriptor in sockfd is that thread's open socket, and until            *)
(* daapFinalize() interferes cSSL is the live object on that socket.       *)
OwnConnection ==
    \A t \in Threads :
        /\ proc = "running" /\ tpc[t] \in Connected => sockfd \in Fds /\ fds[sockfd] = "log"
        /\ proc = "running" /\ ~shutting /\ tpc[t] \in {"handshake", "write"} \cup Shutdown =>
               /\ cSSL.obj \in {"live", "shut"}
               /\ cSSL.fd = sockfd
               /\ fds[sockfd] = "log"

(* A line ends where its connection ends (daapBuildInflux adds no newline),*)
(* so a connection that carried two lines would be one unreadable record:  *)
(* every stream that leaves the process is exactly one line.               *)
OneLinePerStream ==
    /\ \A s \in network \cup received : Len(s) = 1
    /\ \A f \in Fds : Len(carried[f]) <= 1

(* No line is sent twice: a line is in at most one of the hands of a       *)
(* thread that has yet to write it, an open connection, the network and    *)
(* the collector.  daapTCPLogWrite() retries in a loop (daap_tcp.c:126).   *)
LineAt(l) ==
    {<<"thread", t>> : t \in {u \in Threads : line[u] = l /\ tpc[u] \notin {"close", "unlock", "fail"}}}
        \cup {<<"socket", f>> : f \in {g \in Fds : \E i \in DOMAIN carried[g] : carried[g][i] = l}}
        \cup {<<"network", s>> : s \in {r \in network : \E i \in DOMAIN r : r[i] = l}}
        \cup {<<"collector", s>> : s \in {r \in received : \E i \in DOMAIN r : r[i] = l}}
NoLineTwice == \A l \in Lines : Cardinality(LineAt(l)) <= 1

(* Each attempt that fails after socket() loses one descriptor for good    *)
(* (daap_tcp.c:170-173, 178-182) and no other attempt loses any: the open  *)
(* sockets are the leaked ones and the one of the write in progress.       *)
DescriptorAccounting ==
    proc = "running" =>
        Cardinality({f \in Fds : fds[f] = "log"}) =
            leaked + Cardinality({t \in Threads : tpc[t] \in Connected})

(* Freed memory is used only once daapFinalize() has started, or after     *)
(* more failed handshakes than the SSL objects abandoned by earlier writes *)
(* hold references to the context: each failure drops one reference too    *)
(* many (daap_tcp.c:101, 180), each write abandons SSLRefs (daap_tcp.c:143)*)
UndefinedOnlyAfterFailures ==
    proc = "undefined" => shutting \/ hsFails > SSLRefs * writes

(* What a thread does in this file never closes or reuses a descriptor of  *)
(* the application: close(sockfd) closes the socket the same call opened.  *)
AppDescriptorsKept ==
    [][tpc' # tpc => \A f \in Fds : fds[f] = "app" => fds'[f] = "app"]_vars

-----------------------------------------------------------------------------
(* What the transport promises about each line, as LogChannel states it.   *)
Status(l) ==
    CASE <<l>> \in received -> "delivered"
      [] <<l>> \notin received /\ (<<l>> \in network \/ \E f \in Fds : carried[f] = <<l>>) -> "sent"
      [] OTHER ->
           IF \E t \in Threads : line[t] = l /\ tpc[t] \in
                  {"lock", "socket", "connect", "ssl_new", "handshake", "write"}
           THEN "pending"
           ELSE IF l \in submitted THEN "lost" ELSE "new"

Channel == INSTANCE LogChannel WITH status <- [l \in Lines |-> Status(l)]

(* The transport implements LogChannel: a line is delivered at most once,  *)
(* never after it was given up, and a failed write is never taken up again.*)
ImplementsChannel == Channel!Spec

-----------------------------------------------------------------------------
(* daap_tcp.c:76: "create context, which will remain the same throughout   *)
(* the run": the context is not freed before daapFinalize().               *)
ContextForTheRun == sslctx = "made" /\ ~shutting => ctxRefs > 0
=============================================================================
