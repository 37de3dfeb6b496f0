------------------------------ MODULE DaapLib ------------------------------
(***************************************************************************)
(* The daap library in one process: daapInit(), daapFinalize() and         *)
(* daapSetRank() (src/daap_init.c), the write calls (src/daap_log.c), and, *)
(* by extension of DaapTcp, the transport below them (src/daap_tcp.c).     *)
(*                                                                         *)
(* Threads call the library concurrently.  A step is what a thread does    *)
(* between two points where another thread could see or change shared      *)
(* state: init_mutex serialises daapInit() calls, finalize_mutex           *)
(* daapFinalize() calls, and nothing else takes either of them.            *)
(***************************************************************************)
EXTENDS DaapTcp

CONSTANTS
    Ranks,       \* values of an MPI rank
    EnvRanks,    \* values OMPI_COMM_WORLD_RANK, PMI_RANK or PMIX_RANK can have
    NoRank,      \* none of these variables is set
    Decouples,   \* values of "DAAP_DECOUPLE is set, and not to 0"
    Transports,  \* what callers pass for transport_type
    UserKinds,   \* messages the application writes
    SetRanks,    \* ranks the application passes to daapSetRank()
    MaxCalls,    \* bound: calls each thread makes
    Disciplined  \* the application keeps to the README: see MayCall

Kinds == {"message", "raw", "jobstart", "jobend"}

(* An influx line: who wrote it (thread, and which call of that thread),   *)
(* the message and the rank tag, which a raw line does not have.           *)
LineSet == [by : Threads, call : 1 .. MaxCalls, kind : Kinds, rank : Ranks \cup {NoRank}]

ASSUME LibAssumption ==
    /\ 0 \in Ranks
    /\ EnvRanks \subseteq Ranks \cup {NoRank}
    /\ NoRank \notin Ranks
    /\ Decouples \subseteq BOOLEAN
    /\ Transports \subseteq {"NONE", "SYSLOG", "TCP"}
    /\ UserKinds \subseteq Kinds
    /\ SetRanks \subseteq Ranks
    /\ MaxCalls \in Nat
    /\ Disciplined \in BOOLEAN
    /\ Lines = LineSet

VARIABLES
    env,              \* the environment variables daapInit() reads
    daapInit_called,
    daapRank_zero,
    init_mutex,       \* holder of init_mutex
    finalize_mutex,   \* holder of finalize_mutex
    mem,              \* the strings init_data points at
    transport_type,   \* init_data.transport_type
    mpi_rank,         \* init_data.mpi_rank
    pc,               \* where each thread is in the API
    ret,              \* where a write returns to
    kind,             \* the message a thread is writing
    built,            \* the line a thread has built
    null_device,      \* the descriptor of its /dev/null stream, or 0
    syslogged,        \* lines handed to syslog()
    calls,            \* calls each thread has made
    inited,           \* history: threads to which daapInit() returned success
    finalizes         \* history: calls of daapFinalize() that have begun

initVars == <<env, daapInit_called, daapRank_zero, init_mutex, finalize_mutex,
              mem, transport_type, mpi_rank>>
apiVars == <<pc, ret, kind, built, null_device, syslogged, calls, inited, finalizes>>
libVars == <<vars, initVars, apiVars>>

Strings == {"appname", "hostname", "cluster_name"}

Init ==
    /\ InitTcp
    /\ env \in [rank : EnvRanks, decouple : Decouples]
    /\ daapInit_called = FALSE
    /\ daapRank_zero = FALSE
    /\ init_mutex = NoThread
    /\ finalize_mutex = NoThread
    /\ mem = [s \in Strings |-> "null"]
    /\ transport_type = "NONE"
    /\ mpi_rank = 0
    /\ pc = [t \in Threads |-> "idle"]
    /\ ret = [t \in Threads |-> "idle"]
    /\ kind = [t \in Threads |-> "message"]
    /\ built = [t \in Threads |-> NoLine]
    /\ null_device = [t \in Threads |-> 0]
    /\ syslogged = {}
    /\ calls = [t \in Threads |-> 0]
    /\ inited = {}
    /\ finalizes = 0

Jump(t, l) == pc' = [pc EXCEPT ![t] = l]
AtApi(t, l) == proc = "running" /\ pc[t] = l

(* The process faults in thread t.                                         *)
Fault(how) == Stop(how) /\ UNCHANGED <<initVars, apiVars>>

(* A call of daapLogWrite(k) that returns to location r.                   *)
CallWrite(t, k, r) ==
    /\ kind' = [kind EXCEPT ![t] = k]
    /\ ret' = [ret EXCEPT ![t] = r]
    /\ Jump(t, "w_check")

-----------------------------------------------------------------------------
(* An application that keeps to the README calls daapInit() first in every *)
(* thread that uses the library, and daapFinalize() once, last, when no    *)
(* other call is in progress.  Any other application calls as it likes.    *)
MayInit(t) == Disciplined => finalizes = 0 /\ t \notin inited
MayCall(t) == Disciplined => finalizes = 0 /\ t \in inited
MayFinalize(t) ==
    Disciplined => MayCall(t) /\ \A u \in Threads \ {t} : pc[u] = "idle"

BeginCall(t) ==
    /\ AtApi(t, "idle")
    /\ calls[t] < MaxCalls
    /\ calls' = [calls EXCEPT ![t] = @ + 1]

-----------------------------------------------------------------------------
(* Faulty variants of the actions below, for the properties to reject.     *)

(* daapInit() returns success for the first caller's work but goes on to   *)
(* the code after the unlock.                                              *)
InitAgainFallsThrough(t) ==
    /\ AtApi(t, "i_lock")
    /\ init_mutex = NoThread
    /\ daapInit_called
    /\ Jump(t, "i_rank")
    /\ UNCHANGED <<vars, initVars, ret, kind, built, syslogged, calls, inited, finalizes,
                   null_device>>

(* daapInit_called is set when init_data begins to be filled, not after.   *)
InitPopulateEarlyFlag(t) ==
    /\ AtApi(t, "i_lock")
    /\ init_mutex = NoThread
    /\ ~daapInit_called
    /\ daapInit_called' = TRUE
    /\ \E tr \in Transports : transport_type' = tr
    /\ mem' = [s \in Strings |-> "live"]
    /\ init_mutex' = t
    /\ Jump(t, "i_transport")
    /\ UNCHANGED <<vars, env, daapRank_zero, finalize_mutex, mpi_rank,
                   ret, kind, built, syslogged, calls, inited, finalizes, null_device>>

(* daapInitializeSSL() is not called.                                      *)
InitTransportSkipped(t) ==
    /\ AtApi(t, "i_transport")
    /\ Jump(t, "i_publish")
    /\ UNCHANGED <<vars, initVars, ret, kind, built, syslogged, calls, inited, finalizes,
                   null_device>>

(* init_mutex is held until daapInit() returns, over the job start.        *)
InitPublishLocked(t) ==
    /\ AtApi(t, "i_publish")
    /\ daapInit_called' = TRUE
    /\ Jump(t, "i_rank")
    /\ UNCHANGED <<vars, env, daapRank_zero, init_mutex, finalize_mutex, mem, transport_type,
                   mpi_rank, ret, kind, built, syslogged, calls, inited, finalizes, null_device>>

(* The rank variable is converted without a test that it is set.           *)
InitRankUnchecked(t) ==
    /\ AtApi(t, "i_rank")
    /\ mpi_rank' = env.rank
    /\ inited' = inited \cup {t}
    /\ Jump(t, "idle")
    /\ UNCHANGED <<vars, env, daapInit_called, daapRank_zero, init_mutex, finalize_mutex, mem,
                   transport_type, ret, kind, built, syslogged, calls, finalizes, null_device>>

-----------------------------------------------------------------------------
(* daapInit(): take init_mutex.                                            *)
daapInit(t) ==
    /\ BeginCall(t)
    /\ MayInit(t)
    /\ Jump(t, "i_lock")
    /\ UNCHANGED <<vars, initVars, ret, kind, built, syslogged, inited, finalizes, null_device>>

(* The library was initialised by another call: return success.            *)
InitAgain(t) ==
    /\ AtApi(t, "i_lock")
    /\ init_mutex = NoThread
    /\ daapInit_called
    /\ inited' = inited \cup {t}
    /\ Jump(t, "idle")
    /\ UNCHANGED <<vars, initVars, ret, kind, built, syslogged, calls, finalizes, null_device>>

(* Populate init_data.  Without SLURMD_NODENAME the host name comes from   *)
(* daap_gethostname(), which can fail: unlock and return the error.        *)
InitPopulate(t) ==
    /\ AtApi(t, "i_lock")
    /\ init_mutex = NoThread
    /\ ~daapInit_called
    /\ \E tr \in Transports : transport_type' = tr
    /\ mpi_rank' = 0
    /\ \/ /\ mem' = [s \in Strings |-> "live"]
          /\ init_mutex' = t
          /\ Jump(t, "i_transport")
       \/ /\ mem' = [mem EXCEPT !["appname"] = "live"]
          /\ init_mutex' = init_mutex
          /\ Jump(t, "idle")
    /\ UNCHANGED <<vars, env, daapInit_called, daapRank_zero, finalize_mutex,
                   ret, kind, built, syslogged, calls, inited, finalizes, null_device>>

(* openlog(), or daapInitializeSSL() with its result ignored.              *)
InitTransport(t) ==
    /\ AtApi(t, "i_transport")
    /\ IF transport_type = "TCP" THEN daapInitializeSSL ELSE UNCHANGED vars
    /\ Jump(t, "i_publish")
    /\ UNCHANGED <<initVars, ret, kind, built, syslogged, calls, inited, finalizes, null_device>>

(* Set daapInit_called and release init_mutex.                             *)
InitPublish(t) ==
    /\ AtApi(t, "i_publish")
    /\ daapInit_called' = TRUE
    /\ init_mutex' = NoThread
    /\ Jump(t, "i_rank")
    /\ UNCHANGED <<vars, env, daapRank_zero, finalize_mutex, mem, transport_type,
                   mpi_rank, ret, kind, built, syslogged, calls, inited, finalizes, null_device>>

(* After the unlock: the rank, from the environment, and for rank 0 the    *)
(* job start message unless DAAP_DECOUPLE asks the application to send it. *)
InitRank(t) ==
    /\ AtApi(t, "i_rank")
    /\ mpi_rank' = IF env.rank = NoRank THEN mpi_rank ELSE env.rank
    /\ daapRank_zero' = (daapRank_zero \/ env.rank = 0 \/ (env.rank = NoRank /\ ~env.decouple))
    /\ inited' = inited \cup {t}
    /\ IF daapRank_zero' /\ ~env.decouple
         THEN CallWrite(t, "jobstart", "idle")
         ELSE Jump(t, "idle") /\ UNCHANGED <<ret, kind>>
    /\ UNCHANGED <<vars, env, daapInit_called, init_mutex, finalize_mutex, mem,
                   transport_type, built, syslogged, calls, finalizes, null_device>>

(* daapSetRank().                                                          *)
daapSetRank(t) ==
    /\ BeginCall(t)
    /\ MayCall(t)
    /\ \E r \in SetRanks : mpi_rank' = r
    /\ UNCHANGED <<vars, env, daapInit_called, daapRank_zero, init_mutex, finalize_mutex,
                   mem, transport_type, pc, ret, kind, built, syslogged, inited, finalizes,
                   null_device>>

-----------------------------------------------------------------------------
(* daapLogWrite(), the calls made of it (daapLogHeartbeat(),               *)
(* daapLogJobStart(), daapLogJobEnd(), ...) and daapLogRawWrite().         *)
daapLogWrite(t, k) ==
    /\ BeginCall(t)
    /\ MayCall(t)
    /\ CallWrite(t, k, "idle")
    /\ UNCHANGED <<vars, initVars, built, syslogged, inited, finalizes, null_device>>

(* daapInit_called is read without a lock.  Before daapInit(): DAAP_ERROR. *)
WriteCheck(t) ==
    /\ AtApi(t, "w_check")
    /\ Jump(t, IF daapInit_called THEN "w_open" ELSE ret[t])
    /\ UNCHANGED <<vars, initVars, ret, kind, built, syslogged, calls, inited, finalizes,
                   null_device>>

(* The message is measured by printing it to /dev/null; fopen() is not     *)
(* checked, so the write faults when no descriptor is free ...             *)
WriteOpen(t) ==
    /\ AtApi(t, "w_open")
    /\ \/ (\A f \in Fds : fds[f] # "free") /\ Fault("stopped")
       \/ \E f \in Fds :
             /\ LowestFree(f)
             /\ fds' = [fds EXCEPT ![f] = "app"]
             /\ null_device' = [null_device EXCEPT ![t] = f]
             /\ Jump(t, "w_measure")
             /\ UNCHANGED <<proc, tcpVars, netVars, initVars, ret, kind, built, syslogged, calls,
                            inited, finalizes>>

(* ... and holds the descriptor until fclose().                            *)
WriteMeasure(t) ==
    /\ AtApi(t, "w_measure")
    /\ fds' = [fds EXCEPT ![null_device[t]] = "free"]
    /\ null_device' = [null_device EXCEPT ![t] = 0]
    /\ Jump(t, "w_build")
    /\ UNCHANGED <<proc, tcpVars, netVars, initVars, ret, kind, built, syslogged, calls, inited,
                   finalizes>>

(* daapBuildInflux() reads the strings and the rank of init_data.          *)
WriteBuild(t) ==
    /\ AtApi(t, "w_build")
    /\ kind[t] # "raw"
    /\ \/ (\E s \in Strings : mem[s] = "freed") /\ Fault("undefined")
       \/ /\ \A s \in Strings : mem[s] # "freed"
          /\ built' = [built EXCEPT ![t] =
                [by |-> t, call |-> calls[t], kind |-> kind[t], rank |-> mpi_rank]]
          /\ Jump(t, "w_send")
          /\ UNCHANGED <<vars, initVars, ret, kind, syslogged, calls, inited, finalizes,
                         null_device>>

(* daapLogRawWrite() differs in the line only: daapBuildRawInflux() adds   *)
(* no tags, so it reads nothing of init_data.                              *)
RawWriteBuild(t) ==
    /\ AtApi(t, "w_build")
    /\ kind[t] = "raw"
    /\ built' = [built EXCEPT ![t] =
          [by |-> t, call |-> calls[t], kind |-> "raw", rank |-> NoRank]]
    /\ Jump(t, "w_send")
    /\ UNCHANGED <<vars, initVars, ret, kind, syslogged, calls, inited, finalizes, null_device>>

(* syslog(), or daapTCPLogWrite() with its result ignored; NONE sends      *)
(* nothing.                                                                *)
WriteSend(t) ==
    /\ AtApi(t, "w_send")
    /\ \/ /\ transport_type = "TCP"
          /\ daapTCPLogWrite(t, built[t])
          /\ UNCHANGED syslogged
       \/ /\ transport_type # "TCP"
          /\ syslogged' = IF transport_type = "SYSLOG" THEN syslogged \cup {built[t]} ELSE syslogged
          /\ UNCHANGED vars
    /\ Jump(t, "w_return")
    /\ UNCHANGED <<initVars, ret, kind, built, calls, inited, finalizes, null_device>>

(* The transport has returned: free the line and return DAAP_SUCCESS.      *)
WriteReturn(t) ==
    /\ AtApi(t, "w_return")
    /\ tpc[t] = "out"
    /\ built' = [built EXCEPT ![t] = NoLine]
    /\ Jump(t, ret[t])
    /\ UNCHANGED <<vars, initVars, ret, kind, syslogged, calls, inited, finalizes, null_device>>

-----------------------------------------------------------------------------
(* daapFinalize(): take finalize_mutex ...                                 *)
daapFinalize(t) ==
    /\ BeginCall(t)
    /\ MayFinalize(t)
    /\ finalizes' = finalizes + 1
    /\ Jump(t, "f_lock")
    /\ UNCHANGED <<vars, initVars, ret, kind, built, syslogged, inited, null_device>>

(* ... rank 0 sends the job end message, unless decoupled ...              *)
FinalizeEnd(t) ==
    /\ AtApi(t, "f_lock")
    /\ finalize_mutex = NoThread
    /\ finalize_mutex' = t
    /\ IF daapRank_zero /\ ~env.decouple
         THEN CallWrite(t, "jobend", "f_shutdown")
         ELSE Jump(t, "f_shutdown") /\ UNCHANGED <<ret, kind>>
    /\ UNCHANGED <<vars, env, daapInit_called, daapRank_zero, init_mutex, mem,
                   transport_type, mpi_rank, built, syslogged, calls, inited, finalizes,
                   null_device>>

(* ... the TLS objects are shut down, whatever the transport ...           *)
FinalizeShutdown(t) ==
    /\ AtApi(t, "f_shutdown")
    /\ daapShutdownSSL(t)
    /\ Jump(t, "f_free")
    /\ UNCHANGED <<initVars, ret, kind, built, syslogged, calls, inited, finalizes, null_device>>

(* ... the strings are freed, but the pointers and daapInit_called keep    *)
(* their values, and finalize_mutex is released.                           *)
FinalizeFree(t) ==
    /\ AtApi(t, "f_free")
    /\ tpc[t] = "out"
    /\ \/ (\E s \in Strings : mem[s] = "freed") /\ Fault("undefined")
       \/ /\ \A s \in Strings : mem[s] # "freed"
          /\ mem' = [s \in Strings |-> IF mem[s] = "live" THEN "freed" ELSE mem[s]]
          /\ finalize_mutex' = NoThread
          /\ Jump(t, "idle")
          /\ UNCHANGED <<vars, env, daapInit_called, daapRank_zero, init_mutex, transport_type,
                         mpi_rank, ret, kind, built, syslogged, calls, inited, finalizes,
                         null_device>>

-----------------------------------------------------------------------------
(* What a thread does inside a call.                                       *)
LibStep(t) ==
    \/ InitAgain(t) \/ InitPopulate(t) \/ InitTransport(t) \/ InitPublish(t) \/ InitRank(t)
    \/ WriteCheck(t) \/ WriteOpen(t) \/ WriteMeasure(t) \/ WriteBuild(t) \/ RawWriteBuild(t)
    \/ WriteSend(t) \/ WriteReturn(t)
    \/ FinalizeEnd(t) \/ FinalizeShutdown(t) \/ FinalizeFree(t)
    \/ TcpStep(t) /\ UNCHANGED <<initVars, apiVars>>

LibCall(t) ==
    \/ daapInit(t) \/ daapFinalize(t) \/ daapSetRank(t)
    \/ \E k \in UserKinds : daapLogWrite(t, k)

(* The application closes its own files only: those a write has opened are *)
(* closed by it.                                                           *)
OwnFiles ==
    Host /\ (proc = "running" =>
        \A t \in Threads : null_device[t] # 0 => fds'[null_device[t]] = "app")

(* The collector, which the library never reads from, and an application   *)
(* that stops by itself are left to DaapTcp.                               *)
LibNext ==
    \/ \E t \in Threads : LibCall(t) \/ LibStep(t)
    \/ OwnFiles /\ UNCHANGED <<initVars, apiVars>>

Spec == Init /\ [][LibNext]_libVars

(* connect(), SSL_connect(), SSL_write() and SSL_shutdown() have no time   *)
(* limit: they wait for the collector.                                     *)
InNetworkCall(t) == tpc[t] \in {"connect", "handshake", "write", "sd_notify"}

(* A thread goes on unless it waits for a mutex or for the collector.      *)
FairSpec ==
    Spec /\ \A t \in Threads : WF_libVars(~InNetworkCall(t) /\ LibStep(t))
-----------------------------------------------------------------------------
Logged == submitted \cup syslogged

LibTypeOK ==
    /\ env \in [rank : EnvRanks, decouple : Decouples]
    /\ daapInit_called \in BOOLEAN
    /\ daapRank_zero \in BOOLEAN
    /\ init_mutex \in Threads \cup {NoThread}
    /\ finalize_mutex \in Threads \cup {NoThread}
    /\ mem \in [Strings -> {"null", "live", "freed"}]
    /\ transport_type \in {"NONE", "SYSLOG", "TCP"}
    /\ mpi_rank \in Ranks
    /\ pc \in [Threads -> {"idle", "i_lock", "i_transport", "i_publish", "i_rank",
                          "w_check", "w_open", "w_measure", "w_build", "w_send", "w_return",
                          "f_lock", "f_shutdown", "f_free"}]
    /\ ret \in [Threads -> {"idle", "f_shutdown"}]
    /\ kind \in [Threads -> Kinds]
    /\ built \in [Threads -> Lines \cup {NoLine}]
    /\ null_device \in [Threads -> Fds \cup {0}]
    /\ syslogged \subseteq Lines
    /\ calls \in [Threads -> 0 .. MaxCalls]
    /\ inited \subseteq Threads
    /\ finalizes \in 0 .. Cardinality(Threads) * MaxCalls

(* The rank daapInit() finds (daap_init.c:208-241).                        *)
RankFound == IF env.rank = NoRank THEN 0 ELSE env.rank

(* daapInit_called is read without init_mutex (daap_log.c:76), so the flag *)
(* alone must tell a writer that init_data and the TLS context are set up  *)
(* (daap_init.c:198 is the last write under the lock).  The rank is        *)
(* settled too once no daapInit() is past the unlock at daap_init.c:199.   *)
ReadyBeforeUse ==
    finalizes = 0 => \A t \in Threads :
        pc[t] \in {"w_open", "w_measure", "w_build", "w_send"} =>
            /\ \A s \in Strings : mem[s] = "live"
            /\ transport_type = "TCP" => sslctx # "unset"
            /\ SetRanks = {} /\ (\A u \in Threads : pc[u] # "i_rank") => mpi_rank = RankFound

(* A process of an application that leaves the markers to the library      *)
(* sends at most one job start and one job end, an end only after a start, *)
(* and none when it is decoupled or has another rank than 0 (daap_init.c:  *)
(* 206-248, 264-271).                                                      *)
JobBracketed ==
    LET Marks(k) == {l \in Logged : l.kind = k} IN
        /\ Cardinality(Marks("jobstart")) <= 1
        /\ Cardinality(Marks("jobend")) <= 1
        /\ Marks("jobend") # {} => Marks("jobstart") # {}
        /\ env.decouple \/ RankFound # 0 => Marks("jobstart") = {}

(* An application that keeps to the README never makes the library use     *)
(* freed memory as long as every TLS handshake succeeds, whatever the      *)
(* threads' interleaving and whatever else fails.                          *)
DocumentedUseIsSafe == proc = "undefined" => hsFails > 0

(* A write call finds the descriptor table full, where fopen("/dev/null")  *)
(* at daap_log.c:85 faults, only when the connection attempts that failed, *)
(* the application's own files and one descriptor for each other thread    *)
(* inside a write, for its /dev/null or its connection, fill the table:    *)
(* writes that succeed leave nothing behind.                               *)
OnlyLeaksExhaust ==
    \A t \in Threads : AtApi(t, "w_open") /\ (\A f \in Fds : fds[f] # "free") =>
        LET own == {f \in Fds : fds[f] = "app" /\ \A u \in Threads : null_device[u] # f}
            writers == {u \in Threads \ {t} : pc[u] \in {"w_measure", "w_return"}}
        IN  leaked + Cardinality(own) + Cardinality(writers) >= MaxFd

(* A thread that waits for a mutex another thread holds.                   *)
Waits(t) ==
    \/ pc[t] = "i_lock" /\ init_mutex # NoThread
    \/ pc[t] = "f_lock" /\ finalize_mutex # NoThread
    \/ tpc[t] = "lock" /\ write_mutex # NoThread

(* The mutexes are released on every path and never awaited in a circle,   *)
(* though daapFinalize() sends the job end with finalize_mutex held        *)
(* (daap_init.c:262-279) and daapTCPLogWrite() has an early return         *)
(* (daap_tcp.c:120): of the threads in the library one can go on.  The     *)
(* holder of init_mutex always can, without waiting for the collector.     *)
NoCircularWait ==
    proc = "running" =>
        /\ (\E t \in Threads : pc[t] # "idle") =>
               \E t \in Threads : pc[t] # "idle" /\ ~Waits(t)
        /\ \A t \in Threads : init_mutex = t => ~Waits(t) /\ ~InNetworkCall(t)

(* The library uses the transport as DaapTcp expects: what DaapTcp checks  *)
(* and proves about every user of the transport holds in the library.      *)
UsesTransport == SpecTcp

(* As long as no thread is left for ever in a network call, every call of  *)
(* the library returns, unless the process stops: the three mutexes are    *)
(* released on every path and never awaited in a cycle.                    *)
ApiCallsReturn ==
    (\A u \in Threads : []<>~InNetworkCall(u)) =>
        \A t \in Threads : []<>(pc[t] = "idle" \/ proc # "running")

(* A collector that accepts a connection and then hangs blocks the write   *)
(* calls of every thread (daap_tcp.c:177 holds write_mutex) and            *)
(* daapFinalize(), but no other daapInit() before its job start message:   *)
(* init_mutex is never held over a network call (daap_init.c:199, 242).    *)
HangSparesInit ==
    []<>(init_mutex = NoThread \/ proc # "running")

-----------------------------------------------------------------------------
(* daap_init.c:137: "Assume this needs to be thread safe": a line logged   *)
(* after daapInit() returned success carries the rank of the process.      *)
RankTagged == \A l \in Logged : l.kind # "raw" => l.rank = RankFound
=============================================================================
