--------------------------- MODULE DaapLib_proofs ---------------------------
(***************************************************************************)
(* Proofs about the library in one process, for any number of threads,     *)
(* calls, lines and descriptors, and for every order of the calls unless   *)
(* a theorem says that the application keeps to the README.                *)
(***************************************************************************)
EXTENDS DaapLib, DaapTcpChannel_proofs

Populating == {"i_transport", "i_publish"}
Writing == {"w_check", "w_open", "w_measure", "w_build", "w_send", "w_return"}
Finalizing == {"f_lock", "f_shutdown", "f_free"}

(* The types, without the bound on the number of finalize calls.           *)
LType ==
    /\ env \in [rank : EnvRanks, decouple : Decouples]
    /\ daapInit_called \in BOOLEAN
    /\ daapRank_zero \in BOOLEAN
    /\ init_mutex \in Threads \cup {NoThread}
    /\ finalize_mutex \in Threads \cup {NoThread}
    /\ mem \in [Strings -> {"null", "live", "freed"}]
    /\ transport_type \in {"NONE", "SYSLOG", "TCP"}
    /\ mpi_rank \in Ranks
    /\ pc \in [Threads -> {"idle", "i_lock", "i_rank"} \cup Populating \cup Writing \cup Finalizing]
    /\ ret \in [Threads -> {"idle", "f_shutdown"}]
    /\ kind \in [Threads -> Kinds]
    /\ built \in [Threads -> Lines \cup {NoLine}]
    /\ null_device \in [Threads -> Fds \cup {0}]
    /\ syslogged \subseteq Lines
    /\ calls \in [Threads -> 0 .. MaxCalls]
    /\ inited \subseteq Threads
    /\ finalizes \in Nat
    /\ \A t \in Threads : pc[t] # "idle" => calls[t] \in 1 .. MaxCalls

(* init_mutex and daapInit_called: one thread at a time populates          *)
(* init_data, before the flag is set, and a thread past the check of the   *)
(* flag finds everything set up.                                           *)
IFlag ==
    /\ \A t \in Threads :
           /\ pc[t] \in Populating => init_mutex = t /\ ~daapInit_called
           /\ pc[t] \in {"i_rank", "w_open", "w_measure", "w_build", "w_send", "w_return"} =>
                  daapInit_called
           /\ pc[t] \in Populating \/ daapInit_called => \A s \in Strings : mem[s] # "null"
           /\ (pc[t] = "i_publish" \/ daapInit_called) /\ transport_type = "TCP" =>
                  sslctx # "unset"
    /\ daapRank_zero => daapInit_called

(* The line daapBuildInflux() or daapBuildRawInflux() made for a thread.   *)
IBuilt ==
    \A t \in Threads : pc[t] = "w_send" =>
        built[t] \in Lines /\ built[t].kind = kind[t]

(* What is freed or shut down was so by a daapFinalize().                  *)
IFreed ==
    /\ (\E s \in Strings : mem[s] = "freed") => shutting
    /\ shutting => finalizes # 0
    /\ \A t \in Threads :
           /\ pc[t] \in Finalizing => finalizes # 0
           /\ pc[t] \in Writing /\ ret[t] = "f_shutdown" => finalizes # 0
           /\ pc[t] = "f_free" => shutting

(* Where a thread is in daap_tcp.c, given where it is in the API.          *)
IBelow ==
    \A t \in Threads :
        /\ tpc[t] # "out" => pc[t] \in {"w_return", "f_free"}
        /\ pc[t] = "f_free" => tpc[t] \in Shutdown \cup {"out"} /\ write_mutex # t

(* Without daapSetRank() the rank is 0 or the one daapInit() finds, and    *)
(* the latter once the code after the unlock has run.                      *)
IRank ==
    SetRanks = {} =>
        /\ mpi_rank \in {0, RankFound}
        /\ daapInit_called => mpi_rank = RankFound \/ \E t \in Threads : pc[t] = "i_rank"

(* The /dev/null stream of a thread that measures its message: a           *)
(* descriptor of its own, which nobody else closes.                        *)
INull ==
    \A t \in Threads :
        /\ null_device[t] # 0 => pc[t] = "w_measure"
        /\ proc = "running" /\ pc[t] = "w_measure" =>
               null_device[t] \in Fds /\ fds[null_device[t]] = "app"
        /\ \A u \in Threads : null_device[u] = null_device[t] /\ u # t => null_device[t] = 0

LibInv == LType /\ IFlag /\ IBuilt /\ IFreed /\ IBelow /\ IRank /\ INull

(* Of an application that keeps to the README: from the call of            *)
(* daapFinalize() on, at most one thread is in the library and it sends    *)
(* no line but the job end.                                                *)
IQuiet ==
    Disciplined =>
        /\ finalizes # 0 => \A t \in Threads :
               /\ pc[t] \in {"idle"} \cup Writing \cup Finalizing
               /\ pc[t] \in Writing => ret[t] = "f_shutdown"
               /\ \A u \in Threads : pc[t] # "idle" /\ pc[u] # "idle" => t = u
        /\ shutting => \A t \in Threads : pc[t] \in {"idle", "f_free"}
        /\ (\E s \in Strings : mem[s] = "freed") => \A t \in Threads : pc[t] = "idle"

(* As long as no handshake has failed: the SSL object is freed by the      *)
(* daapShutdownSSL() of daapFinalize() alone, and the references to the    *)
(* context are enough for it.                                              *)
ITls ==
    Disciplined /\ hsFails = 0 =>
        /\ proc # "undefined"
        /\ \A t \in Threads : tpc[t] \in Shutdown => write_mutex # t
        /\ cSSL.obj = "freed" => shutting /\ \A t \in Threads : tpc[t] = "out"
        /\ cSSL.obj # "null" =>
               /\ sslctx = "made"
               /\ writes # 0 \/ \E t \in Threads : tpc[t] \in {"handshake", "write", "close"}
        /\ proc = "running" /\ shutting /\ sslctx = "made" => \A t \in Threads :
               /\ tpc[t] = "sd_ctx" => ctxRefs = 1 + SSLRefs * writes
               /\ tpc[t] \in {"sd_notify", "sd_free"} => ctxRefs = SSLRefs * writes

(* The thread that daapInit() makes send the job start message, until the  *)
(* line is handed over, and the same for daapFinalize() and the job end.   *)
Sending == Writing \ {"w_return"}
StartWriter(t) == pc[t] \in Sending /\ kind[t] = "jobstart"
EndWriter(t) == pc[t] \in Sending /\ kind[t] = "jobend"
Marked(k) == \E l \in Logged : l.kind = k
MarkedOnce(k) == \A l, m \in Logged : l.kind = k /\ m.kind = k => l = m

(* The job start: one thread may send it, once, and it is sent or being    *)
(* sent when daapRank_zero calls for a job end.                            *)
IStart ==
    "jobstart" \notin UserKinds =>
        /\ daapRank_zero => RankFound = 0
        /\ \A t \in Threads : StartWriter(t) => daapInit_called /\ daapRank_zero /\ ~env.decouple
        /\ \A t, u \in Threads :
               (pc[t] = "i_rank" \/ StartWriter(t)) /\ (pc[u] = "i_rank" \/ StartWriter(u)) => t = u
        /\ Marked("jobstart") =>
               /\ daapInit_called /\ daapRank_zero /\ ~env.decouple
               /\ \A t \in Threads : pc[t] # "i_rank" /\ ~StartWriter(t)
        /\ MarkedOnce("jobstart")
        /\ daapRank_zero /\ ~env.decouple /\ transport_type # "NONE" =>
               Marked("jobstart") \/ \E t \in Threads : StartWriter(t)

(* The job end: likewise, by the one call of daapFinalize().               *)
IEnd ==
    Disciplined /\ "jobstart" \notin UserKinds /\ "jobend" \notin UserKinds =>
        /\ \A t \in Threads : EndWriter(t) => finalizes # 0 /\ daapRank_zero /\ ~env.decouple
        /\ \A t \in Threads : pc[t] = "f_lock" \/ EndWriter(t) => ~Marked("jobend")
        /\ Marked("jobend") => finalizes # 0 /\ Marked("jobstart")
        /\ MarkedOnce("jobend")

JobInv == IQuiet /\ IStart /\ IEnd
-----------------------------------------------------------------------------
(* A step inside daap_tcp.c is one of a thread that was called, and leaves *)
(* alone what the rest of the library reads.                               *)
LEMMA TcpFrame ==
    ASSUME TypeOK, NEW t \in Threads, TcpStep(t)
    PROVE  /\ proc = "running" /\ tpc[t] # "out"
           /\ UNCHANGED <<sslctx, shutting, submitted>>
           /\ \A u \in Threads : u # t => tpc'[u] = tpc[u]
           /\ write_mutex' \in {write_mutex, NoThread, t}
           /\ tpc[t] \in Shutdown /\ write_mutex # t =>
                  write_mutex' # t /\ tpc'[t] \in Shutdown \cup {"out"}
<1> USE DEF TypeOK, At, Goto, Stop, tcpVars, netVars, Shutdown
<1>1. CASE LockWrite(t) \/ Socket(t) \/ Connect(t)
  BY <1>1 DEF LockWrite, Socket, Connect
<1>2. CASE SSLNew(t) \/ Handshake(t) \/ SSLWrite(t)
  BY <1>2 DEF SSLNew, Handshake, SSLWrite
<1>3. CASE ShutdownCtx(t) \/ ShutdownNotify(t) \/ ShutdownFree(t)
  BY <1>3 DEF ShutdownCtx, ShutdownNotify, ShutdownFree
<1>4. CASE Close(t) \/ UnlockWrite(t) \/ ConnectFailed(t)
  BY <1>4, TcpAssumption DEF Close, UnlockWrite, ConnectFailed
<1>5. QED
  BY <1>1, <1>2, <1>3, <1>4 DEF TcpStep

(* The types: a thread inside a call has begun one, so the line it builds  *)
(* is one of LineSet.                                                      *)
LEMMA LTypeStep == IInv /\ LibInv /\ [LibNext]_libVars => LType'
<1> SUFFICES ASSUME IInv, LibInv, [LibNext]_libVars PROVE LType'
  OBVIOUS
<1> USE DEF IInv, LibInv, AtApi, Jump, initVars, apiVars, vars, tcpVars, netVars, Writing, Populating,
      Finalizing
<1>1. ASSUME NEW t \in Threads, daapInit(t) PROVE LType'
  BY <1>1, TcpAssumption, LibAssumption DEF daapInit, BeginCall, LType
<1>2. ASSUME NEW t \in Threads, daapFinalize(t) PROVE LType'
  BY <1>2, TcpAssumption, LibAssumption DEF daapFinalize, BeginCall, LType
<1>3. ASSUME NEW t \in Threads, daapSetRank(t) PROVE LType'
  BY <1>3, TcpAssumption, LibAssumption DEF daapSetRank, BeginCall, LType
<1>4. ASSUME NEW t \in Threads, NEW k \in UserKinds, daapLogWrite(t, k) PROVE LType'
  BY <1>4, TcpAssumption, LibAssumption DEF daapLogWrite, BeginCall, CallWrite, Kinds, LType
<1>5. ASSUME NEW t \in Threads, InitAgain(t) PROVE LType'
  BY <1>5, TcpAssumption, LibAssumption DEF InitAgain, LType
<1>6. ASSUME NEW t \in Threads, InitPopulate(t) PROVE LType'
  BY <1>6, TcpAssumption, LibAssumption DEF InitPopulate, LType
<1>7. ASSUME NEW t \in Threads, InitTransport(t) PROVE LType'
  BY <1>7, TcpAssumption, LibAssumption DEF InitTransport, daapInitializeSSL, LType
<1>8. ASSUME NEW t \in Threads, InitPublish(t) PROVE LType'
  BY <1>8, TcpAssumption, LibAssumption DEF InitPublish, LType
<1>9. ASSUME NEW t \in Threads, InitRank(t) PROVE LType'
  BY <1>9, TcpAssumption, LibAssumption DEF InitRank, CallWrite, Kinds, LType
<1>10. ASSUME NEW t \in Threads, WriteCheck(t) PROVE LType'
  BY <1>10, TcpAssumption, LibAssumption DEF WriteCheck, LType
<1>11. ASSUME NEW t \in Threads, WriteOpen(t) PROVE LType'
  BY <1>11, TcpAssumption, LibAssumption DEF WriteOpen, Fault, Stop, LType
<1>12. ASSUME NEW t \in Threads, WriteMeasure(t) PROVE LType'
  BY <1>12, TcpAssumption, LibAssumption DEF WriteMeasure, LType
<1>13. ASSUME NEW t \in Threads, WriteBuild(t) PROVE LType'
  BY <1>13, TcpAssumption, LibAssumption DEF WriteBuild, Fault, Stop, LineSet, Kinds, LType
<1>14. ASSUME NEW t \in Threads, RawWriteBuild(t) PROVE LType'
  BY <1>14, TcpAssumption, LibAssumption DEF RawWriteBuild, LineSet, Kinds, LType
<1>15. ASSUME NEW t \in Threads, WriteSend(t) PROVE LType'
  BY <1>15, TcpAssumption, LibAssumption DEF WriteSend, daapTCPLogWrite, At, Goto, IBuilt, LType
<1>16. ASSUME NEW t \in Threads, WriteReturn(t) PROVE LType'
  BY <1>16, TcpAssumption, LibAssumption DEF WriteReturn, LType
<1>17. ASSUME NEW t \in Threads, FinalizeEnd(t) PROVE LType'
  BY <1>17, TcpAssumption, LibAssumption DEF FinalizeEnd, CallWrite, Kinds, LType
<1>18. ASSUME NEW t \in Threads, FinalizeShutdown(t) PROVE LType'
  BY <1>18, TcpAssumption, LibAssumption DEF FinalizeShutdown, daapShutdownSSL, At, Goto, LType
<1>19. ASSUME NEW t \in Threads, FinalizeFree(t) PROVE LType'
  BY <1>19, TcpAssumption, LibAssumption DEF FinalizeFree, Fault, Stop, LType
<1>20. ASSUME NEW t \in Threads, TcpStep(t), UNCHANGED <<initVars, apiVars>> PROVE LType'
  BY <1>20, TcpFrame, TcpAssumption, LibAssumption DEF LType
<1>21. CASE Host /\ UNCHANGED <<initVars, apiVars>>
  BY <1>21, TcpAssumption, LibAssumption DEF Host, AppOpen, AppClose, Reap, LType
<1>22. CASE UNCHANGED libVars
  BY <1>22, TcpAssumption, LibAssumption DEF libVars, LType
<1>23. QED
  BY <1>1, <1>2, <1>3, <1>4, <1>5, <1>6, <1>7, <1>8, <1>9, <1>10, <1>11, <1>12, <1>13, <1>14, <1>15,
      <1>16, <1>17, <1>18, <1>19, <1>20, <1>21, <1>22 DEF LibNext, OwnFiles, LibCall,
      LibStep

(* daapInit_called is set last, under init_mutex, and init_data does not   *)
(* change after it.                                                        *)
LEMMA FlagStep == IInv /\ LibInv /\ [LibNext]_libVars => IFlag'
<1> SUFFICES ASSUME IInv, LibInv, [LibNext]_libVars PROVE IFlag'
  OBVIOUS
<1> USE DEF IInv, LibInv, LType, AtApi, Jump, initVars, apiVars, vars, tcpVars, netVars,
      Writing, Populating, Finalizing
<1>1. ASSUME NEW t \in Threads, daapInit(t) PROVE IFlag'
  BY <1>1, TcpAssumption, LibAssumption DEF daapInit, BeginCall, IFlag
<1>2. ASSUME NEW t \in Threads, daapFinalize(t) PROVE IFlag'
  BY <1>2, TcpAssumption, LibAssumption DEF daapFinalize, BeginCall, IFlag
<1>3. ASSUME NEW t \in Threads, daapSetRank(t) PROVE IFlag'
  BY <1>3, TcpAssumption, LibAssumption DEF daapSetRank, BeginCall, IFlag
<1>4. ASSUME NEW t \in Threads, NEW k \in UserKinds, daapLogWrite(t, k) PROVE IFlag'
  BY <1>4, TcpAssumption, LibAssumption DEF daapLogWrite, BeginCall, CallWrite, IFlag
<1>5. ASSUME NEW t \in Threads, InitAgain(t) PROVE IFlag'
  BY <1>5, TcpAssumption, LibAssumption DEF InitAgain, IFlag
<1>6. ASSUME NEW t \in Threads, InitPopulate(t) PROVE IFlag'
  BY <1>6, TcpAssumption, LibAssumption DEF InitPopulate, IFlag
<1>7. ASSUME NEW t \in Threads, InitTransport(t) PROVE IFlag'
  BY <1>7, TcpAssumption, LibAssumption DEF InitTransport, daapInitializeSSL, TypeOK, IFlag
<1>8. ASSUME NEW t \in Threads, InitPublish(t) PROVE IFlag'
  BY <1>8, TcpAssumption, LibAssumption DEF InitPublish, IFlag
<1>9. ASSUME NEW t \in Threads, InitRank(t) PROVE IFlag'
  BY <1>9, TcpAssumption, LibAssumption DEF InitRank, CallWrite, IFlag
<1>10. ASSUME NEW t \in Threads, WriteCheck(t) PROVE IFlag'
  BY <1>10, TcpAssumption, LibAssumption DEF WriteCheck, IFlag
<1>11. ASSUME NEW t \in Threads, WriteOpen(t) PROVE IFlag'
  BY <1>11, TcpAssumption, LibAssumption DEF WriteOpen, Fault, Stop, IFlag
<1>12. ASSUME NEW t \in Threads, WriteMeasure(t) PROVE IFlag'
  BY <1>12, TcpAssumption, LibAssumption DEF WriteMeasure, IFlag
<1>13. ASSUME NEW t \in Threads, WriteBuild(t) PROVE IFlag'
  BY <1>13, TcpAssumption, LibAssumption DEF WriteBuild, Fault, Stop, IFlag
<1>14. ASSUME NEW t \in Threads, RawWriteBuild(t) PROVE IFlag'
  BY <1>14, TcpAssumption, LibAssumption DEF RawWriteBuild, IFlag
<1>15. ASSUME NEW t \in Threads, WriteSend(t) PROVE IFlag'
  BY <1>15, TcpAssumption, LibAssumption DEF WriteSend, daapTCPLogWrite, At, Goto, IFlag
<1>16. ASSUME NEW t \in Threads, WriteReturn(t) PROVE IFlag'
  BY <1>16, TcpAssumption, LibAssumption DEF WriteReturn, IFlag
<1>17. ASSUME NEW t \in Threads, FinalizeEnd(t) PROVE IFlag'
  BY <1>17, TcpAssumption, LibAssumption DEF FinalizeEnd, CallWrite, IFlag
<1>18. ASSUME NEW t \in Threads, FinalizeShutdown(t) PROVE IFlag'
  BY <1>18, TcpAssumption, LibAssumption DEF FinalizeShutdown, daapShutdownSSL, At, Goto, IFlag
<1>19. ASSUME NEW t \in Threads, FinalizeFree(t) PROVE IFlag'
  BY <1>19, TcpAssumption, LibAssumption DEF FinalizeFree, Fault, Stop, IFlag
<1>20. ASSUME NEW t \in Threads, TcpStep(t), UNCHANGED <<initVars, apiVars>> PROVE IFlag'
  BY <1>20, TcpFrame, TcpAssumption, LibAssumption DEF IFlag
<1>21. CASE Host /\ UNCHANGED <<initVars, apiVars>>
  BY <1>21, TcpAssumption, LibAssumption DEF Host, AppOpen, AppClose, Reap, IFlag
<1>22. CASE UNCHANGED libVars
  BY <1>22, TcpAssumption, LibAssumption DEF libVars, IFlag
<1>23. QED
  BY <1>1, <1>2, <1>3, <1>4, <1>5, <1>6, <1>7, <1>8, <1>9, <1>10, <1>11, <1>12, <1>13, <1>14, <1>15,
      <1>16, <1>17, <1>18, <1>19, <1>20, <1>21, <1>22 DEF LibNext, OwnFiles, LibCall,
      LibStep

(* A thread sends the line it built.                                       *)
LEMMA BuiltStep == IInv /\ LibInv /\ [LibNext]_libVars => IBuilt'
<1> SUFFICES ASSUME IInv, LibInv, [LibNext]_libVars PROVE IBuilt'
  OBVIOUS
<1> USE DEF IInv, LibInv, LType, AtApi, Jump, initVars, apiVars, vars, tcpVars, netVars,
      Writing, Populating, Finalizing
<1>1. ASSUME NEW t \in Threads, daapInit(t) PROVE IBuilt'
  BY <1>1, TcpAssumption, LibAssumption DEF daapInit, BeginCall, IBuilt
<1>2. ASSUME NEW t \in Threads, daapFinalize(t) PROVE IBuilt'
  BY <1>2, TcpAssumption, LibAssumption DEF daapFinalize, BeginCall, IBuilt
<1>3. ASSUME NEW t \in Threads, daapSetRank(t) PROVE IBuilt'
  BY <1>3, TcpAssumption, LibAssumption DEF daapSetRank, BeginCall, IBuilt
<1>4. ASSUME NEW t \in Threads, NEW k \in UserKinds, daapLogWrite(t, k) PROVE IBuilt'
  BY <1>4, TcpAssumption, LibAssumption DEF daapLogWrite, BeginCall, CallWrite, IBuilt
<1>5. ASSUME NEW t \in Threads, InitAgain(t) PROVE IBuilt'
  BY <1>5, TcpAssumption, LibAssumption DEF InitAgain, IBuilt
<1>6. ASSUME NEW t \in Threads, InitPopulate(t) PROVE IBuilt'
  BY <1>6, TcpAssumption, LibAssumption DEF InitPopulate, IBuilt
<1>7. ASSUME NEW t \in Threads, InitTransport(t) PROVE IBuilt'
  BY <1>7, TcpAssumption, LibAssumption DEF InitTransport, daapInitializeSSL, IBuilt
<1>8. ASSUME NEW t \in Threads, InitPublish(t) PROVE IBuilt'
  BY <1>8, TcpAssumption, LibAssumption DEF InitPublish, IBuilt
<1>9. ASSUME NEW t \in Threads, InitRank(t) PROVE IBuilt'
  BY <1>9, TcpAssumption, LibAssumption DEF InitRank, CallWrite, IBuilt
<1>10. ASSUME NEW t \in Threads, WriteCheck(t) PROVE IBuilt'
  BY <1>10, TcpAssumption, LibAssumption DEF WriteCheck, IBuilt
<1>11. ASSUME NEW t \in Threads, WriteOpen(t) PROVE IBuilt'
  BY <1>11, TcpAssumption, LibAssumption DEF WriteOpen, Fault, Stop, IBuilt
<1>12. ASSUME NEW t \in Threads, WriteMeasure(t) PROVE IBuilt'
  BY <1>12, TcpAssumption, LibAssumption DEF WriteMeasure, IBuilt
<1>13. ASSUME NEW t \in Threads, WriteBuild(t) PROVE IBuilt'
  BY <1>13, TcpAssumption, LibAssumption DEF WriteBuild, Fault, Stop, LineSet, Kinds, IBuilt
<1>14. ASSUME NEW t \in Threads, RawWriteBuild(t) PROVE IBuilt'
  BY <1>14, TcpAssumption, LibAssumption DEF RawWriteBuild, LineSet, Kinds, IBuilt
<1>15. ASSUME NEW t \in Threads, WriteSend(t) PROVE IBuilt'
  BY <1>15, TcpAssumption, LibAssumption DEF WriteSend, daapTCPLogWrite, At, Goto, IBuilt
<1>16. ASSUME NEW t \in Threads, WriteReturn(t) PROVE IBuilt'
  BY <1>16, TcpAssumption, LibAssumption DEF WriteReturn, IBuilt
<1>17. ASSUME NEW t \in Threads, FinalizeEnd(t) PROVE IBuilt'
  BY <1>17, TcpAssumption, LibAssumption DEF FinalizeEnd, CallWrite, IBuilt
<1>18. ASSUME NEW t \in Threads, FinalizeShutdown(t) PROVE IBuilt'
  BY <1>18, TcpAssumption, LibAssumption DEF FinalizeShutdown, daapShutdownSSL, At, Goto, IBuilt
<1>19. ASSUME NEW t \in Threads, FinalizeFree(t) PROVE IBuilt'
  BY <1>19, TcpAssumption, LibAssumption DEF FinalizeFree, Fault, Stop, IBuilt
<1>20. ASSUME NEW t \in Threads, TcpStep(t), UNCHANGED <<initVars, apiVars>> PROVE IBuilt'
  BY <1>20, TcpFrame, TcpAssumption, LibAssumption DEF IBuilt
<1>21. CASE Host /\ UNCHANGED <<initVars, apiVars>>
  BY <1>21, TcpAssumption, LibAssumption DEF Host, AppOpen, AppClose, Reap, IBuilt
<1>22. CASE UNCHANGED libVars
  BY <1>22, TcpAssumption, LibAssumption DEF libVars, IBuilt
<1>23. QED
  BY <1>1, <1>2, <1>3, <1>4, <1>5, <1>6, <1>7, <1>8, <1>9, <1>10, <1>11, <1>12, <1>13, <1>14, <1>15,
      <1>16, <1>17, <1>18, <1>19, <1>20, <1>21, <1>22 DEF LibNext, OwnFiles, LibCall,
      LibStep

(* daapFinalize() shuts down before it frees.                              *)
LEMMA FreedStep == IInv /\ LibInv /\ [LibNext]_libVars => IFreed'
<1> SUFFICES ASSUME IInv, LibInv, [LibNext]_libVars PROVE IFreed'
  OBVIOUS
<1> USE DEF IInv, LibInv, LType, AtApi, Jump, initVars, apiVars, vars, tcpVars, netVars,
      Writing, Populating, Finalizing
<1>1. ASSUME NEW t \in Threads, daapInit(t) PROVE IFreed'
  BY <1>1, TcpAssumption, LibAssumption DEF daapInit, BeginCall, IFreed
<1>2. ASSUME NEW t \in Threads, daapFinalize(t) PROVE IFreed'
  BY <1>2, TcpAssumption, LibAssumption DEF daapFinalize, BeginCall, IFreed
<1>3. ASSUME NEW t \in Threads, daapSetRank(t) PROVE IFreed'
  BY <1>3, TcpAssumption, LibAssumption DEF daapSetRank, BeginCall, IFreed
<1>4. ASSUME NEW t \in Threads, NEW k \in UserKinds, daapLogWrite(t, k) PROVE IFreed'
  BY <1>4, TcpAssumption, LibAssumption DEF daapLogWrite, BeginCall, CallWrite, IFreed
<1>5. ASSUME NEW t \in Threads, InitAgain(t) PROVE IFreed'
  BY <1>5, TcpAssumption, LibAssumption DEF InitAgain, IFreed
<1>6. ASSUME NEW t \in Threads, InitPopulate(t) PROVE IFreed'
  BY <1>6, TcpAssumption, LibAssumption DEF InitPopulate, IFreed
<1>7. ASSUME NEW t \in Threads, InitTransport(t) PROVE IFreed'
  BY <1>7, TcpAssumption, LibAssumption DEF InitTransport, daapInitializeSSL, IFreed
<1>8. ASSUME NEW t \in Threads, InitPublish(t) PROVE IFreed'
  BY <1>8, TcpAssumption, LibAssumption DEF InitPublish, IFreed
<1>9. ASSUME NEW t \in Threads, InitRank(t) PROVE IFreed'
  BY <1>9, TcpAssumption, LibAssumption DEF InitRank, CallWrite, IFreed
<1>10. ASSUME NEW t \in Threads, WriteCheck(t) PROVE IFreed'
  BY <1>10, TcpAssumption, LibAssumption DEF WriteCheck, IFreed
<1>11. ASSUME NEW t \in Threads, WriteOpen(t) PROVE IFreed'
  BY <1>11, TcpAssumption, LibAssumption DEF WriteOpen, Fault, Stop, IFreed
<1>12. ASSUME NEW t \in Threads, WriteMeasure(t) PROVE IFreed'
  BY <1>12, TcpAssumption, LibAssumption DEF WriteMeasure, IFreed
<1>13. ASSUME NEW t \in Threads, WriteBuild(t) PROVE IFreed'
  BY <1>13, TcpAssumption, LibAssumption DEF WriteBuild, Fault, Stop, IFreed
<1>14. ASSUME NEW t \in Threads, RawWriteBuild(t) PROVE IFreed'
  BY <1>14, TcpAssumption, LibAssumption DEF RawWriteBuild, IFreed
<1>15. ASSUME NEW t \in Threads, WriteSend(t) PROVE IFreed'
  BY <1>15, TcpAssumption, LibAssumption DEF WriteSend, daapTCPLogWrite, At, Goto, IFreed
<1>16. ASSUME NEW t \in Threads, WriteReturn(t) PROVE IFreed'
  BY <1>16, TcpAssumption, LibAssumption DEF WriteReturn, IFreed
<1>17. ASSUME NEW t \in Threads, FinalizeEnd(t) PROVE IFreed'
  BY <1>17, TcpAssumption, LibAssumption DEF FinalizeEnd, CallWrite, IFreed
<1>18. ASSUME NEW t \in Threads, FinalizeShutdown(t) PROVE IFreed'
  BY <1>18, TcpAssumption, LibAssumption DEF FinalizeShutdown, daapShutdownSSL, At, Goto, IFreed
<1>19. ASSUME NEW t \in Threads, FinalizeFree(t) PROVE IFreed'
  BY <1>19, TcpAssumption, LibAssumption DEF FinalizeFree, Fault, Stop, IFreed
<1>20. ASSUME NEW t \in Threads, TcpStep(t), UNCHANGED <<initVars, apiVars>> PROVE IFreed'
  BY <1>20, TcpFrame, TcpAssumption, LibAssumption DEF IFreed
<1>21. CASE Host /\ UNCHANGED <<initVars, apiVars>>
  BY <1>21, TcpAssumption, LibAssumption DEF Host, AppOpen, AppClose, Reap, IFreed
<1>22. CASE UNCHANGED libVars
  BY <1>22, TcpAssumption, LibAssumption DEF libVars, IFreed
<1>23. QED
  BY <1>1, <1>2, <1>3, <1>4, <1>5, <1>6, <1>7, <1>8, <1>9, <1>10, <1>11, <1>12, <1>13, <1>14, <1>15,
      <1>16, <1>17, <1>18, <1>19, <1>20, <1>21, <1>22 DEF LibNext, OwnFiles, LibCall,
      LibStep

(* The transport is entered by WriteSend and FinalizeShutdown, and both are*)
(* left when it has returned.                                              *)
LEMMA BelowStep == IInv /\ LibInv /\ [LibNext]_libVars => IBelow'
<1> SUFFICES ASSUME IInv, LibInv, [LibNext]_libVars PROVE IBelow'
  OBVIOUS
<1> USE DEF IInv, LibInv, LType, AtApi, Jump, initVars, apiVars, vars, tcpVars, netVars,
      Writing, Populating, Finalizing
<1>1. ASSUME NEW t \in Threads, daapInit(t) PROVE IBelow'
  BY <1>1, TcpAssumption, LibAssumption DEF daapInit, BeginCall, IBelow
<1>2. ASSUME NEW t \in Threads, daapFinalize(t) PROVE IBelow'
  BY <1>2, TcpAssumption, LibAssumption DEF daapFinalize, BeginCall, IBelow
<1>3. ASSUME NEW t \in Threads, daapSetRank(t) PROVE IBelow'
  BY <1>3, TcpAssumption, LibAssumption DEF daapSetRank, BeginCall, IBelow
<1>4. ASSUME NEW t \in Threads, NEW k \in UserKinds, daapLogWrite(t, k) PROVE IBelow'
  BY <1>4, TcpAssumption, LibAssumption DEF daapLogWrite, BeginCall, CallWrite, IBelow
<1>5. ASSUME NEW t \in Threads, InitAgain(t) PROVE IBelow'
  BY <1>5, TcpAssumption, LibAssumption DEF InitAgain, IBelow
<1>6. ASSUME NEW t \in Threads, InitPopulate(t) PROVE IBelow'
  BY <1>6, TcpAssumption, LibAssumption DEF InitPopulate, IBelow
<1>7. ASSUME NEW t \in Threads, InitTransport(t) PROVE IBelow'
  BY <1>7, TcpAssumption, LibAssumption DEF InitTransport, daapInitializeSSL, IBelow
<1>8. ASSUME NEW t \in Threads, InitPublish(t) PROVE IBelow'
  BY <1>8, TcpAssumption, LibAssumption DEF InitPublish, IBelow
<1>9. ASSUME NEW t \in Threads, InitRank(t) PROVE IBelow'
  BY <1>9, TcpAssumption, LibAssumption DEF InitRank, CallWrite, IBelow
<1>10. ASSUME NEW t \in Threads, WriteCheck(t) PROVE IBelow'
  BY <1>10, TcpAssumption, LibAssumption DEF WriteCheck, IBelow
<1>11. ASSUME NEW t \in Threads, WriteOpen(t) PROVE IBelow'
  BY <1>11, TcpAssumption, LibAssumption DEF WriteOpen, Fault, Stop, IBelow
<1>12. ASSUME NEW t \in Threads, WriteMeasure(t) PROVE IBelow'
  BY <1>12, TcpAssumption, LibAssumption DEF WriteMeasure, IBelow
<1>13. ASSUME NEW t \in Threads, WriteBuild(t) PROVE IBelow'
  BY <1>13, TcpAssumption, LibAssumption DEF WriteBuild, Fault, Stop, IBelow
<1>14. ASSUME NEW t \in Threads, RawWriteBuild(t) PROVE IBelow'
  BY <1>14, TcpAssumption, LibAssumption DEF RawWriteBuild, IBelow
<1>15. ASSUME NEW t \in Threads, WriteSend(t) PROVE IBelow'
  BY <1>15, TcpAssumption, LibAssumption DEF WriteSend, daapTCPLogWrite, At, Goto, TypeOK,
      IBelow
<1>16. ASSUME NEW t \in Threads, WriteReturn(t) PROVE IBelow'
  BY <1>16, TcpAssumption, LibAssumption DEF WriteReturn, IBelow
<1>17. ASSUME NEW t \in Threads, FinalizeEnd(t) PROVE IBelow'
  BY <1>17, TcpAssumption, LibAssumption DEF FinalizeEnd, CallWrite, IBelow
<1>18. ASSUME NEW t \in Threads, FinalizeShutdown(t) PROVE IBelow'
  BY <1>18, TcpAssumption, LibAssumption DEF FinalizeShutdown, daapShutdownSSL, At, Goto,
      TypeOK, IMutex, Shutdown, IBelow
<1>19. ASSUME NEW t \in Threads, FinalizeFree(t) PROVE IBelow'
  BY <1>19, TcpAssumption, LibAssumption DEF FinalizeFree, Fault, Stop, IBelow
<1>20. ASSUME NEW t \in Threads, TcpStep(t), UNCHANGED <<initVars, apiVars>> PROVE IBelow'
  BY <1>20, TcpFrame, TcpAssumption, LibAssumption DEF IBelow
<1>21. CASE Host /\ UNCHANGED <<initVars, apiVars>>
  BY <1>21, TcpAssumption, LibAssumption DEF Host, AppOpen, AppClose, Reap, IBelow
<1>22. CASE UNCHANGED libVars
  BY <1>22, TcpAssumption, LibAssumption DEF libVars, IBelow
<1>23. QED
  BY <1>1, <1>2, <1>3, <1>4, <1>5, <1>6, <1>7, <1>8, <1>9, <1>10, <1>11, <1>12, <1>13, <1>14, <1>15,
      <1>16, <1>17, <1>18, <1>19, <1>20, <1>21, <1>22 DEF LibNext, OwnFiles, LibCall,
      LibStep

(* The rank after the unlock in daapInit().                                *)
LEMMA RankStep == IInv /\ LibInv /\ [LibNext]_libVars => IRank'
<1> SUFFICES ASSUME IInv, LibInv, [LibNext]_libVars PROVE IRank'
  OBVIOUS
<1> USE DEF IInv, LibInv, LType, AtApi, Jump, initVars, apiVars, vars, tcpVars, netVars,
      Writing, Populating, Finalizing
<1>1. ASSUME NEW t \in Threads, daapInit(t) PROVE IRank'
  BY <1>1, TcpAssumption, LibAssumption DEF daapInit, BeginCall, IRank, RankFound
<1>2. ASSUME NEW t \in Threads, daapFinalize(t) PROVE IRank'
  BY <1>2, TcpAssumption, LibAssumption DEF daapFinalize, BeginCall, IRank, RankFound
<1>3. ASSUME NEW t \in Threads, daapSetRank(t) PROVE IRank'
  BY <1>3, TcpAssumption, LibAssumption DEF daapSetRank, BeginCall, IRank, RankFound
<1>4. ASSUME NEW t \in Threads, NEW k \in UserKinds, daapLogWrite(t, k) PROVE IRank'
  BY <1>4, TcpAssumption, LibAssumption DEF daapLogWrite, BeginCall, CallWrite, IRank, RankFound
<1>5. ASSUME NEW t \in Threads, InitAgain(t) PROVE IRank'
  BY <1>5, TcpAssumption, LibAssumption DEF InitAgain, IRank, RankFound
<1>6. ASSUME NEW t \in Threads, InitPopulate(t) PROVE IRank'
  BY <1>6, TcpAssumption, LibAssumption DEF InitPopulate, IFlag, IRank, RankFound
<1>7. ASSUME NEW t \in Threads, InitTransport(t) PROVE IRank'
  BY <1>7, TcpAssumption, LibAssumption DEF InitTransport, daapInitializeSSL, IRank, RankFound
<1>8. ASSUME NEW t \in Threads, InitPublish(t) PROVE IRank'
  BY <1>8, TcpAssumption, LibAssumption DEF InitPublish, IRank, RankFound
<1>9. ASSUME NEW t \in Threads, InitRank(t) PROVE IRank'
  BY <1>9, TcpAssumption, LibAssumption DEF InitRank, CallWrite, IRank, RankFound
<1>10. ASSUME NEW t \in Threads, WriteCheck(t) PROVE IRank'
  BY <1>10, TcpAssumption, LibAssumption DEF WriteCheck, IRank, RankFound
<1>11. ASSUME NEW t \in Threads, WriteOpen(t) PROVE IRank'
  BY <1>11, TcpAssumption, LibAssumption DEF WriteOpen, Fault, Stop, IRank, RankFound
<1>12. ASSUME NEW t \in Threads, WriteMeasure(t) PROVE IRank'
  BY <1>12, TcpAssumption, LibAssumption DEF WriteMeasure, IRank, RankFound
<1>13. ASSUME NEW t \in Threads, WriteBuild(t) PROVE IRank'
  BY <1>13, TcpAssumption, LibAssumption DEF WriteBuild, Fault, Stop, IRank, RankFound
<1>14. ASSUME NEW t \in Threads, RawWriteBuild(t) PROVE IRank'
  BY <1>14, TcpAssumption, LibAssumption DEF RawWriteBuild, IRank, RankFound
<1>15. ASSUME NEW t \in Threads, WriteSend(t) PROVE IRank'
  BY <1>15, TcpAssumption, LibAssumption DEF WriteSend, daapTCPLogWrite, At, Goto, IRank,
      RankFound
<1>16. ASSUME NEW t \in Threads, WriteReturn(t) PROVE IRank'
  BY <1>16, TcpAssumption, LibAssumption DEF WriteReturn, IRank, RankFound
<1>17. ASSUME NEW t \in Threads, FinalizeEnd(t) PROVE IRank'
  BY <1>17, TcpAssumption, LibAssumption DEF FinalizeEnd, CallWrite, IRank, RankFound
<1>18. ASSUME NEW t \in Threads, FinalizeShutdown(t) PROVE IRank'
  BY <1>18, TcpAssumption, LibAssumption DEF FinalizeShutdown, daapShutdownSSL, At, Goto, IRank,
      RankFound
<1>19. ASSUME NEW t \in Threads, FinalizeFree(t) PROVE IRank'
  BY <1>19, TcpAssumption, LibAssumption DEF FinalizeFree, Fault, Stop, IRank, RankFound
<1>20. ASSUME NEW t \in Threads, TcpStep(t), UNCHANGED <<initVars, apiVars>> PROVE IRank'
  BY <1>20, TcpFrame, TcpAssumption, LibAssumption DEF IRank, RankFound
<1>21. CASE Host /\ UNCHANGED <<initVars, apiVars>>
  BY <1>21, TcpAssumption, LibAssumption DEF Host, AppOpen, AppClose, Reap, IRank, RankFound
<1>22. CASE UNCHANGED libVars
  BY <1>22, TcpAssumption, LibAssumption DEF libVars, IRank, RankFound
<1>23. QED
  BY <1>1, <1>2, <1>3, <1>4, <1>5, <1>6, <1>7, <1>8, <1>9, <1>10, <1>11, <1>12, <1>13, <1>14, <1>15,
      <1>16, <1>17, <1>18, <1>19, <1>20, <1>21, <1>22 DEF LibNext, OwnFiles, LibCall,
      LibStep

(* No call into daap_tcp.c closes a descriptor opened elsewhere.           *)
LEMMA TcpKeepsFiles ==
    ASSUME IInv, NEW t \in Threads, TcpStep(t), NEW f \in Fds, fds[f] = "app"
    PROVE  fds'[f] = "app"
<1>1. CASE Socket(t)
  BY <1>1 DEF IInv, Socket, LowestFree, TypeOK
<1>2. CASE Close(t)
  BY <1>2 DEF IInv, Close, At, TypeOK, ISocket, Connected
<1>3. CASE ~Socket(t) /\ ~Close(t)
  BY <1>3 DEF TcpStep, LockWrite, Connect, SSLNew, Handshake, ShutdownCtx, ShutdownNotify,
      ShutdownFree, SSLWrite, UnlockWrite, ConnectFailed, Stop
<1>4. QED
  BY <1>1, <1>2, <1>3

(* A write opens its /dev/null stream on a free descriptor, closes it, and *)
(* is alone in closing it.                                                 *)
LEMMA NullStep == IInv /\ LibInv /\ [LibNext]_libVars => INull'
<1> SUFFICES ASSUME IInv, LibInv, [LibNext]_libVars PROVE INull'
  OBVIOUS
<1>0. 0 \notin Fds
  BY TcpAssumption DEF Fds
<1> USE DEF LibInv, LType, INull, AtApi, Jump, initVars, apiVars, vars
<1>1. ASSUME NEW t \in Threads, daapInit(t) PROVE INull'
  BY <1>1 DEF daapInit, BeginCall
<1>2. ASSUME NEW t \in Threads, daapFinalize(t) PROVE INull'
  BY <1>2 DEF daapFinalize, BeginCall
<1>3. ASSUME NEW t \in Threads, daapSetRank(t) PROVE INull'
  BY <1>3 DEF daapSetRank, BeginCall
<1>4. ASSUME NEW t \in Threads, NEW k \in UserKinds, daapLogWrite(t, k) PROVE INull'
  BY <1>4 DEF daapLogWrite, BeginCall, CallWrite
<1>5. ASSUME NEW t \in Threads, InitAgain(t) PROVE INull'
  BY <1>5 DEF InitAgain
<1>6. ASSUME NEW t \in Threads, InitPopulate(t) PROVE INull'
  BY <1>6 DEF InitPopulate
<1>7. ASSUME NEW t \in Threads, InitTransport(t) PROVE INull'
  BY <1>7 DEF InitTransport, daapInitializeSSL
<1>8. ASSUME NEW t \in Threads, InitPublish(t) PROVE INull'
  BY <1>8 DEF InitPublish
<1>9. ASSUME NEW t \in Threads, InitRank(t) PROVE INull'
  BY <1>9 DEF InitRank, CallWrite
<1>10. ASSUME NEW t \in Threads, WriteCheck(t) PROVE INull'
  BY <1>10 DEF WriteCheck
<1>11. ASSUME NEW t \in Threads, WriteOpen(t) PROVE INull'
  <2>1. CASE Fault("stopped")
    BY <2>1 DEF Fault, Stop
  <2>2. CASE ~Fault("stopped")
    <3>1. PICK f \in Fds : /\ fds[f] = "free" /\ fds' = [fds EXCEPT ![f] = "app"]
                          /\ null_device' = [null_device EXCEPT ![t] = f]
                          /\ Jump(t, "w_measure") /\ proc = "running"
      BY <1>11, <2>2 DEF WriteOpen, LowestFree
    <3>2. \A u \in Threads : null_device[u] # f
      BY <3>1, <1>0
    <3>3. fds \in [Fds -> {"free", "log", "app"}]
      BY DEF IInv, TypeOK
    <3>4. QED
      BY <3>1, <3>2, <3>3, <1>0
  <2>3. QED
    BY <2>1, <2>2
<1>12. ASSUME NEW t \in Threads, WriteMeasure(t) PROVE INull'
  <2>1. fds \in [Fds -> {"free", "log", "app"}]
    BY DEF IInv, TypeOK
  <2>2. QED
    BY <1>12, <2>1, <1>0 DEF WriteMeasure
<1>13. ASSUME NEW t \in Threads, WriteBuild(t) PROVE INull'
  BY <1>13 DEF WriteBuild, Fault, Stop
<1>14. ASSUME NEW t \in Threads, RawWriteBuild(t) PROVE INull'
  BY <1>14 DEF RawWriteBuild
<1>15. ASSUME NEW t \in Threads, WriteSend(t) PROVE INull'
  BY <1>15 DEF WriteSend, daapTCPLogWrite, At, Goto
<1>16. ASSUME NEW t \in Threads, WriteReturn(t) PROVE INull'
  BY <1>16 DEF WriteReturn
<1>17. ASSUME NEW t \in Threads, FinalizeEnd(t) PROVE INull'
  BY <1>17 DEF FinalizeEnd, CallWrite
<1>18. ASSUME NEW t \in Threads, FinalizeShutdown(t) PROVE INull'
  BY <1>18 DEF FinalizeShutdown, daapShutdownSSL, At, Goto
<1>19. ASSUME NEW t \in Threads, FinalizeFree(t) PROVE INull'
  BY <1>19 DEF FinalizeFree, Fault, Stop
<1>20. ASSUME NEW t \in Threads, TcpStep(t), UNCHANGED <<initVars, apiVars>> PROVE INull'
  <2>1. proc = "running"
    BY <1>20, TcpFrame DEF IInv
  <2>2. QED
    BY <1>20, <2>1, TcpKeepsFiles
<1>21. CASE OwnFiles /\ UNCHANGED <<initVars, apiVars>>
  BY <1>21, <1>0 DEF OwnFiles, Host, AppOpen, AppClose, Reap
<1>22. CASE UNCHANGED libVars
  BY <1>22 DEF libVars
<1>23. QED
  BY <1>1, <1>2, <1>3, <1>4, <1>5, <1>6, <1>7, <1>8, <1>9, <1>10, <1>11, <1>12, <1>13, <1>14,
      <1>15, <1>16, <1>17, <1>18, <1>19, <1>20, <1>21, <1>22 DEF LibNext, LibCall, LibStep

(* What a step of the library does in daap_tcp.c is a step of DaapTcp:     *)
(* daapTCPLogWrite() is called with a line and after daapInitializeSSL(),  *)
(* and memory is freed only after daapShutdownSSL() was called.            *)
LEMMA TransportStep == LibInv /\ [LibNext]_libVars => [Next]_vars
<1> SUFFICES ASSUME LibInv, [LibNext]_libVars PROVE [Next]_vars
  OBVIOUS
<1> USE DEF AtApi, initVars, apiVars
<1>1. ASSUME NEW t \in Threads, daapInit(t) PROVE [Next]_vars
  BY <1>1 DEF daapInit
<1>2. ASSUME NEW t \in Threads, daapFinalize(t) PROVE [Next]_vars
  BY <1>2 DEF daapFinalize
<1>3. ASSUME NEW t \in Threads, daapSetRank(t) PROVE [Next]_vars
  BY <1>3 DEF daapSetRank
<1>4. ASSUME NEW t \in Threads, NEW k \in UserKinds, daapLogWrite(t, k) PROVE [Next]_vars
  BY <1>4 DEF daapLogWrite
<1>5. ASSUME NEW t \in Threads, InitAgain(t) PROVE [Next]_vars
  BY <1>5 DEF InitAgain
<1>6. ASSUME NEW t \in Threads, InitPopulate(t) PROVE [Next]_vars
  BY <1>6 DEF InitPopulate
<1>7. ASSUME NEW t \in Threads, InitTransport(t) PROVE [Next]_vars
  BY <1>7 DEF InitTransport, Next
<1>8. ASSUME NEW t \in Threads, InitPublish(t) PROVE [Next]_vars
  BY <1>8 DEF InitPublish
<1>9. ASSUME NEW t \in Threads, InitRank(t) PROVE [Next]_vars
  BY <1>9 DEF InitRank
<1>10. ASSUME NEW t \in Threads, WriteCheck(t) PROVE [Next]_vars
  BY <1>10 DEF WriteCheck
<1>11. ASSUME NEW t \in Threads, WriteOpen(t) PROVE [Next]_vars
  BY <1>11 DEF WriteOpen, Fault, Next, CallerFault, Host, AppOpen
<1>12. ASSUME NEW t \in Threads, WriteMeasure(t) PROVE [Next]_vars
  BY <1>12 DEF WriteMeasure, Next, Host, AppClose, LibInv, INull
<1>13. ASSUME NEW t \in Threads, WriteBuild(t) PROVE [Next]_vars
  BY <1>13 DEF WriteBuild, Fault, Next, CallerFault, LibInv, IFreed
<1>14. ASSUME NEW t \in Threads, RawWriteBuild(t) PROVE [Next]_vars
  BY <1>14 DEF RawWriteBuild
<1>15. ASSUME NEW t \in Threads, WriteSend(t) PROVE [Next]_vars
  BY <1>15 DEF WriteSend, Next, Call, LibInv, IBuilt, IFlag
<1>16. ASSUME NEW t \in Threads, WriteReturn(t) PROVE [Next]_vars
  BY <1>16 DEF WriteReturn
<1>17. ASSUME NEW t \in Threads, FinalizeEnd(t) PROVE [Next]_vars
  BY <1>17 DEF FinalizeEnd
<1>18. ASSUME NEW t \in Threads, FinalizeShutdown(t) PROVE [Next]_vars
  BY <1>18 DEF FinalizeShutdown, Next, Call
<1>19. ASSUME NEW t \in Threads, FinalizeFree(t) PROVE [Next]_vars
  BY <1>19 DEF FinalizeFree, Fault, Next, CallerFault, LibInv, IFreed
<1>20. ASSUME NEW t \in Threads, TcpStep(t) PROVE [Next]_vars
  BY <1>20 DEF Next
<1>21. CASE Host \/ UNCHANGED libVars
  BY <1>21 DEF Next, libVars
<1>22. QED
  BY <1>1, <1>2, <1>3, <1>4, <1>5, <1>6, <1>7, <1>8, <1>9, <1>10, <1>11, <1>12, <1>13, <1>14, <1>15,
      <1>16, <1>17, <1>18, <1>19, <1>20, <1>21 DEF LibNext, OwnFiles, LibCall,
      LibStep

(* Before any call nothing is set up, freed or sent.                       *)
LEMMA LibInit == Init => IInv /\ LibInv
<1> SUFFICES ASSUME Init PROVE IInv /\ LibInv
  OBVIOUS
<1>1. IInv
  BY InitInv DEF Init
<1>2. LType
  <2>1. pc = [t \in Threads |-> "idle"] /\ calls = [t \in Threads |-> 0]
    BY DEF Init
  <2>2. calls \in [Threads -> 0 .. MaxCalls]
    BY <2>1, LibAssumption
  <2>3. pc \in [Threads -> {"idle", "i_lock", "i_rank"} \cup Populating \cup Writing \cup Finalizing]
    BY <2>1
  <2>4. \A t \in Threads : pc[t] = "idle"
    BY <2>1
  <2>5. env \in [rank : EnvRanks, decouple : Decouples] /\ mpi_rank \in Ranks
    BY LibAssumption DEF Init
  <2>6. /\ mem \in [Strings -> {"null", "live", "freed"}]
        /\ ret \in [Threads -> {"idle", "f_shutdown"}]
        /\ kind \in [Threads -> Kinds]
        /\ built \in [Threads -> Lines \cup {NoLine}]
        /\ null_device \in [Threads -> Fds \cup {0}]
    BY DEF Init, Kinds
  <2>7. QED
    BY <2>2, <2>3, <2>4, <2>5, <2>6 DEF Init, LType
<1>3. IFlag /\ IBuilt /\ IFreed /\ IBelow /\ INull
  BY DEF Init, InitTcp, IFlag, IBuilt, IFreed, IBelow, INull, Populating, Writing, Finalizing
<1>4. IRank
  BY DEF Init, IRank
<1>5. QED
  BY <1>1, <1>2, <1>3, <1>4 DEF LibInv

(* Every step keeps the invariants of the transport and of the library.    *)
LEMMA LibInvStep == IInv /\ LibInv /\ [LibNext]_libVars => (IInv /\ LibInv)'
<1> SUFFICES ASSUME IInv, LibInv, [LibNext]_libVars PROVE (IInv /\ LibInv)'
  OBVIOUS
<1>1. IInv'
  BY TransportStep, TypeStep, MutexStep, SocketStep, NoContextStep, RefsStep, StreamStep,
     OneLineStep, UndefinedStep DEF IInv
<1>2. LibInv'
  BY LTypeStep, FlagStep, BuiltStep, FreedStep, BelowStep, RankStep, NullStep DEF LibInv
<1>3. QED
  BY <1>1, <1>2

(* The invariants hold throughout, whatever the application calls.         *)
THEOREM LibInvariance == Spec => [](IInv /\ LibInv)
BY LibInit, LibInvStep, PTL DEF Spec

(* The library uses the transport as DaapTcp expects of its callers, so    *)
(* every theorem about SpecTcp holds of the library.                       *)
THEOREM LibraryUsesTransport == Spec => UsesTransport
<1>1. Init => InitTcp
  BY DEF Init
<1>2. QED
  BY <1>1, LibInvariance, TransportStep, PTL DEF Spec, UsesTransport, SpecTcp

(* What the transport promises of its connections, lines and descriptors   *)
(* holds of every program that calls the API of daap_init.c and            *)
(* daap_log.c, from any of its threads, and the lines that the log calls   *)
(* send are the lines that arrive.                                         *)
THEOREM LibraryKeepsTransport ==
    Spec => /\ [](OwnConnection /\ OneLinePerStream /\ NoLineTwice)
            /\ [](DescriptorAccounting /\ UndefinedOnlyAfterFailures)
            /\ AppDescriptorsKept
            /\ ImplementsChannel
BY LibraryUsesTransport, ConnectionsAreOwned, StreamsAreLines, LinesAreSentOnce,
   DescriptorsAreAccounted, UndefinedIsExplained, DescriptorsAreKept,
   TransportImplementsChannel, PTL DEF UsesTransport

(* A writer that sees daapInit_called finds init_data and the TLS context  *)
(* set up and, when no daapInit() is past its unlock, the final rank.      *)
THEOREM FlagMeansReady == Spec => []ReadyBeforeUse
<1>1. LibInv => ReadyBeforeUse
  <2> SUFFICES ASSUME LibInv, finalizes = 0, NEW t \in Threads,
                      pc[t] \in {"w_open", "w_measure", "w_build", "w_send"}
               PROVE  /\ \A s \in Strings : mem[s] = "live"
                      /\ transport_type = "TCP" => sslctx # "unset"
                      /\ SetRanks = {} /\ (\A u \in Threads : pc[u] # "i_rank") =>
                             mpi_rank = RankFound
    BY DEF ReadyBeforeUse
  <2>1. daapInit_called /\ ~shutting
    BY DEF LibInv, IFlag, IFreed
  <2>2. \A s \in Strings : mem[s] # "null" /\ mem[s] # "freed"
    BY <2>1 DEF LibInv, IFlag, IFreed
  <2>3. \A s \in Strings : mem[s] = "live"
    BY <2>2 DEF LibInv, LType
  <2>4. QED
    BY <2>1, <2>3 DEF LibInv, IFlag, IRank
<1>2. QED
  BY LibInvariance, <1>1, PTL

(* Two finite sets together have at most as many elements as one by one.   *)
LEMMA UnionBound ==
    ASSUME NEW S, NEW T, IsFiniteSet(S), IsFiniteSet(T)
    PROVE  IsFiniteSet(S \cup T) /\ Cardinality(S \cup T) <= Cardinality(S) + Cardinality(T)
<1>1. /\ IsFiniteSet(S \cup T)
      /\ Cardinality(S \cup T) = Cardinality(S) + Cardinality(T) - Cardinality(S \cap T)
  BY FS_Union
<1>2. IsFiniteSet(S \cap T)
  BY FS_Subset
<1>3. Cardinality(S) \in Nat /\ Cardinality(T) \in Nat /\ Cardinality(S \cap T) \in Nat
  BY <1>2, FS_CardinalityType
<1>4. QED
  BY <1>1, <1>3

(* What the elements of a finite set hold, one each, is not more than they *)
(* are.                                                                    *)
LEMMA OneEach ==
    ASSUME NEW S, NEW R, IsFiniteSet(S), NEW f, \A y \in R : \E x \in S : f[x] = y
    PROVE  IsFiniteSet(R) /\ Cardinality(R) <= Cardinality(S)
<1> DEFINE P == {x \in S : f[x] \in R}
           g == [x \in P |-> f[x]]
<1>1. IsFiniteSet(P) /\ Cardinality(P) <= Cardinality(S)
  BY FS_Subset
<1>2. g \in Surjection(P, R)
  BY DEF Surjection
<1>3. IsFiniteSet(R) /\ Cardinality(R) <= Cardinality(P)
  <2> HIDE DEF g, P
  <2>1. QED
    BY <1>1, <1>2, FS_Surjection
<1>4. Cardinality(R) \in Nat /\ Cardinality(P) \in Nat /\ Cardinality(S) \in Nat
  BY <1>1, <1>3, FS_CardinalityType
<1> HIDE DEF P
<1>5. QED
  BY <1>1, <1>3, <1>4

(* A write call finds no free descriptor only when the failed attempts,    *)
(* the application's own files and one descriptor for each other write in  *)
(* progress fill the table.                                                *)
THEOREM LeaksExhaust ==
    ASSUME IsFiniteSet(Threads)
    PROVE  Spec => []OnlyLeaksExhaust
<1>1. IInv /\ LibInv /\ DescriptorAccounting => OnlyLeaksExhaust
  <2> SUFFICES ASSUME IInv, LibInv, DescriptorAccounting,
                      NEW t \in Threads, AtApi(t, "w_open"), \A f \in Fds : fds[f] # "free"
               PROVE  LET own == {f \in Fds : /\ fds[f] = "app"
                                             /\ \A u \in Threads : null_device[u] # f}
                          writers == {u \in Threads \ {t} : pc[u] \in {"w_measure", "w_return"}}
                      IN  leaked + Cardinality(own) + Cardinality(writers) >= MaxFd
    BY DEF OnlyLeaksExhaust
  <2> DEFINE Own == {f \in Fds : fds[f] = "app" /\ \A u \in Threads : null_device[u] # f}
             Writers == {u \in Threads \ {t} : pc[u] \in {"w_measure", "w_return"}}
             Null == {f \in Fds : \E u \in Threads : null_device[u] = f}
             Measuring == {u \in Threads : pc[u] = "w_measure"}
             Conn == {u \in Threads : tpc[u] \in Connected}
  <2>1. Cardinality(Sockets) = leaked + Cardinality(Conn)
    BY DEF DescriptorAccounting, Sockets, AtApi
  <2>2. IsFiniteSet(Conn) /\ IsFiniteSet(Measuring) /\ IsFiniteSet(Writers)
    BY FS_Subset
  <2>3. Conn \cap Measuring = {} /\ Conn \cup Measuring \subseteq Writers
    BY DEF LibInv, IBelow, AtApi, Connected, Shutdown
  <2>4. Cardinality(Conn) + Cardinality(Measuring) <= Cardinality(Writers)
    <3>1. IsFiniteSet(Conn \cup Measuring)
      BY <2>2, FS_Union
    <3>2. Cardinality(Conn \cup Measuring)
            = Cardinality(Conn) + Cardinality(Measuring) - Cardinality(Conn \cap Measuring)
      BY <2>2, FS_Union
    <3>3. Cardinality(Conn \cap Measuring) = 0
      BY <2>3, FS_EmptySet
    <3>4. Cardinality(Conn \cup Measuring) <= Cardinality(Writers)
      BY <2>2, <2>3, FS_Subset
    <3>5. Cardinality(Conn) \in Nat /\ Cardinality(Measuring) \in Nat
      BY <2>2, FS_CardinalityType
    <3> HIDE DEF Conn, Measuring, Writers
    <3>6. QED
      BY <3>2, <3>3, <3>4, <3>5
  <2>5. IsFiniteSet(Null) /\ Cardinality(Null) <= Cardinality(Measuring)
    <3>1. 0 \notin Fds
      BY TcpAssumption DEF Fds
    <3>2. \A y \in Null : \E x \in Measuring : null_device[x] = y
      BY <3>1 DEF LibInv, INull
    <3> HIDE DEF Null, Measuring
    <3>3. QED
      BY <2>2, <3>2, OneEach
  <2>6. IsFiniteSet(Fds) /\ Cardinality(Fds) = MaxFd
    BY FS_Interval, TcpAssumption DEF Fds
  <2>7. IsFiniteSet(Own)
    BY <2>6, FS_Subset
  <2>8. Fds \subseteq (Own \cup Null) \cup Sockets
    BY DEF IInv, TypeOK, Sockets
  <2>9. /\ IsFiniteSet(Own \cup Null)
        /\ Cardinality(Own \cup Null) <= Cardinality(Own) + Cardinality(Null)
    <3> HIDE DEF Own, Null
    <3>1. QED
      BY <2>5, <2>7, UnionBound
  <2>10. MaxFd <= Cardinality(Own \cup Null) + Cardinality(Sockets)
    <3> HIDE DEF Own, Null
    <3>1. /\ IsFiniteSet((Own \cup Null) \cup Sockets)
          /\ Cardinality((Own \cup Null) \cup Sockets)
                <= Cardinality(Own \cup Null) + Cardinality(Sockets)
      BY <2>9, SocketsFinite, UnionBound
    <3>2. Cardinality(Fds) <= Cardinality((Own \cup Null) \cup Sockets)
      BY <2>8, <3>1, FS_Subset
    <3>3. QED
      BY <2>6, <2>9, <3>1, <3>2, SocketsFinite, FS_CardinalityType, TcpAssumption
  <2>11. /\ leaked \in Nat /\ MaxFd \in Nat
         /\ Cardinality(Own) \in Nat /\ Cardinality(Null) \in Nat
         /\ Cardinality(Own \cup Null) \in Nat
         /\ Cardinality(Conn) \in Nat /\ Cardinality(Measuring) \in Nat
         /\ Cardinality(Writers) \in Nat
    BY <2>2, <2>5, <2>7, <2>9, FS_CardinalityType, TcpAssumption DEF IInv, TypeOK
  <2>12. leaked + Cardinality(Own) + Cardinality(Writers) >= MaxFd
    <3> HIDE DEF Own, Null, Conn, Measuring, Writers
    <3>1. QED
      BY <2>1, <2>4, <2>5, <2>9, <2>10, <2>11, SocketsFinite
  <2>13. QED
    BY <2>12
<1>2. QED
  BY <1>1, LibInvariance, LibraryUsesTransport, DescriptorsAreAccounted, PTL DEF UsesTransport

-----------------------------------------------------------------------------
(* Where the holders of init_mutex and finalize_mutex are: the first       *)
(* populates init_data, the second is in daapFinalize() or in the job end  *)
(* message it sends.                                                       *)
IHeld ==
    \A t \in Threads :
        /\ init_mutex = t => pc[t] \in Populating
        /\ finalize_mutex = t =>
               \/ pc[t] \in {"f_shutdown", "f_free"}
               \/ pc[t] \in Writing /\ ret[t] = "f_shutdown"

(* A mutex changes hands only where its holder locks or unlocks it.        *)
LEMMA HeldStep == LType /\ IHeld /\ [LibNext]_libVars => IHeld'
<1> SUFFICES ASSUME LType, IHeld, [LibNext]_libVars PROVE IHeld'
  OBVIOUS
<1> USE TcpAssumption DEF LType, IHeld, AtApi, Jump, initVars, apiVars, Writing, Populating,
      Finalizing
<1>1. ASSUME NEW t \in Threads, daapInit(t) PROVE IHeld'
  BY <1>1 DEF daapInit, BeginCall
<1>2. ASSUME NEW t \in Threads, daapFinalize(t) PROVE IHeld'
  BY <1>2 DEF daapFinalize, BeginCall
<1>3. ASSUME NEW t \in Threads, daapSetRank(t) PROVE IHeld'
  BY <1>3 DEF daapSetRank, BeginCall
<1>4. ASSUME NEW t \in Threads, NEW k \in UserKinds, daapLogWrite(t, k) PROVE IHeld'
  BY <1>4 DEF daapLogWrite, BeginCall, CallWrite
<1>5. ASSUME NEW t \in Threads, InitAgain(t) PROVE IHeld'
  BY <1>5 DEF InitAgain
<1>6. ASSUME NEW t \in Threads, InitPopulate(t) PROVE IHeld'
  BY <1>6 DEF InitPopulate
<1>7. ASSUME NEW t \in Threads, InitTransport(t) PROVE IHeld'
  BY <1>7 DEF InitTransport
<1>8. ASSUME NEW t \in Threads, InitPublish(t) PROVE IHeld'
  BY <1>8 DEF InitPublish
<1>9. ASSUME NEW t \in Threads, InitRank(t) PROVE IHeld'
  BY <1>9 DEF InitRank, CallWrite
<1>10. ASSUME NEW t \in Threads, WriteCheck(t) PROVE IHeld'
  BY <1>10 DEF WriteCheck
<1>11. ASSUME NEW t \in Threads, WriteOpen(t) PROVE IHeld'
  BY <1>11 DEF WriteOpen, Fault
<1>12. ASSUME NEW t \in Threads, WriteMeasure(t) PROVE IHeld'
  BY <1>12 DEF WriteMeasure
<1>13. ASSUME NEW t \in Threads, WriteBuild(t) PROVE IHeld'
  BY <1>13 DEF WriteBuild, Fault
<1>14. ASSUME NEW t \in Threads, RawWriteBuild(t) PROVE IHeld'
  BY <1>14 DEF RawWriteBuild
<1>15. ASSUME NEW t \in Threads, WriteSend(t) PROVE IHeld'
  BY <1>15 DEF WriteSend
<1>16. ASSUME NEW t \in Threads, WriteReturn(t) PROVE IHeld'
  BY <1>16 DEF WriteReturn
<1>17. ASSUME NEW t \in Threads, FinalizeEnd(t) PROVE IHeld'
  BY <1>17 DEF FinalizeEnd, CallWrite
<1>18. ASSUME NEW t \in Threads, FinalizeShutdown(t) PROVE IHeld'
  BY <1>18 DEF FinalizeShutdown
<1>19. ASSUME NEW t \in Threads, FinalizeFree(t) PROVE IHeld'
  BY <1>19 DEF FinalizeFree, Fault
<1>20. ASSUME UNCHANGED <<initVars, apiVars>> PROVE IHeld'
  BY <1>20
<1>21. QED
  BY <1>1, <1>2, <1>3, <1>4, <1>5, <1>6, <1>7, <1>8, <1>9, <1>10, <1>11, <1>12, <1>13, <1>14, <1>15,
      <1>16, <1>17, <1>18, <1>19, <1>20 DEF LibNext, OwnFiles, LibCall,
      LibStep, libVars

(* The holder of write_mutex is inside a write and waits for no mutex.     *)
LEMMA WriterGoesOn ==
    ASSUME IInv, LibInv, NEW t \in Threads, write_mutex = t
    PROVE  pc[t] # "idle" /\ ~Waits(t)
<1>1. tpc[t] \notin {"out", "lock"}
  BY DEF IInv, IMutex
<1>2. pc[t] \in {"w_return", "f_free"}
  BY <1>1 DEF LibInv, IBelow
<1>3. QED
  BY <1>1, <1>2 DEF Waits

(* A thread that populates init_data waits for nothing.                    *)
LEMMA InitGoesOn ==
    ASSUME LibInv, NEW t \in Threads, pc[t] \in Populating
    PROVE  pc[t] # "idle" /\ ~Waits(t) /\ ~InNetworkCall(t)
<1>1. tpc[t] = "out"
  BY DEF LibInv, IBelow, Populating
<1>2. QED
  BY <1>1 DEF Waits, InNetworkCall, Populating

(* For any number of threads, calls and failures: no circular wait on      *)
(* init_mutex, finalize_mutex and write_mutex, and init_mutex is never     *)
(* held over a network call.                                               *)
THEOREM MutexesAreHandedOn == Spec => []NoCircularWait
<1>1. Init => IHeld
  BY TcpAssumption DEF Init, IHeld
<1>2. IInv /\ LibInv /\ IHeld => NoCircularWait
  <2> SUFFICES ASSUME IInv, LibInv, IHeld PROVE NoCircularWait
    OBVIOUS
  <2>1. \A t \in Threads : init_mutex = t => pc[t] # "idle" /\ ~Waits(t) /\ ~InNetworkCall(t)
    BY InitGoesOn DEF IHeld
  <2>2. \A t \in Threads : write_mutex = t => pc[t] # "idle" /\ ~Waits(t)
    BY WriterGoesOn
  <2>3. ASSUME NEW t \in Threads, pc[t] # "idle"
        PROVE  \E u \in Threads : pc[u] # "idle" /\ ~Waits(u)
    <3>1. CASE ~Waits(t)
      BY <2>3, <3>1
    <3>2. CASE pc[t] = "i_lock" /\ init_mutex # NoThread
      BY <3>2, <2>1 DEF LibInv, LType
    <3>3. CASE tpc[t] = "lock" /\ write_mutex # NoThread
      BY <3>3, <2>2 DEF IInv, TypeOK
    <3>4. CASE pc[t] = "f_lock" /\ finalize_mutex # NoThread
      <4>1. finalize_mutex \in Threads
        BY <3>4 DEF LibInv, LType
      <4>2. pc[finalize_mutex] \notin {"idle", "i_lock", "f_lock"}
        BY <4>1 DEF IHeld, Writing
      <4>3. CASE Waits(finalize_mutex)
        <5>1. write_mutex \in Threads
          BY <4>2, <4>3 DEF Waits, IInv, TypeOK
        <5>2. QED
          BY <5>1, <2>2
      <4>4. QED
        BY <4>1, <4>2, <4>3
    <3>5. QED
      BY <3>1, <3>2, <3>3, <3>4 DEF Waits
  <2>4. QED
    BY <2>1, <2>3 DEF NoCircularWait
<1>3. LibInv => LType
  BY DEF LibInv
<1>4. QED
  BY <1>1, <1>2, <1>3, LibInvariance, HeldStep, PTL DEF Spec

-----------------------------------------------------------------------------
(* The calls begun so far: every daapFinalize() is one of them.            *)
Begun == {c \in Threads \X (1 .. MaxCalls) : c[2] <= calls[c[1]]}
ICounted == finalizes <= Cardinality(Begun)

(* Of finitely many threads, finitely many calls are begun.                *)
LEMMA BegunFinite ==
    ASSUME IsFiniteSet(Threads)
    PROVE  /\ IsFiniteSet(Begun) /\ Cardinality(Begun) \in Nat
           /\ Cardinality(Begun) <= Cardinality(Threads) * MaxCalls
<1>1. IsFiniteSet(1 .. MaxCalls) /\ Cardinality(1 .. MaxCalls) = MaxCalls
  BY FS_Interval, LibAssumption
<1>2. /\ IsFiniteSet(Threads \X (1 .. MaxCalls))
      /\ Cardinality(Threads \X (1 .. MaxCalls)) = Cardinality(Threads) * MaxCalls
  BY <1>1, FS_Product
<1>3. Begun \in SUBSET (Threads \X (1 .. MaxCalls))
  BY DEF Begun
<1>4. QED
  BY <1>2, <1>3, FS_Subset, FS_CardinalityType

(* A call that begins is a new one.                                        *)
LEMMA BegunGrows ==
    ASSUME IsFiniteSet(Threads), LType, NEW t \in Threads, BeginCall(t)
    PROVE  Cardinality(Begun)' = Cardinality(Begun) + 1
<1>1. calls[t] \in 0 .. MaxCalls /\ calls[t] < MaxCalls /\ MaxCalls \in Nat
  BY LibAssumption DEF LType, BeginCall
<1>2. \A u \in Threads : calls'[u] = IF u = t THEN calls[t] + 1 ELSE calls[u]
  BY DEF LType, BeginCall
<1>3. <<t, calls[t] + 1>> \in Threads \X (1 .. MaxCalls)
  BY <1>1
<1>4. <<t, calls[t] + 1>> \notin Begun
  BY <1>1 DEF Begun
<1>5. Begun' = Begun \cup {<<t, calls[t] + 1>>}
  <2>1. \A u \in Threads, i \in 1 .. MaxCalls :
            i <= calls'[u] <=> i <= calls[u] \/ (u = t /\ i = calls[t] + 1)
    BY <1>1, <1>2 DEF LType
  <2>2. QED
    BY <1>3, <2>1 DEF Begun
<1>6. QED
  BY <1>4, <1>5, BegunFinite, FS_AddElement

(* Every action but the calls keeps the count, and a call adds one.        *)
LEMMA CountedStep ==
    ASSUME IsFiniteSet(Threads), LType, ICounted, [LibNext]_libVars
    PROVE  ICounted'
<1> USE DEF apiVars
<1>1. ASSUME NEW t \in Threads, LibCall(t) PROVE ICounted'
  <2>1. BeginCall(t) /\ finalizes' \in {finalizes, finalizes + 1}
    BY <1>1 DEF LibCall, daapInit, daapFinalize, daapSetRank, daapLogWrite
  <2>2. Cardinality(Begun)' = Cardinality(Begun) + 1
    BY <2>1, BegunGrows
  <2>3. QED
    BY <2>1, <2>2, BegunFinite DEF LType, ICounted
<1>2. ASSUME UNCHANGED <<calls, finalizes>> PROVE ICounted'
  BY <1>2 DEF ICounted, Begun
<1>3. ASSUME NEW t \in Threads, LibStep(t) PROVE UNCHANGED <<calls, finalizes>>
  BY <1>3 DEF LibStep, InitAgain, InitPopulate, InitTransport, InitPublish, InitRank, WriteCheck,
      WriteOpen, WriteMeasure, WriteBuild, RawWriteBuild, WriteSend, WriteReturn, FinalizeEnd,
      FinalizeShutdown, FinalizeFree, Fault
<1>4. CASE Host /\ UNCHANGED <<initVars, apiVars>>
  BY <1>4, <1>2
<1>5. CASE UNCHANGED libVars
  BY <1>5, <1>2 DEF libVars
<1>6. QED
  BY <1>1, <1>2, <1>3, <1>4, <1>5 DEF LibNext, OwnFiles

(* The types of the library, with the bound on the daapFinalize() calls    *)
(* that finitely many threads can make.                                    *)
THEOREM LibTypeCorrect ==
    ASSUME IsFiniteSet(Threads)
    PROVE  Spec => []LibTypeOK
<1>1. Init => ICounted
  BY BegunFinite DEF Init, ICounted
<1>2. LType /\ ICounted /\ [LibNext]_libVars => ICounted'
  BY CountedStep
<1>3. LType /\ ICounted => LibTypeOK
  <2> SUFFICES ASSUME LType, ICounted PROVE LibTypeOK
    OBVIOUS
  <2>1. Cardinality(Threads) * MaxCalls \in Nat
    BY FS_CardinalityType, LibAssumption
  <2>2. finalizes \in 0 .. Cardinality(Threads) * MaxCalls
    BY <2>1, BegunFinite DEF LType, ICounted
  <2>3. QED
    BY <2>2 DEF LType, LibTypeOK, Populating, Writing, Finalizing
<1>4. LibInv => LType
  BY DEF LibInv
<1>5. QED
  BY <1>1, <1>2, <1>3, <1>4, LibInvariance, PTL DEF Spec

-----------------------------------------------------------------------------
(* An application that keeps to the README finalizes once, from an         *)
(* initialised thread, when all other threads are idle, and then makes no  *)
(* other call.                                                             *)
LEMMA QuietStep == IInv /\ LibInv /\ IQuiet /\ [LibNext]_libVars => IQuiet'
<1> SUFFICES ASSUME IInv, LibInv, IQuiet, [LibNext]_libVars PROVE IQuiet'
  OBVIOUS
<1> USE DEF IInv, LibInv, LType, AtApi, Jump, initVars, apiVars, vars, tcpVars, netVars,
      Writing, Populating, Finalizing, MayInit, MayCall, MayFinalize
<1>1. ASSUME NEW t \in Threads, daapInit(t) PROVE IQuiet'
  BY <1>1, TcpAssumption DEF daapInit, BeginCall, IQuiet, IFreed
<1>2. ASSUME NEW t \in Threads, daapFinalize(t) PROVE IQuiet'
  BY <1>2, TcpAssumption DEF daapFinalize, BeginCall, IQuiet, IFreed
<1>3. ASSUME NEW t \in Threads, daapSetRank(t) PROVE IQuiet'
  BY <1>3, TcpAssumption DEF daapSetRank, BeginCall, IQuiet, IFreed
<1>4. ASSUME NEW t \in Threads, NEW k \in UserKinds, daapLogWrite(t, k) PROVE IQuiet'
  BY <1>4, TcpAssumption DEF daapLogWrite, BeginCall, CallWrite, IQuiet, IFreed
<1>5. ASSUME NEW t \in Threads, InitAgain(t) PROVE IQuiet'
  BY <1>5, TcpAssumption DEF InitAgain, IQuiet, IFreed
<1>6. ASSUME NEW t \in Threads, InitPopulate(t) PROVE IQuiet'
  BY <1>6, TcpAssumption DEF InitPopulate, IQuiet, IFreed
<1>7. ASSUME NEW t \in Threads, InitTransport(t) PROVE IQuiet'
  BY <1>7, TcpAssumption DEF InitTransport, daapInitializeSSL, IQuiet, IFreed
<1>8. ASSUME NEW t \in Threads, InitPublish(t) PROVE IQuiet'
  BY <1>8, TcpAssumption DEF InitPublish, IQuiet, IFreed
<1>9. ASSUME NEW t \in Threads, InitRank(t) PROVE IQuiet'
  BY <1>9, TcpAssumption DEF InitRank, CallWrite, IQuiet, IFreed
<1>10. ASSUME NEW t \in Threads, WriteCheck(t) PROVE IQuiet'
  BY <1>10, TcpAssumption DEF WriteCheck, IQuiet, IFreed
<1>11. ASSUME NEW t \in Threads, WriteOpen(t) PROVE IQuiet'
  BY <1>11, TcpAssumption DEF WriteOpen, Fault, Stop, IQuiet, IFreed
<1>12. ASSUME NEW t \in Threads, WriteMeasure(t) PROVE IQuiet'
  BY <1>12, TcpAssumption DEF WriteMeasure, IQuiet, IFreed
<1>13. ASSUME NEW t \in Threads, WriteBuild(t) PROVE IQuiet'
  BY <1>13, TcpAssumption DEF WriteBuild, Fault, Stop, IQuiet, IFreed
<1>14. ASSUME NEW t \in Threads, RawWriteBuild(t) PROVE IQuiet'
  BY <1>14, TcpAssumption DEF RawWriteBuild, IQuiet, IFreed
<1>15. ASSUME NEW t \in Threads, WriteSend(t) PROVE IQuiet'
  BY <1>15, TcpAssumption DEF WriteSend, daapTCPLogWrite, At, Goto, IQuiet, IFreed
<1>16. ASSUME NEW t \in Threads, WriteReturn(t) PROVE IQuiet'
  BY <1>16, TcpAssumption DEF WriteReturn, IQuiet, IFreed
<1>17. ASSUME NEW t \in Threads, FinalizeEnd(t) PROVE IQuiet'
  BY <1>17, TcpAssumption DEF FinalizeEnd, CallWrite, IQuiet, IFreed
<1>18. ASSUME NEW t \in Threads, FinalizeShutdown(t) PROVE IQuiet'
  BY <1>18, TcpAssumption DEF FinalizeShutdown, daapShutdownSSL, At, Goto, IQuiet, IFreed
<1>19. ASSUME NEW t \in Threads, FinalizeFree(t) PROVE IQuiet'
  BY <1>19, TcpAssumption DEF FinalizeFree, Fault, Stop, IQuiet, IFreed
<1>20. ASSUME NEW t \in Threads, TcpStep(t), UNCHANGED <<initVars, apiVars>> PROVE IQuiet'
  BY <1>20, TcpFrame, TcpAssumption DEF IQuiet, IFreed
<1>21. CASE Host /\ UNCHANGED <<initVars, apiVars>>
  BY <1>21, TcpAssumption DEF Host, AppOpen, AppClose, Reap, IQuiet, IFreed
<1>22. CASE UNCHANGED libVars
  BY <1>22, TcpAssumption DEF libVars, IQuiet, IFreed
<1>23. QED
  BY <1>1, <1>2, <1>3, <1>4, <1>5, <1>6, <1>7, <1>8, <1>9, <1>10, <1>11, <1>12, <1>13, <1>14, <1>15,
      <1>16, <1>17, <1>18, <1>19, <1>20, <1>21, <1>22 DEF LibNext, OwnFiles, LibCall,
      LibStep

(* daapInit() sends one job start, from the one thread that populated      *)
(* init_data, after the unlock.                                            *)
LEMMA StartStep == IInv /\ LibInv /\ IStart /\ [LibNext]_libVars => IStart'
<1> SUFFICES ASSUME IInv, LibInv, IStart, [LibNext]_libVars PROVE IStart'
  OBVIOUS
<1> USE DEF IInv, LibInv, LType, AtApi, Jump, initVars, apiVars, vars, tcpVars, netVars,
      Writing, Populating, Finalizing
<1>1. ASSUME NEW t \in Threads, daapInit(t) PROVE IStart'
  BY <1>1, TcpAssumption, LibAssumption DEF daapInit, BeginCall, IStart, IFlag, Sending,
      StartWriter, Marked, MarkedOnce, Logged, RankFound
<1>2. ASSUME NEW t \in Threads, daapFinalize(t) PROVE IStart'
  BY <1>2, TcpAssumption, LibAssumption DEF daapFinalize, BeginCall, IStart, IFlag, Sending,
      StartWriter, Marked, MarkedOnce, Logged, RankFound
<1>3. ASSUME NEW t \in Threads, daapSetRank(t) PROVE IStart'
  BY <1>3, TcpAssumption, LibAssumption DEF daapSetRank, BeginCall, IStart, IFlag, Sending,
      StartWriter, Marked, MarkedOnce, Logged, RankFound
<1>4. ASSUME NEW t \in Threads, NEW k \in UserKinds, daapLogWrite(t, k) PROVE IStart'
  BY <1>4, TcpAssumption, LibAssumption DEF daapLogWrite, BeginCall, CallWrite, IStart, IFlag,
      Sending, StartWriter, Marked, MarkedOnce, Logged, RankFound
<1>5. ASSUME NEW t \in Threads, InitAgain(t) PROVE IStart'
  BY <1>5, TcpAssumption, LibAssumption DEF InitAgain, IStart, IFlag, Sending, StartWriter,
      Marked, MarkedOnce, Logged, RankFound
<1>6. ASSUME NEW t \in Threads, InitPopulate(t) PROVE IStart'
  BY <1>6, TcpAssumption, LibAssumption DEF InitPopulate, IStart, IFlag, Sending, StartWriter,
      Marked, MarkedOnce, Logged, RankFound
<1>7. ASSUME NEW t \in Threads, InitTransport(t) PROVE IStart'
  BY <1>7, TcpAssumption, LibAssumption DEF InitTransport, daapInitializeSSL, IStart, IFlag,
      Sending, StartWriter, Marked, MarkedOnce, Logged, RankFound
<1>8. ASSUME NEW t \in Threads, InitPublish(t) PROVE IStart'
  BY <1>8, TcpAssumption, LibAssumption DEF InitPublish, IStart, IFlag, Sending, StartWriter,
      Marked, MarkedOnce, Logged, RankFound
<1>9. ASSUME NEW t \in Threads, InitRank(t) PROVE IStart'
  BY <1>9, TcpAssumption, LibAssumption DEF InitRank, CallWrite, IStart, IFlag, Sending,
      StartWriter, Marked, MarkedOnce, Logged, RankFound
<1>10. ASSUME NEW t \in Threads, WriteCheck(t) PROVE IStart'
  BY <1>10, TcpAssumption, LibAssumption DEF WriteCheck, IStart, IFlag, Sending, StartWriter,
      Marked, MarkedOnce, Logged, RankFound
<1>11. ASSUME NEW t \in Threads, WriteOpen(t) PROVE IStart'
  BY <1>11, TcpAssumption, LibAssumption DEF WriteOpen, Fault, Stop, IStart, IFlag, Sending,
      StartWriter, Marked, MarkedOnce, Logged, RankFound
<1>12. ASSUME NEW t \in Threads, WriteMeasure(t) PROVE IStart'
  BY <1>12, TcpAssumption, LibAssumption DEF WriteMeasure, IStart, IFlag, Sending,
      StartWriter, Marked, MarkedOnce, Logged, RankFound
<1>13. ASSUME NEW t \in Threads, WriteBuild(t) PROVE IStart'
  BY <1>13, TcpAssumption, LibAssumption DEF WriteBuild, Fault, Stop, IStart, IFlag, Sending,
      StartWriter, Marked, MarkedOnce, Logged, RankFound
<1>14. ASSUME NEW t \in Threads, RawWriteBuild(t) PROVE IStart'
  BY <1>14, TcpAssumption, LibAssumption DEF RawWriteBuild, IStart, IFlag, Sending, StartWriter,
      Marked, MarkedOnce, Logged, RankFound
<1>15. ASSUME NEW t \in Threads, WriteSend(t) PROVE IStart'
  BY <1>15, TcpAssumption, LibAssumption DEF WriteSend, daapTCPLogWrite, At, Goto, IBuilt,
      IStart, IFlag, Sending, StartWriter, Marked, MarkedOnce, Logged, RankFound
<1>16. ASSUME NEW t \in Threads, WriteReturn(t) PROVE IStart'
  BY <1>16, TcpAssumption, LibAssumption DEF WriteReturn, IStart, IFlag, Sending, StartWriter,
      Marked, MarkedOnce, Logged, RankFound
<1>17. ASSUME NEW t \in Threads, FinalizeEnd(t) PROVE IStart'
  BY <1>17, TcpAssumption, LibAssumption DEF FinalizeEnd, CallWrite, IStart, IFlag, Sending,
      StartWriter, Marked, MarkedOnce, Logged, RankFound
<1>18. ASSUME NEW t \in Threads, FinalizeShutdown(t) PROVE IStart'
  BY <1>18, TcpAssumption, LibAssumption DEF FinalizeShutdown, daapShutdownSSL, At, Goto,
      IStart, IFlag, Sending, StartWriter, Marked, MarkedOnce, Logged, RankFound
<1>19. ASSUME NEW t \in Threads, FinalizeFree(t) PROVE IStart'
  BY <1>19, TcpAssumption, LibAssumption DEF FinalizeFree, Fault, Stop, IStart, IFlag, Sending,
      StartWriter, Marked, MarkedOnce, Logged, RankFound
<1>20. ASSUME NEW t \in Threads, TcpStep(t), UNCHANGED <<initVars, apiVars>> PROVE IStart'
  BY <1>20, TcpFrame, TcpAssumption, LibAssumption DEF IStart, IFlag, Sending, StartWriter, Marked,
      MarkedOnce, Logged, RankFound
<1>21. CASE Host /\ UNCHANGED <<initVars, apiVars>>
  BY <1>21, TcpAssumption, LibAssumption DEF Host, AppOpen, AppClose, Reap, IStart, IFlag, Sending,
      StartWriter, Marked, MarkedOnce, Logged, RankFound
<1>22. CASE UNCHANGED libVars
  BY <1>22, TcpAssumption, LibAssumption DEF libVars, IStart, IFlag, Sending, StartWriter, Marked,
      MarkedOnce, Logged, RankFound
<1>23. QED
  BY <1>1, <1>2, <1>3, <1>4, <1>5, <1>6, <1>7, <1>8, <1>9, <1>10, <1>11, <1>12, <1>13, <1>14, <1>15,
      <1>16, <1>17, <1>18, <1>19, <1>20, <1>21, <1>22 DEF LibNext, OwnFiles, LibCall,
      LibStep

(* daapFinalize() sends one job end, when the job start is out.            *)
LEMMA EndStep == IInv /\ LibInv /\ JobInv /\ [LibNext]_libVars => IEnd'
<1> SUFFICES ASSUME IInv, LibInv, JobInv, [LibNext]_libVars PROVE IEnd'
  OBVIOUS
<1> USE DEF IInv, LibInv, LType, AtApi, Jump, initVars, apiVars, vars, tcpVars, netVars,
      Writing, Populating, Finalizing, JobInv, MayInit, MayCall, MayFinalize
<1>1. ASSUME NEW t \in Threads, daapInit(t) PROVE IEnd'
  BY <1>1, TcpAssumption, LibAssumption DEF daapInit, BeginCall, IEnd, IFreed, IQuiet, Sending,
      EndWriter, Marked, MarkedOnce, Logged
<1>2. ASSUME NEW t \in Threads, daapFinalize(t) PROVE IEnd'
  BY <1>2, TcpAssumption, LibAssumption DEF daapFinalize, BeginCall, IEnd, IFreed, IQuiet,
      Sending, EndWriter, Marked, MarkedOnce, Logged
<1>3. ASSUME NEW t \in Threads, daapSetRank(t) PROVE IEnd'
  BY <1>3, TcpAssumption, LibAssumption DEF daapSetRank, BeginCall, IEnd, IFreed, IQuiet,
      Sending, EndWriter, Marked, MarkedOnce, Logged
<1>4. ASSUME NEW t \in Threads, NEW k \in UserKinds, daapLogWrite(t, k) PROVE IEnd'
  BY <1>4, TcpAssumption, LibAssumption DEF daapLogWrite, BeginCall, CallWrite, IEnd, IFreed,
      IQuiet, Sending, EndWriter, Marked, MarkedOnce, Logged
<1>5. ASSUME NEW t \in Threads, InitAgain(t) PROVE IEnd'
  BY <1>5, TcpAssumption, LibAssumption DEF InitAgain, IEnd, IFreed, IQuiet, Sending, EndWriter,
      Marked, MarkedOnce, Logged
<1>6. ASSUME NEW t \in Threads, InitPopulate(t) PROVE IEnd'
  BY <1>6, TcpAssumption, LibAssumption DEF InitPopulate, IEnd, IFreed, IQuiet, Sending,
      EndWriter, Marked, MarkedOnce, Logged
<1>7. ASSUME NEW t \in Threads, InitTransport(t) PROVE IEnd'
  BY <1>7, TcpAssumption, LibAssumption DEF InitTransport, daapInitializeSSL, IEnd, IFreed,
      IQuiet, Sending, EndWriter, Marked, MarkedOnce, Logged
<1>8. ASSUME NEW t \in Threads, InitPublish(t) PROVE IEnd'
  BY <1>8, TcpAssumption, LibAssumption DEF InitPublish, IEnd, IFreed, IQuiet, Sending,
      EndWriter, Marked, MarkedOnce, Logged
<1>9. ASSUME NEW t \in Threads, InitRank(t) PROVE IEnd'
  BY <1>9, TcpAssumption, LibAssumption DEF InitRank, CallWrite, IEnd, IFreed, IQuiet, Sending,
      EndWriter, Marked, MarkedOnce, Logged
<1>10. ASSUME NEW t \in Threads, WriteCheck(t) PROVE IEnd'
  BY <1>10, TcpAssumption, LibAssumption DEF WriteCheck, IEnd, IFreed, IQuiet, Sending,
      EndWriter, Marked, MarkedOnce, Logged
<1>11. ASSUME NEW t \in Threads, WriteOpen(t) PROVE IEnd'
  BY <1>11, TcpAssumption, LibAssumption DEF WriteOpen, Fault, Stop, IEnd, IFreed, IQuiet,
      Sending, EndWriter, Marked, MarkedOnce, Logged
<1>12. ASSUME NEW t \in Threads, WriteMeasure(t) PROVE IEnd'
  BY <1>12, TcpAssumption, LibAssumption DEF WriteMeasure, IEnd, IFreed, IQuiet,
      Sending, EndWriter, Marked, MarkedOnce, Logged
<1>13. ASSUME NEW t \in Threads, WriteBuild(t) PROVE IEnd'
  BY <1>13, TcpAssumption, LibAssumption DEF WriteBuild, Fault, Stop, IEnd, IFreed, IQuiet,
      Sending, EndWriter, Marked, MarkedOnce, Logged
<1>14. ASSUME NEW t \in Threads, RawWriteBuild(t) PROVE IEnd'
  BY <1>14, TcpAssumption, LibAssumption DEF RawWriteBuild, IEnd, IFreed, IQuiet, Sending,
      EndWriter, Marked, MarkedOnce, Logged
<1>15. ASSUME NEW t \in Threads, WriteSend(t) PROVE IEnd'
  BY <1>15, TcpAssumption, LibAssumption DEF WriteSend, daapTCPLogWrite, At, Goto, IBuilt,
      IStart, StartWriter, IEnd, IFreed, IQuiet, Sending, EndWriter, Marked, MarkedOnce, Logged
<1>16. ASSUME NEW t \in Threads, WriteReturn(t) PROVE IEnd'
  BY <1>16, TcpAssumption, LibAssumption DEF WriteReturn, IEnd, IFreed, IQuiet, Sending,
      EndWriter, Marked, MarkedOnce, Logged
<1>17. ASSUME NEW t \in Threads, FinalizeEnd(t) PROVE IEnd'
  BY <1>17, TcpAssumption, LibAssumption DEF FinalizeEnd, CallWrite, IEnd, IFreed, IQuiet,
      Sending, EndWriter, Marked, MarkedOnce, Logged
<1>18. ASSUME NEW t \in Threads, FinalizeShutdown(t) PROVE IEnd'
  BY <1>18, TcpAssumption, LibAssumption DEF FinalizeShutdown, daapShutdownSSL, At, Goto, IEnd,
      IFreed, IQuiet, Sending, EndWriter, Marked, MarkedOnce, Logged
<1>19. ASSUME NEW t \in Threads, FinalizeFree(t) PROVE IEnd'
  BY <1>19, TcpAssumption, LibAssumption DEF FinalizeFree, Fault, Stop, IEnd, IFreed, IQuiet,
      Sending, EndWriter, Marked, MarkedOnce, Logged
<1>20. ASSUME NEW t \in Threads, TcpStep(t), UNCHANGED <<initVars, apiVars>> PROVE IEnd'
  BY <1>20, TcpFrame, TcpAssumption, LibAssumption DEF IEnd, IFreed, IQuiet, Sending, EndWriter,
      Marked, MarkedOnce, Logged
<1>21. CASE Host /\ UNCHANGED <<initVars, apiVars>>
  BY <1>21, TcpAssumption, LibAssumption DEF Host, AppOpen, AppClose, Reap, IEnd, IFreed, IQuiet,
      Sending, EndWriter, Marked, MarkedOnce, Logged
<1>22. CASE UNCHANGED libVars
  BY <1>22, TcpAssumption, LibAssumption DEF libVars, IEnd, IFreed, IQuiet, Sending, EndWriter,
      Marked, MarkedOnce, Logged
<1>23. QED
  BY <1>1, <1>2, <1>3, <1>4, <1>5, <1>6, <1>7, <1>8, <1>9, <1>10, <1>11, <1>12, <1>13, <1>14, <1>15,
      <1>16, <1>17, <1>18, <1>19, <1>20, <1>21, <1>22 DEF LibNext, OwnFiles, LibCall,
      LibStep

(* Before any call nothing is sent and nobody finalizes.                   *)
LEMMA JobInit == Init => JobInv /\ ITls
<1> SUFFICES ASSUME Init PROVE JobInv /\ ITls
  OBVIOUS
<1> USE DEF Init, InitTcp
<1>1. IQuiet
  BY DEF IQuiet
<1>2. IStart
  BY DEF IStart, StartWriter, Sending, Writing, Marked, MarkedOnce, Logged
<1>3. IEnd
  BY DEF IEnd, EndWriter, Sending, Writing, Marked, MarkedOnce, Logged
<1>4. ITls
  BY DEF ITls, Shutdown
<1>5. QED
  BY <1>1, <1>2, <1>3, <1>4 DEF JobInv

(* Every run of an application that keeps to the README is quiet once it   *)
(* finalizes, and brackets its messages.                                   *)
THEOREM JobInvariance == Spec => []JobInv
<1>1. IInv /\ LibInv /\ JobInv /\ [LibNext]_libVars => JobInv'
  BY QuietStep, StartStep, EndStep DEF JobInv
<1>2. QED
  BY JobInit, <1>1, LibInvariance, PTL DEF Spec

(* An application that keeps to the README and leaves the markers to the   *)
(* library sends at most one job start and one job end, the end only after *)
(* the start, and neither when it is decoupled or another rank than 0.     *)
THEOREM JobIsBracketed ==
    ASSUME Disciplined, UserKinds \cap {"jobstart", "jobend"} = {}
    PROVE  Spec => []JobBracketed
<1>1. JobInv => JobBracketed
  <2> DEFINE Marks(k) == {l \in Logged : l.kind = k}
  <2> SUFFICES ASSUME JobInv
               PROVE  /\ Cardinality(Marks("jobstart")) <= 1
                      /\ Cardinality(Marks("jobend")) <= 1
                      /\ Marks("jobend") # {} => Marks("jobstart") # {}
                      /\ env.decouple \/ RankFound # 0 => Marks("jobstart") = {}
    BY DEF JobBracketed
  <2>1. Cardinality(Marks("jobstart")) <= 1
    <3>1. \A l, m \in Marks("jobstart") : l = m
      BY DEF JobInv, IStart, MarkedOnce
    <3>2. QED
      BY <3>1, AtMostOne
  <2>2. Cardinality(Marks("jobend")) <= 1
    <3>1. \A l, m \in Marks("jobend") : l = m
      BY DEF JobInv, IEnd, MarkedOnce
    <3>2. QED
      BY <3>1, AtMostOne
  <2>3. Marks("jobend") # {} => Marks("jobstart") # {}
    BY DEF JobInv, IEnd, Marked
  <2>4. env.decouple \/ RankFound # 0 => Marks("jobstart") = {}
    BY DEF JobInv, IStart, Marked
  <2>5. QED
    BY <2>1, <2>2, <2>3, <2>4
<1>2. QED
  BY JobInvariance, <1>1, PTL

-----------------------------------------------------------------------------
(* A product of two counts is a count.                                     *)
LEMMA RefsNat == \A n \in Nat : SSLRefs * n \in Nat
BY TcpAssumption

(* Before daapFinalize() shuts down, a step in daap_tcp.c uses freed       *)
(* memory only after a failed handshake, and frees nothing without one.    *)
LEMMA TlsBefore ==
    ASSUME IInv, IInv', Disciplined, ITls, ~shutting, hsFails' = 0,
           NEW t \in Threads, TcpStep(t)
    PROVE  ITls'
<1> USE DEF IInv, TypeOK, At, Goto, Stop, tcpVars, netVars
<1>1. hsFails = 0 /\ ~shutting'
  BY DEF TcpStep, LockWrite, Socket, Connect, SSLNew, Handshake, ShutdownCtx, ShutdownNotify,
      ShutdownFree, SSLWrite, Close, UnlockWrite, ConnectFailed
<1>2. proc' # "undefined"
  BY <1>1, RefsNat DEF UndefinedOnlyAfterFailures
<1>3. tpc[t] \notin Shutdown
  BY <1>1 DEF ITls, IMutex
<1>4. CASE LockWrite(t) \/ Socket(t) \/ Connect(t)
  BY <1>4, <1>1, <1>2 DEF LockWrite, Socket, Connect, ITls, IMutex, Shutdown
<1>5. CASE SSLNew(t)
  BY <1>5, <1>1, <1>2 DEF SSLNew, ITls, Shutdown
<1>6. CASE Handshake(t) \/ SSLWrite(t)
  BY <1>6, <1>1, <1>2 DEF Handshake, SSLWrite, ITls, Shutdown
<1>7. CASE Close(t)
  BY <1>7, <1>1, <1>2 DEF Close, ITls, Shutdown
<1>8. CASE UnlockWrite(t) \/ ConnectFailed(t)
  BY <1>8, <1>1, <1>2, TcpAssumption DEF UnlockWrite, ConnectFailed, ITls, Shutdown
<1>9. CASE ShutdownCtx(t) \/ ShutdownNotify(t) \/ ShutdownFree(t)
  BY <1>9, <1>3 DEF ShutdownCtx, ShutdownNotify, ShutdownFree, Shutdown
<1>10. QED
  BY <1>4, <1>5, <1>6, <1>7, <1>8, <1>9 DEF TcpStep

(* In the daapShutdownSSL() of daapFinalize() the thread is alone, and the *)
(* context and the SSL object are still there to be freed.                 *)
LEMMA TlsAfter ==
    ASSUME IInv, Disciplined, ITls, shutting, hsFails' = 0,
           NEW t \in Threads, TcpStep(t), tpc[t] \in Shutdown, write_mutex # t,
           \A u \in Threads : u # t => tpc[u] = "out"
    PROVE  ITls'
<1> USE DEF IInv, TypeOK, At, Goto, Stop, tcpVars, netVars
<1>1. CASE ShutdownCtx(t)
  <2>1. /\ hsFails = 0 /\ shutting' /\ UNCHANGED <<cSSL, sslctx, writes, write_mutex>>
        /\ \A u \in Threads : u # t => tpc'[u] = "out"
        /\ proc = "running" /\ tpc[t] = "sd_ctx"
    BY <1>1 DEF ShutdownCtx
  <2>2. sslctx = "made" => ctxRefs = 1 + SSLRefs * writes
    BY <2>1 DEF ITls
  <2>3. ~(sslctx = "made" /\ ctxRefs = 0)
    BY <2>2, RefsNat
  <2>4. tpc'[t] = "sd_notify" /\ proc' = proc /\ (sslctx = "made" => ctxRefs' = ctxRefs - 1)
    BY <1>1, <2>3 DEF ShutdownCtx
  <2>5. sslctx = "made" => ctxRefs' = SSLRefs * writes
    BY <2>2, <2>4, RefsNat
  <2>6. QED
    BY <2>1, <2>4, <2>5 DEF ITls, Shutdown
<1>2. CASE ShutdownNotify(t)
  <2>1. hsFails = 0 /\ cSSL.obj # "freed"
    BY <1>2 DEF ShutdownNotify, ITls
  <2>2. QED
    BY <1>2, <2>1 DEF ShutdownNotify, ITls, Shutdown
<1>3. CASE ShutdownFree(t)
  <2>1. hsFails = 0 /\ cSSL.obj # "freed" /\ proc = "running" /\ tpc[t] = "sd_free"
    BY <1>3 DEF ShutdownFree, ITls
  <2>2. cSSL.obj # "null" => sslctx = "made" /\ writes # 0 /\ ctxRefs = SSLRefs * writes
    BY <2>1 DEF ITls
  <2>3. \A n \in Nat : n # 0 => SSLRefs * n >= SSLRefs
    BY TcpAssumption
  <2>4. ~(cSSL.obj # "null" /\ ctxRefs < SSLRefs)
    <3>1. writes \in Nat /\ ctxRefs \in Nat /\ SSLRefs \in Nat
      BY TcpAssumption
    <3>2. cSSL.obj # "null" => SSLRefs * writes >= SSLRefs
      BY <2>2, <2>3, <3>1, Zenon
    <3>3. cSSL.obj # "null" => ctxRefs >= SSLRefs
      BY <2>2, <3>2, Zenon
    <3>4. QED
      BY <3>1, <3>3
  <2>5. /\ proc' = proc /\ shutting' /\ UNCHANGED <<sslctx, writes, write_mutex>>
        /\ \A u \in Threads : tpc'[u] = "out"
        /\ cSSL.obj = "null" => cSSL' = cSSL
        /\ cSSL.obj # "null" => cSSL'.obj # "null"
    BY <1>3, <2>1, <2>4 DEF ShutdownFree
  <2>6. QED
    BY <2>1, <2>2, <2>5 DEF ITls, Shutdown
<1>4. QED
  BY <1>1, <1>2, <1>3 DEF TcpStep, LockWrite, Socket, Connect, SSLNew, Handshake, SSLWrite, Close,
      UnlockWrite, ConnectFailed, Shutdown

(* An application that keeps to the README keeps the SSL object and the    *)
(* context alive as long as every handshake succeeds.                      *)
LEMMA TlsStep == IInv /\ LibInv /\ IQuiet /\ ITls /\ [LibNext]_libVars => ITls'
<1> SUFFICES ASSUME IInv, LibInv, IQuiet, ITls, [LibNext]_libVars PROVE ITls'
  OBVIOUS
<1> USE DEF AtApi, Jump, initVars, apiVars, vars, tcpVars, netVars, IInv, LibInv, LType
<1>1. ASSUME NEW t \in Threads, daapInit(t) PROVE ITls'
  BY <1>1, TcpAssumption DEF daapInit, BeginCall, ITls
<1>2. ASSUME NEW t \in Threads, daapFinalize(t) PROVE ITls'
  BY <1>2, TcpAssumption DEF daapFinalize, BeginCall, ITls
<1>3. ASSUME NEW t \in Threads, daapSetRank(t) PROVE ITls'
  BY <1>3, TcpAssumption DEF daapSetRank, BeginCall, ITls
<1>4. ASSUME NEW t \in Threads, NEW k \in UserKinds, daapLogWrite(t, k) PROVE ITls'
  BY <1>4, TcpAssumption DEF daapLogWrite, BeginCall, CallWrite, ITls
<1>5. ASSUME NEW t \in Threads, InitAgain(t) PROVE ITls'
  BY <1>5, TcpAssumption DEF InitAgain, ITls
<1>6. ASSUME NEW t \in Threads, InitPopulate(t) PROVE ITls'
  BY <1>6, TcpAssumption DEF InitPopulate, ITls
<1>7. ASSUME NEW t \in Threads, InitTransport(t) PROVE ITls'
  BY <1>7, TcpAssumption DEF InitTransport, daapInitializeSSL, IQuiet, ITls
<1>8. ASSUME NEW t \in Threads, InitPublish(t) PROVE ITls'
  BY <1>8, TcpAssumption DEF InitPublish, ITls
<1>9. ASSUME NEW t \in Threads, InitRank(t) PROVE ITls'
  BY <1>9, TcpAssumption DEF InitRank, CallWrite, ITls
<1>10. ASSUME NEW t \in Threads, WriteCheck(t) PROVE ITls'
  BY <1>10, TcpAssumption DEF WriteCheck, ITls
<1>11. ASSUME NEW t \in Threads, WriteOpen(t) PROVE ITls'
  BY <1>11, TcpAssumption DEF WriteOpen, Fault, Stop, ITls
<1>12. ASSUME NEW t \in Threads, WriteMeasure(t) PROVE ITls'
  BY <1>12, TcpAssumption DEF WriteMeasure, ITls
<1>13. ASSUME NEW t \in Threads, WriteBuild(t) PROVE ITls'
  BY <1>13, TcpAssumption DEF WriteBuild, Fault, Stop, IQuiet, ITls
<1>14. ASSUME NEW t \in Threads, RawWriteBuild(t) PROVE ITls'
  BY <1>14, TcpAssumption DEF RawWriteBuild, ITls
<1>15. ASSUME NEW t \in Threads, WriteSend(t) PROVE ITls'
  BY <1>15, TcpAssumption DEF WriteSend, daapTCPLogWrite, At, Goto, IQuiet, IMutex, TypeOK,
      Shutdown, ITls
<1>16. ASSUME NEW t \in Threads, WriteReturn(t) PROVE ITls'
  BY <1>16, TcpAssumption DEF WriteReturn, ITls
<1>17. ASSUME NEW t \in Threads, FinalizeEnd(t) PROVE ITls'
  BY <1>17, TcpAssumption DEF FinalizeEnd, CallWrite, ITls
<1>18. ASSUME NEW t \in Threads, FinalizeShutdown(t) PROVE ITls'
  <2> SUFFICES ASSUME Disciplined, hsFails' = 0 PROVE ITls'
    BY DEF ITls
  <2>1. /\ pc[t] = "f_shutdown" /\ tpc[t] = "out" /\ tpc' = [tpc EXCEPT ![t] = "sd_ctx"]
        /\ proc = "running" /\ shutting'
        /\ UNCHANGED <<proc, hsFails, cSSL, sslctx, writes, write_mutex, ctxRefs>>
    BY <1>18 DEF FinalizeShutdown, daapShutdownSSL, At, Goto
  <2>2. ~shutting /\ \A u \in Threads : u # t => pc[u] = "idle"
    BY <2>1 DEF IQuiet, IFreed, Finalizing
  <2>3. \A u \in Threads : tpc[u] = "out"
    BY <2>1, <2>2 DEF IBelow
  <2>4. write_mutex = NoThread
    BY <2>3 DEF IMutex, TypeOK
  <2>5. sslctx = "made" => ctxRefs = 1 + SSLRefs * writes
    BY <2>1, <2>2, <2>4, RefsNat DEF IRefs, TypeOK
  <2>6. cSSL.obj # "freed" /\ (cSSL.obj # "null" => writes # 0)
    BY <2>1, <2>2, <2>3 DEF ITls
  <2>7. \A u \in Threads : tpc'[u] = IF u = t THEN "sd_ctx" ELSE "out"
    BY <2>1, <2>3 DEF TypeOK
  <2>8. QED
    BY <2>1, <2>4, <2>5, <2>6, <2>7, TcpAssumption DEF ITls
<1>19. ASSUME NEW t \in Threads, FinalizeFree(t) PROVE ITls'
  BY <1>19, TcpAssumption DEF FinalizeFree, Fault, Stop, IQuiet, ITls
<1>20. ASSUME NEW t \in Threads, TcpStep(t), UNCHANGED <<initVars, apiVars>> PROVE ITls'
  <2> SUFFICES ASSUME Disciplined, hsFails' = 0 PROVE ITls'
    BY DEF ITls
  <2>1. IInv'
    BY LibInvStep
  <2>2. CASE ~shutting
    BY <2>1, <2>2, <1>20, TlsBefore
  <2>3. CASE shutting
    <3>1. tpc[t] # "out"
      BY <1>20, TcpFrame
    <3>2. pc[t] = "f_free" /\ tpc[t] \in Shutdown /\ write_mutex # t
      BY <2>3, <3>1 DEF IQuiet, IBelow
    <3>3. \A u \in Threads : u # t => pc[u] = "idle"
      BY <2>3, <3>2 DEF IQuiet, IFreed
    <3>4. \A u \in Threads : u # t => tpc[u] = "out"
      BY <3>3 DEF IBelow
    <3>5. QED
      BY <2>3, <3>2, <3>4, <1>20, TlsAfter
  <2>4. QED
    BY <2>2, <2>3
<1>21. CASE Host /\ UNCHANGED <<initVars, apiVars>>
  BY <1>21, TcpAssumption DEF Host, AppOpen, AppClose, Reap, ITls
<1>22. CASE UNCHANGED libVars
  BY <1>22, TcpAssumption DEF libVars, ITls
<1>23. QED
  BY <1>1, <1>2, <1>3, <1>4, <1>5, <1>6, <1>7, <1>8, <1>9, <1>10, <1>11, <1>12, <1>13, <1>14, <1>15,
      <1>16, <1>17, <1>18, <1>19, <1>20, <1>21, <1>22 DEF LibNext, OwnFiles, LibCall,
      LibStep

(* An application that keeps to the README makes the library use freed     *)
(* memory only after a TLS handshake has failed.                           *)
THEOREM ReadmeUseIsSafe ==
    ASSUME Disciplined
    PROVE  Spec => []DocumentedUseIsSafe
<1>1. IInv /\ LibInv /\ JobInv /\ ITls /\ [LibNext]_libVars => ITls'
  BY TlsStep DEF JobInv
<1>2. IInv /\ ITls => DocumentedUseIsSafe
  BY DEF IInv, TypeOK, ITls, DocumentedUseIsSafe
<1>3. QED
  BY JobInit, <1>1, <1>2, JobInvariance, LibInvariance, PTL DEF Spec
=============================================================================
