\* Liveness, for threads that make any two calls of daapInit(), daapSetRank() and
\* daapFinalize() in any order; the writes are the job markers these send,
\* one of them under finalize_mutex.  No symmetry.
CONSTANTS
    Threads = {t1, t2}
    MaxCalls = 2
    Ranks = {0, 1}
    EnvRanks = {0}
    NoRank = NoRank
    Decouples = {FALSE}
    Transports = {"TCP"}
    UserKinds = {}
    SetRanks = {1}
    Disciplined = FALSE
    MaxFd = 2
    SSLRefs = 2
    NoThread = NoThread
    NoLine = NoLine
    Lines <- MCLines
SPECIFICATION FairSpec
PROPERTIES ApiCallsReturn HangSparesInit
\* The process may stop: exit(2) in CHK_SSL, or a fault.
CHECK_DEADLOCK FALSE
