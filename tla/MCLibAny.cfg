\* Two threads that make any two calls in any order.
CONSTANTS
    Threads = {t1, t2}
    MaxCalls = 2
    Ranks = {0, 1}
    EnvRanks = {0, 1}
    NoRank = NoRank
    Decouples = {FALSE}
    Transports = {"SYSLOG", "TCP"}
    UserKinds = {"message", "raw"}
    SetRanks = {}
    Disciplined = FALSE
    MaxFd = 1
    SSLRefs = 2
    NoThread = NoThread
    NoLine = NoLine
    Lines <- MCLines
SPECIFICATION Spec
INVARIANTS ReadyBeforeUse NoCircularWait
PROPERTIES UsesTransport
SYMMETRY Symmetry
\* The process may stop: exit(2) in CHK_SSL, or a fault.
CHECK_DEADLOCK FALSE
