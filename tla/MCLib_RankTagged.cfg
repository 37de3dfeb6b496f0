\* Expected to fail: the thread-safety comment of daapInit().
CONSTANTS
    Threads = {t1, t2}
    MaxCalls = 2
    Ranks = {0, 1}
    EnvRanks = {1}
    NoRank = NoRank
    Decouples = {FALSE}
    Transports = {"SYSLOG"}
    UserKinds = {"message"}
    SetRanks = {}
    Disciplined = TRUE
    MaxFd = 2
    SSLRefs = 2
    NoThread = NoThread
    NoLine = NoLine
    Lines <- MCLines
SPECIFICATION Spec
INVARIANTS RankTagged
CHECK_DEADLOCK FALSE
