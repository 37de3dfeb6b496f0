\* Two threads that keep to the README: init, a write, and a second write or
\* the finalize, over TCP, with and without a rank variable, coupled or not.
CONSTANTS
    Threads = {t1, t2}
    MaxCalls = 3
    Ranks = {0, 1}
    EnvRanks = {0, 1, NoRank}
    NoRank = NoRank
    Decouples = {TRUE, FALSE}
    Transports = {"TCP"}
    UserKinds = {"message"}
    SetRanks = {}
    Disciplined = TRUE
    MaxFd = 2
    SSLRefs = 2
    NoThread = NoThread
    NoLine = NoLine
    Lines <- MCLines
SPECIFICATION Spec
INVARIANTS LibTypeOK JobBracketed DocumentedUseIsSafe OnlyLeaksExhaust
SYMMETRY Symmetry
\* The process may stop: exit(2) in CHK_SSL, or a fault.
CHECK_DEADLOCK FALSE
