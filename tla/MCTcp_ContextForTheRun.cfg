\* Expected to fail: a comment of daap_tcp.c that the code does not keep.
CONSTANTS
    Threads = {t1}
    Lines = {l1, l2}
    MaxFd = 2
    SSLRefs = 2
    NoThread = NoThread
    NoLine = NoLine
SPECIFICATION SpecTcp
INVARIANTS ContextForTheRun
CHECK_DEADLOCK FALSE
