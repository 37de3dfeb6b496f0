\* Two threads, three lines, two descriptors: a write after a failed one, a
\* second thread in between, and a descriptor table that fills up.
CONSTANTS
    Threads = {t1, t2}
    Lines = {l1, l2, l3}
    MaxFd = 2
    SSLRefs = 2
    NoThread = NoThread
    NoLine = NoLine
SYMMETRY Symmetry
SPECIFICATION SpecTcp
INVARIANTS TypeOK OwnConnection OneLinePerStream NoLineTwice DescriptorAccounting UndefinedOnlyAfterFailures
PROPERTIES AppDescriptorsKept ImplementsChannel
\* The process may stop: exit(2) in CHK_SSL, or a fault.
CHECK_DEADLOCK FALSE
