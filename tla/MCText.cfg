\* The constants of the code; a build with DEBUG, which prints most.
CONSTANTS
    HostLens <- MCHostLens
    FirstLen = 257
    NumTries = 8
    w1 = w1
    w2 = w2
    Writers <- MCWriters
    NoWriter = NoWriter
    Messages <- MCMessages
    Clusters = {0, 7}
    AppLen = 11
    RankLen = 3
    StampLen = 19
    MaxMsg = 8096
    MaxLine = 2048
    Debug = TRUE
SPECIFICATION TextSpec
INVARIANTS TextTypeOK CutOnlyWhereUnseen GivesUpOnlyOnLongNames DiagnosticsAreOwn FormattedInBounds AcceptedIsWhole FalseTimeOnlyAtTheEdge
\* A host name that cannot be found, or a message that cannot be formatted,
\* ends it.
CHECK_DEADLOCK FALSE
