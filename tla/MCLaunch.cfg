\* Jobs of one to six nodes, on both machines.
CONSTANTS
    MaxNodes = 6
    NoAddress = NoAddress
SPECIFICATION Spec
INVARIANTS TypeOK ClientsHaveAggregators QuarterAggregates OrphansWereLate
\* kill_telegraf() is the end.
CHECK_DEADLOCK FALSE
