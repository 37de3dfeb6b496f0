\* Templates in the shape of the vpic ones and beyond the limits, and every
\* results file of up to MaxLines lines.
CONSTANTS
    TableTemplates <- MCTableTemplates
    KeyTemplates <- MCKeyTemplates
    ResultLines <- MCResultLines
    NoFile = NoFile
    BlankLine = BlankLine
    Garbled = Garbled
    Percents = {"50%", "9%"}
    NoColumn = NoColumn
    NoName = "noname"
    Regexes = {"r1", "r2"}
    SkipNames = {"op_skip"}
    MaxTables = 2
    MaxHeaders = 2
    MaxCols = 2
    MaxVals = 4
    MaxKeys = 2
    MaxGroups = 5
    MaxLines = 5
SPECIFICATION Spec
INVARIANTS TypeOK RowsFollowHeaders RowsArePaired KeysNotSwallowed HeadersBounded UndefinedOnlyBeyondLimits
\* The program ends.
CHECK_DEADLOCK FALSE
