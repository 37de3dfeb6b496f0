\* Expected to fail: the names of the second table of a template.
CONSTANTS
    TableTemplates <- MCTableTemplates
    KeyTemplates <- MCKeyTemplates
    ResultLines <- MCResultLines
    NoFile = NoFile
    BlankLine = BlankLine
    Garbled = Garbled
    Percents = {"50%", "9%"}
    NoColumn = NoColumn
    NoName = "noname"
    Regexes = {"r1", "r2"}
    SkipNames = {"op_skip"}
    MaxTables = 2
    MaxHeaders = 2
    MaxCols = 2
    MaxVals = 4
    MaxKeys = 2
    MaxGroups = 5
    MaxLines = 2
SPECIFICATION Spec
INVARIANTS EveryTableIsPaired
CHECK_DEADLOCK FALSE
