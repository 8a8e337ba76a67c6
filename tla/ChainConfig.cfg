SPECIFICATION Spec
CONSTANTS
    f1 = f1
    f2 = f2
    Nil = Nil
    Panic = Panic
    VersionStrings <- MCVersionStrings
    Parse <- MCParse
    Paths <- MCPaths
    Constants <- MCConstants
    Durations <- MCDurations
    QueryVersions <- MCQueryVersions
    USIZE_MAX <- MCUsizeMax
INVARIANT TypeOK
INVARIANT ExecConstantsIsFloor
INVARIANT LoadedConstantsAreTheFiles
INVARIANT ExecConstantsTestPasses
CHECK_DEADLOCK FALSE
