SPECIFICATION Both
CONSTANTS
    Names <- MCNames
    Dirs <- MCDirs
    Links <- MCLinks
    AllCommands <- MCCommandSet
    Worlds <- MCWorlds
    Body <- MCBody
    Files <- MCFiles
    Lines <- MCLines
    Top = 6
    SaveFrom = 3
    MaxFunctionDepth = 2
    MaxCommands = 3
    Parts = {"command", "jobs"}
    Sessions <- MCSessions
    MaxKeys = 1
    MaxFailures = 1
CHECK_DEADLOCK FALSE
INVARIANTS
    NothingIsLeftBehind
PROPERTIES
    CommandsLeaveNoTrace
    FateIsPosix
    CdKeepsItsBearings
    JobsComeBack
