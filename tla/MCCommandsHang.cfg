SPECIFICATION Both
CONSTANTS
    Names <- MCNames
    Dirs <- MCDirs
    Links <- MCLinks
    AllCommands <- MCCommandSet
    Worlds <- MCWorlds
    Body <- MCBody
    Files <- MCFiles
    Lines <- MCLines
    Top = 6
    SaveFrom = 3
    MaxFunctionDepth = 2
    MaxCommands = 3
    Parts = {"jobs"}
    Sessions <- Endless
    MaxKeys = 0
    MaxFailures = 0
CHECK_DEADLOCK FALSE
PROPERTIES
    PipelineEnds
