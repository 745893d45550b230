SPECIFICATION Both
CONSTANTS
    Worlds <- MCWorlds
    MaxDepth = 4
    Signals = {"INT", "CHLD", "WINCH", "PIPE", "QUIT", "TSTP", "TTOU", "TTIN", "TERM", "HUP"}
INVARIANTS
    ControlIsExact
    DispositionsStand
PROPERTIES
    UnwindLeavesNothingStanding
    IgnoreIsInherited
