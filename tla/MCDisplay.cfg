SPECIFICATION Ensemble
CONSTANTS
  TicksPerSecond = 3
  SecondsPerMinute = 2
  MaxTick = 7
  MaxLines = 2
  Durations = {0, 4}
  Environment = {0, 1}
  Templates <- Clocks
  Trees <- Handed
INVARIANTS
  PromptIsCurrent
  ScreenIsRight
CHECK_DEADLOCK FALSE
