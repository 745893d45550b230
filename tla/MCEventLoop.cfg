SPECIFICATION FairSpec
CONSTANTS
  highlight = highlight
  suggest = suggest
  execution = execution
  Lane = {highlight, suggest}
  Exec = execution
  CommandsRead = TRUE
  CommandsStop = TRUE
  CommandsIgnore = TRUE
  MayHangUp = TRUE
  MaxPolls = 1
  MaxKeys = 2
  MaxInterrupts = 1
  MaxWork = 3
  MaxFailures = 1
INVARIANTS BlockedOwesNothing InputIsKept FibersAreKeptApart
PROPERTIES RunningLineReturns
CHECK_DEADLOCK FALSE
