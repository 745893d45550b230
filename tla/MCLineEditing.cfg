SPECIFICATION Both
CONSTANTS
  Worlds <- MCWorlds
  LineIsComplete <- MCLineIsComplete
  Completions <- MCCompletions
  Suggestion <- MCSuggestion
  Ceiling = 3
  Fits = 2
  Rows = 1
  Utterance <- MCUtterance
  Means <- MCMeans
  Timeout = 2
  MaxWritten = 2
CHECK_DEADLOCK FALSE
INVARIANTS
  DecodesWhatWasPressed
  ModesAgree
  RecordMeansTheSame
PROPERTIES
  EscapeResolves
  NothingChosenIsLost
  UndoIsAStack
