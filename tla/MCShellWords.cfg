SPECIFICATION Spec
CONSTANTS
  MaxExpansionDepth = 8
  Width = 4
  Names = {"x", "y"}
  ReadOnly = {}
  NumberOf <- Literals
  MaxScanNesting = 8
  MaxPendingHereDocs = 3
  Worlds <- EveryWorld
INVARIANTS ExpansionIsPosix ArithmeticIsCs PatternsFindWhatTheySay LexerReadsWhatWasWritten
CHECK_DEADLOCK FALSE
