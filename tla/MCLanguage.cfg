SPECIFICATION Both
CONSTANTS
  Names <- MCNames
  Worlds <- MCWorlds
  MaxAliasDepth = 16
  Parts = {"parser", "reactors"}
  Lines <- MCLines
INVARIANTS
  ParsesTheGrammar
  EachCharacterIsPaintedAsItReads
  SuggestionIsOfItsLine
PROPERTIES
  AliasesStandForCommands
  ReadersComeToAnEnd
CHECK_DEADLOCK FALSE
