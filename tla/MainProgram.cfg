SPECIFICATION MainSpec
CONSTANTS
  Files <- MCFiles
  LineTokens <- MCLineTokens
  StrLines <- MCStrLines
  Second = 2
  Readings <- MCReadings
  Turns = 2
  Names <- MCNames
  Turnarounds <- MCTurnarounds
INVARIANTS
  ParsedAsFormat
  EveryLineAProcess
  WallTimeExact
  PrintedResult
PROPERTIES
  MainEnds
CHECK_DEADLOCK FALSE
