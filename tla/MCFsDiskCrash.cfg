SPECIFICATION DSpec
CONSTANTS
  MaxFiles = 3
  DirectBlocks = 2
  TotalBlocks = 4
  DataStart = 35
  Names = {"/", "a", "b"}
  Payload = {x}
  InodesPerSector = 2
  MaxCrashes = 2
  CrashInFormat = FALSE
INVARIANT
  TreeSurvives
