SPECIFICATION DSpec
CONSTANTS
  MaxFiles = 3
  DirectBlocks = 2
  TotalBlocks = 4
  DataStart = 35
  Names = {"/", "a", "b"}
  Payload = {x, y}
  InodesPerSector = 2
  MaxCrashes = 0
  CrashInFormat = FALSE
INVARIANTS
  OthersUntouched
PROPERTY
  ImplementsFileSystem
