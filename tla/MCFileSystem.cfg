SPECIFICATION Spec
CONSTANTS
  MaxFiles = 4
  DirectBlocks = 2
  TotalBlocks = 6
  DataStart = 35
  Names = {"/", "a"}
  Payload = {x, y}
INVARIANTS
  TypeOK
  BlocksOK
  NeverFull
  TreeOK
PROPERTY
  ImplementsFileTree
