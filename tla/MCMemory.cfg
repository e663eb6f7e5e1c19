SPECIFICATION Spec
CONSTANTS
  MemoryMaps <- FewMaps
  BitsPerFrame = 8
  HeapInitial = 2
  HeapMax = 5
  PagesPerTable = 2
  RxFrames = 2
  DmaLimit = 12
INVARIANTS
  TypeOK
  FramesApart
  CommittedIsBacked
  HaltsOnlyWhenFull
PROPERTY
  MappingsKept
CHECK_DEADLOCK FALSE
