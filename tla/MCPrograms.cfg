SPECIFICATION ProgramsSpec
CONSTANTS
  ROWS = 3
  COLS = 3
  Chars = {"x", " "}
  Space = " "
  Typed = {"x", " "}
  MaxEdits = 2
  MaxFiles = 3
  Contents = {}
  NameOrder <- MCNames
  VisibleRows = 1
  Disks <- MCDisks
  Columns = 4
  Lines = 3
  LINE_MAX = 5
  HISTORY_MAX = 2
  Letters = {"l", "s", " "}
  COMMANDS <- MCCommands
  MaxKeys = 6
  Numbers = {0, 3}
  VarNames = {"x"}
  MaxTokens = 5
  HalfLen = 4
  LowByte = 2
  Songs <- MCSongs
  Seeks = {0, 1, 3}
  BarWidth = 3
  PianoKeys = {"z", "x", "1"}
  Notes = {"z", "x"}
  MaxClicks = 3
  Width = 15
  Icons <- MCIcons
  IconX <- MCIconX
  WinX = 4
  WinW = 9
  Pointer = 2
  Moves <- MCMoves
  Shown = {0, 1}
  Colours = 2
  Digits = {0, 6}
  MaxDigits = 2
  Limit = 255
  MaxPressed = 5
INVARIANTS
  InBounds UnmarkedIsSaved ListFresh ShownIsLine ValueIsMeaning HeardInOrder SilentUnlessPlaying
  ScreenAsDrawn ShownIsChain
PROPERTIES
  ImplementsText WholeSong SongEnds
