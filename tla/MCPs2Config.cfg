SPECIFICATION Spec
CONSTANTS
  Keys <- ConsoleKeys
  MaxHeld = 2
  KeyBuffer = 4
  MouseBuffer = 4
  HandsOff = FALSE
INVARIANT
  ConfigIsConfig
CHECK_DEADLOCK FALSE
