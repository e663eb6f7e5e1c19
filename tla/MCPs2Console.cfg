SPECIFICATION Spec
CONSTANTS
  Keys <- ConsoleKeys
  MaxHeld = 2
  KeyBuffer = 4
  MouseBuffer = 4
  HandsOff = TRUE
PROPERTY
  KeysAlwaysRead
CHECK_DEADLOCK FALSE
