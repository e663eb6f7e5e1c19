SPECIFICATION Spec
CONSTANTS
  Keys <- FewKeys
  MaxHeld = 2
  KeyBuffer = 4
  MouseBuffer = 4
  HandsOff = TRUE
INVARIANTS
  NoStuckModifier
  TypedAsPressed
  MouseInStep
PROPERTY
  KeysRead
CHECK_DEADLOCK FALSE
