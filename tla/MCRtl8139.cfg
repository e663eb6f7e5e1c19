SPECIFICATION Spec
CONSTANTS
  RingSize = 32
  Spill = 16
  MaxLength = 12
  Mtu = 5
  MinFrame = 3
  TxSize = 5
  RxSizes <- FromNetwork
  TxSizes <- ToNetwork
  Loads <- FewFrames
  MaxInits = 1
  MaxLate = 3
INVARIANTS
  RingInStep
  DeliveredIntact
  SentIntact
PROPERTY
  FramesTaken
