SPECIFICATION Spec
CONSTANTS
  Hash = {1, 2, 3}
  Prefix <- MCPrefix
  Bits <- MCBits
  MinSlots = 1
  Segments = 2
  FoldBudget = 1
  MaxFrames = 2
  MaxSessions = 3
  MaxFaults = 2
  Launder = FALSE
INVARIANTS TypeOK  DeltaIsTheChange
PROPERTY ImplementsChunkMap
CHECK_DEADLOCK FALSE
