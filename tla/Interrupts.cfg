SPECIFICATION FairSpec
CONSTANTS
  Exceptions = {0, 14}
  Spurious = {7, 15}
  TICKS = 4
  MaxFrames = 3
INVARIANTS
  ServiceInv
  TicksExact
PROPERTY BytesRead
CHECK_DEADLOCK FALSE
