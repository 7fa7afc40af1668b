SPECIFICATION FairSpec
CONSTANTS
  a = a
  b = b
  Threads <- MCThreads
  Handler = h
  LENGTH = 3
  FIFO_SIZE = 3
INVARIANT NeverOverrun
PROPERTIES
  TextsInOrder
  HandlerReturns
