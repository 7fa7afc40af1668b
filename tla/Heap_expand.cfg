SPECIFICATION Spec
CONSTANTS
  WORD = 2
  SIZE_T = 64
  HDR = 2
  PAGE = 4
  HEAP_START = 4
  HEAP_INITIAL_PAGES = 3
  EXPAND_PAGES = 2
  TABLE_ENTRIES = 3
  Requests <- MCSmallRequests
  Frames <- MCManyFrames
INVARIANT ExpansionSucceeds
