SPECIFICATION FairSpec
CONSTANTS
  WORD = 2
  SIZE_T = 64
  HDR = 2
  PAGE = 4
  HEAP_START = 4
  HEAP_INITIAL_PAGES = 3
  EXPAND_PAGES = 1
  TABLE_ENTRIES = 2
  Requests <- MCRequests
  Frames <- MCFrames
INVARIANTS
  ChunksTileArena
  NoFreeNeighbours
  LiveBlocksBacked
PROPERTIES
  KmallocEnds
  ImplementsBlocks
