SPECIFICATION MemorySpec
CONSTANTS
  MemMaps <- MCMemMaps
  WordBits = 2
  PageBits = 4
  ENTRIES = 2
  Virt <- MCVirt
  Boot <- MCBoot
  NX_BIT = 100
  HEAP_START = 4
  HEAP_INITIAL_PAGES = 2
  EXPAND_PAGES = 1
  HeapLimit = 3
  MaxHeld = 1
INVARIANTS
  PagesAccounted
  BitmapKept
  PageTablesInv
  NoStaleTranslation
  FramesAccounted
PROPERTIES
  ImplementsAllocator
  CallTakesEffect
  ImplementsAddressSpace
  ExpandsAsHeapAssumes
