SPECIFICATION PictureSpec
CONSTANTS
  NIBBLE = 2
  Font <- MCFont
  Calls <- MCCalls
  Width = 2
  Height = 1
  Keys = {k1, k2}
  NoKey = NoKey
  MaxTicks = 2
INVARIANTS
  ImageExact
  ScaledExact
  TextLaidOut
  StaysInside
  MemoryExact
  NumbersExact
  NothingMissed
PROPERTY RestShownOnce
