SPECIFICATION FairSpec
CONSTANTS
  SCREEN_W = 3
  SCREEN_H = 3
  Packets <- MCPackets
  Scancodes <- MCScancodes
  Configs <- MCConfigs
  MaxSent = 4
  MaxDisturbed = 2
INVARIANTS
  InSync
  PositionExact
  RoutingInv
PROPERTIES
  ReportsComplete
  InitEnds
CHECK_DEADLOCK FALSE
