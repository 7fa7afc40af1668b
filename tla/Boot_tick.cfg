SPECIFICATION BootSpec
CONSTANTS
  N = 5
  ARENA = 34
  HDR = 1
  PROC = 1
  STACK = 2
  NoScreen = NoScreen
  Envs <- MCEnvs
INVARIANT TickFindsNext
