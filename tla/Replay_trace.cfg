SPECIFICATION SpecReplay
CONSTANTS
  Byte <- MCByte
  MaxAddr = 3
  Width = 2
  Progs <- MCProgs
  Vars <- MCVars
  MaxTBs = 5
  MaxEnv = 1
  First = FALSE
  None = None
  Blank = Blank
INVARIANTS RecorderAsserts ReplayAgrees ReplayAborts FirstReads
PROPERTIES DroppedIsConcrete
CHECK_DEADLOCK FALSE
