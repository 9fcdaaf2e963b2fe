SPECIFICATION FairSpec
CONSTANTS
  Modes = {"polling", "dma"}
  BufSize = 4
  Word = 8
  CurrentLevel = 1
  Lines <- MCLines
  MaxCalls = 2
INVARIANTS
  TypeOK
  WireIsLog
PROPERTY LogReturns
CHECK_DEADLOCK FALSE
