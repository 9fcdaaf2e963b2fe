SPECIFICATION Spec
CONSTANTS
  Kinds = {"SDHC"}
  BlockLen = 2
  NBlocks = 2
  Capacity = 4
  Word = 8
  MaxTrial = 2
  MaxApp = 2
  MaxWait = 2
  MaxFaults = 0
INVARIANT ReadsBack
CHECK_DEADLOCK FALSE
