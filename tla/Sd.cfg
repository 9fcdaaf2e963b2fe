SPECIFICATION FairSpec
CONSTANTS
  Kinds = {"V1", "SDHC", "UHS2"}
  BlockLen = 4
  NBlocks = 2
  Capacity = 4
  Word = 8
  MaxTrial = 2
  MaxApp = 2
  MaxWait = 2
  MaxFaults = 2
INVARIANTS
  TypeOK
  InitMeansReady
  ReadyAfterSuccess
  SuccessMeansDone
  ReadsBackByBlock
  StuckNeedsFault
PROPERTY CallsReturn
CHECK_DEADLOCK FALSE
