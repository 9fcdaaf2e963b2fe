SPECIFICATION FairSpec
CONSTANT RtcTimeout = 2
INVARIANTS
  TypeOK
  FlashKeepsUp
  SysclkRuns
  RccSucceeds
  RatesInRange
  PllInputInRange
PROPERTY StartupConcludes
CHECK_DEADLOCK FALSE
