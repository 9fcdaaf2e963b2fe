SPECIFICATION FairSpec
CONSTANT RtcTimeout = 2
PROPERTY FailureIsReported
CHECK_DEADLOCK FALSE
