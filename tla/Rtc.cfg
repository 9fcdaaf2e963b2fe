SPECIFICATION FairSpec
CONSTANTS
  Base = 2
  Targets = {7, 31}
  MaxTicks = 4
  MaxResets = 1
INVARIANTS
  TypeOK
  IdleMeansRunning
  SetIsVisible
  DayMatchesHour
  NeverAhead
PROPERTY CallsReturn
