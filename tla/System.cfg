SPECIFICATION FairSpec
CONSTANTS
  MaxPresses = 2
  MaxAll = 2
  Base = 2
  MaxTicks = 1
  MaxResets = 0
  Wanted <- MCWanted
  YearAs <- MCYearAs
INVARIANT LineShowsUpdates
PROPERTIES
  PressReachesLog
  ImplementsButtons
