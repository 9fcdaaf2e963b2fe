SPECIFICATION Spec
CONSTANTS
  Times <- MCTimes
  Dates <- MCDates
INVARIANT DateSetReadsBack
