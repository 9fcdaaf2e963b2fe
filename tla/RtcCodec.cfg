SPECIFICATION Spec
CONSTANTS
  Times <- MCTimes
  Dates <- MCDates
INVARIANTS
  TypeOK
  TimeReadsBack
  DateReadsBack
