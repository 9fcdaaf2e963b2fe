SPECIFICATION Spec
CONSTANTS
  Base = 2
  Targets = {7}
  MaxTicks = 2
  MaxResets = 0
INVARIANT WholeInstant
