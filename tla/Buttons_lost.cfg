SPECIFICATION Spec
CONSTANTS
  NButtons = 2
  MaxPresses = 1
INVARIANT EveryPressRepresented
