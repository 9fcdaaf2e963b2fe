SPECIFICATION FairSpec
CONSTANTS
  NButtons = 2
  MaxPresses = 2
INVARIANTS
  TypeOK
  NoPressLost
  UpdatesJustified
  ServedByNextPass
PROPERTIES
  PressServed
  ImplementsRegister
