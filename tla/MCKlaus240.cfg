SPECIFICATION Spec
CONSTANTS
  Outputs <- MCOutputs
  Lamps <- MCLamps
  Users <- MCUsers
  NumSlots = 2
  MaxLosses = 2
  DELAY = 1
  LONG = 2
  PULSE = 1
  AUTO = AUTO
  OFF = OFF
  ON = ON
INVARIANTS
  TypeOK
  OneSaved
  NothingForgotten
  DoorLight
  
