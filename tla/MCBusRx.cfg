SPECIFICATION Spec
CONSTANTS
  Cap = 12
  Telegrams <- MCTelegrams
  Garbage = {2, 27, 200}
  MaxRead = 6
  MaxSent = 2
  MaxFaults = 1
INVARIANTS
  TypeOK
  Resynchronised
  
  Ordered
CHECK_DEADLOCK FALSE
