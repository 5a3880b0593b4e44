SPECIFICATION Spec
CONSTANTS
  FileLens = {3}
  Capacity = 4
  PagePackets = 2
  MAX_RETRY = 2
  Late = FALSE
  Old = Old
  Blank = Blank
  Mixed = Mixed
  INV_PAGE = INV_PAGE
  MaxLost = 1
  MaxResets = 0
  MaxFlight = 2
INVARIANTS
  Repeated
CHECK_DEADLOCK FALSE
