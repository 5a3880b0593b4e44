SPECIFICATION FairSpec
CONSTANTS
  FileLens = {0, 3, 4}
  Capacity = 4
  PagePackets = 2
  MAX_RETRY = 1
  Late = TRUE
  Old = Old
  Blank = Blank
  Mixed = Mixed
  INV_PAGE = INV_PAGE
  MaxLost = 1
  MaxResets = 1
  MaxFlight = 2
INVARIANTS
  TypeOK
  Transferred
  InPlace
  Bootable
PROPERTIES
  Ends
CHECK_DEADLOCK FALSE
