SPECIFICATION FairSpec
CONSTANTS
  b1 = b1
  b2 = b2
  sw = sw
  d1 = d1
  gone = gone
  Skip = Skip
  None = None
  Node = {b1, b2, sw}
  Do31 = {d1}
  InputTypes <- MCInputTypes
  ClientList <- MCClientList
  Contact <- MCContact
  BUTTON_MAX_NUM_ACTIVE = 2
  BUTTON_TIMEOUT = 2
  RESPONSE_TIMEOUT1 = 1
  RESPONSE_TIMEOUT2 = 1
  RETRY_TIMEOUT2 = 13
  REPEAT_DIFF = 1
  REPEAT_TIMEOUT = 3
  MaxChanges = 2
  MaxLost = 1
  MaxGarbled = 1
  MaxRestarts = 1
INVARIANTS
  TypeOK
  
  

  
