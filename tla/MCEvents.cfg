SPECIFICATION FairSpec
CONSTANTS
  em = em
  gone = gone
  EventMonitor = em
  Gateway = gw
  Do31 = do31
  Unknown = Unknown
  Moving = Moving
  Outputs = {0, 9}
  Relay = 9
  Positions = {30}
  ClientList <- MCClientList
  maxRetry <- MCMaxRetry
  CHANGE_DETECT_CYCLE_TIME = 4
  RETRY_CYCLE_TIME = 2
  RESPONSE_TIMEOUT = 1
  BUS_RESPONSE_TIMEOUT = 1
  Delay = 3
  MaxChanges = 3
  MaxLost = 1
  MaxConnects = 1
  MaxRestarts = 1
INVARIANTS
  TypeOK
PROPERTIES
  Told
  Published
