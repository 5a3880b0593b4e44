SPECIFICATION Spec
CONSTANTS
  TRANSACTION_FIFO_LEN = 4
  TX_RETRIES = 1
  BUSVAR_NUMVAR = 3
  Variables = {0, 1}
  Persistent = {0}
  Wide = 99
  Tool = 1
  App = 2
  Gateway = 5
  Switch = 3
  Device = 4
  DeviceAddress = 10
  Scenarios <- MCScenarios
  MAX_CAL_TEL = 1
  Earlier = 2
INVARIANTS
  TypeOK
  Done
  Delivered
  Emptied
CHECK_DEADLOCK FALSE
