SPECIFICATION MCSpec
CONSTANTS
  n1 = n1
  n2 = n2
  n3 = n3
  stx = stx
  a2 = a2
  a3 = a3
  b2 = b2
  b3 = b3
  c2 = c2
  Jam = Jam
  Garbage = Garbage
  None = None
  Node = {n1, n2, n3}
  Telegram <- MCTelegram3
  BufSize = 3
  InterChar = 2
  BackoffStep = 1
  MaxTxRetry = 2
  MaxJamCnt = 2
  MaxMsgs = 2
  MaxNoise = 1
  MaxLost = 1
INVARIANTS
  TypeOK
  TimerRuns
  TransmitterRuns
  InStep
  Delivered
PROPERTIES
  Released
  Flushed
