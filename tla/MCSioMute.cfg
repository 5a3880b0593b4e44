SPECIFICATION FairSpec
CONSTANTS
  n1 = n1
  n2 = n2
  n3 = n3
  stx = stx
  a2 = a2
  a3 = a3
  b2 = b2
  b3 = b3
  c2 = c2
  Jam = Jam
  Garbage = Garbage
  None = None
  Node = {n1, n2}
  Telegram <- MCTelegram2
  BufSize = 2
  InterChar = 2
  BackoffStep = 1
  MaxTxRetry = 2
  MaxJamCnt = 2
  MaxMsgs = 1
  MaxNoise = 0
  MaxLost = 0
PROPERTIES
  Resumed
