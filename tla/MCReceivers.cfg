SPECIFICATION MCSpec
CONSTANTS
  RingSize = 4
  Word = 8
  MaxRead = 2
  MaxChars = 9
  UnReadSize = 4
  LinuxMaxRead = 3
  MaxNum = 4
  LinuxMaxChars = 7
INVARIANTS
  TypeOK
  SleepsEmpty
PROPERTIES
  ReceiveQueues
