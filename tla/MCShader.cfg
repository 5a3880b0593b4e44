SPECIFICATION FairSpec
CONSTANTS
  Full = 6
  Positions = {0, 2, 6}
  openDuration = 12
  closeDuration = 6
  Height = 12
  SHADER_DELAY_RELAY = 2
  SHADER_DELAY_DIRCHANGE = 3
  Word = 18
  MaxGap = 2
  MaxMoves = 2
INVARIANTS
  TypeOK
  
  Tracked
PROPERTIES
  
  Settles
