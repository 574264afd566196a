SPECIFICATION FairSpec
CONSTANTS
  Proc = {p1, p2}
  None = None
  NoFile = NoFile
  Retain = 0
  Cap = 1
  MaxEntry = 2
  MaxDay = 2
  MaxReset = 1
  MaxFault = 1
  MaxDeath = 1
PROPERTY Answered
CHECK_DEADLOCK FALSE
