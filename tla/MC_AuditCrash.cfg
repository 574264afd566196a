SPECIFICATION Spec
CONSTANTS
  Proc = {p1, p2}
  None = None
  NoFile = NoFile
  Retain = 0
  Cap = 2
  MaxEntry = 3
  MaxDay = 2
  MaxReset = 1
  MaxFault = 0
  MaxDeath = 1
SYMMETRY Sym
INVARIANTS NoSplice OneGeneration AckKept NamedNoEarlier QuietIsWhole CutIsTheEnd
CHECK_DEADLOCK FALSE
