CONSTANTS
  Fetch = {f1, f2}
  None = None
  MaxRound = 2
SPECIFICATION Spec
CHECK_DEADLOCK FALSE
INVARIANTS
  FencedWrites
  TruthfulAnswer
PROPERTIES
  LockFreed
