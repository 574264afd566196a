CONSTANTS
  Proc = {p1, p2}
  File = {env, config}
  Env = env
  MaxGen = 3
  MaxKey = 3
  MaxBlob = 2
  MaxStop = 2
  None = None
SYMMETRY Symmetry
SPECIFICATION Spec
CHECK_DEADLOCK FALSE
INVARIANTS
  CommittedReadable
  ColdRecoverable
  KeyKept
PROPERTIES
  RegisterSpec
