CONSTANTS
  Actor = {a1, a2}
  MaxEdit = 2
  Nobody = Nobody
SYMMETRY Symmetry
SPECIFICATION Spec
CHECK_DEADLOCK FALSE
INVARIANTS
  StrictOnStrictRoute
  NoWayBack
