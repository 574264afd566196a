CONSTANTS
  Thread = {t1, t2}
  MaxRun = 2
  Threshold = 2
  Modes = {"off", "strict"}
  Killswitch = TRUE
  Nobody = Nobody
SYMMETRY Symmetry
SPECIFICATION Spec
CHECK_DEADLOCK FALSE
INVARIANTS
  DropIsEarned
  NoStrayRoute
PROPERTIES
  RouteSpec
