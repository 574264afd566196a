CONSTANTS
  Proc = {p1, p2, p3}
  Thread = {t1, t2}
  Handle = {h1, h2, h3}
  MaxDepth = 2
  None = None
SYMMETRY Symmetry
SPECIFICATION Spec
CHECK_DEADLOCK FALSE
INVARIANTS
  Exclusion
  LifetimeCovered
