CONSTANTS
  Code = {c1, c2}
  Command = {k1, k2}
  Nobody = Nobody
  MaxCred = 2
  Capacity = 1
  Ttl = 1
SYMMETRY Symmetry
SPECIFICATION Spec
INVARIANTS ReportsHold PrincipalProven
PROPERTIES SingleUse NoReplay
