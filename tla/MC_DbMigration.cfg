CONSTANTS
  Db = {d1, d2}
  Publications = {"replace", "retained"}
  MaxCrash = 1
  Foreign = TRUE
  NoDb = NoDb
SYMMETRY Symmetry
SPECIFICATION Spec
INVARIANTS
  AdmittedMatches
  ArmsTheWhole
  OriginalReachable
  NoSilentLoss
PROPERTIES
  SwapsOnlyVerified
  HomeSpec
