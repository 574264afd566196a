CONSTANTS
  Db = {d1, d2}
  Publications = {"replace", "retained"}
  MaxCrash = 1
  Foreign = FALSE
  NoDb = NoDb
SPECIFICATION RecoverySpec
PROPERTIES
  RecoveryCompletes
