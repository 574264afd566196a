CONSTANTS
  WrapKey = {k1, k2}
  KnownFile = {f1, f2}
  Managed = TRUE
  MaxCrash = 2
  MaxForeign = 1
  NoJournal = NoJournal
SPECIFICATION LiveSpec
CHECK_DEADLOCK FALSE
INVARIANTS CompletesErased NoSyncOutlives
PROPERTIES WithinConsent NoNewOrphan RetryCompletes
