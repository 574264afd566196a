CONSTANTS
  Thread = {t1, t2}
  Handle = {h1, h2}
  Nobody = Nobody
SPECIFICATION LiveSpec
CHECK_DEADLOCK FALSE
INVARIANT HandlesAccounted
PROPERTIES RevocationReleases CallsReturn
