CONSTANTS
  MaxMail = 4
  MaxDay = 3
  MaxValid = 2
  MaxMessages = 2
  Oversize = {3}
  Unset = Unset
SPECIFICATION CursorSpec
CHECK_DEADLOCK FALSE
INVARIANTS
  CursorsCovered
  CompleteMeansAll
PROPERTIES
  CursorAdvances
