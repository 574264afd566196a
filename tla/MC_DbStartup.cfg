CONSTANTS
  Process = {p1, p2}
  Nobody = Nobody
SPECIFICATION LiveSpec
CHECK_DEADLOCK FALSE
INVARIANT RunsMatchHome
PROPERTY OutcomesInOrder HomeSpec StartEnds
