SPECIFICATION LiveSpec
CONSTANTS
  Callers = {c1, c2}
  MaxAttempts = 2
CHECK_DEADLOCK FALSE
INVARIANT OneLocker
PROPERTIES
  ResultStands
  AttemptEnds
