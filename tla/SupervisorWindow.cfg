SPECIFICATION Spec
CONSTANTS
  InitialBackoffMs = 1
  MaxBackoffMs = 2
  FailureWindowMs = 3
  StableResetMs = 4
  QuarantineFailures = 3
  MaxTime = 8
  MaxRecorded = 5
INVARIANTS
  TypeOK
  PruningIsExact
  TripsExactlyAtLimit
PROPERTY WindowSurvivesRestart
