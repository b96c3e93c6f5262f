SPECIFICATION Spec
CONSTANTS
  InitialBackoffMs = 1
  MaxBackoffMs = 1
  FailureWindowMs = 2
  StableResetMs = 2
  QuarantineFailures = 3
  Values = {0, 1}
  MaxConns = 2
  MaxChanges = 2
  MaxRestarts = 1
  MaxTime = 1
  MaxShutdowns = 0

  
PROPERTY ProjectionNeverRegresses
