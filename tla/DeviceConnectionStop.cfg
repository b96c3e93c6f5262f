SPECIFICATION Spec
CONSTANTS
  InitialBackoffMs = 1
  MaxBackoffMs = 1
  FailureWindowMs = 2
  StableResetMs = 2
  QuarantineFailures = 2
  Values = {0, 1}
  MaxConns = 2
  MaxChanges = 0
  MaxRestarts = 1
  MaxTime = 1
  MaxShutdowns = 1
CHECK_DEADLOCK FALSE
INVARIANTS
  GenerationPerTransport
  ClosedIsNoticed
