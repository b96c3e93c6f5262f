SPECIFICATION LiveSpec
CONSTANTS
  InitialBackoffMs = 1
  MaxBackoffMs = 1
  FailureWindowMs = 2
  StableResetMs = 9
  QuarantineFailures = 2
  Cookies = {"a"}
  Callers = {"ui"}
  Capacity = 1
  InactivityMs = 2
  DismissMs = 1
  MaxCalls = 1
  MaxPrompts = 1
  MaxLosses = 0
  MaxStops = 0
PROPERTIES EveryCallAnswered
CHECK_DEADLOCK FALSE
