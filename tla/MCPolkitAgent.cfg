SPECIFICATION Spec
CONSTANTS
  InitialBackoffMs = 1
  MaxBackoffMs = 1
  FailureWindowMs = 2
  StableResetMs = 9
  QuarantineFailures = 1
  Cookies = {a, b}
  Callers = {"ui"}
  Capacity = 1
  InactivityMs = 1
  DismissMs = 1
  MaxCalls = 1
  MaxPrompts = 1
  MaxLosses = 1
  MaxStops = 1
INVARIANTS OkOnlyAfterOwnSuccess OverMeansNoHelper DialogShowsSession
PROPERTIES MailboxImplemented
CHECK_DEADLOCK FALSE
SYMMETRY CookieSymmetry
