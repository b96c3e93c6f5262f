SPECIFICATION LiveSpec
CONSTANTS
  InitialBackoffMs = 1
  MaxBackoffMs = 1
  FailureWindowMs = 9
  StableResetMs = 1
  QuarantineFailures = 2
  Behaviors = {1, 2}
  Configs <- MCConfigs
  Senders = {"app"}
  Paths = {"p", "q"}
  Capacity = 1
  GraceMs = 1
  MaxAway = 1
  MaxCalls = 0
  MaxCookies = 1
  MaxFlips = 0
  MaxLosses = 0
INVARIANT InhibitorsExact
PROPERTIES
  EveryTicketResolved
  GraceEnds
  RecoversWhenAvailable
