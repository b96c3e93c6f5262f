SPECIFICATION Spec
CONSTANTS
  InitialBackoffMs = 1
  MaxBackoffMs = 1
  FailureWindowMs = 9
  StableResetMs = 1
  QuarantineFailures = 2
  Behaviors = {1, 2}
  Configs <- MCConfigs
  Senders = {"app"}
  Paths = {"p", "q"}
  Capacity = 1
  GraceMs = 1
  MaxAway = 1
  MaxCalls = 1
  MaxCookies = 0
  MaxFlips = 1
  MaxLosses = 1
INVARIANTS
  TypeOK
  GraceFiresOnce
  ArmedWhenReady
  InhibitorsExact
PROPERTY MailboxImplemented
