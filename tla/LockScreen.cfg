SPECIFICATION LiveSpec
CONSTANTS
  Displays = {"left", "right"}
  InactivityMs = 3
  DismissMs = 2
  MaxPrompts = 2
CHECK_DEADLOCK FALSE
INVARIANTS
  UnlockOnlyByLatestSuccess
  SessionIsShown
PROPERTIES
  IdleAttemptEnds
  SuccessUnlocks
  FailureRetried
