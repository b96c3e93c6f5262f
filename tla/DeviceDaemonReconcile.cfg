SPECIFICATION Spec
CONSTANTS
  Keys = {"volume"}
  Values = {0, 1}
  Capacity = 2
  MaxPolls = 1
  MaxCommands = 2
  MaxGen = 1
  MaxChanges = 1
INVARIANTS
  OnePendingPerKey
  ReconciledAtMostOnceAndOnlyAfterTimeout
