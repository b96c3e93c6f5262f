SPECIFICATION LiveSpec
CONSTANTS
  Callers = {c1, c2}
  Keys = {"volume"}
  Capacity = 1
  MaxAccepted = 3
INVARIANTS
  OneFate
  NothingBehindDrain
  DepthIsExact
PROPERTY EveryAcceptedLeaves
