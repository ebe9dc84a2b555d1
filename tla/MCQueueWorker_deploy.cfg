SPECIFICATION Spec
CONSTANTS
  Msg = {1}
  MaxRetries = 1
  MaxTick = 1
  IdleTicks = FALSE
  Workers = {w1, w2}
  MaxBatchRuns = 3
  Outcomes = {"ok"}
  Poison = {}
  FaultKinds = {"stop"}
  MaxFaults = 3
SYMMETRY Symmetry
INVARIANT DeployCostsNothing
