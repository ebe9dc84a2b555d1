SPECIFICATION Spec
CONSTANTS
  Msg = {1}
  MaxRetries = 0
  MaxTick = 1
  IdleTicks = FALSE
  Workers = {w1, w2}
  MaxBatchRuns = 3
  Outcomes = {"ok", "err", "perm"}
  Poison = {}
  FaultKinds = {"crash", "stop"}
  MaxFaults = 5
SYMMETRY Symmetry
INVARIANT RunBound
