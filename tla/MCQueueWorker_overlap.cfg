SPECIFICATION Spec
CONSTANTS
  Msg = {1}
  MaxRetries = 1
  MaxTick = 2
  IdleTicks = TRUE
  Workers = {w1, w2}
  MaxBatchRuns = 2
  Outcomes = {"ok", "err"}
  Poison = {}
  FaultKinds = {"crash", "lost", "stop", "dberr"}
  MaxFaults = 3
SYMMETRY Symmetry
INVARIANTS Exclusive CountEarned
