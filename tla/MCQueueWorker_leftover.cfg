SPECIFICATION Spec
CONSTANTS
  Msg = {1}
  MaxRetries = 0
  MaxTick = 1
  IdleTicks = FALSE
  Workers = {w1, w2}
  MaxBatchRuns = 3
  Outcomes = {"ok", "err"}
  Poison = {}
  FaultKinds = {"lost"}
  MaxFaults = 1
SYMMETRY Symmetry
INVARIANT NoCountBehind
