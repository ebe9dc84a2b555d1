SPECIFICATION Spec
CONSTANTS
  Msg = {1, 2}
  MaxRetries = 1
  MaxTick = 2
  IdleTicks = TRUE
  Workers = {w1, w2}
  MaxBatchRuns = 3
  Outcomes = {"ok", "err", "perm"}
  Poison = {}
  FaultKinds = {"crash", "lost", "stop", "dberr", "week"}
  MaxFaults = 1
SYMMETRY Symmetry
INVARIANTS TypeOK NoLoss SingleCopy DeadOnlyWhenSpent
PROPERTY Implements
