SPECIFICATION FairSpec
CONSTANTS
  Msg = {1, 2}
  MaxRetries = 0
  MaxTick = 2
  IdleTicks = FALSE
  Workers = {w1, w2}
  MaxBatchRuns = 3
  Outcomes = {"ok", "err"}
  Poison = {1}
  FaultKinds = {"crash", "lost", "stop", "dberr"}
  MaxFaults = 1
PROPERTY Settles
