SPECIFICATION ServingSpec
CONSTANTS
  Worker = {w1, w2}
  Tab = {b1, b2}
  Req = {q1, q2, q3}
  Every <- MCEvery
  Offset <- MCOffset
  Skew = 1
  MaxTime = 4
  MaxFaults = 1
INVARIANTS Types SlotsIncrease CacheBehindRow LogoutRevokes OneWholeAnswer OrderlyEnd
PROPERTIES
  SlotsAreSent ExpiredRemoved EveryRequestEnds  QuestionEnds
  EveryStartEnds SignalEnds StartIsDecided
CHECK_DEADLOCK FALSE
