SPECIFICATION RequestsSpec
CONSTANTS
  Request = {r1}
  Id = {1, 2}
  Client <- MCClient
  Proxy <- MCProxy
  Interval = 2
  Burst = 2
  MaxKeys = 2
  Sweep = 2
  Delay = 0
  MaxTime = 3
  Token = {1, 2, 3, 4}
  Keep = 2
  TTL = 1
  Logins = 2
  Owner = "u1"
  PageSize = 1
  NoteId = {1, 2, 3}
INVARIANTS Types  OneOwner FaithfulWalk  RoundTrip
PROPERTIES FairKeys LateKeysAreFair CapKept KeepsPromise WholeIsAccepted
VIEW NoLateHistory
CHECK_DEADLOCK FALSE
