\* A claim waits longer than a lease.
SPECIFICATION ServerSpec
CONSTANTS
  NoTime = NoTime
  NoSession = NoSession
  p1 = p1
  p2 = p2
  Procs = {p1, p2}
  Scanners = {p1, p2}
  Scenarios <- LateStart
  Tokens <- OwnerTokens
  Grants <- GrantRow
  Works <- WorkRow
  NoWork <- EmptyWork
  Amounts <- TokensUsed
  Lease = 2
  Resets = {0, 1}
  Reset = 1
  MaxTasks = 1
  MaxRuns = 1
  MaxTime = 2
PROPERTY
  ClaimedLeaseIsLive
SYMMETRY Symmetric
CHECK_DEADLOCK FALSE
