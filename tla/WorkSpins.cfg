\* A session directory that cannot be written to.
SPECIFICATION FairSpec
CONSTANTS
  NoTime = NoTime
  NoSession = NoSession
  p1 = p1
  Procs = {p1}
  Scanners = {p1}
  Scenarios <- ReadOnlyDisk
  Tokens <- OwnerTokens
  Grants <- GrantRow
  Works <- WorkRow
  NoWork <- EmptyWork
  Amounts <- TokensUsed
  Lease = 1
  Resets = {0, 1}
  Reset = 1
  MaxTasks = 1
  MaxRuns = 1
  MaxTime = 1
PROPERTY
  WorkEnds
CHECK_DEADLOCK FALSE
