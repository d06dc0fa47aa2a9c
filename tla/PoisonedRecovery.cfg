\* A run that cannot be restored is the oldest expired run of every scan.
SPECIFICATION FairSpec
CONSTANTS
  NoTime = NoTime
  NoSession = NoSession
  p1 = p1
  p2 = p2
  Procs = {p1, p2}
  Scanners = {p1, p2}
  Scenarios <- Poisoned
  Tokens <- OwnerTokens
  Grants <- GrantRow
  Works <- WorkRow
  NoWork <- EmptyWork
  Amounts <- TokensUsed
  Lease = 1
  Resets = {0, 1}
  Reset = 1
  MaxTasks = 2
  MaxRuns = 3
  MaxTime = 4
PROPERTY
  EveryRunEnds
CHECK_DEADLOCK FALSE
