\* Servers that are kept running; one mishap of each kind.
SPECIFICATION FairSpec
CONSTANTS
  NoTime = NoTime
  NoSession = NoSession
  p1 = p1
  p2 = p2
  Procs = {p1, p2}
  Scanners = {p1, p2}
  Scenarios <- Takeovers
  Tokens <- OwnerTokens
  Grants <- GrantRow
  Works <- WorkRow
  NoWork <- EmptyWork
  Amounts <- TokensUsed
  Lease = 1
  Resets = {0, 1}
  Reset = 1
  MaxTasks = 2
  MaxRuns = 7
  MaxTime = 12
PROPERTIES
  EveryRunEnds
  ClaimedIsDone
  SignalledExits
  WorkEnds
CHECK_DEADLOCK FALSE
