\* Two crashes around one file replacement.
SPECIFICATION ServerSpec
CONSTANTS
  NoTime = NoTime
  NoSession = NoSession
  p1 = p1
  Procs = {p1}
  Scanners = {p1}
  Scenarios <- TwoCrashes
  Tokens <- OwnerTokens
  Grants <- GrantRow
  Works <- WorkRow
  NoWork <- EmptyWork
  Amounts <- TokensUsed
  Lease = 2
  Resets = {0, 1}
  Reset = 1
  MaxTasks = 1
  MaxRuns = 3
  MaxTime = 4
INVARIANT
  NoStepRepeated
CHECK_DEADLOCK FALSE
