\* One crash or stall around an agent error and a late initialization.
SPECIFICATION ServerSpec
CONSTANTS
  NoTime = NoTime
  NoSession = NoSession
  p1 = p1
  p2 = p2
  Procs = {p1, p2}
  Scanners = {p1, p2}
  Scenarios <- LeftUnscheduled
  Tokens <- OwnerTokens
  Grants <- GrantRow
  Works <- WorkRow
  NoWork <- EmptyWork
  Amounts <- TokensUsed
  Lease = 2
  Resets = {0, 1}
  Reset = 1
  MaxTasks = 1
  MaxRuns = 3
  MaxTime = 2
INVARIANTS
  AgentErrorOnce
  NoStepRepeated
  RecoverySource
PROPERTIES
  ImplementsInbox
  CallsTheStore
SYMMETRY Symmetric
CHECK_DEADLOCK FALSE
