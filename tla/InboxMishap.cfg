\* One crash, stall or signal anywhere around an exhaustion.
SPECIFICATION ServerSpec
CONSTANTS
  NoTime = NoTime
  NoSession = NoSession
  p1 = p1
  p2 = p2
  Procs = {p1, p2}
  Scanners = {p1, p2}
  Scenarios <- OneMishap
  Tokens <- OwnerTokens
  Grants <- GrantRow
  Works <- WorkRow
  NoWork <- EmptyWork
  Amounts <- TokensUsed
  Lease = 2
  Resets = {0, 1}
  Reset = 1
  MaxTasks = 1
  MaxRuns = 3
  MaxTime = 3
INVARIANTS
  ServerTypeOK
  ResumesWhereLeft
  ResetIsAwaited
  FileNeverAhead
  DoneIsComplete
  WindowSpentOnce
  StoppedIsHopeless
  ExhaustionIsTimed
SYMMETRY Symmetric
CHECK_DEADLOCK FALSE
