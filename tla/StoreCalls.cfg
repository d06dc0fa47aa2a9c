\* Arbitrary callers: claims race for a task and across tasks, and late
\* publications, renewals, finishes and scheduler writes meet tasks that moved on.
SPECIFICATION StoreSpec
CONSTANTS
  NoTime = NoTime
  w0 = w0
  g1 = g1
  s1 = s1
  k1 = k1
  k2 = k2
  Tokens = {k1, k2}
  Grants = {g1}
  Works = {w0}
  NoWork = w0
  Amounts = {0}
  Scanners = {s1}
  Lease = 2
  Resets = {0, 1}
  Reset = 1
  MaxTasks = 2
  MaxRuns = 2
  MaxTime = 2
INVARIANTS
  StoreTypeOK
  OneRunningAttempt
  TaskMirrorsLatestRun
  ContinuationOnlyOnFailed
  TakeoverIsBounded
PROPERTIES
  TerminalRunsFrozen
  DoneIsFinal
  ImplementsCustody
SYMMETRY Symmetric
CHECK_DEADLOCK FALSE
