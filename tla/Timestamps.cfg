\* Every pair of rows and every instant of four seconds, a second having four
\* milliseconds of two ticks each.
SPECIFICATION TimestampsSpec
CONSTANTS
  Base = 2
  NanoDigits = 3
  MilliDigits = 2
  Seconds = 4
INVARIANTS
  FenceIsExact
  OvertakenWithinASecond
