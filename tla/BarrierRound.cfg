\* Four threads, of which any three use a barrier of three once; other barriers open before it.
SPECIFICATION FairSpec
CONSTANTS
  Threads = {t1, t2, t3, t4}
  Total = 3
  Modulus = 8
  MaxTime = 2
  MaxCalls = 0
  None = None
  OneRound = TRUE
  OtherBarriers = FALSE
INVARIANT WaitsForAll
INVARIANT SameTime
PROPERTY AbsSpec
PROPERTY WaitReturns
CHECK_DEADLOCK FALSE
