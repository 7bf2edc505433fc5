\* One thread sleeps, attaches or does both, or two attach a ticker, while a counter of 8 cycles wraps.
SPECIFICATION FairSpec
CONSTANTS
  Threads = {t1, t2}
  Roles <- MCRoles
  Builds = {"qemu", "cycles64", "cycles32"}
  CyclesPerUs = 2
  UsPerTick = 2
  UsPerMs = 3
  W32 = 8
  Durations = {2, 7, 12}
  Periods = {0, 1}
  EndOfTime = 36
  None = None
INVARIANT NoEarlyReturn
INVARIANT AttachIsExclusive
PROPERTY SleepEnds
PROPERTY AttachedRuns
CHECK_DEADLOCK FALSE
