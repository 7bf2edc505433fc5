\* Two works, two clients, and a queue that is run, stopped and run again.
SPECIFICATION FairSpec
CONSTANTS
  Works = {w1, w2}
  Params = {p1, p2}
  Runners = {r1, r2}
  Clients = {c1, c2}
  None = None
  OneRunner = TRUE
  OneStopper = TRUE
  ParamsExclusive = TRUE
INVARIANT StoppedIsDrained
INVARIANT ParamsAsSent
INVARIANT RunningIsStarted
INVARIANT RefusedOnlyAround
PROPERTY AcceptedRuns
PROPERTY StopReturns
CHECK_DEADLOCK FALSE
