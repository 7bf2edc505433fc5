\* Two threads at one barrier while another barrier opens.
SPECIFICATION Spec
CONSTANTS
  Threads = {t1, t2}
  Total = 2
  Modulus = 8
  MaxTime = 2
  MaxCalls = 0
  None = None
  OneRound = TRUE
  OtherBarriers = TRUE
INVARIANT SameTime
CHECK_DEADLOCK FALSE
