\* Three threads use a mutex, a semaphore and a message queue.
SPECIFICATION Spec
CONSTANTS
  Threads = {t1, t2, t3}
  None = None
  SemLimit = 1
  QueueSize = 2
  MaxLocks = 2
  MaxPuts = 3
SYMMETRY Symmetry
INVARIANT ReportsEffect
INVARIANT HoldersAgree
INVARIANT PutsAreKept
INVARIANT OnlyTryLockAsserts
CHECK_DEADLOCK FALSE
