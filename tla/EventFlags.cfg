\* Three threads and two flags.
SPECIFICATION FairSpec
CONSTANTS
  Flags = {f1, f2}
  Threads = {t1, t2, t3}
INVARIANT SetUnblocks
INVARIANT NoLostFlag
INVARIANT NoSpuriousReturn
PROPERTY WaitEnds
CHECK_DEADLOCK FALSE
