\* Threads end in the reverse order of their start, one joiner per object at a time.
SPECIFICATION FairSpec
CONSTANTS
  Objects = {o1, o2}
  Clients = {c1, c2}
  PoolSize = 2
  None = None
  SingleJoiner = TRUE
  NestedLifetimes = TRUE
INVARIANT StackExclusive
PROPERTY JoinReturns
PROPERTY PendedWaiterReleased
CHECK_DEADLOCK FALSE
