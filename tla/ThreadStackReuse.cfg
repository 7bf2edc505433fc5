\* One client starts two threads and starts none of them twice.
SPECIFICATION Spec
CONSTANTS
  Objects = {o1, o2}
  Clients = {c1}
  PoolSize = 2
  None = None
  SingleJoiner = TRUE
  NestedLifetimes = FALSE
INVARIANT StackExclusive
CHECK_DEADLOCK FALSE
