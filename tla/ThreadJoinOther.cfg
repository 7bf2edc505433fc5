\* One client starts two threads and joins one of them.
SPECIFICATION Spec
CONSTANTS
  Objects = {o1, o2}
  Clients = {c1}
  PoolSize = 2
  None = None
  SingleJoiner = TRUE
  NestedLifetimes = FALSE
INVARIANT JoinsOwnThread
CHECK_DEADLOCK FALSE
