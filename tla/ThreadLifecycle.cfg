\* Any order of calls by two clients, both of which may join the same object.
SPECIFICATION Spec
CONSTANTS
  Objects = {o1, o2}
  Clients = {c1, c2}
  PoolSize = 2
  None = None
  SingleJoiner = FALSE
  NestedLifetimes = FALSE
SYMMETRY Symmetry
INVARIANT TypeOK
INVARIANT PoolFullIsReal
INVARIANT JoinNotNull
INVARIANT NoOrphanThread
CHECK_DEADLOCK FALSE
