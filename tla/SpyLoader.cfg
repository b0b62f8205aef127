CONSTANTS
  Requested = 3
  Programs = {p1, p2, p3}
  NoOwner = noowner
  MaxFailures = 2
SPECIFICATION Spec
INVARIANTS EveryIdWrappedOnce PoolExact
CHECK_DEADLOCK FALSE
