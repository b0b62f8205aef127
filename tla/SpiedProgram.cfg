SPECIFICATION Spec
CONSTANTS
  NbPrograms = 2
  Bins = {b1}
  NbWrappers = 1
  Nowhere = Nowhere
  MaxStops = 1
INVARIANTS PoolExact CallsStayHome
PROPERTIES WrappingIsDone DestructorReturns
CHECK_DEADLOCK FALSE
