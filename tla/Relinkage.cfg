CONSTANTS
  Sources <- TwoModules
  Libs = {"foo", "bar"}
  Needs <- NeedsAll
  Layout <- Ascending
  Defines <- Disjoint
  PageSize = 4
  ReadWrite = {1, 2}
  Failures = {"none", "RO"}
  MaxLoads = 2
SPECIFICATION Spec
INVARIANTS SlotsExact InRelinkagesExact
PROPERTY WritesPermitted
CHECK_DEADLOCK FALSE
