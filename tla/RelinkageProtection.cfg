CONSTANTS
  Sources <- TwoModules
  Libs = {"foo", "bar"}
  Needs <- NeedsAll
  Layout <- Ascending
  Defines <- Disjoint
  PageSize = 4
  ReadWrite = {1, 2}
  Failures = {"none"}
  MaxLoads = 1
SPECIFICATION Spec
PROPERTY ProtectionRestored
CHECK_DEADLOCK FALSE
