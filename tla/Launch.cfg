SPECIFICATION Spec
CONSTANTS
  Paths = {"exe"}
  Contents <- MCContents
  Names = {"f", "g", "s"}
  MaxCalls = 6
  MaxFaults = 2
  Argcs = {0, 1, 2, 3}
  EnvCounts = {0, 1, 2, 3}
  StackTops = {20, 21}
  EntryPoints = {0, 109}
  Executable = "exe"
INVARIANTS SearchesTellTheTruth DescriptorsMatchFiles EntersWithAbiStack
CHECK_DEADLOCK FALSE
