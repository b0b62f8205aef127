SPECIFICATION Spec
CONSTANTS
  Users = {u1, u2}
  NbWatch = 4
  Made = {3}
  Addrs = {a1, a2}
  Triggers = {1, 3}
  Sizes = {2}
  MaxCalls = 3
  MaxRuns = 1
INVARIANTS WatchesWhatWasAsked ObjectsTellTheTruth
SYMMETRY Symmetry
CHECK_DEADLOCK FALSE
