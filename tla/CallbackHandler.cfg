CONSTANTS
  Clients = {listener}
  Worker = worker
  NoOne = noone
  MaxCalls = 3
SPECIFICATION FairSpec
INVARIANTS NoLostWakeup LostOnlyInExitWindow
PROPERTIES RunsInSubmissionOrder EveryCallbackRuns DestructorReturns
CHECK_DEADLOCK FALSE
