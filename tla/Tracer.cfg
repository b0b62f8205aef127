CONSTANTS
  Clients = {user, callback}
  Survivors = {callback}
  Worker = worker
  NoOne = noone
  MaxCalls = 2
  MaxIntr = 1
SPECIFICATION FairSpec
INVARIANTS NoLostWakeup PopsWhatItRan LostOnlyInExitWindow
PROPERTIES RunsInSubmissionOrder FuturesAnswered StartTracingAnswers DestructorReturnsUnlessOverwritten
CHECK_DEADLOCK FALSE
