CONSTANTS
  Reasons = {"watch", "clone", "SEGV", "STOP", "USR", "EXITED", "CONT"}
  NbWatch = 2
  MaxStops = 6
  Listener = listener
  Callback = callback
  Users = {}
  NoOne = noone
  CallbackScripts <- Handlers
  UserScripts <- NoScript
SPECIFICATION Spec
INVARIANTS StopsRecorded NoConcurrentGet HitsAreReal NeverStranded GoesBackToBreakPoint
PROPERTIES RipIsFresh JumpTakesEffect
CONSTRAINT NotOvertaken
CHECK_DEADLOCK FALSE
