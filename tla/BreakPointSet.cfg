CONSTANTS
  Reasons = {}
  NbWatch = 1
  MaxStops = 4
  Listener = listener
  Callback = callback
  Users = {}
  NoOne = noone
  CallbackScripts <- HandlersThatSet
  UserScripts <- NoScript
SPECIFICATION Spec
INVARIANT NeverStranded
CHECK_DEADLOCK FALSE
