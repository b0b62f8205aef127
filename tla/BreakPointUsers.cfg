CONSTANTS
  Reasons = {}
  NbWatch = 1
  MaxStops = 3
  Listener = listener
  Callback = callback
  Users = {user}
  NoOne = noone
  CallbackScripts <- HandlersThatSet
  UserScripts <- UserCalls
SPECIFICATION FairSpec
PROPERTY CallsReturn
INVARIANTS RunsRecorded BackupIsCode
CHECK_DEADLOCK FALSE
