SPECIFICATION Spec
CONSTANTS
  NumWorkers = 2
  Manager = manager
  reconnect = reconnect
  Callbacks <- MCCallbacks
PROPERTIES
  LostConnectionIsReplaced
