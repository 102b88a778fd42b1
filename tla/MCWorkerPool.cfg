SPECIFICATION Spec
CONSTANTS
  NumWorkers = 2
  Manager = manager
  reconnect = reconnect
  Callbacks <- MCCallbacks
INVARIANTS
  TypeOK
  ActiveWorkersIsRight
  OneLivePerWorker
PROPERTIES
  StopDrains
