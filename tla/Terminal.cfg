SPECIFICATION Spec
CONSTANTS
  QueueSize = 2
  MaxFrames = 3
  MaxOutput = 2
INVARIANTS
  TypeOK
  InputInOrder
  SizeIsLatest
PROPERTIES
  NothingLeftBehind
  LeavingEndsSession
CHECK_DEADLOCK FALSE
