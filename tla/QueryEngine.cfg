SPECIFICATION Spec
CONSTANTS
  MaxIterations = 2
  MaxCalls = 2
  Settings <- SomeSettings
INVARIANTS
  TypeOK
  ResultsAnswerCalls
PROPERTIES
  ImplementsStream
  QueryEnds
CHECK_DEADLOCK FALSE
