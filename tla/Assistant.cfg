SPECIFICATION Spec
CONSTANTS
  MaxIterations = 2
  MaxTurns = 3
  MaxPromptLen = 1
  MaxHistoryLen = 1
  MaxSaved = 1
  MaxQuestions = 3
  MaxChats = 2
  MaxCalls = 1
INVARIANTS
  TypeOK
  AnswersBelong
  AnswersWhole
  StoreFollowsPage
  HistoryFits
PROPERTIES
  BusyEnds
CHECK_DEADLOCK FALSE
