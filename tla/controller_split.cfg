SPECIFICATION Spec
CONSTANTS
  Commands <- MCTwoVoltages
  Apis <- MCLineApis
  Kinds <- MCKinds
  Splits = TRUE
  MaxCalls = 2
  MaxReports = 0
  MaxReplugs = 0
INVARIANTS TypeOK AnswerIsAboutCall OkMatchesRequest OkLeavesNothing
PROPERTY KeepsToService
CHECK_DEADLOCK FALSE
