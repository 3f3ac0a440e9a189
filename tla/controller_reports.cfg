SPECIFICATION Spec
CONSTANTS
  Commands <- MCPingAndVoltage
  Apis <- MCAllApis
  Kinds <- MCKinds
  Splits = FALSE
  MaxCalls = 2
  MaxReports = 1
  MaxReplugs = 1
INVARIANTS RegisteredMeansReporting
PROPERTIES KeepsToService CallsEnd
CHECK_DEADLOCK FALSE
