SPECIFICATION Spec
CONSTANTS
  MaxFiles = 3
  Currents = {1}
  Inputs <- MCInputs
  target_voltage = 115
  tolerance = 2
  MaxCalls = 4
INVARIANTS TypeOK DataIsOwn LoadLeftOnByRaise MeterOpenWithLoad LoadAnswerIsOwn
PROPERTY HarmOnlyAfterDisconnect
CHECK_DEADLOCK FALSE
