SPECIFICATION Spec
CONSTANTS
  MaxPlugs = 2
  MaxPackets = 1
INVARIANT FailedConnectHoldsNothing
CHECK_DEADLOCK FALSE
