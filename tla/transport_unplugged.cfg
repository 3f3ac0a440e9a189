SPECIFICATION Spec
CONSTANTS
  MaxPlugs = 2
  MaxPackets = 1
INVARIANT ConnectedMeansClaimed
CHECK_DEADLOCK FALSE
