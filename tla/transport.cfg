SPECIFICATION Spec
CONSTANTS
  MaxPlugs = 3
  MaxPackets = 2
INVARIANTS TypeOK ClaimIsOurs KernelDriverIsBack
PROPERTIES HandleGivenUpLast CallsEnd
CHECK_DEADLOCK FALSE
