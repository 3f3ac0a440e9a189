SPECIFICATION SystemSpec
CONSTANTS
  small = small
  big = big
  NoSource = NoSource
  Chargers <- MCChargers
  Capabilities <- MCCapabilities
  Commands <- MCCommands
  Apis <- MCApis
  Reentrant = FALSE
  Pipelined = TRUE
  MaxCalls = 2
  MaxCommands = 2
  MaxPlugs = 1
INVARIANTS SystemTypeOK VoltageIsOnBus ErrorIsTrueOfSource
PROPERTY TextsAreRead
CHECK_DEADLOCK FALSE
