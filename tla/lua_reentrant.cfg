SPECIFICATION Spec
CONSTANTS
  small = small
  big = big
  mute = mute
  NoSource = NoSource
  Chargers <- MCChargers
  Capabilities <- MCCapabilities
  Commands <- MCCommands
  Reentrant = TRUE
  Pipelined = TRUE
  MaxCommands = 2
  MaxPlugs = 3
INVARIANTS TypeOK NotFoundTrueOfSourceRead OkMeansGranted
PROPERTIES OneReplyEach
CHECK_DEADLOCK FALSE
