SPECIFICATION Spec
CONSTANTS
  small = small
  big = big
  mute = mute
  NoSource = NoSource
  Chargers <- MCChargersToSwap
  Capabilities <- MCCapabilitiesToSwap
  Commands <- MCCommands
  Reentrant = FALSE
  Pipelined = FALSE
  MaxCommands = 3
  MaxPlugs = 3
PROPERTY NotFoundMeansNotAdvertised
CHECK_DEADLOCK FALSE
