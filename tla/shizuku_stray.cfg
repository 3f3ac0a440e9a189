SPECIFICATION Spec
CONSTANTS
  SHIZUKU_MAX_PAYLOAD_SIZE = 4096
  Streams <- MCStreams
  Blocks <- NoisyBlocks
  MaxBlocks = 3
  MaxCalls = 1
INVARIANT EveryCompleteFrame
CHECK_DEADLOCK FALSE
