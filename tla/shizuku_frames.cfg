SPECIFICATION Spec
CONSTANTS
  SHIZUKU_MAX_PAYLOAD_SIZE = 6
  Streams <- MCStreams
  Blocks <- QuietBlocks
  MaxBlocks = 2
  MaxCalls = 2
INVARIANTS TypeOK EveryCompleteFrame FramesStandApart FramesDisjoint LeftoverBounded
PROPERTIES GivenInOrder ExtractionEnds
CHECK_DEADLOCK FALSE
