SPECIFICATION PipelineSpec
CONSTANTS
  Windows = {1}
  MaxFrames = 4
  QUEUE_DEPTH = 1
  CAPACITY = 2
  Faults = {"spawn", "factory", "nothing", "bitstream", "panic", "create", "present"}
  DisplayMayClose = TRUE
  None = None
INVARIANTS PipelineTypeOK FramesAccounted DisplayOrder 
PROPERTIES ReferenceChain StallEnds 
CHECK_DEADLOCK FALSE
