SPECIFICATION PipelineSpec
CONSTANTS
  Poison = Poison
  FrameKinds <- SmallLargeAndPoison
  MaxFrames = 2
  MaxRecords = 2
  MaxLog = 3
  MaxSessions = 2
  MaxRejoins = 1
INVARIANTS
  EveryFrameIsSomewhere
