SPECIFICATION FairSpec
CONSTANTS
  Poison = Poison
  FrameKinds <- FramesWithPoison
  MaxRecords = 2
  MaxLog = 3
  MaxSessions = 3
  MaxRejoins = 1
INVARIANTS
  TypeOK
  NoLoss
  TableHasNoGaps
  PoisonBlocks
  BoundedDuplication
  BoundedFiles
PROPERTIES
  OffsetsMonotone
  DeliverySpec
  EventuallyDurable
  OffsetsCatchUp
\* After a frame that does not decode the last session really stops.
CHECK_DEADLOCK FALSE
