SPECIFICATION FairSpec
CONSTANTS
  Poison = Poison
  FrameKinds <- FramesThatDecode
  MaxRecords = 2
  MaxLog = 2
  MaxSessions = 2
  MaxRejoins = 0
PROPERTIES
  GracefulStopFlushes
