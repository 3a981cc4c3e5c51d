SPECIFICATION FairHealthSpec
CONSTANTS
  Poison = Poison
  Never = Never
  FrameKinds <- EmptyOrTwoBars
  MaxRecords = 3
  MaxLog = 2
  MaxSessions = 2
  MaxRejoins = 0
  HeartbeatTicks = 1
  StallTicks = 2
INVARIANTS
  HealthTypeOK
  IdleIsDurable
  StalledIsStuck
  BufferingCoversLag
PROPERTIES
  IcebergStatusIsTrue
  StuckIsReported
