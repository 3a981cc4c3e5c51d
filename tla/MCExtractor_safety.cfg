SPECIFICATION Spec
CONSTANTS
  ChannelCapacity = 1
  MaxInflight = 2
  MaxRetries = 3
  BackoffMax = 3
  WatchdogSettings = {TRUE}
  MaxFrames = 5
  MaxErrors = 4
  MaxLog = 2
INVARIANTS
  TypeOK
  Conservation
  SentIsInTopic
  MemoryIsBounded
  FinalSnapshotAddsUp
  RetryPolicy
PROPERTIES
  HandoverSpec
\* The process exits.
CHECK_DEADLOCK FALSE
