SPECIFICATION Spec
CONSTANTS
  ChannelCapacity = 1
  MaxInflight = 1
  MaxRetries = 2
  BackoffMax = 3
  WatchdogSettings = {TRUE}
  MaxFrames = 4
  MaxErrors = 0
  MaxLog = 2
INVARIANTS
  StopExitsZero
\* The process exits.
CHECK_DEADLOCK FALSE
