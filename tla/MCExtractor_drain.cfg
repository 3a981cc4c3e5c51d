SPECIFICATION Spec
CONSTANTS
  ChannelCapacity = 1
  MaxInflight = 2
  MaxRetries = 2
  BackoffMax = 3
  WatchdogSettings = {TRUE}
  MaxFrames = 2
  MaxErrors = 0
  MaxLog = 2
PROPERTIES
  StopDrainsChannel
\* The process exits.
CHECK_DEADLOCK FALSE
