SPECIFICATION FairSpec
CONSTANTS
  ChannelCapacity = 1
  MaxInflight = 1
  MaxRetries = 2
  BackoffMax = 3
  WatchdogSettings = {TRUE, FALSE}
  MaxFrames = 3
  MaxErrors = 2
  MaxLog = 3
PROPERTIES
  StopsUnlessConnecting
  FramesMoveOn
  SilentFeedStops
\* The process exits.
CHECK_DEADLOCK FALSE
