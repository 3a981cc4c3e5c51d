SPECIFICATION Spec
CONSTANTS
  Shift <- SundayChange
  OffsetBefore = 300
  OffsetAfter = 240
  Instants <- FridayAfternoon
  QueryLimits <- SmallLimits
  LookbackHours = 1
  HistoryLimit = 2
  MaxEntries = 3
  MaxMeanwhile = 0
  MaxSessions = 1
  MaxProcesses = 1
CONSTRAINT OneRun
INVARIANT FailuresAreVisible
CHECK_DEADLOCK FALSE
