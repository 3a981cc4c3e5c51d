SPECIFICATION Spec
CONSTANTS
  Shift <- SundayChange
  OffsetBefore = 300
  OffsetAfter = 240
  Instants <- FridayAfternoon
  QueryLimits <- SmallLimits
  LookbackHours = 1
  HistoryLimit = 2
  MaxEntries = 5
  MaxMeanwhile = 2
  MaxSessions = 2
  MaxProcesses = 2
CONSTRAINT OneRun
INVARIANTS
  TypeOK
  BadgeIsEarned
  NoFailureHidden
  CommitHistoryIsTrue
  CleanShutdownIsOfLatestSession
  TableCoversCommits
  MarketDayIsRight
\* Everything ends at the last instant.
CHECK_DEADLOCK FALSE
