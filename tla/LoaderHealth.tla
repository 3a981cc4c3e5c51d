---------------------------- MODULE LoaderHealth ----------------------------
(***************************************************************************)
(* The loader with its LoaderHealthReporter: what the structured health    *)
(* events say, next to what is true of topic, table and batch when they    *)
(* are emitted.                                                            *)
(*                                                                         *)
(* Every step of Loader is conjoined with what the reporter does on it;    *)
(* reading the clock for a heartbeat sample and its two calls, committed() *)
(* and endOffsets(), are steps of their own.  An instant the reporter      *)
(* keeps is represented by its age in ticks, which stops growing at the    *)
(* threshold it is compared with, so time itself needs no bound.  A sample *)
(* compares with, and stores, the instant `now' it began with, however     *)
(* long its calls take: while it is under way the ages of the stall clock  *)
(* are those at `now', and they are put forward when it ends.              *)
(***************************************************************************)
EXTENDS Loader

CONSTANTS
  HeartbeatTicks,  \* LOADER_HEARTBEAT_SECONDS
  StallTicks,      \* LOADER_STALL_SECONDS
  Never            \* a null instant, offset or state

ASSUME HealthAssumption ==
  /\ HeartbeatTicks \in Nat \ {0}
  /\ StallTicks \in Nat \ {0}
  /\ Never \notin Nat

VARIABLES
  assigned,           \* consumer.assignment() is not empty
  sinceHeartbeat,     \* age of lastHeartbeatAt
  sinceLag,           \* age of positiveLagSince
  sinceProgress,      \* age of lastDurableProgressAt
  previousCommitted,  \* previousCommittedOffsets of the one partition
  previousState,      \* previousHeartbeatState
  committing,         \* the reporter's flag of that name
  sinceNow,           \* age of `now' of the sample that is under way
  sampled,            \* result of committed() in that sample
  event,              \* what the last step emitted
  \* history
  headStart,          \* ticks between `now' and the end of the sample that
                      \* started the stall clock
  sinceAdvance,       \* ticks since the committed offset moved forward
  outstandingFor      \* ticks for which the topic has been ahead of it

memory  == <<assigned, sinceHeartbeat, sinceLag, sinceProgress,
             previousCommitted, previousState, committing, sinceNow, sampled,
             headStart>>
witness == <<sinceAdvance, outstandingFor>>
health  == <<memory, event, witness>>
allVars == <<vars, health>>

States == {"starting", "committing", "stalled", "catching_up", "buffering",
           "idle"}

Names == {"none", "heartbeat", "commit_started", "commit_succeeded",
          "commit_failed", "loader_failed"}

Statuses == {"committed", "not_committed", "unknown", "absent"}

\* The fields a property looks at.  A heartbeat preceded by the event
\* "stalled" is an alert.
Event == [name : Names, state : States, alert : BOOLEAN,
          iceberg : Statuses, offsets : Statuses,
          from : Nat, to : Nat]

Message(name, state) ==
  [name |-> name, state |-> state, alert |-> FALSE, iceberg |-> "absent",
   offsets |-> "absent", from |-> 0, to |-> 0]

Silence == Message("none", "starting")

CommitFailed(iceberg, offsets) ==
  [Message("commit_failed", "committing") EXCEPT
     !.iceberg = iceberg, !.offsets = offsets]

\* Mutant of LoaderFailed: the state of the last heartbeat, if there was one.
LoaderFailedInLastState == Message("loader_failed", previousState)

\* loaderFailed has only these two states to choose from.
LoaderFailed ==
  Message("loader_failed", IF committing THEN "committing" ELSE "starting")

\* History: read off the step of the loader.
Witness ==
  /\ sinceAdvance' = IF committed' > committed THEN 0 ELSE sinceAdvance
  /\ outstandingFor' = IF committed' >= Len(log') THEN 0 ELSE outstandingFor

\* One event at most, and the history.
Emit(e) == event' = e /\ Witness

(***************************************************************************)
(* One heartbeat sample.                                                   *)
(***************************************************************************)

Older(age, limit) == IF age = Never \/ age = limit THEN age ELSE age + 1

\* All that a sample may have to tell apart of its own duration.
Horizon == IF HeartbeatTicks < StallTicks THEN StallTicks ELSE HeartbeatTicks

AtMost(age, limit) == IF age < limit THEN age ELSE limit

\* How long ago `now' is: a sample without calls ends as it begins.
Duration == IF sinceNow = Never THEN 0 ELSE sinceNow

\* The age of an instant when the sample ends, from its age at `now'.
PutForward(age) ==
  IF age = Never THEN Never ELSE AtMost(age + Duration, StallTicks)

\* The age of the later of two instants, either of which may be null.
AgeOfLater(a, b) ==
  CASE a = Never -> b
    [] b = Never -> a
    [] OTHER -> IF a < b THEN a ELSE b

BufferedSources == {buffer[j].source : j \in DOMAIN buffer}

Lag(from, to) == IF to > from THEN to - from ELSE 0

Progressed(from) == previousCommitted # Never /\ from > previousCommitted

\* Mutant of LagAge: the stall clock starts again with every sample.
LagAgeRestarted(lag) == IF lag = 0 THEN Never ELSE 0

\* The ages at `now' after updateProgress.
LagAge(lag) ==
  CASE lag = 0 -> Never
    [] lag > 0 /\ sinceLag = Never -> 0
    [] OTHER -> sinceLag

\* Mutant of ProgressAge: a commit seen by the sample does not reset the clock.
ProgressAgeOfIdle(from, lag) == IF lag = 0 THEN 0 ELSE sinceProgress

ProgressAge(from, lag) ==
  IF lag = 0 \/ Progressed(from) THEN 0 ELSE sinceProgress

BoundaryAge(from, lag) == AgeOfLater(LagAge(lag), ProgressAge(from, lag))

\* Mutant of InferState: bars in the batch are weighed against the lag, not
\* the records they came from, and without lag the batch is not looked at.
InferStateByBars(initialized, lag, boundary) ==
  IF ~initialized THEN "starting"
  ELSE IF boundary = StallTicks /\ lag > 0 THEN "stalled"
  ELSE IF lag > Len(buffer) THEN "catching_up"
  ELSE IF buffer # <<>> /\ lag > 0 THEN "buffering"
  ELSE "idle"

\* Mutant of InferState: the branch for a lag ahead of the batch is missing.
InferStateWithoutCatchUp(initialized, lag, boundary) ==
  IF ~initialized THEN "starting"
  ELSE IF boundary = StallTicks /\ lag > 0 THEN "stalled"
  ELSE IF buffer # <<>> THEN "buffering"
  ELSE "idle"

\* Evaluated after updateProgress: the first condition that holds decides.
\* The loop calls maybeHeartbeat outside flush only, so `committing' is
\* written but never decides.
InferState(initialized, lag, boundary) ==
  IF ~initialized THEN "starting"
  ELSE IF committing THEN "committing"
  ELSE IF lag > 0 /\ boundary = StallTicks THEN "stalled"
  ELSE IF lag > Cardinality(BufferedSources) THEN "catching_up"
  ELSE IF buffer # <<>> THEN "buffering"
  ELSE "idle"

\* The sample is over, one way or the other: lastHeartbeatAt is its `now'.
SampleEnds ==
  /\ sinceHeartbeat' = AtMost(Duration, HeartbeatTicks)
  /\ sinceNow' = Never
  /\ sampled' = Never
  /\ UNCHANGED <<assigned, committing>>

\* History: what the stall clock is ahead of this sample, if this starts it.
HeadStart(from, lag) ==
  CASE lag = 0 -> 0
    [] lag > 0 /\ (sinceLag = Never \/ Progressed(from)) -> AtMost(Duration, StallTicks)
    [] OTHER -> headStart

\* updateProgress, inferState and the one or two events of a sample; an empty
\* assignment is a sample without partitions.
Report(initialized, from, to) ==
  LET lag == IF initialized THEN Lag(from, to) ELSE 0
      state == InferState(initialized, lag, BoundaryAge(from, lag)) IN
  /\ sinceLag' = PutForward(LagAge(lag))
  /\ sinceProgress' = PutForward(ProgressAge(from, lag))
  /\ headStart' = HeadStart(from, lag)
  /\ previousCommitted' = IF initialized THEN from ELSE Never
  /\ previousState' = state
  /\ Emit([Message("heartbeat", state) EXCEPT
              !.alert = state = "stalled" /\ previousState # "stalled",
              !.from = from, !.to = to])
  /\ SampleEnds

Due == sinceHeartbeat = HeartbeatTicks

(***************************************************************************)
(* What a step does to the reporter.                                       *)
(***************************************************************************)

Quiet == UNCHANGED memory /\ Emit(Silence)

\* The reporter of a process that does not exist yet, or any more.
Forget ==
  /\ assigned' = FALSE
  /\ sinceHeartbeat' = 0
  /\ sinceLag' = Never
  /\ sinceProgress' = Never
  /\ previousCommitted' = Never
  /\ previousState' = Never
  /\ committing' = FALSE
  /\ sinceNow' = Never
  /\ sampled' = Never
  /\ headStart' = 0

HealthInit ==
  /\ Init
  /\ assigned = FALSE
  /\ sinceHeartbeat = 0
  /\ sinceLag = Never
  /\ sinceProgress = Never
  /\ previousCommitted = Never
  /\ previousState = Never
  /\ committing = FALSE
  /\ sinceNow = Never
  /\ sampled = Never
  /\ headStart = 0
  /\ event = Silence
  /\ sinceAdvance = StallTicks
  /\ outstandingFor = 0

(***************************************************************************)
(* Actions: those of Loader, with the reporter's part.                     *)
(***************************************************************************)

Tick ==
  /\ sinceHeartbeat' = IF stage = "down" THEN 0
                       ELSE Older(sinceHeartbeat, HeartbeatTicks)
  /\ sinceNow' = Older(sinceNow, Horizon)
  /\ IF sinceNow = Never
       THEN /\ sinceLag' = Older(sinceLag, StallTicks)
            /\ sinceProgress' = Older(sinceProgress, StallTicks)
       ELSE UNCHANGED <<sinceLag, sinceProgress>>
  /\ sinceAdvance' = Older(sinceAdvance, StallTicks)
  /\ outstandingFor' = IF committed < Len(log)
                       THEN Older(outstandingFor, StallTicks) ELSE 0
  /\ event' = Silence
  /\ UNCHANGED <<vars, assigned, previousCommitted, previousState, committing,
                 sampled, headStart>>

QuietStep ==
  /\ \/ Publish
     \/ WindowExpires
     \/ Terminate
     \/ FlushExpired
     \/ KeepBuffering
     \/ FlushOnShutdown
     \/ CommitTable
  /\ Quiet

HStart == Start /\ Forget /\ Emit(Message("heartbeat", "starting"))

\* The process ends without a word.
Vanish == (JvmHalts \/ Crash \/ ExitLoop) /\ Forget /\ Emit(Silence)

\* A record that does not decode, or a poll that throws: loaderFailed.
FailOutsideFlush ==
  /\ \/ PollPoison
     \/ stage = "poll" /\ Crash
  /\ Forget
  /\ Emit(LoaderFailed)

\* Joining the group happens inside poll and may take several of them.
HPoll ==
  /\ \/ PollRecord /\ assigned' = TRUE
     \/ PollNothing /\ assigned' \in {assigned, TRUE}
     \/ Rejoin /\ assigned' \in BOOLEAN
  /\ Emit(Silence)
  /\ UNCHANGED <<sinceHeartbeat, sinceLag, sinceProgress, previousCommitted,
                 previousState, committing, sinceNow, sampled, headStart>>

\* commitStarted precedes the first write.
HWriteDataFile ==
  /\ WriteDataFile
  /\ committing' = TRUE
  /\ Emit(Message("commit_started", "committing"))
  /\ UNCHANGED <<assigned, sinceHeartbeat, sinceLag, sinceProgress,
                 previousCommitted, previousState, sinceNow, sampled,
                 headStart>>

HWriteDataFileFails ==
  WriteDataFileFails /\ Forget /\ Emit(CommitFailed("not_committed", "not_committed"))

\* Mutant of HCommitTableFails: a commit in doubt is reported as failed.
DoubtReportedAsFailure ==
  /\ CommitTableFails
  /\ Forget
  /\ Emit(CommitFailed("not_committed", "not_committed"))

\* ICEBERG_COMMIT_FAILED says the table is as it was; for
\* ICEBERG_COMMIT_STATE_UNKNOWN it may or may not be.
HCommitTableFails ==
  /\ CommitTableFails
  /\ Forget
  /\ \/ table' = table /\ Emit(CommitFailed("not_committed", "not_committed"))
     \/ Emit(CommitFailed("unknown", "not_committed"))

HCommitOffsets ==
  /\ CommitOffsets
  /\ IF stage' = "down"
       THEN Forget
       ELSE /\ committing' = FALSE
            /\ UNCHANGED <<assigned, sinceHeartbeat, sinceLag, sinceProgress,
                           previousCommitted, previousState, sinceNow,
                           sampled, headStart>>
  /\ Emit(Message("commit_succeeded", "committing"))

\* commitSync threw, whatever the broker did with the request.
HCommitOffsetsFails ==
  /\ CommitOffsetsFails
  /\ Forget
  /\ Emit(CommitFailed("committed", "not_committed"))

HeartbeatNotDue == Heartbeat /\ ~Due /\ Quiet

ReportUnassigned == Heartbeat /\ Due /\ ~assigned /\ Report(FALSE, 0, 0)

\* maybeHeartbeat reads the clock, and the sample is due.
SampleBegins ==
  /\ stage = "heartbeat"
  /\ Due
  /\ assigned
  /\ sinceNow = Never
  /\ sinceNow' = 0
  /\ UNCHANGED <<vars, assigned, sinceHeartbeat, sinceLag, sinceProgress,
                 previousCommitted, previousState, committing, sampled,
                 headStart>>
  /\ Emit(Silence)

SampleCommitted ==
  /\ sinceNow # Never
  /\ sampled = Never
  /\ sampled' = committed
  /\ UNCHANGED <<vars, assigned, sinceHeartbeat, sinceLag, sinceProgress,
                 previousCommitted, previousState, committing, sinceNow,
                 headStart>>
  /\ Emit(Silence)

ReportSample ==
  Heartbeat /\ sampled # Never /\ Report(TRUE, sampled, Len(log))

\* Either call throws: the sample is given up until the next interval.
SampleFails ==
  /\ Heartbeat
  /\ sinceNow # Never
  /\ sinceLag' = PutForward(sinceLag)
  /\ sinceProgress' = PutForward(sinceProgress)
  /\ SampleEnds
  /\ UNCHANGED <<previousCommitted, previousState, headStart>>
  /\ Emit(Silence)

LoaderStep ==
  \/ QuietStep
  \/ HStart
  \/ Vanish
  \/ FailOutsideFlush
  \/ HPoll
  \/ HWriteDataFile
  \/ HWriteDataFileFails
  \/ HCommitTableFails
  \/ HCommitOffsets
  \/ HCommitOffsetsFails
  \/ HeartbeatNotDue
  \/ ReportUnassigned
  \/ SampleBegins
  \/ SampleCommitted
  \/ ReportSample
  \/ SampleFails

HealthNext == Tick \/ LoaderStep

HealthSpec == HealthInit /\ [][HealthNext]_allVars

(***************************************************************************)
(* Fairness: that of Loader, a clock that goes on, and samples that the    *)
(* broker answers now and then.                                            *)
(***************************************************************************)
HMainThread == LoaderStep /\ (MainThread \/ SampleBegins \/ SampleCommitted)

HealthFairness ==
  /\ WF_allVars(HMainThread)
  /\ SF_allVars(HPoll /\ PollRecord)
  /\ SF_allVars(SampleCommitted)
  /\ SF_allVars(ReportSample)
  /\ WF_allVars(QuietStep /\ WindowExpires)
  /\ WF_allVars(Vanish /\ JvmHalts)
  /\ WF_allVars(Tick)

FairHealthSpec == HealthSpec /\ HealthFairness

(***************************************************************************)
(* Properties.                                                             *)
(***************************************************************************)

\* Types of what this module adds.
HealthTypeOK ==
  /\ assigned \in BOOLEAN
  /\ sinceHeartbeat \in 0 .. HeartbeatTicks
  /\ sinceLag \in (0 .. StallTicks) \union {Never}
  /\ sinceProgress \in (0 .. StallTicks) \union {Never}
  /\ previousCommitted \in Nat \union {Never}
  /\ previousState \in States \union {Never}
  /\ committing \in BOOLEAN
  /\ sinceNow \in (0 .. Horizon) \union {Never}
  /\ sampled \in Nat \union {Never}
  /\ headStart \in 0 .. StallTicks
  /\ event \in Event
  /\ sinceAdvance \in 0 .. StallTicks
  /\ outstandingFor \in 0 .. StallTicks

Heartbeats(state) == event.name = "heartbeat" /\ event.state = state

\* "idle: durable lag is zero and the batch is empty"
\* (loader-health-monitoring.md:93): a heartbeat that says idle means that
\* every bar below the end offset it reports is in the table, although the
\* two offsets of the sample were read one after the other.
IdleIsDurable ==
  Heartbeats("idle") =>
    /\ buffer = <<>>
    /\ \A o \in 0 .. (event.to - 1) : BarsOf(o) \subseteq Durable

\* "stalled: lag is positive and the committed offset has not advanced for
\* LOADER_STALL_SECONDS" (loader-health-monitoring.md:87-88): the verdict, built
\* from samples, is true of the broker at all the moments in between, whatever
\* is published while a sample waits for its answers.  The topic has been ahead
\* for as long, but for the duration of the sample that started the clock: the
\* clock reads `now', taken before the broker was asked.
StalledIsStuck ==
  Heartbeats("stalled") =>
    sinceAdvance = StallTicks /\ outstandingFor + headStart >= StallTicks

\* "buffering: all outstanding source records are represented in the batch"
\* (loader-health-monitoring.md:91-92).
BufferingCoversLag ==
  Heartbeats("buffering") =>
    \A o \in event.from .. (event.to - 1) : o \in BufferedSources

\* What commit_failed says of the Iceberg commit is true of the table:
\* "committed" when the rows of the batch are in it, "not_committed" when the
\* flush left it alone; anything in doubt is "unknown".
IcebergStatusIsTrue ==
  [][/\ event'.iceberg = "not_committed" => table' = table
     /\ event'.iceberg = "committed" =>
          \A j \in 1 .. BatchSize : Bar(buffer[j]) \in Durable']_allVars

\* A process that stays up behind a topic it never catches up with raises the
\* alert and goes on reporting "stalled", also when some samples fail.
StuckIsReported ==
  <>[](stage # "down" /\ committed < Len(log))
    => <>event.alert /\ <>[](previousState = "stalled")
=============================================================================
