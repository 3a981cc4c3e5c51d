------------------------- MODULE LoaderHealthProofs -------------------------
(***************************************************************************)
(* Theorems about LoaderHealth: the reporter changes nothing of the        *)
(* loader, and its verdicts and commit statuses are true.                  *)
(***************************************************************************)
EXTENDS LoaderHealth, LoaderProofs

-----------------------------------------------------------------------------
(* The inductive invariant.                                                *)

\* From `now' to the end of a sample nothing moves the committed offset.
SampleInv ==
  /\ sinceNow # Never =>
       /\ stage = "heartbeat" /\ Due /\ assigned
       /\ AtMost(sinceNow, StallTicks) <= sinceAdvance
  /\ sampled # Never => sinceNow # Never /\ sampled = committed

\* The age the boundary of the stall clock has at the end of the sample that is
\* under way, or now.
BoundaryAtEnd == PutForward(AgeOfLater(sinceLag, sinceProgress))

\* The stall clock, as long as offsets move forward only: a lag is one of the
\* last sample, and while the offset it saw is still the committed one, the
\* boundary of the clock is not older than the standstill it stands for, nor
\* than the lag and the duration of the sample that saw it first.
ClockInv ==
  /\ previousCommitted = Never => sinceLag = Never
  /\ rejoins = 0 /\ previousCommitted # Never => previousCommitted <= committed
  /\ rejoins = 0 /\ sinceLag # Never =>
       /\ previousCommitted < Len(log)
       /\ previousCommitted = committed =>
            /\ BoundaryAtEnd <= sinceAdvance
            /\ BoundaryAtEnd <= outstandingFor + headStart

\* The verdicts of a heartbeat that two samples or two counts stand behind.
VerdictInv ==
  /\ IdleIsDurable
  /\ rejoins = 0 => StalledIsStuck /\ BufferingCoversLag

HealthInv == HealthTypeOK /\ SampleInv /\ ClockInv /\ VerdictInv

\* What is known of the loader.
LoaderInv == IInv /\ OrderInv

-----------------------------------------------------------------------------
(* The reporter is an observer.                                            *)

\* Take the reporter away and a step of the loader, or none, is left.
LEMMA HealthStepIsLoaderStep ==
  ASSUME [HealthNext]_allVars
  PROVE  [Next]_vars
<1>1. CASE UNCHANGED allVars
  BY <1>1 DEF allVars
<1>2. CASE Tick \/ SampleBegins \/ SampleCommitted
  BY <1>2 DEF Tick, SampleBegins, SampleCommitted
<1>3. CASE QuietStep \/ HStart \/ Vanish
  BY <1>3 DEF QuietStep, HStart, Vanish, Next, Environment, Loop, Flush
<1>4. CASE FailOutsideFlush \/ HPoll
  BY <1>4 DEF FailOutsideFlush, HPoll, Next, Environment, Loop, Flush
<1>5. CASE HWriteDataFile \/ HWriteDataFileFails \/ HCommitTableFails
  BY <1>5 DEF HWriteDataFile, HWriteDataFileFails, HCommitTableFails, Next, Flush
<1>6. CASE HCommitOffsets \/ HCommitOffsetsFails
  BY <1>6 DEF HCommitOffsets, HCommitOffsetsFails, Next, Flush
<1>7. CASE HeartbeatNotDue \/ ReportUnassigned \/ ReportSample \/ SampleFails
  BY <1>7 DEF HeartbeatNotDue, ReportUnassigned, ReportSample, SampleFails, Next, Loop
<1>8. QED
  BY <1>1, <1>2, <1>3, <1>4, <1>5, <1>6, <1>7 DEF HealthNext, LoaderStep

\* Whatever the reporter does, the loader with it is the loader without it:
\* every theorem about Loader holds of it.
THEOREM HealthImplementsLoader == HealthSpec => Spec
<1>1. HealthInit => Init
  BY DEF HealthInit
<1>2. [HealthNext]_allVars => [Next]_vars
  BY HealthStepIsLoaderStep
<1>3. QED
  BY <1>1, <1>2, PTL DEF HealthSpec, Spec

\* What is known of the loader is known of it here.
LEMMA LoaderInvariant == HealthSpec => []LoaderInv
<1>1. IInv /\ OrderInv => LoaderInv
  BY DEF LoaderInv
<1>2. QED
  BY <1>1, HealthImplementsLoader, InductiveInvariant, OrderInvariant, PTL

-----------------------------------------------------------------------------
(* The kinds of steps, by what they do to the reporter.                    *)

\* The events other than the heartbeat of a sample.
PlainEvents == {e \in Event : e.name = "heartbeat" => e.state = "starting"}

ForgetStep == Forget /\ event' \in PlainEvents /\ Witness

\* The reporter goes on as it was; the loader leaves the heartbeat only when
\* none is due, and commits no offset during one.
KeepStep ==
  /\ UNCHANGED <<sinceHeartbeat, sinceLag, sinceProgress, previousCommitted,
                 previousState, sinceNow, sampled, headStart>>
  /\ assigned' \in BOOLEAN
  /\ committing' \in BOOLEAN
  /\ stage = "heartbeat" =>
       UNCHANGED <<assigned, committed>> /\ (stage' = "heartbeat" \/ ~Due)
  /\ event' \in PlainEvents
  /\ Witness

\* A plain message is an event without a status.
LEMMA MessageType ==
  ASSUME NEW name \in Names, NEW state \in States
  PROVE  /\ Message(name, state) \in Event
         /\ Message(name, state).name = name
         /\ Message(name, state).state = state
         /\ Message(name, state).iceberg = "absent"
  BY DEF Message, Event, Statuses

\* These events have no verdict of a sample.
LEMMA PlainMessages ==
  /\ Silence \in PlainEvents
  /\ Message("heartbeat", "starting") \in PlainEvents
  /\ Message("commit_started", "committing") \in PlainEvents
  /\ Message("commit_succeeded", "committing") \in PlainEvents
  /\ LoaderFailed \in PlainEvents
  /\ \A i, o \in Statuses : CommitFailed(i, o) \in PlainEvents
<1>1. \A name \in Names, state \in States :
        Message(name, state) \in Event /\ Message(name, state).name = name
          /\ Message(name, state).state = state
  BY MessageType
<1>2. /\ {"starting", "committing"} \subseteq States
      /\ {"none", "heartbeat", "commit_started", "commit_succeeded",
          "commit_failed", "loader_failed"} \subseteq Names
  BY DEF States, Names
<1>3. \A i, o \in Statuses : CommitFailed(i, o) \in PlainEvents
  BY <1>2 DEF CommitFailed, Message, Event, PlainEvents, Statuses
<1>4. Silence \in PlainEvents /\ LoaderFailed \in PlainEvents
  BY <1>1, <1>2 DEF Silence, LoaderFailed, PlainEvents
<1>5. QED
  BY <1>1, <1>2, <1>3, <1>4 DEF PlainEvents

\* Every step is of one of these kinds.
LEMMA ReporterKinds ==
  ASSUME HealthNext, assigned \in BOOLEAN, committing \in BOOLEAN
  PROVE  Tick \/ ForgetStep \/ KeepStep \/ SampleBegins \/ SampleCommitted
         \/ SampleFails \/ ReportUnassigned \/ ReportSample
<1>1. CASE HStart \/ Vanish \/ FailOutsideFlush
  BY <1>1, PlainMessages DEF HStart, Vanish, FailOutsideFlush, ForgetStep, Emit
<1>2. CASE HWriteDataFileFails \/ HCommitTableFails \/ HCommitOffsetsFails
  BY <1>2, PlainMessages
     DEF HWriteDataFileFails, HCommitTableFails, HCommitOffsetsFails, ForgetStep, Emit,
         Statuses
<1>3. CASE QuietStep
  <2>1. Quiet /\ (stage = "heartbeat" => stage' = "heartbeat" /\ committed' = committed)
    BY <1>3 DEF QuietStep, Publish, WindowExpires, Terminate, FlushExpired,
                KeepBuffering, FlushOnShutdown, CommitTable, process
  <2>2. QED
    BY <2>1, PlainMessages DEF Quiet, Emit, memory, KeepStep
<1>4. CASE HPoll
  <2>1. stage # "heartbeat"
    BY <1>4 DEF HPoll, PollRecord, PollNothing, Rejoin
  <2>2. QED
    BY <1>4, <2>1, PlainMessages DEF HPoll, KeepStep, Emit
<1>5. CASE HWriteDataFile
  BY <1>5, PlainMessages DEF HWriteDataFile, WriteDataFile, KeepStep, Emit
<1>6. CASE HCommitOffsets
  <2>1. stage = "offsets"
    BY <1>6 DEF HCommitOffsets, CommitOffsets
  <2>2. CASE stage' = "down"
    BY <1>6, <2>2, PlainMessages DEF HCommitOffsets, ForgetStep, Emit
  <2>3. CASE stage' # "down"
    BY <1>6, <2>1, <2>3, PlainMessages DEF HCommitOffsets, KeepStep, Emit
  <2>4. QED
    BY <2>2, <2>3
<1>7. CASE HeartbeatNotDue
  BY <1>7, PlainMessages DEF HeartbeatNotDue, Heartbeat, Quiet, Emit, memory, KeepStep
<1>8. QED
  BY <1>1, <1>2, <1>3, <1>4, <1>5, <1>6, <1>7 DEF HealthNext, LoaderStep

\* The later of two instants, when the first of them is one.
LEMMA BoundaryOfAges ==
  ASSUME NEW a \in Nat, NEW b \in Nat \union {Never}
  PROVE  AgeOfLater(a, b) = IF b = Never \/ a < b THEN a ELSE b
<1>1. a # Never
  BY HealthAssumption
<1>2. QED
  BY <1>1 DEF AgeOfLater

\* Ages are put forward by the duration of the sample; the later of two
\* instants is then still the later one.
LEMMA PutForwardFacts ==
  ASSUME HealthTypeOK
  PROVE  /\ Duration \in Nat
         /\ PutForward(Never) = Never
         /\ \A a \in Nat : /\ PutForward(a) = AtMost(a + Duration, StallTicks)
                           /\ PutForward(a) \in 0 .. StallTicks
         /\ \A a \in Nat, b \in Nat \union {Never} :
              AgeOfLater(PutForward(a), PutForward(b)) = PutForward(AgeOfLater(a, b))
<1>1. /\ StallTicks \in Nat /\ HeartbeatTicks \in Nat /\ Never \notin Nat
      /\ Horizon \in Nat
  BY HealthAssumption DEF Horizon
<1>2. Duration \in Nat
  BY <1>1 DEF Duration, HealthTypeOK
<1>3. PutForward(Never) = Never
  BY DEF PutForward
<1>4. ASSUME NEW a \in Nat
      PROVE  /\ PutForward(a) = AtMost(a + Duration, StallTicks)
             /\ PutForward(a) \in 0 .. StallTicks
  BY <1>1, <1>2 DEF PutForward, AtMost
<1>5. ASSUME NEW a \in Nat, NEW b \in Nat \union {Never}
      PROVE  AgeOfLater(PutForward(a), PutForward(b)) = PutForward(AgeOfLater(a, b))
  <2>1. AgeOfLater(a, b) = IF b = Never \/ a < b THEN a ELSE b
    BY BoundaryOfAges
  <2>2. CASE b = Never
    <3>1. PutForward(a) \in Nat
      BY <1>1, <1>4
    <3>2. QED
      BY <1>3, <2>1, <2>2, <3>1, BoundaryOfAges
  <2>3. CASE b # Never
    <3>1. /\ b \in Nat /\ PutForward(a) \in Nat /\ PutForward(b) \in Nat
          /\ PutForward(b) # Never
          /\ PutForward(a) = AtMost(a + Duration, StallTicks)
          /\ PutForward(b) = AtMost(b + Duration, StallTicks)
      BY <1>1, <1>4, <2>3
    <3>2. AgeOfLater(PutForward(a), PutForward(b)) =
            IF PutForward(a) < PutForward(b) THEN PutForward(a) ELSE PutForward(b)
      BY <3>1, BoundaryOfAges
    <3>3. CASE a < b
      <4>1. AgeOfLater(a, b) = a
        BY <2>1, <3>3
      <4>2. AtMost(a + Duration, StallTicks) <= AtMost(b + Duration, StallTicks)
        BY <1>1, <1>2, <3>1, <3>3 DEF AtMost
      <4>3. QED
        BY <3>1, <3>2, <4>1, <4>2
    <3>4. CASE ~(a < b)
      <4>1. AgeOfLater(a, b) = b
        BY <2>1, <2>3, <3>4
      <4>2. AtMost(b + Duration, StallTicks) <= AtMost(a + Duration, StallTicks)
        BY <1>1, <1>2, <3>1, <3>4 DEF AtMost
      <4>3. QED
        BY <3>1, <3>2, <4>1, <4>2
    <3>5. QED
      BY <3>3, <3>4
  <2>4. QED
    BY <2>2, <2>3
<1>6. QED
  BY <1>2, <1>3, <1>4, <1>5

\* The lag of a sample, and the records it is compared with.
LEMMA LagTypes ==
  ASSUME TypeOK, NEW from \in Nat, NEW to \in Nat
  PROVE  /\ Lag(from, to) \in Nat
         /\ Lag(from, to) = 0 <=> to <= from
         /\ Lag(from, to) > 0 => Lag(from, to) = to - from
         /\ IsFiniteSet(BufferedSources) /\ Cardinality(BufferedSources) \in Nat
<1>1. IsFiniteSet(DOMAIN buffer)
  <2>1. IsFiniteSet(1 .. Len(buffer))
    <3>1. 1 \in Int /\ Len(buffer) \in Int
      BY BufferTypes
    <3>2. QED
      BY <3>1, FS_Interval
  <2>2. DOMAIN buffer = 1 .. Len(buffer)
    BY BufferTypes
  <2>3. QED
    BY <2>1, <2>2
<1>2. IsFiniteSet(BufferedSources)
  <2> DEFINE f == [j \in DOMAIN buffer |-> buffer[j].source]
  <2>1. f \in [DOMAIN buffer -> BufferedSources]
    BY DEF BufferedSources
  <2>2. \A x \in BufferedSources : \E j \in DOMAIN buffer : f[j] = x
    BY DEF BufferedSources
  <2> HIDE DEF f
  <2>3. f \in Surjection(DOMAIN buffer, BufferedSources)
    BY <2>1, <2>2, Fun_IsSurj
  <2>4. QED
    BY <1>1, <2>3, FS_Surjection
<1>3. QED
  BY <1>2, FS_CardinalityType DEF Lag

\* What the state of a sample means, and what the sample leaves behind.
LEMMA ReportMeaning ==
  ASSUME TypeOK, HealthTypeOK, NEW initialized \in BOOLEAN,
         NEW from \in Nat, NEW to \in Nat, Report(initialized, from, to)
  PROVE  LET lag == IF initialized THEN Lag(from, to) ELSE 0 IN
         /\ sinceLag' = PutForward(LagAge(lag))
         /\ sinceProgress' = PutForward(ProgressAge(from, lag))
         /\ headStart' = HeadStart(from, lag)
         /\ previousCommitted' = IF initialized THEN from ELSE Never
         /\ sampled' = Never /\ sinceNow' = Never
         /\ sinceHeartbeat' = AtMost(Duration, HeartbeatTicks)
         /\ UNCHANGED <<assigned, committing>> /\ Witness
         /\ event' \in Event /\ event'.name = "heartbeat"
         /\ event'.from = from /\ event'.to = to /\ event'.iceberg = "absent"
         /\ previousState' = event'.state /\ event'.state \in States
         /\ event'.state = "stalled" =>
              initialized /\ lag > 0 /\ BoundaryAge(from, lag) = StallTicks
         /\ event'.state \in {"idle", "buffering"} =>
              initialized /\ lag <= Cardinality(BufferedSources)
         /\ event'.state = "idle" => buffer = <<>>
<1> DEFINE lag == IF initialized THEN Lag(from, to) ELSE 0
           state == InferState(initialized, lag, BoundaryAge(from, lag))
           e == [Message("heartbeat", state) EXCEPT
                   !.alert = state = "stalled" /\ previousState # "stalled",
                   !.from = from, !.to = to]
<1>1. lag \in Nat /\ Cardinality(BufferedSources) \in Nat
  BY LagTypes
<1>2. /\ sinceLag' = PutForward(LagAge(lag))
      /\ sinceProgress' = PutForward(ProgressAge(from, lag))
      /\ headStart' = HeadStart(from, lag)
      /\ previousCommitted' = IF initialized THEN from ELSE Never
      /\ sampled' = Never /\ sinceNow' = Never
      /\ sinceHeartbeat' = AtMost(Duration, HeartbeatTicks)
      /\ UNCHANGED <<assigned, committing>> /\ Witness
      /\ previousState' = state /\ event' = e
  BY DEF Report, SampleEnds, Emit
<1>3. /\ state \in States
      /\ state = "stalled" =>
           initialized /\ lag > 0 /\ BoundaryAge(from, lag) = StallTicks
      /\ state \in {"idle", "buffering"} =>
           initialized /\ ~(lag > Cardinality(BufferedSources))
      /\ state = "idle" => buffer = <<>>
  <2> HIDE DEF lag
  <2>1. QED
    BY DEF InferState, States
<1> HIDE DEF lag, state
<1>4. /\ e \in Event /\ e.name = "heartbeat" /\ e.state = state
      /\ e.from = from /\ e.to = to /\ e.iceberg = "absent"
  <2>1. "heartbeat" \in Names /\ "absent" \in Statuses
    BY DEF Names, Statuses
  <2>2. (state = "stalled" /\ previousState # "stalled") \in BOOLEAN
    OBVIOUS
  <2>3. QED
    BY <1>3, <2>1, <2>2 DEF Message, Event
<1> HIDE DEF e
<1>5. lag <= Cardinality(BufferedSources) <=> ~(lag > Cardinality(BufferedSources))
  BY <1>1
<1>6. QED
  BY <1>2, <1>3, <1>4, <1>5 DEF lag

-----------------------------------------------------------------------------
(* Types.                                                                  *)

\* Every step keeps the types.
LEMMA HealthTypesStep ==
  ASSUME TypeOK, TypeOK', HealthTypeOK, [HealthNext]_allVars
  PROVE  HealthTypeOK'
<1>1. /\ committed \in Nat /\ Len(log) \in Nat
      /\ HeartbeatTicks \in Nat /\ StallTicks \in Nat /\ Never \notin Nat
      /\ Horizon \in Nat /\ Duration \in Nat
  BY HealthAssumption, PutForwardFacts DEF TypeOK, Horizon
<1>2. ASSUME Witness
      PROVE  sinceAdvance' \in 0 .. StallTicks /\ outstandingFor' \in 0 .. StallTicks
  BY <1>1, <1>2 DEF Witness, HealthTypeOK
<1>3. \A n \in Nat : \A a \in (0 .. n) \union {Never} :
        Older(a, n) \in (0 .. n) \union {Never} /\ (a # Never => Older(a, n) \in 0 .. n)
  BY <1>1 DEF Older
<1>4. CASE UNCHANGED allVars
  BY <1>4 DEF allVars, health, memory, witness, HealthTypeOK
<1>5. CASE Tick
  <2>1. /\ sinceHeartbeat \in 0 .. HeartbeatTicks /\ sinceAdvance \in 0 .. StallTicks
        /\ outstandingFor \in 0 .. StallTicks
        /\ sinceHeartbeat # Never /\ sinceAdvance # Never /\ outstandingFor # Never
    BY <1>1 DEF HealthTypeOK
  <2>2. /\ sinceHeartbeat' \in 0 .. HeartbeatTicks
        /\ sinceAdvance' \in 0 .. StallTicks /\ outstandingFor' \in 0 .. StallTicks
    BY <1>1, <1>3, <1>5, <2>1 DEF Tick
  <2>3. /\ sinceLag' \in (0 .. StallTicks) \union {Never}
        /\ sinceProgress' \in (0 .. StallTicks) \union {Never}
        /\ sinceNow' \in (0 .. Horizon) \union {Never}
    BY <1>1, <1>3, <1>5 DEF Tick, HealthTypeOK
  <2>4. event' \in Event
    BY <1>5, PlainMessages DEF Tick, PlainEvents
  <2>5. QED
    BY <1>5, <2>2, <2>3, <2>4 DEF Tick, HealthTypeOK
<1>6. CASE ForgetStep
  <2>1. /\ event' \in Event
        /\ sinceAdvance' \in 0 .. StallTicks /\ outstandingFor' \in 0 .. StallTicks
    BY <1>2, <1>6 DEF ForgetStep, PlainEvents
  <2>2. Forget /\ 0 \in 0 .. HeartbeatTicks /\ 0 \in 0 .. StallTicks
    BY <1>1, <1>6 DEF ForgetStep
  <2>3. QED
    BY <2>1, <2>2 DEF Forget, HealthTypeOK
<1>7. CASE KeepStep
  <2>1. /\ event' \in Event /\ assigned' \in BOOLEAN /\ committing' \in BOOLEAN
        /\ sinceAdvance' \in 0 .. StallTicks /\ outstandingFor' \in 0 .. StallTicks
    BY <1>2, <1>7 DEF KeepStep, PlainEvents
  <2>2. UNCHANGED <<sinceHeartbeat, sinceLag, sinceProgress, previousCommitted,
                    previousState, sinceNow, sampled, headStart>>
    BY <1>7 DEF KeepStep
  <2>3. QED
    BY <2>1, <2>2 DEF HealthTypeOK
<1>8. CASE SampleBegins \/ SampleCommitted \/ SampleFails
  <2>1. CASE SampleBegins \/ SampleCommitted
    <3>1. /\ UNCHANGED <<assigned, sinceHeartbeat, sinceLag, sinceProgress,
                         previousCommitted, previousState, committing, headStart>>
          /\ event' = Silence /\ Witness
      BY <2>1 DEF SampleBegins, SampleCommitted, Emit
    <3>2. sinceNow' \in (0 .. Horizon) \union {Never} /\ sampled' \in Nat \union {Never}
      BY <1>1, <2>1 DEF SampleBegins, SampleCommitted, HealthTypeOK
    <3>3. event' \in Event
      BY <3>1, PlainMessages DEF PlainEvents
    <3>4. QED
      BY <1>2, <3>1, <3>2, <3>3 DEF HealthTypeOK
  <2>2. CASE SampleFails
    <3>1. /\ sinceLag' \in (0 .. StallTicks) \union {Never}
          /\ sinceProgress' \in (0 .. StallTicks) \union {Never}
      <4>1. \A x \in Nat \union {Never} : PutForward(x) \in (0 .. StallTicks) \union {Never}
        BY PutForwardFacts
      <4>2. sinceLag \in Nat \union {Never} /\ sinceProgress \in Nat \union {Never}
        BY <1>1 DEF HealthTypeOK
      <4>3. sinceLag' = PutForward(sinceLag) /\ sinceProgress' = PutForward(sinceProgress)
        BY <2>2 DEF SampleFails
      <4>4. QED
        BY <4>1, <4>2, <4>3
    <3>2. sinceHeartbeat' \in 0 .. HeartbeatTicks /\ sinceNow' = Never /\ sampled' = Never
      BY <1>1, <2>2 DEF SampleFails, SampleEnds, AtMost
    <3>3. QED
      BY <1>1, <1>2, <2>2, <3>1, <3>2, PlainMessages
         DEF SampleFails, SampleEnds, Emit, PlainEvents, HealthTypeOK
  <2>3. QED
    BY <1>8, <2>1, <2>2
<1>9. CASE ReportUnassigned \/ ReportSample
  <2>1. PICK initialized \in BOOLEAN, from \in Nat, to \in Nat :
          Report(initialized, from, to)
    BY <1>1, <1>9 DEF ReportUnassigned, ReportSample, HealthTypeOK
  <2> DEFINE lag == IF initialized THEN Lag(from, to) ELSE 0
  <2>2. lag \in Nat
    BY LagTypes
  <2>3. /\ sinceLag' = PutForward(LagAge(lag))
        /\ sinceProgress' = PutForward(ProgressAge(from, lag))
        /\ headStart' = HeadStart(from, lag)
        /\ previousCommitted' \in Nat \union {Never}
        /\ sampled' = Never /\ sinceNow' = Never
        /\ sinceHeartbeat' = AtMost(Duration, HeartbeatTicks)
        /\ UNCHANGED <<assigned, committing>> /\ Witness
        /\ event' \in Event /\ previousState' \in States
    BY <2>1, ReportMeaning
  <2> HIDE DEF lag
  <2>4. /\ LagAge(lag) \in Nat \union {Never}
        /\ ProgressAge(from, lag) \in Nat \union {Never}
    BY <1>1, <2>2 DEF LagAge, ProgressAge, HealthTypeOK
  <2>5. /\ sinceLag' \in (0 .. StallTicks) \union {Never}
        /\ sinceProgress' \in (0 .. StallTicks) \union {Never}
    BY <2>3, <2>4, PutForwardFacts
  <2>6. headStart' \in 0 .. StallTicks /\ sinceHeartbeat' \in 0 .. HeartbeatTicks
    BY <1>1, <2>2, <2>3 DEF HeadStart, AtMost, HealthTypeOK
  <2>7. QED
    BY <1>1, <1>2, <2>3, <2>5, <2>6 DEF HealthTypeOK
<1>10. QED
  BY <1>4, <1>5, <1>6, <1>7, <1>8, <1>9, ReporterKinds DEF HealthTypeOK

-----------------------------------------------------------------------------
(* Samples.                                                                *)

\* Only the second call or a failure ends a sample, and no commit comes before.
LEMMA SampleInvStep ==
  ASSUME TypeOK, HealthTypeOK, SampleInv, [HealthNext]_allVars
  PROVE  SampleInv'
<1>1. /\ committed \in Nat /\ StallTicks \in Nat /\ Horizon \in Nat /\ Never \notin Nat
      /\ StallTicks <= Horizon
      /\ sinceNow \in (0 .. Horizon) \union {Never} /\ sinceAdvance \in 0 .. StallTicks
  BY HealthAssumption DEF TypeOK, HealthTypeOK, Horizon
<1>2. CASE UNCHANGED allVars
  BY <1>2 DEF allVars, vars, process, health, memory, witness, SampleInv, Due
<1>3. CASE Tick
  <2>1. /\ UNCHANGED <<stage, assigned, sampled, committed>>
        /\ sinceNow' = Older(sinceNow, Horizon)
        /\ sinceAdvance' = Older(sinceAdvance, StallTicks)
        /\ stage = "heartbeat" /\ Due => Due'
    BY <1>3 DEF Tick, vars, process, Due, Older
  <2>2. sinceNow' # Never => sinceNow # Never
    BY <2>1 DEF Older
  <2>3. sinceNow # Never /\ AtMost(sinceNow, StallTicks) <= sinceAdvance =>
          sinceNow' # Never /\ AtMost(sinceNow', StallTicks) <= sinceAdvance'
    BY <1>1, <2>1 DEF Older, AtMost
  <2>4. QED
    BY <2>1, <2>2, <2>3 DEF SampleInv
<1>4. CASE ForgetStep
  BY <1>4 DEF ForgetStep, Forget, SampleInv
<1>5. CASE KeepStep
  <2>1. /\ UNCHANGED <<sinceNow, sampled, sinceHeartbeat>> /\ Witness
        /\ stage = "heartbeat" =>
             UNCHANGED <<assigned, committed>> /\ (stage' = "heartbeat" \/ ~Due)
    BY <1>5 DEF KeepStep
  <2>2. committed' = committed => sinceAdvance' = sinceAdvance
    BY <1>1, <2>1 DEF Witness
  <2>3. QED
    BY <2>1, <2>2 DEF SampleInv, Due
<1>6. CASE SampleBegins \/ SampleCommitted
  <2>1. UNCHANGED <<stage, assigned, committed, sinceHeartbeat>> /\ Witness
    BY <1>6 DEF SampleBegins, SampleCommitted, vars, process, Emit
  <2>2. sinceAdvance' = sinceAdvance
    BY <1>1, <2>1 DEF Witness
  <2>3. CASE SampleBegins
    <3>1. /\ stage = "heartbeat" /\ Due /\ assigned /\ sinceNow = Never
          /\ sinceNow' = 0 /\ sampled' = sampled
      BY <2>3 DEF SampleBegins
    <3>2. AtMost(0, StallTicks) <= sinceAdvance
      BY <1>1 DEF AtMost
    <3>3. QED
      BY <1>1, <2>1, <2>2, <3>1, <3>2 DEF SampleInv, Due
  <2>4. CASE SampleCommitted
    BY <2>1, <2>2, <2>4 DEF SampleCommitted, SampleInv, Due
  <2>5. QED
    BY <1>6, <2>3, <2>4
<1>7. CASE SampleFails \/ ReportUnassigned \/ ReportSample
  BY <1>7 DEF SampleFails, ReportUnassigned, ReportSample, Report, SampleEnds, SampleInv
<1>8. QED
  BY <1>2, <1>3, <1>4, <1>5, <1>6, <1>7, ReporterKinds DEF HealthTypeOK

-----------------------------------------------------------------------------
(* The stall clock.                                                        *)

\* Offsets and log move forward, as long as nobody rejoined.
LEMMA LoaderMovesForward ==
  ASSUME LoaderInv, [Next]_vars
  PROVE  /\ Len(log) \in Nat /\ Len(log') \in Nat /\ Len(log) <= Len(log')
         /\ committed \in Nat /\ rejoins \in Nat
         /\ rejoins' = 0 => rejoins = 0 /\ committed' \in Nat /\ committed <= committed'
<1>1. Len(log) \in Nat /\ rejoins \in Nat /\ log \in Seq(FrameKinds) /\ committed \in Nat
  BY DEF LoaderInv, IInv, TypeOK
<1>2. rejoins' = rejoins \/ rejoins' = rejoins + 1
  <2>1. CASE Rejoin
    BY <2>1 DEF Rejoin
  <2>2. CASE CalmStep \/ EndStep \/ Publish \/ Start \/ PollRecord \/ CommitTable
             \/ CommitOffsets
    BY <2>2 DEF CalmStep, EndStep, Publish, Start, PollRecord, CommitTable, CommitOffsets,
                history
  <2>3. QED
    BY <2>1, <2>2, StepKinds
<1>3. Len(log') \in Nat /\ Len(log) <= Len(log')
  <2>1. CASE Publish
    <3>1. PICK f \in FrameKinds : log' = Append(log, f)
      BY <2>1 DEF Publish
    <3>2. Len(log') = Len(log) + 1
      BY <1>1, <3>1, AppendProperties
    <3>3. QED
      BY <1>1, <3>2
  <2>2. CASE CalmStep \/ EndStep \/ Start \/ Rejoin \/ PollRecord \/ CommitTable
             \/ CommitOffsets
    <3>1. log' = log
      BY <2>2 DEF CalmStep, EndStep, Start, Rejoin, PollRecord, CommitTable, CommitOffsets
    <3>2. QED
      BY <1>1, <3>1
  <2>3. QED
    BY <2>1, <2>2, StepKinds
<1>4. rejoins' = 0 => rejoins = 0
  BY <1>1, <1>2
<1>5. rejoins = 0 => committed' \in Nat /\ committed <= committed'
  BY CommittedMovesForward DEF LoaderInv
<1>6. QED
  BY <1>1, <1>3, <1>4, <1>5

\* The end of a sample moves no instant: what was to be put forward is.
LEMMA EndKeepsBoundary ==
  ASSUME HealthTypeOK, NEW a \in Nat, NEW b \in Nat \union {Never},
         sinceLag' = PutForward(a), sinceProgress' = PutForward(b), sinceNow' = Never
  PROVE  BoundaryAtEnd' = PutForward(AgeOfLater(a, b))
<1>1. AgeOfLater(a, b) \in Nat
  BY BoundaryOfAges
<1>2. AgeOfLater(sinceLag', sinceProgress') = PutForward(AgeOfLater(a, b))
  BY PutForwardFacts
<1>3. Duration' = 0
  BY DEF Duration
<1>4. PutForward(AgeOfLater(a, b)) \in 0 .. StallTicks /\ StallTicks \in Nat
  BY <1>1, PutForwardFacts, HealthAssumption
<1>5. BoundaryAtEnd' = AtMost(AgeOfLater(sinceLag', sinceProgress') + 0, StallTicks)
  BY <1>2, <1>3, <1>4, HealthAssumption DEF BoundaryAtEnd, PutForward
<1>6. QED
  BY <1>2, <1>4, <1>5 DEF AtMost

\* Time passes for the clock and for what it stands for, sample or no sample.
LEMMA ClockTicks ==
  ASSUME LoaderInv, HealthTypeOK, HealthTypeOK', ClockInv, Tick
  PROVE  ClockInv'
<1>1. /\ UNCHANGED <<log, committed, rejoins, previousCommitted, headStart>>
      /\ sinceNow' = Older(sinceNow, Horizon)
      /\ IF sinceNow = Never
           THEN /\ sinceLag' = Older(sinceLag, StallTicks)
                /\ sinceProgress' = Older(sinceProgress, StallTicks)
           ELSE UNCHANGED <<sinceLag, sinceProgress>>
      /\ sinceAdvance' = Older(sinceAdvance, StallTicks)
      /\ outstandingFor' = IF committed < Len(log)
                           THEN Older(outstandingFor, StallTicks) ELSE 0
  BY DEF Tick, vars, history
<1>2. /\ sinceLag \in (0 .. StallTicks) \union {Never}
      /\ sinceProgress \in (0 .. StallTicks) \union {Never}
      /\ sinceLag' \in (0 .. StallTicks) \union {Never}
      /\ sinceProgress' \in (0 .. StallTicks) \union {Never}
      /\ sinceNow \in (0 .. Horizon) \union {Never}
      /\ sinceAdvance \in 0 .. StallTicks /\ outstandingFor \in 0 .. StallTicks
      /\ headStart \in 0 .. StallTicks
      /\ StallTicks \in Nat /\ Horizon \in Nat /\ StallTicks <= Horizon
      /\ Never \notin Nat /\ Duration \in Nat
  BY HealthAssumption, PutForwardFacts DEF HealthTypeOK, Horizon
<1>3. sinceLag' = Never <=> sinceLag = Never
  BY <1>1, <1>2 DEF Older
<1>4. ASSUME sinceLag # Never
      PROVE  /\ BoundaryAtEnd \in 0 .. StallTicks
             /\ BoundaryAtEnd' <= Older(BoundaryAtEnd, StallTicks)
  <2> DEFINE Later == AgeOfLater(sinceLag, sinceProgress)
  <2>1. /\ Later = IF sinceProgress = Never \/ sinceLag < sinceProgress
                   THEN sinceLag ELSE sinceProgress
        /\ Later \in 0 .. StallTicks
    BY <1>2, <1>4, BoundaryOfAges
  <2>2. /\ Later' = IF sinceProgress' = Never \/ sinceLag' < sinceProgress'
                    THEN sinceLag' ELSE sinceProgress'
        /\ Later' \in 0 .. StallTicks
    BY <1>2, <1>3, <1>4, BoundaryOfAges
  <2>3. BoundaryAtEnd = AtMost(Later + Duration, StallTicks)
    BY <1>2, <2>1, PutForwardFacts DEF BoundaryAtEnd
  <2>4. BoundaryAtEnd' = AtMost(Later' + Duration', StallTicks)
    <3>1. Later' # Never
      BY <1>2, <2>2
    <3>2. QED
      BY <3>1 DEF BoundaryAtEnd, PutForward
  <2>5. CASE sinceNow = Never
    <3>1. Duration = 0 /\ Duration' = 0
      BY <1>1, <2>5 DEF Duration, Older
    <3>2. Later' <= Older(Later, StallTicks)
      <4>1. /\ sinceLag' = Older(sinceLag, StallTicks)
            /\ sinceProgress' = Older(sinceProgress, StallTicks)
        BY <1>1, <2>5
      <4>2. /\ sinceLag \in 0 .. StallTicks
            /\ sinceProgress = Never \/ sinceProgress \in 0 .. StallTicks
        BY <1>2, <1>4
      <4> HIDE DEF Later
      <4>3. CASE sinceProgress = Never
        BY <1>2, <2>1, <2>2, <4>1, <4>2, <4>3 DEF Older
      <4>4. CASE sinceProgress \in 0 .. StallTicks
        <5>1. sinceLag # Never /\ sinceProgress # Never
          BY <1>2, <4>2, <4>4
        <5>2. /\ sinceLag' = IF sinceLag = StallTicks THEN sinceLag ELSE sinceLag + 1
              /\ sinceProgress' = IF sinceProgress = StallTicks THEN sinceProgress
                                  ELSE sinceProgress + 1
          BY <4>1, <5>1 DEF Older
        <5>3. Later # Never
          BY <1>2, <2>1
        <5>4. Older(Later, StallTicks) = IF Later = StallTicks THEN Later ELSE Later + 1
          BY <5>3 DEF Older
        <5>5. sinceProgress' # Never
          BY <1>2, <4>4, <5>2
        <5>6. QED
          BY <1>2, <2>1, <2>2, <4>2, <4>4, <5>1, <5>2, <5>4, <5>5
      <4>5. QED
        BY <4>2, <4>3, <4>4
    <3> HIDE DEF Later
    <3>3. \A x \in 0 .. StallTicks : AtMost(x + 0, StallTicks) = x
      BY <1>2 DEF AtMost
    <3>4. BoundaryAtEnd = Later
      BY <2>1, <2>3, <3>1, <3>3
    <3>5. BoundaryAtEnd' = Later'
      BY <2>2, <2>4, <3>1, <3>3
    <3>6. QED
      BY <2>1, <3>2, <3>4, <3>5
  <2>6. CASE sinceNow # Never
    <3>1. Duration = sinceNow /\ Duration' = Older(sinceNow, Horizon) /\ sinceNow \in Nat
      BY <1>1, <1>2, <2>6 DEF Duration, Older
    <3>2. Later' = Later
      BY <1>1, <2>6
    <3> HIDE DEF Later
    <3>3. BoundaryAtEnd \in 0 .. StallTicks
      BY <1>2, <2>1, <2>3 DEF AtMost
    <3>4. Duration' = Duration \/ Duration' = Duration + 1
      BY <3>1, <1>2 DEF Older
    <3>5. \/ BoundaryAtEnd' = BoundaryAtEnd
          \/ BoundaryAtEnd < StallTicks /\ BoundaryAtEnd' = BoundaryAtEnd + 1
      BY <1>2, <2>1, <2>3, <2>4, <3>2, <3>4 DEF AtMost
    <3>6. QED
      BY <1>2, <3>3, <3>5 DEF Older
  <2>7. QED
    BY <2>5, <2>6
<1>5. ASSUME rejoins = 0, sinceLag # Never
      PROVE  /\ previousCommitted < Len(log)
             /\ previousCommitted = committed =>
                  /\ BoundaryAtEnd' <= sinceAdvance'
                  /\ BoundaryAtEnd' <= outstandingFor' + headStart
  <2>1. /\ previousCommitted < Len(log)
        /\ previousCommitted = committed =>
             BoundaryAtEnd <= sinceAdvance /\ BoundaryAtEnd <= outstandingFor + headStart
    BY <1>5 DEF ClockInv
  <2>2. ASSUME previousCommitted = committed
        PROVE  BoundaryAtEnd' <= sinceAdvance' /\ BoundaryAtEnd' <= outstandingFor' + headStart
    <3>1. /\ BoundaryAtEnd \in 0 .. StallTicks
          /\ BoundaryAtEnd' <= Older(BoundaryAtEnd, StallTicks)
          /\ BoundaryAtEnd' \in Nat
      <4>1. AgeOfLater(sinceLag', sinceProgress') \in Nat /\ Duration' \in Nat
        BY <1>2, <1>3, <1>5, BoundaryOfAges, HealthAssumption
           DEF HealthTypeOK, Duration, Horizon
      <4>2. BoundaryAtEnd' \in Nat
        BY <1>2, <4>1 DEF BoundaryAtEnd, PutForward, AtMost
      <4>3. QED
        BY <1>4, <1>5, <4>2
    <3>2. /\ outstandingFor' = Older(outstandingFor, StallTicks)
          /\ sinceAdvance' = Older(sinceAdvance, StallTicks)
      BY <1>1, <2>1, <2>2
    <3>3. BoundaryAtEnd <= sinceAdvance /\ BoundaryAtEnd <= outstandingFor + headStart
      BY <2>1, <2>2
    <3>4. BoundaryAtEnd' <= sinceAdvance'
      BY <1>2, <3>1, <3>2, <3>3 DEF Older
    <3>5. BoundaryAtEnd' <= outstandingFor' + headStart
      BY <1>2, <3>1, <3>2, <3>3 DEF Older
    <3>6. QED
      BY <3>4, <3>5
  <2>3. QED
    BY <2>1, <2>2
<1>6. QED
  BY <1>1, <1>3, <1>5 DEF ClockInv

\* A sample that sees a lag for the first time, or with progress, starts the
\* clock at its `now'; any other leaves the clock alone.
LEMMA SampleStartsClock ==
  ASSUME LoaderInv, HealthTypeOK, SampleInv, ClockInv, ReportSample
  PROVE  /\ ClockInv'
         /\ rejoins = 0 /\ sinceLag' # Never =>
              BoundaryAtEnd' = PutForward(BoundaryAge(committed, Lag(committed, Len(log))))
<1> DEFINE lag == Lag(committed, Len(log))
           a == LagAge(lag)
           b == ProgressAge(committed, lag)
<1>1. /\ Len(log) \in Nat /\ committed \in Nat /\ TypeOK
  BY DEF LoaderInv, IInv, TypeOK
<1>2. /\ sinceLag \in Nat \union {Never} /\ sinceProgress \in Nat \union {Never}
      /\ sinceAdvance \in 0 .. StallTicks /\ outstandingFor \in 0 .. StallTicks
      /\ previousCommitted \in Nat \union {Never} /\ headStart \in Nat
      /\ StallTicks \in Nat /\ Never \notin Nat /\ Duration \in Nat
  BY HealthAssumption, PutForwardFacts DEF HealthTypeOK
<1>3. /\ sampled = committed /\ UNCHANGED <<log, committed, rejoins>>
      /\ Report(TRUE, committed, Len(log))
      /\ sinceNow # Never /\ AtMost(sinceNow, StallTicks) <= sinceAdvance
  <2>1. /\ Heartbeat /\ sampled # Never /\ Report(TRUE, sampled, Len(log))
    BY DEF ReportSample
  <2>2. /\ sampled = committed /\ sinceNow # Never
        /\ AtMost(sinceNow, StallTicks) <= sinceAdvance
    BY <2>1 DEF SampleInv
  <2>3. UNCHANGED <<log, committed, rejoins>>
    BY <2>1 DEF Heartbeat, history
  <2>4. QED
    BY <2>1, <2>2, <2>3
<1>4. lag \in Nat /\ (lag > 0 => committed < Len(log))
  BY <1>1, LagTypes DEF Lag
<1>5. /\ sinceLag' = PutForward(a) /\ sinceProgress' = PutForward(b)
      /\ headStart' = HeadStart(committed, lag) /\ sinceNow' = Never
      /\ previousCommitted' = committed /\ Witness
  BY <1>1, <1>3, ReportMeaning
<1>6. a \in Nat \union {Never} /\ b \in Nat \union {Never} /\ (a # Never => lag > 0)
  <2> HIDE DEF lag
  <2>1. QED
    BY <1>2, <1>4 DEF LagAge, ProgressAge
<1>7. sinceLag' # Never => a # Never
  BY <1>5, PutForwardFacts
<1>8. a # Never => BoundaryAtEnd' = PutForward(AgeOfLater(a, b))
  <2> HIDE DEF a, b
  <2>1. QED
    BY <1>5, <1>6, EndKeepsBoundary
<1>9. ASSUME rejoins = 0, a # Never
      PROVE  /\ committed < Len(log)
             /\ BoundaryAtEnd' <= sinceAdvance /\ BoundaryAtEnd' <= outstandingFor + headStart'
  <2>1. lag > 0 /\ committed < Len(log)
    BY <1>4, <1>6, <1>9
  <2>2. AgeOfLater(a, b) = IF b = Never \/ a < b THEN a ELSE b
    <3> HIDE DEF a, b
    <3>1. QED
      BY <1>6, <1>9, BoundaryOfAges
  <2>3. CASE sinceLag = Never \/ Progressed(committed)
    <3>1. a = 0 \/ (a \in Nat /\ b = 0)
      <4> HIDE DEF lag
      <4>1. QED
        BY <1>2, <1>6, <1>9, <2>1, <2>3 DEF LagAge, ProgressAge
    <3>2. AgeOfLater(a, b) = 0
      <4> HIDE DEF a, b
      <4>1. QED
        BY <1>2, <1>6, <2>2, <3>1
    <3>3. BoundaryAtEnd' = AtMost(Duration, StallTicks)
      BY <1>2, <1>8, <1>9, <3>2, PutForwardFacts
    <3>4. headStart' = AtMost(Duration, StallTicks) /\ Duration = sinceNow
      <4> HIDE DEF lag
      <4>1. QED
        BY <1>3, <1>4, <1>5, <2>1, <2>3 DEF HeadStart, Duration
    <3>5. AtMost(Duration, StallTicks) \in Nat
      BY <1>2 DEF AtMost
    <3>6. QED
      BY <1>2, <1>3, <2>1, <3>3, <3>4, <3>5
  <2>4. CASE sinceLag # Never /\ ~Progressed(committed)
    <3>1. previousCommitted = committed
      BY <1>1, <1>2, <1>9, <2>4 DEF ClockInv, Progressed
    <3>2. a = sinceLag /\ b = sinceProgress /\ headStart' = headStart
      <4> HIDE DEF lag
      <4>1. QED
        BY <1>4, <1>5, <2>1, <2>4 DEF LagAge, ProgressAge, HeadStart
    <3>3. BoundaryAtEnd' = BoundaryAtEnd
      BY <1>8, <1>9, <3>2 DEF BoundaryAtEnd
    <3>4. QED
      BY <1>9, <2>1, <2>4, <3>1, <3>2, <3>3 DEF ClockInv
  <2>5. QED
    BY <2>3, <2>4
<1>10. committed < Len(log) => sinceAdvance' = sinceAdvance /\ outstandingFor' = outstandingFor
  <2>1. ~(committed' > committed) /\ (committed < Len(log) => ~(committed' >= Len(log')))
    BY <1>1, <1>3
  <2>2. QED
    BY <1>5, <2>1 DEF Witness
<1>11. committed # Never /\ committed <= committed
  BY <1>1, <1>2
<1>12. ClockInv'
  <2> HIDE DEF a, b, lag
  <2>1. QED
    BY <1>3, <1>5, <1>7, <1>9, <1>10, <1>11 DEF ClockInv
<1>13. rejoins = 0 /\ sinceLag' # Never => BoundaryAtEnd' = PutForward(BoundaryAge(committed, lag))
  BY <1>7, <1>8 DEF BoundaryAge
<1>14. QED
  BY <1>12, <1>13

\* A lag, a progress, a commit and the clock, each keep the stall clock right.
LEMMA ClockInvStep ==
  ASSUME LoaderInv, HealthTypeOK, HealthTypeOK', SampleInv, ClockInv, [HealthNext]_allVars
  PROVE  ClockInv'
<1> DEFINE Later == AgeOfLater(sinceLag, sinceProgress)
<1>1. /\ Len(log) \in Nat /\ Len(log') \in Nat /\ Len(log) <= Len(log')
      /\ committed \in Nat /\ rejoins \in Nat
      /\ rejoins' = 0 => rejoins = 0 /\ committed' \in Nat /\ committed <= committed'
  BY LoaderMovesForward, HealthStepIsLoaderStep
<1>2. /\ sinceLag \in Nat \union {Never} /\ sinceProgress \in Nat \union {Never}
      /\ sinceAdvance \in 0 .. StallTicks /\ outstandingFor \in 0 .. StallTicks
      /\ headStart \in Nat
      /\ previousCommitted \in Nat \union {Never} /\ sampled \in Nat \union {Never}
      /\ StallTicks \in Nat /\ Never \notin Nat /\ Duration \in Nat
  BY HealthAssumption, PutForwardFacts DEF HealthTypeOK
<1>3. sinceLag # Never =>
        /\ Later \in Nat
        /\ Later = IF sinceProgress = Never \/ sinceLag < sinceProgress
                   THEN sinceLag ELSE sinceProgress
        /\ BoundaryAtEnd = AtMost(Later + Duration, StallTicks)
        /\ BoundaryAtEnd \in 0 .. StallTicks
  BY <1>2, BoundaryOfAges, PutForwardFacts DEF BoundaryAtEnd
<1>4. CASE UNCHANGED allVars
  BY <1>4
     DEF allVars, vars, health, memory, witness, history, ClockInv, BoundaryAtEnd, PutForward,
         Duration
<1>5. CASE Tick
  BY <1>1, <1>2, <1>3, <1>5, ClockTicks DEF ClockInv
<1>6. CASE ForgetStep
  BY <1>6 DEF ForgetStep, Forget, ClockInv
<1>7. CASE KeepStep \/ SampleBegins \/ SampleCommitted \/ SampleFails
  <2>1. UNCHANGED <<previousCommitted, headStart>> /\ Witness
    BY <1>7 DEF KeepStep, SampleBegins, SampleCommitted, SampleFails, Emit
  <2>2. previousCommitted = Never => sinceLag = Never
    BY DEF ClockInv
  <2>3. sinceLag' = Never <=> sinceLag = Never
    <3>1. CASE KeepStep \/ SampleBegins \/ SampleCommitted
      BY <3>1 DEF KeepStep, SampleBegins, SampleCommitted
    <3>2. CASE SampleFails
      BY <1>2, <3>2, PutForwardFacts DEF SampleFails
    <3>3. QED
      BY <1>7, <3>1, <3>2
  <2>4. sinceLag # Never => BoundaryAtEnd' = BoundaryAtEnd
    <3>1. CASE KeepStep \/ SampleBegins \/ SampleCommitted
      <4>1. UNCHANGED <<sinceLag, sinceProgress>> /\ Duration' = Duration
        BY <3>1 DEF KeepStep, SampleBegins, SampleCommitted, Duration
      <4>2. QED
        BY <4>1 DEF BoundaryAtEnd, PutForward
    <3>2. CASE SampleFails
      <4>1. /\ sinceLag' = PutForward(sinceLag) /\ sinceProgress' = PutForward(sinceProgress)
            /\ sinceNow' = Never
        BY <3>2 DEF SampleFails, SampleEnds
      <4>2. QED
        BY <1>2, <1>3, <4>1, EndKeepsBoundary DEF BoundaryAtEnd
    <3>3. QED
      BY <1>7, <3>1, <3>2
  <2>5. ASSUME rejoins' = 0, previousCommitted # Never
        PROVE  previousCommitted <= committed'
    BY <1>1, <1>2, <2>5 DEF ClockInv
  <2>6. ASSUME rejoins' = 0, sinceLag # Never
        PROVE  /\ previousCommitted < Len(log')
               /\ previousCommitted = committed' =>
                    /\ BoundaryAtEnd <= sinceAdvance'
                    /\ BoundaryAtEnd <= outstandingFor' + headStart
    <3>1. /\ rejoins = 0 /\ previousCommitted \in Nat
          /\ previousCommitted <= committed /\ previousCommitted < Len(log)
          /\ previousCommitted = committed =>
               /\ BoundaryAtEnd <= sinceAdvance
               /\ BoundaryAtEnd <= outstandingFor + headStart
      BY <1>1, <1>2, <2>2, <2>6 DEF ClockInv
    <3>2. previousCommitted < Len(log')
      BY <1>1, <3>1
    <3>3. ASSUME previousCommitted = committed'
          PROVE  /\ BoundaryAtEnd <= sinceAdvance'
                 /\ BoundaryAtEnd <= outstandingFor' + headStart
      <4>1. committed' = committed /\ ~(committed' > committed) /\ ~(committed' >= Len(log'))
        BY <1>1, <2>6, <3>1, <3>2, <3>3
      <4>2. sinceAdvance' = sinceAdvance /\ outstandingFor' = outstandingFor
        BY <2>1, <4>1 DEF Witness
      <4>3. QED
        BY <3>1, <3>3, <4>1, <4>2
    <3>4. QED
      BY <3>2, <3>3
  <2>7. QED
    BY <2>1, <2>2, <2>3, <2>4, <2>5, <2>6 DEF ClockInv
<1>8. CASE ReportUnassigned
  <2>1. sinceLag' = Never /\ previousCommitted' = Never
    BY <1>8, HealthAssumption DEF ReportUnassigned, Report, LagAge, PutForward
  <2>2. QED
    BY <2>1 DEF ClockInv
<1>9. CASE ReportSample
  BY <1>9, SampleStartsClock
<1>10. QED
  BY <1>4, <1>5, <1>6, <1>7, <1>8, <1>9, ReporterKinds DEF HealthTypeOK

-----------------------------------------------------------------------------
(* Verdicts.                                                               *)

\* Without a rejoin all records in the buffer are ahead of the committed
\* offset: as many of them as the lag are all of the lag.
LEMMA SourcesCoverLag ==
  ASSUME LoaderInv, rejoins = 0,
         Lag(committed, Len(log)) <= Cardinality(BufferedSources)
  PROVE  \A o \in committed .. (Len(log) - 1) : o \in BufferedSources
<1> DEFINE Outstanding == committed .. (Len(log) - 1)
<1>1. committed \in Nat /\ Len(log) \in Nat /\ committed <= Len(log) /\ position <= Len(log)
  BY DEF LoaderInv, IInv, TypeOK
<1>2. BufferedSources \subseteq Outstanding
  <2>1. ASSUME NEW j \in DOMAIN buffer
        PROVE  buffer[j].source \in Outstanding
    <3>1. committed <= buffer[j].source /\ buffer[j].source < position
      BY DEF LoaderInv, OrderInv
    <3>2. buffer[j].source \in Nat /\ position \in Nat
      BY BufferTypes DEF LoaderInv, IInv
    <3>3. QED
      BY <1>1, <3>1, <3>2
  <2>2. QED
    BY <2>1 DEF BufferedSources
<1>3. IsFiniteSet(Outstanding) /\ Cardinality(Outstanding) = Lag(committed, Len(log))
  <2>1. /\ IsFiniteSet(Outstanding)
        /\ Cardinality(Outstanding) =
             IF committed > Len(log) - 1 THEN 0 ELSE Len(log) - 1 - committed + 1
    <3>1. committed \in Int /\ Len(log) - 1 \in Int
      BY <1>1
    <3>2. QED
      BY <3>1, FS_Interval
  <2> HIDE DEF Outstanding
  <2>2. QED
    BY <1>1, <2>1 DEF Lag
<1>4. Cardinality(BufferedSources) \in Nat /\ Lag(committed, Len(log)) \in Nat
  BY <1>1, LagTypes DEF LoaderInv, IInv
<1> HIDE DEF Outstanding
<1>5. Cardinality(BufferedSources) <= Cardinality(Outstanding)
  BY <1>2, <1>3, FS_Subset
<1>6. Cardinality(Outstanding) = Cardinality(BufferedSources)
  BY <1>3, <1>4, <1>5
<1>7. Outstanding = BufferedSources
  BY <1>2, <1>3, <1>6, FS_Subset
<1>8. QED
  BY <1>7 DEF Outstanding

\* Events other than the heartbeat of a sample give no verdict.
LEMMA NoVerdict ==
  ASSUME event' \in PlainEvents
  PROVE  VerdictInv'
<1>1. ~Heartbeats("idle")' /\ ~Heartbeats("stalled")' /\ ~Heartbeats("buffering")'
  BY DEF Heartbeats, PlainEvents
<1>2. QED
  BY <1>1 DEF VerdictInv, IdleIsDurable, StalledIsStuck, BufferingCoversLag

\* A verdict is of the moment it is reported.
LEMMA VerdictInvStep ==
  ASSUME LoaderInv, HealthTypeOK, HealthTypeOK', SampleInv, ClockInv, ClockInv', VerdictInv,
         [HealthNext]_allVars
  PROVE  VerdictInv'
<1>1. CASE UNCHANGED allVars
  BY <1>1, SameBars
     DEF allVars, vars, process, health, witness, history, VerdictInv, IdleIsDurable,
         memory, StalledIsStuck, BufferingCoversLag, Heartbeats, BufferedSources
<1>2. CASE Tick \/ ForgetStep \/ KeepStep \/ SampleBegins \/ SampleCommitted \/ SampleFails
  BY <1>2, NoVerdict, PlainMessages
     DEF Tick, ForgetStep, KeepStep, SampleBegins, SampleCommitted, SampleFails, Emit
<1>3. committed \in Nat /\ Len(log) \in Nat /\ TypeOK
  BY DEF LoaderInv, IInv, TypeOK
<1>4. CASE ReportUnassigned
  <2>1. Report(FALSE, 0, 0)
    BY <1>4 DEF ReportUnassigned
  <2>2. event'.state \notin {"stalled", "idle", "buffering"}
    BY <1>3, <2>1, ReportMeaning
  <2>3. ~Heartbeats("idle")' /\ ~Heartbeats("stalled")' /\ ~Heartbeats("buffering")'
    BY <2>2 DEF Heartbeats
  <2>4. QED
    BY <2>3 DEF VerdictInv, IdleIsDurable, StalledIsStuck, BufferingCoversLag
<1>5. CASE ReportSample
  <2>1. /\ UNCHANGED <<log, committed, table, buffer, rejoins>>
        /\ Report(TRUE, committed, Len(log))
    BY <1>5 DEF ReportSample, SampleInv, Heartbeat, history
  <2> DEFINE lag == Lag(committed, Len(log))
  <2>2. /\ lag \in Nat /\ (lag = 0 <=> Len(log) <= committed)
        /\ IsFiniteSet(BufferedSources) /\ Cardinality(BufferedSources) \in Nat
    BY <1>3, LagTypes
  <2>3. /\ event'.from = committed /\ event'.to = Len(log)
        /\ previousCommitted' = committed /\ sinceLag' = PutForward(LagAge(lag))
        /\ event'.state = "stalled" =>
             lag > 0 /\ BoundaryAge(committed, lag) = StallTicks
        /\ event'.state \in {"idle", "buffering"} => lag <= Cardinality(BufferedSources)
        /\ event'.state = "idle" => buffer = <<>>
    BY <1>3, <2>1, ReportMeaning
  <2>4. IdleIsDurable'
    <3> SUFFICES ASSUME Heartbeats("idle")'
                 PROVE  /\ buffer' = <<>>
                        /\ \A o \in 0 .. (event'.to - 1) : BarsOf(o)' \subseteq Durable'
      BY DEF IdleIsDurable
    <3>1. event'.state = "idle"
      BY DEF Heartbeats
    <3>2. BufferedSources = {}
      BY <2>3, <3>1, EmptySeq DEF BufferedSources
    <3>3. Cardinality(BufferedSources) = 0
      BY <3>2, FS_EmptySet
    <3>4. lag = 0
      <4> HIDE DEF lag
      <4>1. QED
        BY <2>2, <2>3, <3>1, <3>3
    <3>5. Len(log) <= committed
      BY <2>2, <3>4
    <3>6. \A o \in 0 .. (Len(log) - 1) : BarsOf(o) \subseteq Durable
      <4>1. \A o \in Offsets : o < committed => BarsOf(o) \subseteq Durable
        BY DEF LoaderInv, IInv, DataInv, NoLoss
      <4>2. \A o \in 0 .. (Len(log) - 1) : o \in Offsets /\ o < committed
        BY <1>3, <3>5 DEF Offsets
      <4>3. QED
        BY <4>1, <4>2
    <3>7. Durable' = Durable /\ \A o : BarsOf(o)' = BarsOf(o)
      BY <2>1, SameBars DEF BarsOf
    <3>8. QED
      BY <2>1, <2>3, <3>1, <3>6, <3>7
  <2>5. ASSUME rejoins = 0, Heartbeats("stalled")'
        PROVE  sinceAdvance' = StallTicks /\ outstandingFor' + headStart' >= StallTicks
    <3>1. lag > 0 /\ BoundaryAge(committed, lag) = StallTicks
      BY <2>3, <2>5 DEF Heartbeats
    <3>2. /\ sinceAdvance' \in 0 .. StallTicks /\ outstandingFor' \in 0 .. StallTicks
          /\ headStart' \in 0 .. StallTicks
          /\ StallTicks \in Nat /\ Never \notin Nat /\ Duration \in Nat
      BY HealthAssumption, PutForwardFacts DEF HealthTypeOK
    <3>3. sinceLag' # Never
      <4>1. LagAge(lag) \in Nat
        <5> HIDE DEF lag
        <5>1. QED
          BY <2>2, <3>1, <3>2 DEF LagAge, HealthTypeOK
      <4>2. PutForward(LagAge(lag)) \in 0 .. StallTicks
        BY <4>1, PutForwardFacts
      <4>3. QED
        BY <2>3, <3>2, <4>2
    <3>4. BoundaryAtEnd' = StallTicks
      <4>1. BoundaryAtEnd' = PutForward(StallTicks)
        BY <1>5, <2>5, <3>1, <3>3, SampleStartsClock
      <4>2. PutForward(StallTicks) = StallTicks
        BY <3>2, PutForwardFacts DEF AtMost
      <4>3. QED
        BY <4>1, <4>2
    <3>5. StallTicks <= sinceAdvance' /\ StallTicks <= outstandingFor' + headStart'
      <4>1. rejoins' = 0 /\ previousCommitted' = committed'
        BY <2>1, <2>3, <2>5
      <4>2. BoundaryAtEnd' <= sinceAdvance' /\ BoundaryAtEnd' <= outstandingFor' + headStart'
        BY <3>3, <4>1 DEF ClockInv
      <4>3. QED
        BY <3>4, <4>2
    <3>6. sinceAdvance' = StallTicks
      BY <3>2, <3>5
    <3>7. outstandingFor' + headStart' >= StallTicks
      BY <3>2, <3>5
    <3>8. QED
      BY <3>6, <3>7
  <2>6. ASSUME rejoins = 0, Heartbeats("buffering")'
        PROVE  \A o \in event'.from .. (event'.to - 1) : o \in BufferedSources'
    <3>1. lag <= Cardinality(BufferedSources)
      BY <2>3, <2>6 DEF Heartbeats
    <3>2. \A o \in committed .. (Len(log) - 1) : o \in BufferedSources
      BY <2>6, <3>1, SourcesCoverLag
    <3>3. BufferedSources' = BufferedSources
      BY <2>1 DEF BufferedSources
    <3>4. QED
      BY <2>3, <3>2, <3>3
  <2>7. QED
    BY <2>1, <2>4, <2>5, <2>6 DEF VerdictInv, StalledIsStuck, BufferingCoversLag
<1>6. QED
  BY <1>1, <1>2, <1>4, <1>5, ReporterKinds DEF HealthTypeOK

-----------------------------------------------------------------------------
(* The theorems.                                                           *)

\* The invariant of loader and reporter (LoaderHealthReporter.maybeHeartbeat)
\* holds in every reachable state.
THEOREM HealthInvariant == HealthSpec => []HealthInv
<1>1. HealthInit => HealthInv
  <2> SUFFICES ASSUME HealthInit
               PROVE  HealthInv
    OBVIOUS
  <2>1. HealthTypeOK
    <3>1. Silence \in Event /\ HeartbeatTicks \in Nat /\ StallTicks \in Nat
      BY PlainMessages, HealthAssumption DEF PlainEvents
    <3>2. /\ 0 \in 0 .. HeartbeatTicks /\ 0 \in 0 .. StallTicks
          /\ StallTicks \in 0 .. StallTicks
      BY <3>1
    <3>3. QED
      BY <3>1, <3>2 DEF HealthInit, HealthTypeOK
  <2>2. SampleInv /\ ClockInv
    BY DEF HealthInit, SampleInv, ClockInv
  <2>3. Silence.name = "none"
    BY DEF Silence, Message
  <2>4. VerdictInv
    BY <2>3 DEF HealthInit, VerdictInv, IdleIsDurable, StalledIsStuck, BufferingCoversLag,
                Heartbeats
  <2>5. QED
    BY <2>1, <2>2, <2>4 DEF HealthInv
<1>2. LoaderInv /\ LoaderInv' /\ HealthInv /\ [HealthNext]_allVars => HealthInv'
  <2> SUFFICES ASSUME LoaderInv, LoaderInv', HealthInv, [HealthNext]_allVars
               PROVE  HealthInv'
    OBVIOUS
  <2>1. HealthTypeOK'
    BY HealthTypesStep DEF LoaderInv, IInv, HealthInv
  <2>2. SampleInv' /\ ClockInv'
    BY <2>1, SampleInvStep, ClockInvStep DEF HealthInv, LoaderInv, IInv
  <2>3. VerdictInv'
    BY <2>1, <2>2, VerdictInvStep DEF HealthInv
  <2>4. QED
    BY <2>1, <2>2, <2>3 DEF HealthInv
<1>3. QED
  BY <1>1, <1>2, LoaderInvariant, PTL DEF HealthSpec

\* The reporter's ages stay below their thresholds, and each event has the
\* fields and values a consumer of the log expects.
THEOREM HealthTypeCorrectness == HealthSpec => []HealthTypeOK
<1>1. HealthInv => HealthTypeOK
  BY DEF HealthInv
<1>2. QED
  BY <1>1, HealthInvariant, PTL

\* An idle heartbeat is a promise about the table, also after a rejoin.
THEOREM IdleMeansDurable == HealthSpec => []IdleIsDurable
<1>1. HealthInv => IdleIsDurable
  BY DEF HealthInv, VerdictInv
<1>2. QED
  BY <1>1, HealthInvariant, PTL

\* Until a consumer rejoins, "stalled" is never said of an offset that moved
\* within the threshold, nor of a topic that was caught up with within it, less
\* the time the sample that first saw the lag waited for its answers.
THEOREM StalledMeansStuck == HealthSpec => [](rejoins = 0 => StalledIsStuck)
<1>1. HealthInv => (rejoins = 0 => StalledIsStuck)
  BY DEF HealthInv, VerdictInv
<1>2. QED
  BY <1>1, HealthInvariant, PTL

\* Until a consumer rejoins, "buffering" means that all of the lag is in the
\* batch, although the reporter only compares two numbers.
THEOREM BufferingMeansCovered == HealthSpec => [](rejoins = 0 => BufferingCoversLag)
<1>1. HealthInv => (rejoins = 0 => BufferingCoversLag)
  BY DEF HealthInv, VerdictInv
<1>2. QED
  BY <1>1, HealthInvariant, PTL

\* Only a failed flush says anything of the commit to the table.
LEMMA StatusOfEvents ==
  /\ Silence.iceberg = "absent" /\ LoaderFailed.iceberg = "absent"
  /\ \A name, state : Message(name, state).iceberg = "absent"
  /\ \A i, o : CommitFailed(i, o).iceberg = i
<1>1. \A name, state : Message(name, state).iceberg = "absent"
  BY DEF Message
<1>2. \A i, o : CommitFailed(i, o).iceberg = i
  BY DEF CommitFailed, Message
<1>3. QED
  BY <1>1, <1>2 DEF Silence, LoaderFailed

\* What commit_failed says of the table is true in the very step that ends
\* the process: rows that are called committed are durable bars, and a table
\* that is called untouched is.
THEOREM IcebergStatusIsTold == HealthSpec => IcebergStatusIsTrue
<1> DEFINE Told == /\ event'.iceberg = "not_committed" => table' = table
                   /\ event'.iceberg = "committed" =>
                        \A j \in 1 .. BatchSize : Bar(buffer[j]) \in Durable'
<1>1. ASSUME LoaderInv, HealthInv, HealthNext
      PROVE  Told
  <2>1. assigned \in BOOLEAN /\ committing \in BOOLEAN
    BY <1>1 DEF HealthInv, HealthTypeOK
  <2>2. CASE HWriteDataFileFails
    <3>1. event'.iceberg = "not_committed" /\ table' = table
      BY <2>2, StatusOfEvents DEF HWriteDataFileFails, WriteDataFileFails, Emit
    <3>2. QED
      BY <3>1
  <2>3. CASE HCommitTableFails
    <3>1. \/ event'.iceberg = "not_committed" /\ table' = table
          \/ event'.iceberg = "unknown"
      BY <2>3, StatusOfEvents DEF HCommitTableFails, Emit
    <3>2. QED
      BY <3>1
  <2>4. CASE HCommitOffsetsFails
    <3>1. /\ event'.iceberg = "committed"
          /\ stage = "offsets" /\ log' = log /\ table' = table
      BY <2>4, StatusOfEvents DEF HCommitOffsetsFails, CommitOffsetsFails, Emit
    <3>2. BatchSize \in 1 .. Len(buffer) /\ DOMAIN buffer = 1 .. Len(buffer)
            /\ Len(buffer) \in Nat
      BY <1>1, <3>1, BatchOfFlush
         DEF LoaderInv, IInv, LoopInv, Flushing, TypeOK
    <3>3. \A j \in 1 .. BatchSize : Stored(Bar(buffer[j]))
      BY <1>1, <3>1 DEF LoaderInv, IInv, DataInv, BatchStored
    <3>4. \A j \in DOMAIN buffer : Bar(buffer[j]) \in Published
      BY <1>1 DEF LoaderInv, IInv, DataInv, OnlyPublished
    <3>5. Durable' = Durable
      BY <3>1, SameBars
    <3> HIDE DEF BatchSize
    <3>6. 1 .. BatchSize \subseteq DOMAIN buffer
      BY <3>2
    <3>7. QED
      BY <3>1, <3>3, <3>4, <3>5, <3>6 DEF Durable
  <2>5. CASE event'.iceberg = "absent"
    BY <2>5
  <2>6. CASE QuietStep \/ HStart \/ Vanish \/ FailOutsideFlush \/ HPoll
    <3>1. CASE QuietStep \/ HStart
      <4>1. event' = Silence \/ \E name, state : event' = Message(name, state)
        BY <3>1 DEF QuietStep, HStart, Quiet, Emit
      <4>2. QED
        BY <2>5, <4>1, StatusOfEvents
    <3>2. CASE Vanish \/ FailOutsideFlush \/ HPoll
      <4>1. event' \in {Silence, LoaderFailed}
        BY <3>2 DEF Vanish, FailOutsideFlush, HPoll, Emit
      <4>2. QED
        BY <2>5, <4>1, StatusOfEvents
    <3>3. QED
      BY <2>6, <3>1, <3>2
  <2>7. CASE Tick \/ HWriteDataFile \/ HCommitOffsets \/ HeartbeatNotDue
             \/ SampleBegins \/ SampleCommitted \/ SampleFails
    <3>1. event' = Silence \/ \E name, state : event' = Message(name, state)
      BY <2>7
         DEF Tick, HWriteDataFile, HCommitOffsets, HeartbeatNotDue, SampleBegins,
             SampleCommitted, SampleFails, Quiet, Emit
    <3>2. QED
      BY <2>5, <3>1, StatusOfEvents
  <2>8. CASE ReportUnassigned \/ ReportSample
    <3>1. Len(log) \in Nat /\ TypeOK
      BY <1>1 DEF LoaderInv, IInv, TypeOK
    <3>2. HealthTypeOK /\ sampled \in Nat \union {Never}
      BY <1>1 DEF HealthInv, HealthTypeOK
    <3>3. PICK initialized \in BOOLEAN, from \in Nat, to \in Nat :
            Report(initialized, from, to)
      BY <2>8, <3>1, <3>2 DEF ReportUnassigned, ReportSample
    <3>4. event'.iceberg = "absent"
      BY <3>1, <3>2, <3>3, ReportMeaning
    <3>5. QED
      BY <2>5, <3>4
  <2>9. QED
    BY <1>1, <2>2, <2>3, <2>4, <2>6, <2>7, <2>8 DEF HealthNext, LoaderStep
<1>2. LoaderInv /\ HealthInv /\ [HealthNext]_allVars => [Told]_allVars
  BY <1>1
<1>3. QED
  BY <1>2, LoaderInvariant, HealthInvariant, PTL DEF HealthSpec, IcebergStatusIsTrue
=============================================================================
