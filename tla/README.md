# A TLA+ development of the Alpaca streaming lakehouse

This directory holds TLA+ models of the program in this repository, the TLC
configurations that check them on small instances, and theorems about them
whose proofs TLAPS checks. File and line references are relative to the
repository root unless a comment says otherwise.

## 1. The system

    Alpaca WebSocket --> extractor (Rust, wsr) --> Tansu (Kafka protocol, SQLite,
      one partition) --> loader (Java) --> Iceberg table in a HadoopCatalog
    compaction (Spark) rewrites the table; the exporter reads logs and metadata
    and publishes a document that the dashboard page renders.

| Component | State it keeps | Operations | Talks to |
|---|---|---|---|
| Extractor session (`websocket-extractor-rust/src/ws.rs`) | attempt counter, backoff, the frame it is sending | connect and handshake, forward a frame, reconnect, give up | producer task through a bounded channel, everybody through a cancellation token |
| Producer task (`kafka.rs`) | frames in flight, draining flag | take, enqueue, settle a delivery, drain | broker through librdkafka |
| Watchdog and metrics (`metrics.rs`, `main.rs`) | counters, time of the last frame, the token | cancel on silence or on a signal, tear down | both tasks |
| Broker (Tansu, external) | log of one partition, committed offset of a group | append, fetch, commit | |
| Loader (`Main`, `BoundedBatch`, `BatchWindow`, `IcebergWriter`, `AlpacaBar`) | fetch position, pending bars with their sources, window, running flag | poll, add, flush = append + commitSync, stop | broker, table |
| Health reporter (`LoaderHealthReporter`) | ages of heartbeat, lag and progress, last sample | sample, infer the state, report commits and failures | broker (two calls per sample), log |
| Compaction (`scripts/submit_compaction.py`, `iceberg-maintenance/compact_table.py`) | expected snapshot, metrics before and after | quiet window, fence, rewrite, check, receipt | table, concurrently with the loader and with other runs |
| Exporter (`dashboard/export_metrics.py`) | none between runs | query, pair, summarise, judge | the logs of extractor and loader, table metadata, costs |
| Local stack (`scripts/run_local_loader.sh`, `run_local_stack.py`, `tansu_sqlite.py`) | lock file, container, child processes, unread output | start a broker, a loader behind its lock, a duplicate that must be refused, a producer; wait, tear down, inspect | docker, flock, loader, broker, table |
| Services (`deployment/native`) | unit states | start, stop, restart | all processes |
| Page, terraform, log agent, settings and bar model of the Python package, notebooks | | | not part of the core logic |

Which behaviours are hard, and what makes each component correct:

* **Loader.** Two stores are written one after the other and the process may
  die, or be told that a write failed when it did not, at every point. A frame
  may have no bar, one, or more than a batch; a batch may hold many frames.
  The loader is correct when it commits no offset below which a bar is missing
  from the table, leaves no gaps, bounds duplicates, and never keeps the last
  bars of a session to itself.
* **Health reporter.** Its verdicts are computed from samples of two values
  read one after the other, and an operator acts on them. Correct when idle,
  buffering, stalled and the status fields of a failure are true of the broker
  and the table.
* **Extractor.** Three tasks, two limits, a token that anybody may cancel at any
  moment, deliveries that resolve in any order. Correct when every frame is
  accounted for, memory is bounded, nobody waits for ever, the process ends
  when it is asked to, and gives up when it should.
* **Compaction.** Check-then-act on a table that others write, with reads that
  may all be out of date. Correct when a receipt vouches for what it names: the
  rows of an undisturbed table in fewer files.
* **Exporter.** Four questions to two logs, one after the other, each with a limit
  and a window, while the pipeline goes on; sessions and processes restart, end
  without a word, and share the window. Correct when the badge is never better
  than the pipeline, no failure is hidden, and commits are paired with their own
  batches.
* **Local stack.** An advisory lock that is inherited by a child, a probe that
  takes it, runs that share a port, a container name and perhaps a directory.
  Correct when there is one writer, and when a run that passes tested its own
  loader.

`PROJECT.json` lists every component with its status and every hazard with its
line and the properties that cover it.

## 2. Modules

| Module | Models |
|---|---|
| `DurableDelivery` | abstract: frames are published, bars become durable in stream order, an offset is acknowledged only above durable bars |
| `Loader` | the process of `Main.main`: every statement group of the loop and of `flush`, with crashes, failures, SIGTERM, rejoins |
| `LoaderProofs` | theorems about `Loader`: what is durable, what is committed, the refinement; frames that do not decode, order of offsets, duplicates |
| `LoaderHealth` | `Loader` with `LoaderHealthReporter` conjoined to each of its steps |
| `LoaderHealthProofs` | theorems about `LoaderHealth` |
| `FrameHandover` | abstract: an accepted frame is pending, is recorded only while pending, and is confirmed, given up or dropped once |
| `Extractor` | `ws::run`, `stream_frames`, `producer_task`, `watchdog`, signals and teardown |
| `ExtractorProofs` | theorems about `Extractor` |
| `Pipeline` | `FrameHandover` and `Loader` over one topic: extractor processes, one after the other, and a loader |
| `PipelineProofs` | theorems about `Pipeline` |
| `Compaction` | `submit_compaction.py` and `compact_table.py`, several runs against a loader |
| `CompactionProofs` | theorems about `Compaction` |
| `MarketClock` | `market_state`: states of the market and its next opening, as functions of an instant |
| `Dashboard` | `export_metrics.py` over the logs of an abstract pipeline that goes on while it reads |
| `DashboardProofs` | theorems about `Dashboard` and `MarketClock` |
| `LocalStack` | `run_local_stack.py` with `TansuSqlite`, `run_local_loader.sh`, and loaders, several runs at once |
| `LocalStackProofs` | theorems about `LocalStack` |
| `NumberFacts` | lemmas about natural numbers, finite sets and sums over them that several proofs need |
| `MCLoader`, `MCLoaderHealth`, `MCExtractor`, `MCPipeline`, `MCCompaction`, `MCDashboard`, `MCLocalStack` | small instances for TLC |

### Loader

`log`, `committed` and `table` are outside the process; everything else dies
with it (`ProcessGone`). `stage` is the program counter of the main thread:

| `stage` | next statement group | code |
|---|---|---|
| `poll` | loop condition and `consumer.poll`, decode, `batch.add` | `Main.java:61-70` |
| `write` | `writer.append` up to the data file | `IcebergWriter.java:61-81` |
| `commit` | the Iceberg commit | `IcebergWriter.java:82-98` |
| `offsets` | `commitSync`, then what the caller of `flush` does next | `Main.java:109-131` |
| `timeout` | window check | `Main.java:79-83` |
| `heartbeat` | `maybeHeartbeat` | `Main.java:84` |
| `down` | no process | |

A frame is the number of its bars, or `Poison` when `decodeFrame` throws. A bar
is the pair of its frame's offset and its index, so losing, doubling and
reordering bars can be told apart, and prices cannot. `buffer` holds the full
batches that `add` returned followed by `pending`; since `add` cuts at every
multiple of `MaxRecords`, `BatchSize` recovers the batch `flush` was given from
the call site. `Crash` stands for every failure without a label of its own.

`JvmHalts` is the point where the documentation and the code part: once the
hook of `Main.java:50` has returned, the JVM may halt whatever the main thread
is doing. Everything else in the model holds with that action present.

### LoaderHealth

Each action of `Loader` is conjoined with what the reporter does on it: the
actions named H..., and those that do not call it (`QuietStep`). A sample is
three steps, between which the producer, the clock, the coordinator or a crash
may step in:

| Step | Code |
|---|---|
| `SampleBegins` | `now` is read and the sample is due (`LoaderHealthReporter.java:137-141`) |
| `SampleCommitted` | `committed()` (`:176`) |
| `ReportSample`, `SampleFails` | `endOffsets()` (`:183`) and the rest, or a call that throws (`:142-170`) |

An instant such as `positiveLagSince` is represented by its age in ticks,
saturating at the threshold it is compared with, so the clock needs no bound.
What a sample compares with, and stores, is `now` and not the moment it ends:
while it is under way `sinceNow` grows and the ages of the stall clock stay what
they were at `now`; when it ends they, those of instants it has just set
included, are put forward by its duration (`PutForward`). `event` is what the
last step emitted. `sinceAdvance` and `outstandingFor` are history: what an
observer of the broker itself would have measured. So is `headStart`: the
duration of the sample that started the stall clock.

### Extractor

A step is what a task does between two awaits. `ws`, `attempt`, `backoff`,
`connected`, `held`, `outcome` belong to the foreground, `producer`, `draining`,
`taken`, `inflight` to the producer task. Frames are numbered as received. An
attempt awaits `connect_async` first (`ws = "connecting"`, `ws.rs:128`), which
has no time limit: it returns a socket (`Connects`), an error (`SetupFails`), or
nothing for ever. The three exchanges that follow (`ws = "handshake"`) are one step
with three results: connected, refused by the server (fatal), anything else
(transient). Neither looks at the token. Time is two facts:
a backoff ends, and `quiet`: no data frame for `DATA_IDLE_TIMEOUT`. The arm for a
closed channel in `producer_task` is not modelled: the token is cancelled before
the last sender is dropped, and the select is biased towards the token.

### Pipeline

The variables of `FrameHandover`, those of `Loader`, and `content`: what is in each
frame. The extractor sees the topic as the numbers of frames (`topic`), the
loader as their contents (`log`); `RecordFrame` appends to both and is, for the
loader, its `Publish`. `RestartExtractor` is the death of a process anywhere
(`SIGKILL`, out of memory) and the start of the next by systemd or its timer: what
was in memory is lost, and the counters, which begin at zero in each process, are
summed. Everything else is a step of one side. That the extractor of this module
may be the abstract one is what `Implementation` in `ExtractorProofs` says.

### Compaction

The table is the sequence of its snapshots; a version is an index into it. A
snapshot counts its files, and its rows in appends: an append has at least one
row, so two `total-records` differ exactly when the numbers of appends do. A run
goes through the stages `preflight`, `window`, `passed` (`submit_compaction.py`),
`measured`, `fenced`, `rewriting`, `rewritten`, `compacted`, `remeasured`
(`compact_table.py:87-114`) and ends in `succeeded`, with a receipt, or in
`ended`, without. Every read is a step of its own and may be out of date in the
ways the head of the module lists: the hint may lag, a query of a session sees
its cached table or anything since, and `NewestByClock` is the snapshot with
the latest `committed_at`, which is not the current one when a writer's clock is
behind (`behind`). A commit goes on top of the latest version; that of a rewrite
is refused when files of its plan are gone (`FilesLeft`). What Iceberg and Spark
do is taken from how these two scripts use them.

A rewrite that reports failed files ends the run at line 107 at the latest, which
`Fail` covers.

Nothing excludes a second run on the same snapshot. It can then happen that a run
that rewrote nothing finds another snapshot, the same total and fewer files, all
of them the other run's work, and writes a receipt; the last disjunct of
`ReceiptIsEarned` is this exception, and `PROJECT.json` lists it as a hazard.

### Dashboard and MarketClock

The pipeline is what it writes to the two logs. An extractor session logs
`metrics` with the time of its last bar, an idle warning, other warnings and
errors, and `final metrics`, unless it is killed; a loader process logs the events
of `LoaderHealthReporter` and may be killed or stopped anywhere, between the
Iceberg commit and its report too. An entry is named by its position: log
timestamps order entries, while what is published is cut to the second, so that
several entries share an instant. `Entry` keeps of a log line what the exporter
reads.

| `exporter.step` | next statement group | code |
|---|---|---|
| 0 | no run | |
| 1 to 4 | one question each (`ReadLogs`, `ReadFails`) | `export_metrics.py:149-169` |
| 5 | `Publish`: the table, `build_snapshot`, the file | `export_metrics.py:869-899` |

`ExtractorSummary`, `LoaderSummary`, `Pending`, `Unresolved`, `Health` translate
`build_snapshot` and what it calls. `Pending` says in one expression what the loop
over the sorted events has in `pending[process]` when it meets a success. A read
of the table may fail, which still publishes a document; a failed question
publishes nothing. `seen` is history: the length of the logs when the run began,
from which on an entry may be missed.

`MarketClock` counts minutes from a Monday at midnight UTC and has one change
of the offset of New York, at `Shift`; `MarketDay` is its reference: the next
opening is an opening, lies ahead, and none lies between. That the change is within
the hours of one Sunday, in both offsets, is the rule of New York in the time zone
database, and an assumption of the module (`ClockChangeAssumption`).

### LocalStack

A run is `run_local_stack.py`, and `stage[r]` its program counter:

| `stage` | next statement group | code |
|---|---|---|
| `new`, `broker` | `TansuSqlite.start` | `tansu_sqlite.py:55-73` |
| `topic` | `ensure_topic`, start of the loader | `run_local_stack.py:96-104` |
| `lock`, `probe` | `wait_for_writer_lock` | `run_local_stack.py:28-42` |
| `duplicate`, `refusal` | the second loader | `run_local_stack.py:109-119` |
| `feed` | `publish` or `start_wsr` | `run_local_stack.py:120-125` |
| `wait` | the loop over the output | `run_local_stack.py:126-143` |
| `teardown` | the inner `finally` | `run_local_stack.py:144-157` |
| `inspect` | `TableInspector` and the count | `run_local_stack.py:158-172` |
| `stop` | `TansuSqlite.stop` | `tansu_sqlite.py:75-85` |
| `passed`, `failed` | the end | |

`failing[r]` is an exception on its way through the `finally` clauses. All runs
share the port, and hence the name of the container; the broker stores in the
directory of the run whose container it is (`Storage`), so that a run may well
talk to the broker of another. `frames` and `committed` are what it stores, per
directory. A process of `run_local_loader.sh` is launched, then refused by flock
or polling. flock(1) waits for java and keeps nothing for itself: what the script
terminates is flock, so a loader that has the lock goes on (`Teardown` ends only
one that has not got there). `pipe` and `buffer` are the two places in which a line
of the loader may wait; `select` looks at the first and `readline` at the second.

A run is refused, times out or fails at every point where the code can, and the
producer of the WSR source may send as long as the run waits. The interruption of
the script itself by a signal is not modelled.

## 3. What TLC checks

| Run | Specification | Result |
|---|---|---|
| `loader` | fair; crashes, failures, doubts, rejoin, poison | all invariants, `OffsetsMonotone`, refinement of `DurableDelivery` hold; unless a frame does not decode, every bar becomes durable and the committed offset passes it |
| `graceful_stop` | fair | **violated**: a stop need not flush |
| `health_safety` | fair; no rejoin; time passes within samples | what the events say is true, a stall alert being early by no more than one sample takes; a stuck loader is reported |
| `extractor_safety` | five frames, four errors | accounting, bounded memory; attempts and backoff follow the errors in a row; refinement of `FrameHandover`, no early loss |
| `extractor_liveness` | fair; with and without watchdog | a cancelled token, or a silent feed under a watchdog, ends a process that does not wait for ever in `connect_async`; no frame is stuck in memory |
| `extractor_drain` | | **violated**: queued frames are dropped |
| `extractor_exit_status` | | **violated**: nonzero exit after a signal |
| `pipeline_safety` | two frames, three records; both sides crash | every accepted frame is counted, in the topic or in the table |
| `compaction_safety` | two runs, a loader | a receipt means an undisturbed table and fewer files |
| `dashboard_safety` | two sessions, two processes, one document | badge, failures, commit history, shutdown, table and market of a document are right |
| `dashboard_failures` | | **violated**: a failed commit is not counted |
| `local_stack_safety` | two runs on one directory, one of each source | one writer; a run that passes tested its own loader |

The violated runs state a sentence of the documentation or of a comment; the
findings of `PROJECT.json` quote it. None of them loses a bar for good in the
loader: `NoLoss` holds in the same model. The dropped frames of the extractor
are gone.

What was met while modelling and has no run of its own:

* "It returns when the shutdown token fires" (`main.rs:70-71`) is not so of an
  attempt in `connect_async` (`ws.rs:128`): a peer that accepts the connection and
  says no more keeps the process up, after a signal and after the watchdog. The
  model has this behaviour (nothing is assumed of `Connects`), and
  `StopsUnlessConnecting` and `SilentFeedStops` name it as the only exception.
  Without the exception TLC refutes both under `FairSpec`.
* "The stall clock starts when lag first becomes positive"
  (`loader-health-monitoring.md:95`): it starts at the `now` of the sample that
  first sees the lag, which was read before the broker was asked
  (`LoaderHealthReporter.java:137`, `:219`). A record published while that sample
  waits is younger than its clock, and "stalled" may come early by as much as the
  sample took. It does in `health_safety`: `StalledIsStuck` without `headStart`
  fails there.
* `MAX_RETRIES`, `BACKOFF_MAX` and `MAX_INFLIGHT` are parsed as unsigned numbers and
  not validated (`config.rs`), so that 0 is a setting. The limit of attempts is
  looked at when there is an error: with 0 the first error ends the loop, the loss
  of a connection included. A cap of 0 does not apply to the first backoff, which
  takes a second. With `MAX_INFLIGHT = 0` the producer task never takes a frame: the
  channel fills up and the reader waits until the process is stopped.
* A process that fails outside a flush reports `starting`
  (`LoaderHealthReporter.java:126`), and a `commitSync` that throws after the
  broker applied it reports `not_committed` (`Main.java:122-127`).
* What a heartbeat says is not true after every rejoin, which is why
  `health_safety` has none and the theorems `BufferingMeansCovered` and
  `StalledMeansStuck` of section 4 say `rejoins = 0`. No rebalance listener
  clears the batch (`Main.java:56`): after a rejoin old entries are flushed in
  front of the same records read again. The batch then counts records that are
  committed already, and `inferState` compares numbers
  (`LoaderHealthReporter.java:243`): "buffering" with the outstanding record not
  in the batch. And the committed offset moves back with the next commit, so that
  an advance which ends where the last sample saw it is not noticed (`:205`):
  "stalled" in the tick in which the offset advanced. TLC shows both under
  `HealthSpec` with `FrameKinds = {1}`, `MaxRecords = 3`, `MaxSessions = 2`,
  `MaxRejoins = 1` and `MaxLog` 2 and 3. The second was found by the proof, whose
  step for a commit needs an offset that only moves forward.
* A frame that does not decode also holds back the bars in front of it that do not
  fill a batch: the exception leaves `main` without a flush (`Main.java:90`), the
  next process reads them again and meets the same frame, unless the window
  of the partial batch ends first. `EventuallyDurable` therefore speaks of a topic
  all of whose frames decode, the ones behind the bar included.
* Two sessions in the window of the exporter mix their reasons: an idle warning
  of the earlier one makes the shutdown of the later one an `idle_window`
  (`export_metrics.py:383-397`).
* 36 hours do not reach from a Sunday evening back to Friday's session, which the
  page "preserves" (`docs/runbooks/public-dashboard.md:63-64`): the status becomes
  `unknown`.
* With a metrics line a minute the 500 entries of the extractor span about
  eight hours, so the newest session, not the window, is what a run sees.
* A run of the local stack may fail although its loader has committed: the line
  it waits for came together with the one before it and sits in the buffer of
  `readline`, at which `select` does not look (`run_local_stack.py:130-135`).
  `ReadLine` models this; nothing passes wrongly because of it.

**Bounds, and why they are enough.**

* Batch size 2, three frames of 0, 1 or 3 bars (or poison): a frame that spans
  batches, batches that span frames, an exact fit, an empty frame at the head, in
  the middle and at the tail all occur. Three sessions, one of them possibly a
  rejoin: two crashes in a row, a crash during the replay of a crash, a rejoin
  followed by a crash. `MaxSessions` bounds the disturbances: none happens in
  the last session, which is how "disturbances end" is stated for liveness.
* Pipeline: a frame that fits a batch, one that does not, one that does not
  decode; two frames, one of which may be recorded twice; two sessions of the
  loader, any number of extractors. The two sides meet in the topic only.
* Health: heartbeat every tick, stall after two: a lag can begin, be sampled,
  age with and without progress in between, and a sample may take longer than
  either limit (`Horizon` is the larger of the two; beyond it `sinceNow` has
  nothing more to tell). The batch of three holds one frame of two bars and part of
  a second.
* Extractor: channel of one, two in flight, five frames: one more than channel,
  flight and reader can hold, so that `MemoryIsBounded` can fail. Three retries
  and four errors: giving up at once, or after the loss of a connection; the
  third backoff reaches the cap of 3. `MaxLog` bounds what the broker appends,
  retries of librdkafka included. The liveness run has both settings of the
  watchdog, because a watchdog that ends the process also ends every jam.

* Compaction: two runs, alike up to renaming (hence the symmetry, sound because
  no liveness is checked). One or two files before, one append meanwhile: enough
  for a decrease, for an append that hides one, and for an append in every gap
  between two steps of a run. Five versions leave room for the append and three
  commits of the runs; one of them may have a timestamp that is behind.

* Dashboard: instants on a Friday at which signals are fresh, aging and stale,
  before and at the close. The limits of the questions are scaled down to 2, 1, 3
  and 1: three commit entries cut a pair in two, two extractor entries hide an
  earlier session. Five entries, those of the extractor counting twice, and two of
  them while a run reads: enough for start, success, start, success of two
  processes cut by the limit, a restart between two questions, a failure on
  either side of a commit. Batches differ in size, so that a wrong pairing shows.
  A run ends within the instant it began: it takes seconds, the instants are
  minutes apart. `OneRun` looks at one document; a run keeps nothing from the one
  before. `MarketDayIsRight` evaluates every minute of the ten days around a
  change of the hour. A commit whose version hint is never written does not
  happen here: `TableCoversCommits` is about the order of the reads.
* Local stack: two runs cover every pair of an earlier and a later user of
  container, lock, topic and table, with their duplicates and probes four
  processes. They share one directory, where all of them meet; with separate
  directories only the broker is shared. One frame by the WSR producer beside the
  one of the synthetic source. The broker fails by itself only before it listens;
  after that a run that stops it takes it away. `flush` output other than its two
  last lines is left out.

**Fairness, and why the code justifies it.**

* Loader: the main thread keeps executing (weak fairness of its steps; `Start`
  is among them because systemd restarts the unit after a failure and an
  operator after a stop); time passes; a JVM whose hooks have returned halts.
  `PollRecord` alone is strongly fair: a poll may return nothing although the
  broker has a record, but not for ever.
* Health: in addition the clock, and samples that succeed now and then. Nothing
  obliges any sample in particular to succeed.
* Extractor: the runtime polls a task that can go on. With a socket, the handshake
  ends one way or the other: each `expect` awaits one frame within `TIMEOUT`
  (`ws.rs:206-208`), and what is sent in between are two short messages, which the
  socket's buffer takes. Nothing obliges `connect_async` to return, and nothing
  obliges the server to send a frame or an error. librdkafka resolves each
  delivery (`message.timeout.ms`), and the select prefers completions to new
  frames: strong fairness of `Settle`.

Deadlock checking is off where a process really ends: after the extractor has
exited, after the loader has used up its sessions on a frame that does not decode,
when all compaction runs or all runs of the local stack are over, and at the last
instant of the dashboard.

## 4. What is proved

`LoaderProofs` proves for all values of the constants (any batch size, any set
of frame sizes, any number of frames, sessions and rejoins), from
`LoaderAssumption` alone (`MaxRecords` positive, as the constructor of
`BoundedBatch` demands; `Poison` not a number; the bounds natural numbers):

| Theorem | Establishes |
|---|---|
| `InductiveInvariant` | `Spec => []IInv` |
| `TypeCorrectness` | `Spec => []TypeOK` |
| `CommittedIsDurable` | `Spec => []NoLoss` |
| `NoGaps` | `Spec => []TableHasNoGaps` |
| `BatchesAreBounded` | `Spec => [](BoundedFiles /\ WindowTracksBuffer)` |
| `Implementation` | `Spec => DeliverySpec`, the refinement |

The argument. `NoLoss` is not inductive: the next commit advances the offset
past frames some of whose bars were stored by earlier batches, so one has to
know where every bar read so far is. `DataInv` says so: whatever lies below
the fetch position is in the table or in the buffer (`NothingDropped`), what
precedes a buffered bar in the stream is in the table or ahead of it in the
buffer (`BufferInOrder`), and between the two commits the whole batch is in the
table (`BatchStored`). `BufferInOrder` is stated with "in the table or ahead"
rather than with increasing offsets because after a rejoin the buffer holds old
entries followed by the same frames read again. Then an offset that is committed
is that of a final bar in the stored batch, everything before that bar is
stored, and `NoLoss` follows; appending a prefix of the buffer keeps the table
free of gaps. `LoopInv` provides what the argument needs of the control: that a
flush has a batch of the size its call site implies.

For the refinement, a step of the loader either publishes, adds a prefix of the
buffer to the table (`TableStepStores`), moves the committed offset
(`OffsetStepAcknowledges`) or changes nothing the abstract module sees.

From the same assumption it proves of redelivery:

| Theorem | Establishes |
|---|---|
| `PoisonIsNeverPassed` | `Spec => []PoisonBlocks` |
| `OffsetsMoveBackOnlyAfterRejoin` | `Spec => OffsetsMonotone`, an action property |
| `SessionsBoundDuplicates` | `Spec => []BoundedDuplication` |

`PoisonInv` says of a frame that does not decode that offset, position, buffer and
table are all before it. `OrderInv` holds until a rejoin: the buffer is a stretch
of the topic, in order, from the committed offset on and before the position.
What a flush commits follows a final entry, and the entries that stay follow that
entry, in another frame. `RedeliveryInv` counts, for each bar, its rows, its
entries that no data file has yet, and the session if the bar is still ahead of
it: the sum never exceeds the number of sessions. A poll turns the third into the
second, an append the second into the first, a crash only takes away. Counting
rows needs them to be finite, which `BoundedFiles` provides; that the rest of the
buffer moves to the front is an injection.

`LocalStackProofs` proves for any number of runs, any sharing of directories, any
sources, from `LocalStackAssumption` (what the constants are, and that `NoOne` is
neither a run nor a process):

| Theorem | Establishes |
|---|---|
| `TypeCorrectness` | `Spec => []TypeOK` |
| `OnlyOneWriter` | `Spec => []OneWriter` |
| `PassingRunsAreGenuine` | `Spec => []PassedMeansOwnLoader` |

`OneWriter` follows from `LockInv`: whoever writes holds the lock of its directory,
which is one process; the probe is in it because its release would otherwise free
the lock of somebody else. `PassedMeansOwnLoader` needs `WitnessInv`, which
follows the evidence through the places it passes: a loader past its append has
written; a line `received` in the pipe or in the buffer of `readline` says that it
has; hence it has when the run leaves its loop without an exception; and the
inspection, which finds one commit, can only have found that one. Nothing there
rests on the lock: the count alone rules out that another writer came first.

`LoaderHealthProofs` proves from `LoaderAssumption` and `HealthAssumption` (both
intervals positive, as configured; `Never` not a number):

| Theorem | Establishes |
|---|---|
| `HealthImplementsLoader` | `HealthSpec => Spec` |
| `HealthTypeCorrectness` | `HealthSpec => []HealthTypeOK` |
| `IdleMeansDurable` | `HealthSpec => []IdleIsDurable` |
| `StalledMeansStuck` | `HealthSpec => [](rejoins = 0 => StalledIsStuck)` |
| `BufferingMeansCovered` | `HealthSpec => [](rejoins = 0 => BufferingCoversLag)` |
| `IcebergStatusIsTold` | `HealthSpec => IcebergStatusIsTrue`, an action property |

Because the reporter implements the loader, `NoLoss`, `BatchStored` and `OrderInv`
are available. `SampleInv` says that while a sample is under way nothing moves the
committed offset, so that the sample, though read in two parts, is one of the
moment it is reported (`IdleIsDurable` is then `NoLoss`), and that the offset has
stood still at least since its `now`.
`BufferingCoversLag` is a counting argument: by `OrderInv` every buffered record
lies in the outstanding interval, and a subset with as many members is all of it.
`ClockInv` is what `StalledIsStuck` needs between samples: a lag is one of the
last sample; while the offset that sample saw is still the committed one, the
boundary of the stall clock, put forward to the present (`BoundaryAtEnd`), is no
older than the standstill it stands for, and no older than the lag and the head
start together; as soon as it is not, the next sample sees progress and starts
the clock again. A clock that a sample sets is as old as that sample when it ends,
which is what `headStart` records. A tick moves age, standstill and lag alike
(`ClockTicks`), also those of a sample under way.
The last step fails when an offset can move back, as it does after a rejoin.
`InferState` is an ordered choice, as in the code.

`ExtractorProofs` proves for any number of frames and errors, any size of channel
and flight, any limit of attempts and any cap of the backoff, from
`ExtractorAssumption`: the settings are natural numbers, and only the capacity of
the channel is positive, since tokio panics on 0:

| Theorem | Establishes |
|---|---|
| `TypeCorrectness` | `Spec => []TypeOK` |
| `EveryFrameIsAccountedFor` | `Spec => []Conservation` |
| `SentFramesAreInTheTopic` | `Spec => []SentIsInTopic` |
| `MemoryStaysBounded` | `Spec => []MemoryIsBounded` |
| `OnlyShutdownDrops` | `Spec => []NothingLostBeforeShutdown` |
| `LastSnapshotAddsUp` | `Spec => []FinalSnapshotAddsUp` |
| `RetriesFollowThePolicy` | `Spec => []RetryPolicy` |
| `Implementation` | `Spec => HandoverSpec`, the refinement |

`Conservation` counts, so a step that moves a frame from one place to another
preserves it only when the places are disjoint and each holds a frame once:
`PlacesInv`. `BoundsInv` is what the two limits make of the places, `ControlInv`
ties the program counters of the tasks to what they hold, and `BackoffInv` ties
attempts and backoff to the errors in a row. The backoff is a doubling with a cap
while the property states a power of two: `2 ^ (n + 1) = 2 * 2 ^ n` is not known to
the provers and is derived in `NumberFacts` by counting the subsets of `1 .. n`.

For the refinement, `pending` is the union of the places, so each step is judged
by what it does to that union: moving a frame from the reader to the channel,
into the flight or to librdkafka leaves it alone; taking a frame out is a
confirmation, which needs the frame in the topic, a failure that is counted, or a
drop, which needs the token. Conversely, a place that is emptied empties the union only because no other holds the same frame
(`PlacesInv`). `MovesArePromised` has the steps that do something to a frame,
`OtherStepsArePromised` the rest.

`PipelineProofs` proves for any number of extractor processes, any crashes on either
side and any contents of the frames, from `LoaderAssumption` and
`PipelineAssumption` (`MaxFrames` a natural number):

| Theorem | Establishes |
|---|---|
| `PipelineImplementsLoader` | `PipelineSpec => Spec` |
| `EndToEnd` | `PipelineSpec => []EveryFrameIsSomewhere` |

The first makes `InductiveInvariant`, and with it `NoLoss`, available. `AccountInv`
counts on the side of the extractor: a frame that was accepted is pending, lost,
counted as sent or counted as failed, and there are at least as many frames in the
topic that the extractor is done with (`Settled`) as were counted as sent; a record
that was given up although it was appended makes them more. `TopicInv` says that
both sides agree on what a record is. A settled frame has a record; above the
committed offset it waits, below it `NoLoss` has its bars in the table
(`SettledFramesArrive`). Counting the frames that are pending, lost or settled, three
disjoint sets, gives the theorem.

`CompactionProofs` proves for any number of runs, appends and versions, from
`CompactionAssumption`:

| Theorem | Establishes |
|---|---|
| `TypeCorrectness` | `Spec => []TypeOK` |
| `ReceiptsMeanUndisturbed` | `Spec => []ReceiptMeansUndisturbed` |
| `ReceiptsAreEarned` | `Spec => []ReceiptIsEarned` |

Totals never decrease along the history and an append raises them, so equal
totals leave no room for an append between two snapshots. What a run measured is
what some snapshot between its expected one and the current one had; the fences
and the comparison of totals then exclude the loader from the whole stretch.

`DashboardProofs` proves for any instants, limits of the questions, windows and
lengths of the history, and any number of entries, sessions and processes, from
`DashboardAssumption`, `MarketClockAssumption` and `ClockChangeAssumption`:

| Theorem | Establishes |
|---|---|
| `TypeCorrectness` | `Spec => []TypeOK` |
| `CleanShutdownIsNewest` | `Spec => []CleanShutdownIsOfLatestSession` |
| `FailuresAreNotHidden` | `Spec => []NoFailureHidden` |
| `TheBadgeIsEarned` | `Spec => []BadgeIsEarned` |
| `CommitHistoryHolds` | `Spec => []CommitHistoryIsTrue` |
| `TableCoversTheCommits` | `Spec => []TableCoversCommits` |
| `MarketClockIsRight` | `Spec => []MarketDayIsRight` |

A document is about answers that were cut and read one after the other, so the
heart of the invariant is what such answers are worth. `ReadInv` says it of each
question: what was read reaches up to the newest entry that there was when the run
began, and has no holes, neither below an entry that was there nor between two that
were read. The limit of a query takes entries away only at the old end
(`NewestFacts`), and what arrives meanwhile only adds younger ones. `TimeInv` says
that logs are in the order of time, `StampInv` that a last commit anybody reports is
one that was reported as a success, `PairInv` that processes log one after the other
and that nothing comes between the start of a commit and its success.

From there the theorems follow by what the summary does with the answers. Metrics
newer than the final ones would have been read with them, so `clean_shutdown` is of
the newest session. A failure that was asked for, or a younger one, was read, and its
alert is unresolved unless a commit is younger. Thresholds are compared with
timestamps of entries that were read. A success whose start was not read has
nothing older read at all: otherwise the answer would have a hole where the start
is; so it is the oldest of the history and shows no bars, never those of
another commit. For the clock, every local time of another day than the Sunday of
the change is that of one instant (`OnOtherDays`), and instants before and after an
opening are so by the clock of New York (`ByTheClock`), though the clock jumps.

`TableCoversCommits` follows from `TableInv`: the table has the sum of the bars of
all reported commits, and those of the one that a process has made and not yet
reported (`Durable`, `Unreported`). A crash in between only leaves rows that
nobody reported. The table is read after the log, and a document shows some of
the entries of that log (`PublishedIsCovered`), so its sum is part of one that
the table covers.

The library states induction with an operator as parameter, which the provers
cannot instantiate. `NumberFacts` therefore derives what proofs need by hand. A
least or a greatest number (`LeastNumber`, `MaxIsGreatest`) comes from the
well-foundedness of the natural numbers, which the library states without one.
`MapThenSumSet` takes elements from its set in an order that CHOOSE fixes and the
proof does not know; that the sum is what a reader takes it for (`SumOfNone`,
`SumOfOneMore`: one element more adds its value; `SumMonotone`) is shown from a
smallest set for which it would fail (`SmallestSet`).

Every invariant and action property of a passing run is thereby stated by a
theorem. Only model-checked is liveness (`EventuallyDurable`,
`OffsetsCatchUp`, `StuckIsReported`, `StopsUnlessConnecting`, `FramesMoveOn`,
`SilentFeedStops`). Liveness under fairness and `ENABLED` are out of reach of the
installed provers.

## 5. Not modelled, and why

* Contents of a bar, hashes, path names, columns: no decision depends on them.
* Creation of table and topic, catalog construction: library calls at startup.
* More than one partition or loader: the topic has one partition
  (`kafka.rs:36`), and a lock keeps to one loader (`LocalStack`).
* The costs of the dashboard, the totals of the table beside its rows, the
  published list of alerts, codes and wording; the page that shows them.
* The Spark session and the bar model of the Python package, the notebooks, the
  release scripts, terraform and the log agent: configuration or library calls.
* Loss of data by the broker or the object store: both are taken as durable.
* `flush` of up to ten seconds at the end of the extractor (`main.rs:85`), and its
  error: every delivery was awaited before, so that nothing is left to flush.
* A request of librdkafka that reaches the broker after its delivery was
  reported as failed; it could only add a further record to the topic.
* Parsing of configuration, formatting and transport of log lines.

## 6. Plan

1. `Services`: the dependencies between the units and the timer, which the restarts
   of `Loader` and `Pipeline` leave open.
2. An abstract specification of what a run of the exporter promises, which
   `Dashboard` implements.
3. `Pipeline` under fairness: that a settled frame is in the table at last. What it
   needs of the loader is `EventuallyDurable`.
