------------------------------ MODULE Extractor ------------------------------
(***************************************************************************)
(* The Rust extractor, wsr: one process that holds the Alpaca WebSocket    *)
(* and produces every data frame, verbatim, to the topic.                  *)
(*                                                                         *)
(* Three tokio tasks and a signal handler share a bounded channel, a       *)
(* cancellation token and the metrics: the WebSocket loop in the           *)
(* foreground (ws.rs, main.rs), the producer task (kafka.rs) and the       *)
(* watchdog (metrics.rs).  A step is what a task does between two awaits.  *)
(* Frames are numbered in the order in which they are received; what they  *)
(* contain does not matter to this process.                                *)
(***************************************************************************)
EXTENDS Naturals, Sequences, FiniteSets

CONSTANTS
  ChannelCapacity,  \* CHANNEL_CAPACITY
  MaxInflight,      \* MAX_INFLIGHT
  MaxRetries,       \* MAX_RETRIES
  BackoffMax,       \* BACKOFF_MAX in seconds
  WatchdogSettings, \* whether DATA_IDLE_TIMEOUT > 0: the values it may have
  MaxFrames,        \* bound: frames the server ever sends
  MaxErrors,        \* bound: transient WebSocket errors
  MaxLog            \* bound: records the broker ever appends

\* from_getter parses unsigned numbers and validates none of them: 0 is a
\* setting like any other, except for the capacity, with which main panics.
ASSUME ExtractorAssumption ==
  /\ ChannelCapacity \in Nat \ {0}
  /\ MaxInflight \in Nat
  /\ MaxRetries \in Nat
  /\ BackoffMax \in Nat
  /\ WatchdogSettings \subseteq BOOLEAN
  /\ MaxFrames \in Nat
  /\ MaxErrors \in Nat
  /\ MaxLog \in Nat

VARIABLES
  \* the WebSocket loop, in the foreground
  ws,         \* where it awaits
  attempt,    \* connection attempts since the last connection
  backoff,    \* seconds the next backoff takes
  connected,  \* this attempt went through the handshake
  held,       \* the frame tx.send() waits with, 0 for none
  outcome,    \* what ws::run returned, and with it the exit status
  \* the producer task
  producer,   \* where it awaits
  draining,   \* its local flag
  taken,      \* the frame enqueue() is working on, 0 for none
  inflight,   \* deliveries awaited
  \* shared
  channel,    \* the bounded mpsc channel
  shutdown,   \* the cancellation token
  received,   \* metrics.messages_received
  sent,       \* metrics.messages_sent
  failures,   \* metrics.delivery_failures
  errors,     \* metrics.errors
  watchdog,   \* this process runs the watchdog task
  quiet,      \* no data frame for DATA_IDLE_TIMEOUT
  \* the broker
  log,        \* the topic
  \* history
  lost,       \* frames dropped without being counted as failures
  stopped,    \* the operator or the watchdog ended a healthy loop
  failed,     \* attempts that failed since the last connection
  dropped     \* that connection existed, and was lost

wsVars       == <<ws, attempt, backoff, connected, held, outcome>>
producerVars == <<producer, draining, taken, inflight>>
metricVars   == <<received, sent, failures, errors>>
history      == <<lost, stopped, failed, dropped>>
vars == <<wsVars, producerVars, channel, shutdown, metricVars, watchdog,
          quiet, log, history>>

Frames == 1 .. MaxFrames

WsStates == {"startup", "connecting", "handshake", "streaming", "sending",
             "backoff", "teardown", "exited"}

ProducerStates == {"select", "enqueue", "exited"}

Outcomes == {"none", "startup_failed", "shutdown", "fatal", "exhausted"}

InChannel == {channel[i] : i \in DOMAIN channel}

\* Frames that were received and are still somewhere in the process.
InMemory == ({held, taken} \ {0}) \union InChannel \union inflight

Smaller(a, b) == IF a < b THEN a ELSE b

Init ==
  /\ ws = "startup"
  /\ attempt = 0
  /\ backoff = 1
  /\ connected = FALSE
  /\ held = 0
  /\ outcome = "none"
  /\ producer = "select"
  /\ draining = FALSE
  /\ taken = 0
  /\ inflight = {}
  /\ channel = <<>>
  /\ shutdown = FALSE
  /\ received = 0
  /\ sent = 0
  /\ failures = 0
  /\ errors = 0
  /\ watchdog \in WatchdogSettings
  /\ quiet = FALSE
  /\ log = <<>>
  /\ lost = {}
  /\ stopped = FALSE
  /\ failed = 0
  /\ dropped = FALSE

(***************************************************************************)
(* The WebSocket loop: ws::run, called by main.                            *)
(***************************************************************************)

\* ensure_topic, build_producer and warm_metadata, each of which may fail.
Startup ==
  /\ ws = "startup"
  /\ \/ ws' = "connecting" /\ attempt' = 1 /\ UNCHANGED outcome
     \/ ws' = "exited" /\ outcome' = "startup_failed" /\ UNCHANGED attempt
  /\ UNCHANGED <<backoff, connected, held, producerVars, channel, shutdown,
                 metricVars, watchdog, quiet, log, history>>

\* run() returns; main cancels the token and drops its sender at once.
Return(result) ==
  /\ ws' = "teardown"
  /\ outcome' = result
  /\ shutdown' = TRUE

\* connect_async returns a socket.  It awaits TCP, TLS and the HTTP upgrade
\* without a time limit, and nobody looks at the token meanwhile.
Connects ==
  /\ ws = "connecting"
  /\ ws' = "handshake"
  /\ UNCHANGED <<attempt, backoff, connected, held, outcome, producerVars,
                 channel, shutdown, metricVars, watchdog, quiet, log, history>>

\* Greeting, authentication and subscription all went well.
SetupSucceeds ==
  /\ ws = "handshake"
  /\ ws' = "streaming"
  /\ connected' = TRUE
  /\ UNCHANGED <<attempt, backoff, held, outcome, producerVars, channel,
                 shutdown, metricVars, watchdog, quiet, log, history>>

\* A server `error' frame: classify_frame says Fatal.
SetupRefused ==
  /\ ws = "handshake"
  /\ Return("fatal")
  /\ UNCHANGED <<attempt, backoff, connected, held, producerVars, channel,
                 metricVars, watchdog, quiet, log, history>>

\* Mutant of ResetAttempt: the counter survives a connection.
KeepAttempt == attempt

\* A connection resets the counter, also when it is lost again.
ResetAttempt == IF connected THEN 0 ELSE attempt

\* Mutant of ResetBackoff: the schedule survives a connection.
KeepBackoff == backoff

ResetBackoff == IF connected THEN 1 ELSE backoff

\* Mutant of NextBackoff: BACKOFF_MAX is forgotten.
UncappedBackoff == 2 * backoff

NextBackoff == Smaller(2 * backoff, BackoffMax)

\* What run() does with a transient error of this attempt.
TransientError ==
  /\ errors < MaxErrors
  /\ errors' = errors + 1
  /\ connected' = FALSE
  /\ attempt' = ResetAttempt
  /\ backoff' = ResetBackoff
  /\ failed' = IF connected THEN 0 ELSE failed + 1
  /\ dropped' = (dropped \/ connected)
  /\ \/ ResetAttempt >= MaxRetries /\ Return("exhausted")
     \/ /\ ResetAttempt < MaxRetries
        /\ ws' = "backoff"
        /\ UNCHANGED <<outcome, shutdown>>
  /\ UNCHANGED <<held, producerVars, channel, received, sent, failures,
                 watchdog, quiet, log, lost, stopped>>

\* Connecting failed, a handshake frame timed out or was not the expected one.
SetupFails == ws \in {"connecting", "handshake"} /\ TransientError

\* The server closed, the socket broke, or nothing came within TIMEOUT; the
\* select is biased and looks at the token first.
StreamFails == ws = "streaming" /\ ~shutdown /\ TransientError

BackoffEnds ==
  /\ ws = "backoff"
  /\ ws' = "connecting"
  /\ attempt' = attempt + 1
  /\ backoff' = NextBackoff
  /\ UNCHANGED <<connected, held, outcome, producerVars, channel, shutdown,
                 metricVars, watchdog, quiet, log, history>>

BackoffInterrupted ==
  /\ ws = "backoff"
  /\ shutdown
  /\ Return("shutdown")
  /\ UNCHANGED <<attempt, backoff, connected, held, producerVars, channel,
                 metricVars, watchdog, quiet, log, history>>

\* A text or binary message: counted, and offered to the channel.
ReceiveFrame ==
  /\ ws = "streaming"
  /\ ~shutdown
  /\ received < MaxFrames
  /\ received' = received + 1
  /\ held' = received + 1
  /\ quiet' = FALSE
  /\ ws' = "sending"
  /\ UNCHANGED <<attempt, backoff, connected, outcome, producerVars, channel,
                 shutdown, sent, failures, errors, watchdog, log, history>>

\* Mutant of HasRoom: the channel is not bounded.
AlwaysRoom == TRUE

HasRoom == Len(channel) < ChannelCapacity

\* Mutant of SendFrame: a full channel drops the frame (try_send).
SendOrDrop ==
  /\ ws = "sending"
  /\ producer # "exited"
  /\ IF HasRoom
       THEN channel' = Append(channel, held) /\ lost' = lost
       ELSE channel' = channel /\ lost' = lost \union {held}
  /\ held' = 0
  /\ ws' = "streaming"
  /\ UNCHANGED <<attempt, backoff, connected, outcome, producerVars, shutdown,
                 metricVars, watchdog, quiet, log, stopped, failed, dropped>>

\* The channel takes the frame; the token is not looked at while waiting.
SendFrame ==
  /\ ws = "sending"
  /\ producer # "exited"
  /\ HasRoom
  /\ channel' = Append(channel, held)
  /\ held' = 0
  /\ ws' = "streaming"
  /\ UNCHANGED <<attempt, backoff, connected, outcome, producerVars, shutdown,
                 metricVars, watchdog, quiet, log, history>>

\* The receiver is gone with the producer task: "producer channel closed".
SendFails ==
  /\ ws = "sending"
  /\ producer = "exited"
  /\ lost' = lost \union {held}
  /\ held' = 0
  /\ Return("fatal")
  /\ UNCHANGED <<attempt, backoff, connected, producerVars, channel,
                 metricVars, watchdog, quiet, log, stopped, failed, dropped>>

StreamSeesShutdown ==
  /\ ws = "streaming"
  /\ shutdown
  /\ Return("shutdown")
  /\ UNCHANGED <<attempt, backoff, connected, held, producerVars, channel,
                 metricVars, watchdog, quiet, log, history>>

\* main has joined the producer, the emitter and the watchdog, and flushed:
\* all deliveries were awaited, so that nothing is left for flush to wait for.
Exit ==
  /\ ws = "teardown"
  /\ producer = "exited"
  /\ ws' = "exited"
  /\ UNCHANGED <<attempt, backoff, connected, held, outcome, producerVars,
                 channel, shutdown, metricVars, watchdog, quiet, log,
                 history>>

(***************************************************************************)
(* The producer task.                                                      *)
(***************************************************************************)

\* Mutant of ProducerSeesShutdown: the channel has to be empty first.
ShutdownAfterChannel ==
  /\ ws # "startup"
  /\ producer = "select"
  /\ shutdown
  /\ ~draining
  /\ channel = <<>>
  /\ draining' = TRUE
  /\ UNCHANGED <<wsVars, producer, taken, inflight, channel, shutdown,
                 metricVars, watchdog, quiet, log, history>>

ProducerSeesShutdown ==
  /\ ws # "startup"
  /\ producer = "select"
  /\ shutdown
  /\ ~draining
  /\ draining' = TRUE
  /\ UNCHANGED <<wsVars, producer, taken, inflight, channel, shutdown,
                 metricVars, watchdog, quiet, log, history>>

\* Mutant of InflightBelowLimit: off by one.
InflightTwoBelowLimit == Cardinality(inflight) + 1 < MaxInflight

InflightBelowLimit == Cardinality(inflight) < MaxInflight

TakeFrame ==
  /\ producer = "select"
  /\ ~shutdown
  /\ ~draining
  /\ InflightBelowLimit
  /\ channel # <<>>
  /\ taken' = Head(channel)
  /\ channel' = Tail(channel)
  /\ producer' = "enqueue"
  /\ UNCHANGED <<wsVars, draining, inflight, shutdown, metricVars, watchdog,
                 quiet, log, history>>

\* send_result succeeds, now or after waiting for room in librdkafka's queue.
EnqueueFrame ==
  /\ producer = "enqueue"
  /\ inflight' = inflight \union {taken}
  /\ taken' = 0
  /\ producer' = "select"
  /\ UNCHANGED <<wsVars, draining, channel, shutdown, metricVars, watchdog,
                 quiet, log, history>>

\* Mutant of RefuseFrame: the refused frame is not counted.
RefuseSilently ==
  /\ producer = "enqueue"
  /\ taken' = 0
  /\ producer' = "select"
  /\ UNCHANGED <<wsVars, draining, inflight, channel, shutdown, metricVars,
                 watchdog, quiet, log, history>>

\* send_result fails with any other error than QueueFull.
RefuseFrame ==
  /\ producer = "enqueue"
  /\ failures' = failures + 1
  /\ taken' = 0
  /\ producer' = "select"
  /\ UNCHANGED <<wsVars, draining, inflight, channel, shutdown, received,
                 sent, errors, watchdog, quiet, log, history>>

\* A delivery future resolves and the select picks it up: acknowledged by the
\* broker, or failed or cancelled, with or without the record in the log.
DeliverySucceeds(f) ==
  /\ producer = "select"
  /\ f \in inflight
  /\ \E i \in DOMAIN log : log[i] = f
  /\ inflight' = inflight \ {f}
  /\ sent' = sent + 1
  /\ UNCHANGED <<wsVars, producer, draining, taken, channel, shutdown,
                 received, failures, errors, watchdog, quiet, log, history>>

\* Mutant of DeliveryFails: whatever resolves is counted as sent.
FailureCountedAsSent(f) ==
  /\ producer = "select"
  /\ f \in inflight
  /\ inflight' = inflight \ {f}
  /\ sent' = sent + 1
  /\ UNCHANGED <<wsVars, producer, draining, taken, channel, shutdown,
                 received, failures, errors, watchdog, quiet, log, history>>

DeliveryFails(f) ==
  /\ producer = "select"
  /\ f \in inflight
  /\ inflight' = inflight \ {f}
  /\ failures' = failures + 1
  /\ UNCHANGED <<wsVars, producer, draining, taken, channel, shutdown,
                 received, sent, errors, watchdog, quiet, log, history>>

\* Mutant of NothingInflight: a drain does not wait for the deliveries.
NotEnqueueing == taken = 0

NothingInflight == inflight = {}

\* Nothing in flight while draining: the loop ends and drops the receiver,
\* with the frames that are still in the channel.
ProducerExits ==
  /\ producer = "select"
  /\ draining
  /\ NothingInflight
  /\ producer' = "exited"
  /\ lost' = lost \union InChannel
  /\ channel' = <<>>
  /\ UNCHANGED <<wsVars, draining, taken, inflight, shutdown, metricVars,
                 watchdog, quiet, log, stopped, failed, dropped>>

(***************************************************************************)
(* Broker, watchdog, signals, time.                                        *)
(***************************************************************************)

\* A request reaches the broker, the first time or as a retry of librdkafka.
BrokerAppends(f) ==
  /\ f \in inflight
  /\ Len(log) < MaxLog
  /\ log' = Append(log, f)
  /\ UNCHANGED <<wsVars, producerVars, channel, shutdown, metricVars,
                 watchdog, quiet, history>>

\* Mutant of FallQuiet: without a first frame there is no baseline.
QuietAfterFirstFrame ==
  /\ watchdog
  /\ ws \notin {"startup", "exited"}
  /\ ~shutdown
  /\ ~quiet
  /\ received > 0
  /\ quiet' = TRUE
  /\ UNCHANGED <<wsVars, producerVars, channel, shutdown, metricVars,
                 watchdog, log, history>>

\* DATA_IDLE_TIMEOUT has passed since the last data frame, or the start.
FallQuiet ==
  /\ watchdog
  /\ ws \notin {"startup", "exited"}
  /\ ~shutdown
  /\ ~quiet
  /\ quiet' = TRUE
  /\ UNCHANGED <<wsVars, producerVars, channel, shutdown, metricVars,
                 watchdog, log, history>>

RequestStop ==
  /\ ws \notin {"startup", "exited"}
  /\ ~shutdown
  /\ shutdown' = TRUE
  /\ stopped' = TRUE
  /\ UNCHANGED <<wsVars, producerVars, channel, metricVars, watchdog, quiet,
                 log, lost, failed, dropped>>

Watchdog == quiet /\ RequestStop

\* SIGINT or SIGTERM.
Signal == RequestStop

WsStep ==
  \/ Startup
  \/ Connects
  \/ SetupSucceeds
  \/ SetupRefused
  \/ SetupFails
  \/ StreamFails
  \/ BackoffEnds
  \/ BackoffInterrupted
  \/ ReceiveFrame
  \/ SendFrame
  \/ SendFails
  \/ StreamSeesShutdown
  \/ Exit

Settle(f) == DeliverySucceeds(f) \/ DeliveryFails(f)

ProducerStep ==
  \/ ProducerSeesShutdown
  \/ TakeFrame
  \/ EnqueueFrame
  \/ RefuseFrame
  \/ ProducerExits
  \/ \E f \in Frames : Settle(f)

Surroundings ==
  \/ \E f \in Frames : BrokerAppends(f)
  \/ FallQuiet
  \/ Watchdog
  \/ Signal

Next == WsStep \/ ProducerStep \/ Surroundings

Spec == Init /\ [][Next]_vars

(***************************************************************************)
(* Fairness.  The runtime polls a task that can go on; once there is a     *)
(* socket the handshake ends one way or the other (each expect awaits one  *)
(* frame within TIMEOUT); librdkafka resolves each delivery                *)
(* (message.timeout.ms); time passes.  Nothing obliges the server to send  *)
(* a frame or an error, and nothing obliges connect_async to return.       *)
(***************************************************************************)
Handshake == ws = "handshake" /\ (SetupSucceeds \/ SetupRefused \/ SetupFails)

WsProgress ==
  \/ Startup
  \/ BackoffEnds
  \/ BackoffInterrupted
  \/ SendFrame
  \/ SendFails
  \/ StreamSeesShutdown
  \/ Exit

Fairness ==
  /\ WF_vars(Handshake)
  /\ WF_vars(WsProgress)
  /\ WF_vars(ProducerSeesShutdown \/ ProducerExits)
  /\ WF_vars(TakeFrame)
  /\ WF_vars(EnqueueFrame \/ RefuseFrame)
  /\ \A f \in Frames : SF_vars(Settle(f))
  /\ WF_vars(FallQuiet)
  /\ WF_vars(Watchdog)

FairSpec == Spec /\ Fairness

(***************************************************************************)
(* Properties.                                                             *)
(***************************************************************************)

Larger(a, b) == IF a < b THEN b ELSE a

TypeOK ==
  /\ ws \in WsStates
  /\ attempt \in 0 .. Larger(MaxRetries, 1)
  /\ backoff \in 0 .. Larger(BackoffMax, 1)
  /\ connected \in BOOLEAN
  /\ held \in 0 .. MaxFrames
  /\ outcome \in Outcomes
  /\ producer \in ProducerStates
  /\ draining \in BOOLEAN
  /\ taken \in 0 .. MaxFrames
  /\ inflight \subseteq Frames
  /\ channel \in Seq(Frames)
  /\ shutdown \in BOOLEAN
  /\ {received, sent, failures, errors, failed} \subseteq Nat
  /\ watchdog \in BOOLEAN
  /\ quiet \in BOOLEAN
  /\ log \in Seq(Frames)
  /\ lost \subseteq Frames
  /\ stopped \in BOOLEAN
  /\ dropped \in BOOLEAN

\* Every frame that was counted as received is exactly one of: delivered,
\* counted as a failure, somewhere in memory, or dropped by a shutdown.  No
\* interleaving of the tasks counts a frame twice or lets one slip away.
Conservation ==
  received = sent + failures + Cardinality(InMemory) + Cardinality(lost)

\* messages_sent never exceeds the number of frames that are in the topic:
\* a retry or a duplicate in the log is not counted as a further frame.
SentIsInTopic ==
  sent <= Cardinality({log[i] : i \in DOMAIN log})

\* "Memory stays bounded under a slow/stalled broker" (README.md:367 of
\* websocket-extractor-rust, as below): the two limits and the one frame the
\* reader holds, whatever the tasks are up to.
MemoryIsBounded ==
  Cardinality(InMemory) <= ChannelCapacity + MaxInflight + 1

\* Only a shutdown drops frames: while the token is not cancelled the channel
\* may fill up and everybody may wait, but no frame is lost.
NothingLostBeforeShutdown == ~shutdown => lost = {}

\* The final snapshot adds up: when the process exits, every received frame
\* was sent, was counted as a failure, or is one the shutdown dropped; no
\* delivery is still under way, whoever ended the run and whatever was queued.
FinalSnapshotAddsUp ==
  ws = "exited" =>
    InMemory = {} /\ received = sent + failures + Cardinality(lost)

\* Errors since the last success, the loss of that connection included.
ErrorsInARow == IF dropped THEN failed + 1 ELSE failed

\* "MAX_RETRIES counts only back-to-back failures" (ws.rs:84-85): the loop
\* gives up at the error that makes it that many failed attempts without a
\* connection in between, and the loss of a connection is none of them.  The
\* limit is only looked at when there is an error: with 0 the first one ends
\* the loop, a failed attempt or a lost connection.
GivesUpOnTime ==
  /\ outcome = "exhausted" <=> ErrorsInARow > 0 /\ failed >= MaxRetries
  /\ failed <= Larger(MaxRetries, 1)

\* "1s -> 2s -> 4s -> ... capped at BACKOFF_MAX" (README.md:358): the length
\* of a backoff depends on the errors in a row alone, the loss of the last
\* connection included.  The first takes a second, whatever the cap.
BackoffSchedule ==
  ws = "backoff" =>
    backoff = IF ErrorsInARow = 1 THEN 1
              ELSE Smaller(2 ^ (ErrorsInARow - 1), BackoffMax)

\* Both, of which every run of errors is an instance.
RetryPolicy == GivesUpOnTime /\ BackoffSchedule

\* "a cancel can't be starved by a busy channel" (README.md:198): once the
\* token is cancelled the process exits, whoever waits for whom.  It does not
\* while connect_async waits for its peer, and that may be for ever: only
\* then may the process stay up (against main.rs:70-71, by which the loop
\* "returns when the shutdown token fires").
StopsUnlessConnecting ==
  shutdown ~> (ws = "exited" \/ [](ws = "connecting"))

\* A received frame does not stay in memory for ever, even when no watchdog
\* clears a jam (DATA_IDLE_TIMEOUT = 0): reader, channel and producer never
\* wait for each other in a circle.  With MAX_INFLIGHT = 0, which is accepted,
\* the producer task takes nothing: this is for settings that let it take one.
FramesMoveOn ==
  \A f \in Frames : f \in InMemory ~> f \notin InMemory

\* A feed that stays silent ends the process (metrics.rs:71-78), connected,
\* refused, or between two attempts: the exception is an attempt that never
\* gets past connect_async.
SilentFeedStops ==
  watchdog => <>(ws = "exited" \/ [](ws = "connecting"))

\* A frame that is in one of the places of the three tasks is pending.
Handover ==
  INSTANCE FrameHandover
    WITH pending <- InMemory, topic <- log, closing <- shutdown

\* The three tasks (ws::run, producer_task, the watchdog) do together what
\* FrameHandover promises: whatever a step does to the places a frame may be in, to
\* the topic and to the counters, one frame is accepted, recorded, confirmed or
\* given up, or a shutdown drops some.
HandoverSpec == Handover!Spec

\* "Either Ctrl+C (SIGINT) or SIGTERM ... cancels the token, draining the
\* pipeline gracefully" (main.rs:66-67): the producer task does not end while
\* frames are waiting in the channel.
StopDrainsChannel ==
  [][producer # "exited" /\ producer' = "exited" => channel = <<>>]_vars

\* "SIGINT (Ctrl+C) or SIGTERM cancels the token ... the process exits 0"
\* (README.md:352-354), at least when the connection is up all the while.
StopExitsZero ==
  ws = "exited" /\ stopped /\ connected => outcome = "shutdown"
=============================================================================
