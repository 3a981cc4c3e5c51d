------------------------------- MODULE Loader -------------------------------
(***************************************************************************)
(* The Java loader, io.gcehcatalog.loader: one process that consumes the   *)
(* frames of a one-partition topic, buffers their bars, appends bounded    *)
(* batches to an Iceberg table and commits the Kafka offsets afterwards.   *)
(*                                                                         *)
(* The module follows the main thread of Main.main statement group by      *)
(* statement group.  Between two groups anything may happen to it: the     *)
(* process is killed, SIGTERM arrives, the group coordinator drops the     *)
(* consumer, the producer publishes, the clock moves.  The LoaderHealth    *)
(* module adds what LoaderHealthReporter does on each of these steps.      *)
(***************************************************************************)
EXTENDS Naturals, Sequences, FiniteSets

CONSTANTS
  MaxRecords,   \* LOADER_MAX_RECORDS: the bars of a full batch
  FrameKinds,   \* what the extractor may publish: a number of bars, or Poison
  Poison,       \* a frame AlpacaBar.decodeFrame throws on
  MaxLog,       \* bound: frames ever published
  MaxSessions,  \* bound: process starts and consumer rejoins
  MaxRejoins    \* bound: how many of the sessions are rejoins

ASSUME LoaderAssumption ==
  /\ MaxRecords \in Nat \ {0}
  /\ Poison \notin Nat
  /\ FrameKinds \subseteq Nat \union {Poison}
  /\ MaxLog \in Nat
  /\ MaxSessions \in Nat
  /\ MaxRejoins \in Nat

VARIABLES
  \* outside the process
  log,        \* the topic partition: frame with offset o is log[o + 1]
  committed,  \* the group's committed offset, 0 when there is none
  table,      \* the data files of the Iceberg table: sequences of bars
  \* inside the process
  stage,      \* the statement group the main thread executes next
  running,    \* the AtomicBoolean the shutdown hook clears
  position,   \* the consumer's next fetch offset
  buffer,     \* decoded entries not yet in the table, oldest first
  site,       \* the call of flush() the main thread is in
  window,     \* BatchWindow: closed, open, or open for longer than maxWait
  \* history
  sessions,   \* process starts and rejoins so far
  rejoins     \* rejoins so far

broker  == <<log, committed>>
process == <<stage, running, position, buffer, site, window>>
history == <<sessions, rejoins>>
vars    == <<log, committed, table, process, history>>

Stages  == {"down", "poll", "write", "commit", "offsets", "timeout", "heartbeat"}
Sites   == {"records", "timeout", "shutdown"}
Windows == {"closed", "open", "expired"}

Entry == [source : Nat, index : Nat, final : BOOLEAN]

(***************************************************************************)
(* Frames, bars and the table.                                             *)
(***************************************************************************)

\* A frame that does not decode contributes no bar.
BarCount(f) == IF f = Poison THEN 0 ELSE f

Offsets == 0 .. (Len(log) - 1)

BarsOf(o) == {<<o, i>> : i \in 1 .. BarCount(log[o + 1])}

Published == UNION {BarsOf(o) : o \in Offsets}

Bar(e) == <<e.source, e.index>>

Stored(b) == \E k \in DOMAIN table : \E j \in DOMAIN table[k] : table[k][j] = b

Durable == {b \in Published : Stored(b)}

Buffered == {Bar(buffer[j]) : j \in DOMAIN buffer}

Precedes(a, b) == a[1] < b[1] \/ (a[1] = b[1] /\ a[2] < b[2])

(***************************************************************************)
(* The helpers of the main loop.                                           *)
(***************************************************************************)

\* BoundedBatch.add gives every bar its source, the last one marked final.
EntriesOf(o) ==
  [i \in 1 .. BarCount(log[o + 1]) |->
     [source |-> o, index |-> i, final |-> i = BarCount(log[o + 1])]]

\* Mutant of BatchSize: add does not cut a frame that overfills the batch.
UncutBatchSize == Len(buffer)

\* The three calls of flush() pass a full batch or everything that is left.
\* `buffer' holds the full batches completed by add and, after them, the
\* pending entries: add cuts at every multiple of MaxRecords.
BatchSize == IF site = "records" THEN MaxRecords ELSE Len(buffer)

\* Mutants of Remainder: drain clears too much, or nothing.
NoRemainder == <<>>

UndrainedRemainder == buffer

Remainder == SubSeq(buffer, BatchSize + 1, Len(buffer))

FullBatch(entries) == Len(entries) >= MaxRecords

DataFile == [j \in 1 .. BatchSize |-> Bar(buffer[j])]

\* Mutants of OffsetsToCommit: the final bar is not waited for; an offset is
\* taken for the next one twice.
OffsetsOfAllSources == {buffer[j].source + 1 : j \in 1 .. BatchSize}

OffsetsOneTooFar ==
  {buffer[j].source + 2 : j \in {k \in 1 .. BatchSize : buffer[k].final}}

\* Only a source whose final bar is in the batch advances the offset.
OffsetsToCommit ==
  {buffer[j].source + 1 : j \in {k \in 1 .. BatchSize : buffer[k].final}}

\* Mutant of MergedOffset: the comparison of the merge is turned round.
SmallestOffset == {o \in OffsetsToCommit : \A p \in OffsetsToCommit : o <= p}

\* HashMap.merge keeps the larger offset of a partition: the set of that
\* offset, empty when there is nothing to commit.
MergedOffset == {o \in OffsetsToCommit : \A p \in OffsetsToCommit : p <= o}

\* BatchWindow.open, called for the first bar of an empty batch only.
OpenWindow(bars) == IF buffer = <<>> /\ bars # <<>> THEN "open" ELSE window

\* Mutant of ResetWindow: the window is closed, remainder or not.
CloseWindow(rest) == "closed"

\* BatchWindow.reset(!batch.isEmpty()) after full batches.
ResetWindow(rest) == IF rest = <<>> THEN "closed" ELSE "open"

\* Mutant of ResumeOffset: every session reads from the earliest offset.
EarliestOffset == 0

\* No auto-commit; `earliest' applies only while nothing is committed.
ResumeOffset == committed

\* The process is gone, with all it kept in memory.
ProcessGone ==
  /\ stage' = "down"
  /\ running' = FALSE
  /\ buffer' = <<>>
  /\ position' = 0
  /\ site' = "records"
  /\ window' = "closed"

\* Bound on disturbances: none happens in the last session.
MayDisturb == sessions < MaxSessions

Init ==
  /\ log = <<>>
  /\ committed = 0
  /\ table = <<>>
  /\ stage = "down"
  /\ running = FALSE
  /\ position = 0
  /\ buffer = <<>>
  /\ site = "records"
  /\ window = "closed"
  /\ sessions = 0
  /\ rejoins = 0

(***************************************************************************)
(* The environment: producer, clock, operator, group coordinator.          *)
(***************************************************************************)

Publish ==
  /\ Len(log) < MaxLog
  /\ \E f \in FrameKinds : log' = Append(log, f)
  /\ UNCHANGED <<committed, table, process, history>>

\* maxWait has passed since the window was opened or reset.
WindowExpires ==
  /\ window = "open"
  /\ window' = "expired"
  /\ UNCHANGED <<log, committed, table, stage, running, position, buffer, site,
                 history>>

\* SIGTERM: the hook clears `running' and returns; see JvmHalts.
Terminate ==
  /\ MayDisturb
  /\ stage # "down"
  /\ running
  /\ running' = FALSE
  /\ UNCHANGED <<log, committed, table, stage, position, buffer, site, window,
                 history>>

\* Nothing makes the JVM wait for the main thread once its hooks returned.
JvmHalts ==
  /\ stage # "down"
  /\ ~running
  /\ ProcessGone
  /\ UNCHANGED <<log, committed, table, history>>

\* kill -9, out of memory, power loss, or a listed failure of a library call.
Crash ==
  /\ MayDisturb
  /\ stage # "down"
  /\ ProcessGone
  /\ UNCHANGED <<log, committed, table, history>>

\* The coordinator lost the member: the next poll joins again and resumes
\* at the committed offset.  No rebalance listener clears the batch.
Rejoin ==
  /\ MayDisturb
  /\ rejoins < MaxRejoins
  /\ stage = "poll"
  /\ running
  /\ position' = ResumeOffset
  /\ sessions' = sessions + 1
  /\ rejoins' = rejoins + 1
  /\ UNCHANGED <<log, committed, table, stage, running, buffer, site, window>>

(***************************************************************************)
(* The main thread.                                                        *)
(***************************************************************************)

\* Configuration, consumer, writer (which creates a missing table), loop.
Start ==
  /\ stage = "down"
  /\ sessions < MaxSessions
  /\ stage' = "poll"
  /\ running' = TRUE
  /\ position' = ResumeOffset
  /\ buffer' = <<>>
  /\ site' = "records"
  /\ window' = "closed"
  /\ sessions' = sessions + 1
  /\ UNCHANGED <<log, committed, table, rejoins>>

\* poll() returns one record that decodes.
PollRecord ==
  /\ stage = "poll"
  /\ running
  /\ position \in Offsets
  /\ log[position + 1] # Poison
  /\ buffer' = buffer \o EntriesOf(position)
  /\ window' = OpenWindow(EntriesOf(position))
  /\ position' = position + 1
  /\ site' = "records"
  /\ stage' = IF FullBatch(buffer') THEN "write" ELSE "timeout"
  /\ UNCHANGED <<log, committed, table, running, history>>

\* Mutant of PollPoison: the loop drops a record that does not decode.
PollPoisonSkipped ==
  /\ stage = "poll"
  /\ running
  /\ position \in Offsets
  /\ log[position + 1] = Poison
  /\ position' = position + 1
  /\ stage' = "timeout"
  /\ UNCHANGED <<log, committed, table, running, buffer, site, window, history>>

\* poll() returns one record that does not: the exception leaves main.
PollPoison ==
  /\ stage = "poll"
  /\ running
  /\ position \in Offsets
  /\ log[position + 1] = Poison
  /\ ProcessGone
  /\ UNCHANGED <<log, committed, table, history>>

\* poll() returns nothing within its second.
PollNothing ==
  /\ stage = "poll"
  /\ running
  /\ stage' = "timeout"
  /\ UNCHANGED <<log, committed, table, running, position, buffer, site, window,
                 history>>

\* A partial batch whose own time limit is over is drained and flushed.
FlushExpired ==
  /\ stage = "timeout"
  /\ buffer # <<>>
  /\ window = "expired"
  /\ stage' = "write"
  /\ site' = "timeout"
  /\ UNCHANGED <<log, committed, table, running, position, buffer, window,
                 history>>

KeepBuffering ==
  /\ stage = "timeout"
  /\ buffer = <<>> \/ window # "expired"
  /\ stage' = "heartbeat"
  /\ UNCHANGED <<log, committed, table, running, position, buffer, site, window,
                 history>>

\* maybeHeartbeat, which leaves the loop's state alone.
Heartbeat ==
  /\ stage = "heartbeat"
  /\ stage' = "poll"
  /\ UNCHANGED <<log, committed, table, running, position, buffer, site, window,
                 history>>

\* The loop ends with bars in the batch: flush them.
FlushOnShutdown ==
  /\ stage = "poll"
  /\ ~running
  /\ buffer # <<>>
  /\ stage' = "write"
  /\ site' = "shutdown"
  /\ UNCHANGED <<log, committed, table, running, position, buffer, window,
                 history>>

\* The loop ends with an empty batch: main returns.
ExitLoop ==
  /\ stage = "poll"
  /\ ~running
  /\ buffer = <<>>
  /\ ProcessGone
  /\ UNCHANGED <<log, committed, table, history>>

(***************************************************************************)
(* flush(): writer.append, in two halves, and then commitSync.             *)
(***************************************************************************)

WriteDataFile ==
  /\ stage = "write"
  /\ stage' = "commit"
  /\ UNCHANGED <<log, committed, table, running, position, buffer, site, window,
                 history>>

\* DATA_FILE_WRITE_FAILED: nothing is in the table; the process ends.
WriteDataFileFails ==
  /\ MayDisturb
  /\ stage = "write"
  /\ ProcessGone
  /\ UNCHANGED <<log, committed, table, history>>

CommitTable ==
  /\ stage = "commit"
  /\ table' = Append(table, DataFile)
  /\ stage' = "offsets"
  /\ UNCHANGED <<log, committed, running, position, buffer, site, window,
                 history>>

\* ICEBERG_COMMIT_FAILED, or ICEBERG_COMMIT_STATE_UNKNOWN, where the commit
\* may have taken place all the same; either way the process ends.
CommitTableFails ==
  /\ MayDisturb
  /\ stage = "commit"
  /\ table' \in {table, Append(table, DataFile)}
  /\ ProcessGone
  /\ UNCHANGED <<log, committed, history>>

\* What main does when flush returned, by call site.
AfterFlush ==
  /\ buffer' = Remainder
  /\ \/ /\ site = "records"
        /\ FullBatch(Remainder)
        /\ stage' = "write"
        /\ UNCHANGED <<running, position, site, window>>
     \/ /\ site = "records"
        /\ ~FullBatch(Remainder)
        /\ window' = ResetWindow(Remainder)
        /\ stage' = "timeout"
        /\ UNCHANGED <<running, position, site>>
     \/ /\ site = "timeout"
        /\ window' = "closed"
        /\ stage' = "heartbeat"
        /\ UNCHANGED <<running, position, site>>

\* main returns after the flush on shutdown.
ExitAfterFlush ==
  /\ site = "shutdown"
  /\ ProcessGone

CommitOffsets ==
  /\ stage = "offsets"
  /\ IF OffsetsToCommit = {}
       THEN committed' = committed
       ELSE committed' \in MergedOffset
  /\ AfterFlush \/ ExitAfterFlush
  /\ UNCHANGED <<log, table, history>>

\* OFFSET_COMMIT_FAILED: commitSync threw; the broker may have the offset.
CommitOffsetsFails ==
  /\ MayDisturb
  /\ stage = "offsets"
  /\ OffsetsToCommit # {}
  /\ committed' \in {committed} \union MergedOffset
  /\ ProcessGone
  /\ UNCHANGED <<log, table, history>>

Flush ==
  \/ WriteDataFile
  \/ WriteDataFileFails
  \/ CommitTable
  \/ CommitTableFails
  \/ CommitOffsets
  \/ CommitOffsetsFails

Loop ==
  \/ Start
  \/ PollRecord
  \/ PollPoison
  \/ PollNothing
  \/ FlushExpired
  \/ KeepBuffering
  \/ Heartbeat
  \/ FlushOnShutdown
  \/ ExitLoop

Environment ==
  \/ Publish
  \/ WindowExpires
  \/ Terminate
  \/ JvmHalts
  \/ Crash
  \/ Rejoin

Next == Environment \/ Loop \/ Flush

Spec == Init /\ [][Next]_vars

(***************************************************************************)
(* Fairness.  The main thread keeps executing; systemd (Restart=on-failure *)
(* after a failure, the operator after a stop) starts the process again;   *)
(* time passes; a JVM whose hooks returned halts.  A poll may come back    *)
(* empty although the broker has records, but not for ever: PollRecord     *)
(* alone needs strong fairness, because polls that return nothing disable  *)
(* it again and again.                                                     *)
(***************************************************************************)
MainThread == Loop \/ Flush

Fairness ==
  /\ WF_vars(MainThread)
  /\ SF_vars(PollRecord)
  /\ WF_vars(WindowExpires)
  /\ WF_vars(JvmHalts)

FairSpec == Spec /\ Fairness

(***************************************************************************)
(* Properties.                                                             *)
(***************************************************************************)

\* Types, and the ranges the two offsets never leave.
TypeOK ==
  /\ log \in Seq(FrameKinds)
  /\ committed \in 0 .. Len(log)
  /\ table \in Seq(Seq(Nat \X Nat))
  /\ stage \in Stages
  /\ running \in BOOLEAN
  /\ position \in 0 .. Len(log)
  /\ buffer \in Seq(Entry)
  /\ site \in Sites
  /\ window \in Windows
  /\ sessions \in Nat
  /\ rejoins \in Nat

(***************************************************************************)
(* The inductive invariant.  LoopInv is about the control of the main      *)
(* thread, DataInv about the bars.  NoLoss and TableHasNoGaps are not      *)
(* inductive: what a later commit may claim depends on the bars that are   *)
(* still in memory, so DataInv says where every bar read so far is and     *)
(* that the buffer is in stream order, also when a rejoin left old entries *)
(* in front of bars that are read for a second time.                       *)
(***************************************************************************)
Flushing == stage \in {"write", "commit", "offsets"}

\* A flush always has a batch, and outside flush the batch is not full.
BatchShape ==
  /\ Flushing /\ site = "records" => Len(buffer) >= MaxRecords
  /\ Flushing /\ site # "records" => Len(buffer) \in 1 .. (MaxRecords - 1)
  /\ ~Flushing => Len(buffer) < MaxRecords

\* At the head of the loop the window is open exactly when bars wait in the
\* batch: a remainder restarts it, an idle loader does not age.
WindowTracksBuffer ==
  stage \in {"poll", "timeout", "heartbeat"} =>
    (window = "closed" <=> buffer = <<>>)

\* Every data file has between one and MaxRecords rows, whichever of the
\* three calls of flush wrote it and however many bars a frame had.
BoundedFiles == \A k \in DOMAIN table : Len(table[k]) \in 1 .. MaxRecords

LoopInv == BatchShape /\ WindowTracksBuffer /\ BoundedFiles

\* Buffered entries and rows are bars of the topic, marked final correctly.
OnlyPublished ==
  /\ \A j \in DOMAIN buffer :
       /\ Bar(buffer[j]) \in Published
       /\ buffer[j].final <=>
            buffer[j].index = BarCount(log[buffer[j].source + 1])
  /\ \A k \in DOMAIN table : \A j \in DOMAIN table[k] :
       table[k][j] \in Published

\* Whatever has been read is in the table or in memory.
NothingDropped ==
  \A b \in Published : b[1] < position => Stored(b) \/ b \in Buffered

\* What comes before a buffered bar is in the table or ahead of it.
BufferInOrder ==
  \A j \in DOMAIN buffer : \A a \in Published :
    Precedes(a, Bar(buffer[j])) =>
      Stored(a) \/ \E i \in 1 .. (j - 1) : Bar(buffer[i]) = a

\* Between the two commits the whole batch is in the table.
BatchStored ==
  stage = "offsets" => \A j \in 1 .. BatchSize : Stored(Bar(buffer[j]))

\* An offset is committed only when every bar of every frame below it is in
\* the table: no crash, failed or doubtful commit, rejoin or halt between
\* IcebergWriter.append and commitSync can lose a bar of the topic.
NoLoss == \A o \in Offsets : o < committed => BarsOf(o) \subseteq Durable

\* The table never has a gap: with a bar it has all earlier bars of the
\* topic, so a frame that spans batches is completed before a later one.
TableHasNoGaps ==
  \A b \in Durable : \A a \in Published : Precedes(a, b) => a \in Durable

\* The bars of the stream are where a later commit may rely on them to be,
\* in every state: the strengthening NoLoss and TableHasNoGaps need.
DataInv ==
  /\ OnlyPublished
  /\ NothingDropped
  /\ BufferInOrder
  /\ BatchStored
  /\ NoLoss
  /\ TableHasNoGaps

IInv == TypeOK /\ LoopInv /\ DataInv

\* A frame that does not decode is never passed over: neither the committed
\* offset nor any bar of the table is beyond it.
PoisonBlocks ==
  \A o \in Offsets :
    log[o + 1] = Poison => committed <= o /\ \A b \in Durable : b[1] < o

Copies(b) ==
  Cardinality({kj \in UNION {{k} \X DOMAIN table[k] : k \in DOMAIN table} :
                 table[kj[1]][kj[2]] = b})

\* Redelivery is the only source of duplicates: a bar is appended at most
\* once for each time a consumer session read the topic, and exactly once
\* when there was one session only.
BoundedDuplication == \A b \in Published : Copies(b) <= sessions

\* The committed offset moves back only once a rejoin has left old entries
\* in the batch; no crash or restart alone makes a group resume earlier.
OffsetsMonotone == [][committed' < committed => rejoins > 0]_vars

\* The loader implements the abstract promise.
Delivery ==
  INSTANCE DurableDelivery
    WITH durable <- Durable, acknowledged <- committed

DeliverySpec == Delivery!Spec

\* Some frame of the topic does not decode.
Poisoned == \E p \in Offsets : log[p + 1] = Poison

\* Every published bar reaches the table, also the one that waits alone in a
\* partial batch for its window to expire; unless a frame that does not decode
\* ends every session, with the partial batch in front of it.
EventuallyDurable ==
  \A o \in 0 .. (MaxLog - 1) :
    o \in Offsets ~> ((o \in Offsets /\ BarsOf(o) \subseteq Durable) \/ Poisoned)

\* The committed offset passes every frame that has a bar.
OffsetsCatchUp ==
  \A o \in 0 .. (MaxLog - 1) :
    (o \in Offsets /\ BarsOf(o) # {}) ~> (committed > o \/ Poisoned)

\* "Persist any remaining bars during a graceful shutdown" (Main.java:87): a
\* process that stops on SIGTERM without a failure leaves no bar behind.
GracefulStopFlushes ==
  [][JvmHalts \/ ExitLoop \/ (CommitOffsets /\ ExitAfterFlush)
       => Buffered \subseteq Durable']_vars
=============================================================================
