---------------------------- MODULE LoaderProofs ----------------------------
(***************************************************************************)
(* Theorems about Loader, for every batch size, every topic and any number *)
(* of crashes, failed commits, rejoins and restarts: what is durable and   *)
(* committed, the refinement; what a frame that does not decode stops,     *)
(* when the committed offset may move back, and how often a bar may be     *)
(* appended.                                                               *)
(***************************************************************************)
EXTENDS Loader, NumberFacts, SequenceTheorems, TLAPS

(***************************************************************************)
(* Lemmas about the helpers.                                               *)
(***************************************************************************)

\* A frame that is in the log has a number of bars, and the type of a frame.
LEMMA BarCountType ==
  ASSUME TypeOK, NEW o \in Offsets
  PROVE  /\ o \in Nat
         /\ o + 1 \in 1 .. Len(log)
         /\ BarCount(log[o + 1]) \in Nat
<1>1. o \in Nat /\ o + 1 \in 1 .. Len(log)
  BY DEF TypeOK, Offsets
<1>2. log[o + 1] \in FrameKinds
  BY <1>1 DEF TypeOK
<1>3. QED
  BY <1>1, <1>2, LoaderAssumption DEF BarCount

\* EntriesOf returns one entry for each bar of the frame, in order, of which
\* the last one is final (BoundedBatch.add).
LEMMA EntriesOfFrame ==
  ASSUME TypeOK, NEW o \in Offsets
  PROVE  /\ EntriesOf(o) \in Seq(Entry)
         /\ Len(EntriesOf(o)) = BarCount(log[o + 1])
         /\ \A i \in 1 .. BarCount(log[o + 1]) :
              EntriesOf(o)[i] = [source |-> o, index |-> i,
                                 final |-> i = BarCount(log[o + 1])]
<1> DEFINE n == BarCount(log[o + 1])
<1>1. n \in Nat /\ o \in Nat
  BY BarCountType
<1>2. \A i \in 1 .. n :
         [source |-> o, index |-> i, final |-> i = n] \in Entry
  BY <1>1 DEF Entry
<1> HIDE DEF n
<1>3. [i \in 1 .. n |-> [source |-> o, index |-> i, final |-> i = n]]
        \in Seq(Entry)
  BY <1>1, <1>2
<1>4. QED
  BY <1>1, <1>3 DEF EntriesOf, n

\* What flush leaves in memory is the buffer without its first BatchSize
\* entries (BoundedBatch.drain).
LEMMA RemainderOfBuffer ==
  ASSUME TypeOK, BatchSize \in 1 .. Len(buffer)
  PROVE  /\ Remainder \in Seq(Entry)
         /\ Len(Remainder) = Len(buffer) - BatchSize
         /\ \A i \in 1 .. Len(Remainder) : Remainder[i] = buffer[BatchSize + i]
<1>1. buffer \in Seq(Entry) /\ Len(buffer) \in Nat
  BY DEF TypeOK
<1>2. \A i \in (BatchSize + 1) .. Len(buffer) : buffer[i] \in Entry
  BY <1>1
<1>3. /\ Remainder \in Seq(Entry)
      /\ Len(Remainder) =
           IF BatchSize + 1 <= Len(buffer)
             THEN Len(buffer) - (BatchSize + 1) + 1 ELSE 0
      /\ \A i \in 1 .. Len(buffer) - (BatchSize + 1) + 1 :
           Remainder[i] = buffer[(BatchSize + 1) + i - 1]
  BY <1>1, <1>2, SubSeqProperties DEF Remainder
<1>4. QED
  BY <1>1, <1>3

\* The data file of a batch has its bars in buffer order.
LEMMA DataFileOfBatch ==
  ASSUME TypeOK, BatchSize \in 1 .. Len(buffer)
  PROVE  /\ DataFile \in Seq(Nat \X Nat)
         /\ Len(DataFile) = BatchSize
         /\ \A j \in 1 .. BatchSize : DataFile[j] = Bar(buffer[j])
<1>2. BatchSize \in Nat /\ BatchSize <= Len(buffer)
  BY DEF TypeOK
<1> HIDE DEF BatchSize
<1>1. ASSUME NEW j \in 1 .. BatchSize
      PROVE  Bar(buffer[j]) \in Nat \X Nat
  <2>1. buffer[j] \in Entry
    BY <1>2 DEF TypeOK
  <2>2. QED
    BY <2>1 DEF Entry, Bar
<1>3. [j \in 1 .. BatchSize |-> Bar(buffer[j])] \in Seq(Nat \X Nat)
  BY <1>1, <1>2
<1>4. QED
  BY <1>2, <1>3 DEF DataFile

\* A flush always works on a nonempty prefix of the buffer.
LEMMA BatchOfFlush ==
  ASSUME TypeOK, BatchShape, Flushing
  PROVE  /\ BatchSize \in 1 .. Len(buffer)
         /\ BatchSize <= MaxRecords
  BY LoaderAssumption DEF TypeOK, BatchShape, BatchSize

(***************************************************************************)
(* The control of the main thread: LoopInv.                                *)
(***************************************************************************)

\* One step of the loader keeps the batch, the window and the data files in
\* shape: add and drain (BoundedBatch), open, reset and close (BatchWindow).
LEMMA LoopInvStep ==
  ASSUME TypeOK, LoopInv, [Next]_vars
  PROVE  LoopInv'
<1> USE LoaderAssumption DEF LoopInv, vars, process, history
<1>1. CASE UNCHANGED vars
  BY <1>1 DEF BatchShape, WindowTracksBuffer, BoundedFiles, Flushing
<1>2. CASE Publish \/ Terminate \/ Rejoin
  BY <1>2 DEF Publish, Terminate, Rejoin, BatchShape, WindowTracksBuffer,
              BoundedFiles, Flushing
<1>3. CASE WindowExpires
  BY <1>3 DEF WindowExpires, BatchShape, WindowTracksBuffer, BoundedFiles,
              Flushing
<1>4. ASSUME ProcessGone, BoundedFiles'
      PROVE  LoopInv'
  <2>1. Len(<<>>) = 0
    BY EmptySeq
  <2>2. QED
    BY <1>4, <2>1 DEF ProcessGone, BatchShape, WindowTracksBuffer, Flushing
<1>5. CASE JvmHalts \/ Crash \/ PollPoison \/ ExitLoop \/ WriteDataFileFails
           \/ CommitOffsetsFails
  <2>1. ProcessGone /\ table' = table
    BY <1>5 DEF JvmHalts, Crash, PollPoison, ExitLoop, WriteDataFileFails,
                CommitOffsetsFails
  <2>2. QED
    BY <1>4, <2>1 DEF BoundedFiles
<1>6. CASE Start
  <2>1. Len(<<>>) = 0
    BY EmptySeq
  <2>2. QED
    BY <1>6, <2>1 DEF Start, BatchShape, WindowTracksBuffer, BoundedFiles,
                      Flushing
<1>7. CASE PollRecord
  <2>1. position \in Offsets
    BY <1>7 DEF PollRecord
  <2> DEFINE es == EntriesOf(position)
  <2>2. es \in Seq(Entry) /\ buffer \in Seq(Entry)
    BY <2>1, EntriesOfFrame DEF TypeOK
  <2> HIDE DEF es
  <2>3. /\ Len(buffer \o es) \in Nat
        /\ Len(buffer \o es) >= Len(buffer)
        /\ (buffer \o es = <<>>) <=> (buffer = <<>> /\ es = <<>>)
    BY <2>2, ConcatProperties, ConcatEqualIffEmpty
  <2>4. /\ buffer' = buffer \o es
        /\ window' = IF buffer = <<>> /\ es # <<>> THEN "open" ELSE window
        /\ stage' = IF Len(buffer') >= MaxRecords THEN "write" ELSE "timeout"
        /\ site' = "records"
        /\ stage = "poll"
        /\ table' = table
    BY <1>7 DEF PollRecord, es, OpenWindow, FullBatch
  <2>5. BatchShape'
    BY <2>3, <2>4 DEF BatchShape, Flushing
  <2>6. WindowTracksBuffer'
    BY <2>3, <2>4 DEF WindowTracksBuffer
  <2>7. QED
    BY <2>4, <2>5, <2>6 DEF BoundedFiles
<1>8. CASE PollNothing \/ KeepBuffering \/ Heartbeat
  BY <1>8 DEF PollNothing, KeepBuffering, Heartbeat, BatchShape,
              WindowTracksBuffer, BoundedFiles, Flushing
<1>9. CASE FlushExpired \/ FlushOnShutdown
  <2>1. Len(buffer) \in 1 .. (MaxRecords - 1)
    <3>1. Len(buffer) < MaxRecords /\ buffer # <<>>
      BY <1>9 DEF FlushExpired, FlushOnShutdown, BatchShape, Flushing
    <3>2. QED
      BY <3>1, EmptySeq DEF TypeOK
  <2>2. QED
    BY <1>9, <2>1 DEF FlushExpired, FlushOnShutdown, BatchShape,
                      WindowTracksBuffer, BoundedFiles, Flushing
<1>10. CASE WriteDataFile
  BY <1>10 DEF WriteDataFile, BatchShape, WindowTracksBuffer, BoundedFiles,
               Flushing
<1>11. ASSUME Flushing, table' = Append(table, DataFile)
       PROVE  BoundedFiles'
  <2>1. DataFile \in Seq(Nat \X Nat) /\ Len(DataFile) \in 1 .. MaxRecords
    BY <1>11, BatchOfFlush, DataFileOfBatch
  <2>2. table \in Seq(Seq(Nat \X Nat))
    BY DEF TypeOK
  <2>3. /\ Len(table') = Len(table) + 1
        /\ DOMAIN table' = 1 .. Len(table')
        /\ \A k \in 1 .. Len(table) : table'[k] = table[k]
        /\ table'[Len(table) + 1] = DataFile
    BY <1>11, <2>1, <2>2, AppendProperties
  <2>4. ASSUME NEW k \in DOMAIN table'
        PROVE  Len(table'[k]) \in 1 .. MaxRecords
    <3>1. Len(table) \in Nat /\ DOMAIN table = 1 .. Len(table)
      BY <2>2
    <3>2. CASE k \in 1 .. Len(table)
      BY <2>3, <3>1, <3>2 DEF BoundedFiles
    <3>3. CASE k = Len(table) + 1
      BY <2>1, <2>3, <3>3
    <3>4. QED
      BY <2>3, <3>1, <3>2, <3>3
  <2>5. QED
    BY <2>4 DEF BoundedFiles
<1>12. CASE CommitTable
  <2>1. Flushing
    BY <1>12 DEF CommitTable, Flushing
  <2>2. BoundedFiles'
    BY <1>11, <1>12, <2>1 DEF CommitTable
  <2>3. QED
    BY <1>12, <2>2 DEF CommitTable, BatchShape, WindowTracksBuffer, Flushing
<1>13. CASE CommitTableFails
  <2>1. Flushing
    BY <1>13 DEF CommitTableFails, Flushing
  <2>2. BoundedFiles'
    BY <1>11, <1>13, <2>1 DEF CommitTableFails, BoundedFiles
  <2>3. QED
    BY <1>4, <1>13, <2>2 DEF CommitTableFails
<1>14. CASE CommitOffsets
  <2>1. Flushing /\ table' = table
    BY <1>14 DEF CommitOffsets, Flushing
  <2>2. BoundedFiles'
    BY <2>1 DEF BoundedFiles
  <2>3. CASE ExitAfterFlush
    BY <1>4, <2>2, <2>3 DEF ExitAfterFlush
  <2>4. CASE AfterFlush
    <3>1. /\ Remainder \in Seq(Entry)
          /\ Len(Remainder) = Len(buffer) - BatchSize
          /\ buffer' = Remainder
      BY <2>1, <2>4, BatchOfFlush, RemainderOfBuffer DEF AfterFlush
    <3>2. Remainder = <<>> <=> Len(Remainder) = 0
      BY <3>1, EmptySeq
    <3>3. CASE site = "records"
      BY <2>2, <2>4, <3>1, <3>2, <3>3
      DEF AfterFlush, BatchShape, WindowTracksBuffer, Flushing, FullBatch,
          ResetWindow, TypeOK
    <3>4. CASE site = "timeout"
      <4>1. Len(Remainder) = 0
        BY <3>1, <3>4 DEF BatchSize, TypeOK
      <4>2. QED
        BY <2>2, <2>4, <3>1, <3>2, <3>4, <4>1
        DEF AfterFlush, BatchShape, WindowTracksBuffer, Flushing
    <3>5. QED
      BY <2>4, <3>3, <3>4 DEF AfterFlush
  <2>5. QED
    BY <1>14, <2>3, <2>4 DEF CommitOffsets
<1>15. QED
  BY <1>1, <1>2, <1>3, <1>5, <1>6, <1>7, <1>8, <1>9, <1>10, <1>12, <1>13,
     <1>14 DEF Next, Environment, Loop, Flush

(***************************************************************************)
(* Bars and where they are.                                                *)
(***************************************************************************)

\* A published bar is the pair of its frame's offset and an index in it.
LEMMA PublishedBar ==
  ASSUME TypeOK
  PROVE  /\ \A b \in Published :
              /\ b[1] \in Offsets
              /\ b[2] \in 1 .. BarCount(log[b[1] + 1])
              /\ b = <<b[1], b[2]>>
              /\ b \in BarsOf(b[1])
         /\ \A o \in Offsets : \A b \in BarsOf(o) : b \in Published /\ b[1] = o
  BY DEF Published, BarsOf

\* As long as topic and table stay the same, so do the bars of either.
LEMMA SameBars ==
  ASSUME log' = log, table' = table
  PROVE  /\ Offsets' = Offsets
         /\ Published' = Published
         /\ \A o : BarsOf(o)' = BarsOf(o)
         /\ \A b : Stored(b)' <=> Stored(b)
         /\ Durable' = Durable
  BY DEF Offsets, Published, BarsOf, Stored, Durable

\* Committing a data file adds the bars of the batch, and only those.
LEMMA AppendStores ==
  ASSUME TypeOK, BatchShape, Flushing, table' = Append(table, DataFile)
  PROVE  /\ \A b : Stored(b) => Stored(b)'
         /\ \A b : (\E j \in 1 .. BatchSize : b = Bar(buffer[j])) => Stored(b)'
         /\ \A b : Stored(b)' =>
              Stored(b) \/ \E j \in 1 .. BatchSize : b = Bar(buffer[j])
         /\ \A k \in DOMAIN table' : \A i \in DOMAIN table'[k] :
              \/ k \in DOMAIN table /\ table'[k] = table[k]
              \/ i \in 1 .. BatchSize /\ table'[k][i] = Bar(buffer[i])
<1>1. BatchSize \in 1 .. Len(buffer)
  BY BatchOfFlush
<1>2. /\ DataFile \in Seq(Nat \X Nat)
      /\ DOMAIN DataFile = 1 .. BatchSize
      /\ \A j \in 1 .. BatchSize : DataFile[j] = Bar(buffer[j])
  BY <1>1, DataFileOfBatch
<1>3. table \in Seq(Seq(Nat \X Nat)) /\ Len(table) \in Nat
  BY DEF TypeOK
<1> HIDE DEF DataFile, BatchSize
<1>4. /\ DOMAIN table = 1 .. Len(table)
      /\ DOMAIN table' = 1 .. (Len(table) + 1)
      /\ \A k \in 1 .. Len(table) : table'[k] = table[k]
      /\ table'[Len(table) + 1] = DataFile
  BY <1>2, <1>3, AppendProperties
<1>5. ASSUME NEW b, Stored(b)
      PROVE  Stored(b)'
  BY <1>3, <1>4, <1>5 DEF Stored
<1>6. ASSUME NEW j \in 1 .. BatchSize
      PROVE  \E k \in DOMAIN table' : \E i \in DOMAIN table'[k] :
               table'[k][i] = Bar(buffer[j])
  <2>1. Len(table) + 1 \in DOMAIN table'
    BY <1>3, <1>4
  <2>2. /\ j \in DOMAIN table'[Len(table) + 1]
        /\ table'[Len(table) + 1][j] = Bar(buffer[j])
    BY <1>2, <1>4
  <2>3. QED
    BY <2>1, <2>2
<1>7. ASSUME NEW k \in DOMAIN table', NEW i \in DOMAIN table'[k]
      PROVE  \/ k \in DOMAIN table /\ table'[k] = table[k]
             \/ i \in 1 .. BatchSize /\ table'[k][i] = Bar(buffer[i])
  <2>1. CASE k \in 1 .. Len(table)
    BY <1>4, <2>1
  <2>2. CASE k = Len(table) + 1
    BY <1>2, <1>4, <2>2
  <2>3. QED
    BY <1>3, <1>4, <2>1, <2>2
<1>8. ASSUME NEW b, NEW j \in 1 .. BatchSize, b = Bar(buffer[j])
      PROVE  Stored(b)'
  BY <1>6, <1>8 DEF Stored
<1>9. ASSUME NEW b, Stored(b)'
      PROVE  Stored(b) \/ \E j \in 1 .. BatchSize : b = Bar(buffer[j])
  <2>1. PICK k \in DOMAIN table' :
          \E i \in DOMAIN table'[k] : table'[k][i] = b
    BY <1>9 DEF Stored
  <2>2. PICK i \in DOMAIN table'[k] : table'[k][i] = b
    BY <2>1
  <2>3. QED
    BY <1>7, <2>2 DEF Stored
<1>10. QED
  BY <1>5, <1>7, <1>8, <1>9

\* The offset a flush commits is the one after a frame whose bars, like all
\* bars before them, are in the table by then.
LEMMA MergedOffsetIsSafe ==
  ASSUME TypeOK, LoopInv, DataInv, stage = "offsets",
         NEW c \in MergedOffset
  PROVE  /\ c \in 0 .. Len(log)
         /\ \A o \in Offsets : o < c => BarsOf(o) \subseteq Durable
<1>1. BatchSize \in 1 .. Len(buffer)
  BY BatchOfFlush DEF Flushing, LoopInv
<1>2. PICK j \in 1 .. BatchSize :
        buffer[j].final /\ c = buffer[j].source + 1
  BY DEF MergedOffset, OffsetsToCommit
<1>3. j \in DOMAIN buffer /\ j \in Nat /\ DOMAIN buffer = 1 .. Len(buffer)
  BY <1>1 DEF TypeOK
<1> HIDE DEF BatchSize
<1> DEFINE s == buffer[j].source
           i == buffer[j].index
<1>4. /\ <<s, i>> \in Published
      /\ s \in Offsets
      /\ i = BarCount(log[s + 1])
      /\ Bar(buffer[j]) = <<s, i>>
  BY <1>2, <1>3, PublishedBar DEF DataInv, OnlyPublished, Bar
<1>5. i \in Nat /\ s \in Nat /\ s < Len(log)
  BY <1>4, BarCountType DEF Offsets, TypeOK
<1> HIDE DEF s, i
<1>6. c \in 0 .. Len(log)
  BY <1>2, <1>5 DEF s, TypeOK
<1>7. ASSUME NEW o \in Offsets, o < c, NEW b \in BarsOf(o)
      PROVE  b \in Durable
  <2>1. b \in Published /\ b = <<b[1], b[2]>> /\ b[1] = o
        /\ b[2] \in 1 .. BarCount(log[o + 1])
    BY PublishedBar
  <2>2. o <= s /\ o \in Nat
    BY <1>2, <1>5, <1>7, BarCountType DEF s
  <2>3. CASE b = <<s, i>>
    BY <1>2, <1>4, <2>1, <2>3 DEF DataInv, BatchStored, Durable
  <2>4. CASE b # <<s, i>>
    <3>1. Precedes(b, <<s, i>>)
      BY <1>4, <1>5, <2>1, <2>2, <2>4, BarCountType DEF Precedes
    <3>2. Stored(b) \/ \E k \in 1 .. (j - 1) : Bar(buffer[k]) = b
      BY <1>3, <1>4, <2>1, <3>1 DEF DataInv, BufferInOrder
    <3>3. ASSUME NEW k \in 1 .. (j - 1)
          PROVE  k \in 1 .. BatchSize
      BY <1>1, <1>2, <1>3
    <3>4. Stored(b)
      BY <3>2, <3>3 DEF DataInv, BatchStored
    <3>5. QED
      BY <2>1, <3>4 DEF Durable
  <2>5. QED
    BY <2>3, <2>4
<1>8. QED
  BY <1>6, <1>7

(***************************************************************************)
(* The bars: DataInv.  One lemma per kind of step.                         *)
(***************************************************************************)

\* Steps that touch neither a bar nor an offset.
LEMMA DataInvQuietStep ==
  ASSUME TypeOK, DataInv,
         UNCHANGED <<log, committed, table, position, buffer>>,
         stage' = "offsets" => UNCHANGED <<stage, site>>
  PROVE  DataInv'
<1>1. /\ Offsets' = Offsets
      /\ Published' = Published
      /\ \A o : BarsOf(o)' = BarsOf(o)
      /\ \A b : Stored(b)' <=> Stored(b)
      /\ Durable' = Durable
  BY SameBars
<1>2. OnlyPublished' /\ NothingDropped' /\ BufferInOrder'
  BY <1>1 DEF DataInv, OnlyPublished, NothingDropped, BufferInOrder, Buffered
<1>3. BatchStored'
  BY <1>1 DEF DataInv, BatchStored, BatchSize
<1>4. NoLoss' /\ TableHasNoGaps'
  BY <1>1 DEF DataInv, NoLoss, TableHasNoGaps
<1>5. QED
  BY <1>2, <1>3, <1>4 DEF DataInv

\* Steps after which nothing is in memory, with a safe committed offset: the
\* process ends before, or starts to read at, that offset.
LEMMA DataInvEmptyMemory ==
  ASSUME TypeOK, DataInv, UNCHANGED <<log, table>>, buffer' = <<>>,
         stage' # "offsets",
         \A o \in Offsets : o < committed' => BarsOf(o) \subseteq Durable,
         \A o \in Offsets : o < position' => BarsOf(o) \subseteq Durable
  PROVE  DataInv'
<1>1. /\ Offsets' = Offsets
      /\ Published' = Published
      /\ \A o : BarsOf(o)' = BarsOf(o)
      /\ \A b : Stored(b)' <=> Stored(b)
      /\ Durable' = Durable
  BY SameBars
<1>2. DOMAIN buffer' = {}
  BY EmptySeq
<1>3. OnlyPublished' /\ BufferInOrder'
  BY <1>1, <1>2 DEF DataInv, OnlyPublished, BufferInOrder
<1>4. NothingDropped'
  BY <1>1, PublishedBar DEF NothingDropped, Durable
<1>5. BatchStored' /\ NoLoss' /\ TableHasNoGaps'
  BY <1>1 DEF DataInv, BatchStored, NoLoss, TableHasNoGaps
<1>6. QED
  BY <1>3, <1>4, <1>5 DEF DataInv

\* A frame that is published changes neither the earlier frames nor the table.
LEMMA PublishKeepsBars ==
  ASSUME TypeOK, OnlyPublished, Publish
  PROVE  /\ UNCHANGED <<committed, table, stage, position, buffer, site>>
         /\ Len(log) \in Nat
         /\ Len(log') = Len(log) + 1
         /\ \A o \in Offsets : log'[o + 1] = log[o + 1]
         /\ Offsets \subseteq Offsets'
         /\ \A o \in Offsets' : o \in Offsets \/ o = Len(log)
         /\ \A o \in Offsets : o < Len(log)
         /\ \A o \in Offsets : BarsOf(o)' = BarsOf(o)
         /\ Published \subseteq Published'
         /\ \A b \in Published' : b \in Published \/ b[1] = Len(log)
         /\ \A b : Stored(b)' <=> Stored(b)
         /\ Durable' = Durable
<1>1. PICK f \in FrameKinds : log' = Append(log, f)
  BY DEF Publish
<1>2. /\ UNCHANGED <<committed, table, stage, position, buffer, site>>
      /\ Len(log) \in Nat
      /\ Len(log') = Len(log) + 1
      /\ \A o \in Offsets : log'[o + 1] = log[o + 1]
  BY <1>1, AppendProperties DEF Publish, process, TypeOK, Offsets
<1>3. /\ Offsets \subseteq Offsets'
      /\ \A o \in Offsets' : o \in Offsets \/ o = Len(log)
      /\ \A o \in Offsets : o < Len(log)
      /\ \A o \in Offsets : BarsOf(o)' = BarsOf(o)
  BY <1>2 DEF Offsets, BarsOf
<1>4. Published \subseteq Published'
  BY <1>3 DEF Published
<1>5. ASSUME NEW b \in Published', b \notin Published
      PROVE  b[1] = Len(log)
  <2>1. PICK o \in Offsets' : b \in BarsOf(o)'
    BY DEF Published
  <2>2. o = Len(log)
    BY <1>3, <1>5, <2>1 DEF Published
  <2>3. QED
    BY <2>1, <2>2 DEF BarsOf
<1>6. \A b : Stored(b)' <=> Stored(b)
  BY <1>2 DEF Stored
<1>7. ASSUME NEW b, Stored(b)
      PROVE  b \in Published
  BY <1>7 DEF OnlyPublished, Stored
<1>8. Durable' = Durable
  BY <1>4, <1>6, <1>7 DEF Durable
<1>9. QED
  BY <1>2, <1>3, <1>4, <1>5, <1>6, <1>8

\* The producer appends a frame: nothing is known of its bars yet.
LEMMA DataInvPublish ==
  ASSUME TypeOK, DataInv, Publish
  PROVE  DataInv'
<1>2. /\ UNCHANGED <<committed, table, stage, position, buffer, site>>
      /\ Len(log) \in Nat
      /\ Len(log') = Len(log) + 1
      /\ \A o \in Offsets : log'[o + 1] = log[o + 1]
  BY PublishKeepsBars DEF DataInv
<1>3. /\ Offsets \subseteq Offsets'
      /\ \A o \in Offsets' : o \in Offsets \/ o = Len(log)
      /\ \A o \in Offsets : o < Len(log)
      /\ \A o \in Offsets : BarsOf(o)' = BarsOf(o)
  BY PublishKeepsBars DEF DataInv
<1>4. Published \subseteq Published'
  BY PublishKeepsBars DEF DataInv
<1>5. \A b \in Published' : b \in Published \/ b[1] = Len(log)
  BY PublishKeepsBars DEF DataInv
<1>6. \A b : Stored(b)' <=> Stored(b)
  BY PublishKeepsBars DEF DataInv
<1>8. Durable' = Durable
  BY PublishKeepsBars DEF DataInv
<1>9. OnlyPublished'
  <2>1. ASSUME NEW j \in DOMAIN buffer
        PROVE  log'[buffer[j].source + 1] = log[buffer[j].source + 1]
    <3>1. Bar(buffer[j])[1] \in Offsets
      BY PublishedBar DEF DataInv, OnlyPublished
    <3>2. QED
      BY <1>2, <3>1 DEF Bar
  <2>2. QED
    BY <1>2, <1>4, <2>1 DEF DataInv, OnlyPublished
<1>10. ASSUME NEW b \in Published, NEW a \in Published', Precedes(a, b)
       PROVE  a \in Published
  <2>1. b[1] \in Offsets /\ b[1] < Len(log) /\ b[1] \in Nat
    BY <1>3, PublishedBar, BarCountType
  <2>2. a[1] # Len(log)
    BY <1>2, <1>10, <2>1 DEF Precedes
  <2>3. QED
    BY <1>5, <2>2
<1>11. NothingDropped'
  <2>1. position <= Len(log) /\ position \in Nat
    BY DEF TypeOK
  <2>2. ASSUME NEW b \in Published', b[1] < position
        PROVE  b \in Published
    BY <1>2, <1>5, <2>1, <2>2
  <2>3. QED
    BY <1>2, <1>6, <2>2 DEF DataInv, NothingDropped, Buffered
<1>12. BufferInOrder'
  BY <1>2, <1>6, <1>10 DEF DataInv, BufferInOrder, OnlyPublished
<1>13. BatchStored'
  BY <1>2, <1>6 DEF DataInv, BatchStored, BatchSize
<1>14. NoLoss'
  <2>1. committed <= Len(log) /\ committed \in Nat
    BY DEF TypeOK
  <2>2. QED
    BY <1>2, <1>3, <1>8, <2>1 DEF DataInv, NoLoss
<1>15. TableHasNoGaps'
  BY <1>8, <1>10 DEF DataInv, TableHasNoGaps, Durable
<1>16. QED
  BY <1>9, <1>11, <1>12, <1>13, <1>14, <1>15 DEF DataInv

\* add puts the bars of the next frame behind everything read before.
LEMMA DataInvPollRecord ==
  ASSUME TypeOK, DataInv, PollRecord
  PROVE  DataInv'
<1> DEFINE es == EntriesOf(position)
           n  == BarCount(log[position + 1])
           m  == Len(buffer)
<1>1. /\ position \in Offsets
      /\ buffer' = buffer \o es
      /\ position' = position + 1
      /\ UNCHANGED <<log, committed, table>>
      /\ stage' # "offsets"
  BY DEF PollRecord
<1>2. /\ Offsets' = Offsets
      /\ Published' = Published
      /\ \A o : BarsOf(o)' = BarsOf(o)
      /\ \A b : Stored(b)' <=> Stored(b)
      /\ Durable' = Durable
  BY <1>1, SameBars
<1>3. n \in Nat /\ position \in Nat /\ m \in Nat
  BY <1>1, BarCountType DEF TypeOK
<1>4. /\ es \in Seq(Entry)
      /\ Len(es) = n
      /\ \A i \in 1 .. n : es[i] = [source |-> position, index |-> i,
                                    final |-> i = n]
  BY <1>1, EntriesOfFrame
<1> HIDE DEF es
<1>5. /\ buffer \in Seq(Entry)
      /\ DOMAIN buffer = 1 .. m
      /\ DOMAIN buffer' = 1 .. (m + n)
      /\ \A j \in 1 .. m : buffer'[j] = buffer[j]
      /\ \A i \in 1 .. n : buffer'[m + i] = es[i]
  <2>1. buffer \in Seq(Entry)
    BY DEF TypeOK
  <2>2. /\ buffer \o es \in Seq(Entry)
        /\ Len(buffer \o es) = Len(buffer) + Len(es)
        /\ \A j \in 1 .. Len(buffer) + Len(es) :
             (buffer \o es)[j] =
               IF j <= Len(buffer) THEN buffer[j] ELSE es[j - Len(buffer)]
    BY <1>4, <2>1, ConcatProperties
  <2> HIDE DEF n
  <2>3. QED
    BY <1>1, <1>3, <1>4, <2>1, <2>2
<1> HIDE DEF n, m
<1>6. ASSUME NEW j \in DOMAIN buffer'
      PROVE  \/ j \in 1 .. m /\ j \in DOMAIN buffer /\ buffer'[j] = buffer[j]
             \/ \E i \in 1 .. n :
                  /\ j = m + i
                  /\ buffer'[j] = [source |-> position, index |-> i,
                                   final |-> i = n]
  <2>1. CASE j \in 1 .. m
    BY <1>5, <2>1
  <2>2. CASE j \notin 1 .. m
    <3>1. (j - m) \in 1 .. n /\ j = m + (j - m)
      BY <1>3, <1>5, <2>2
    <3>2. QED
      BY <1>4, <1>5, <3>1
  <2>3. QED
    BY <2>1, <2>2
<1>7. ASSUME NEW i \in 1 .. n
      PROVE  <<position, i>> \in Published
  BY <1>1 DEF Published, BarsOf, n
<1>8. OnlyPublished'
  <2>1. ASSUME NEW j \in DOMAIN buffer'
        PROVE  /\ Bar(buffer'[j]) \in Published
               /\ buffer'[j].final <=>
                    buffer'[j].index = BarCount(log[buffer'[j].source + 1])
    <3>1. CASE j \in DOMAIN buffer /\ buffer'[j] = buffer[j]
      BY <3>1 DEF DataInv, OnlyPublished
    <3>2. CASE \E i \in 1 .. n :
                 /\ j = m + i
                 /\ buffer'[j] = [source |-> position, index |-> i,
                                  final |-> i = n]
      <4>1. PICK i \in 1 .. n :
              buffer'[j] = [source |-> position, index |-> i, final |-> i = n]
        BY <3>2
      <4>2. /\ buffer'[j].source = position
            /\ buffer'[j].index = i
            /\ buffer'[j].final <=> i = n
        <5> DEFINE e == buffer'[j]
                   f == i = n
        <5>1. e = [source |-> position, index |-> i, final |-> f]
          BY <4>1
        <5> HIDE DEF e, f
        <5>2. e.source = position /\ e.index = i /\ e.final = f
          BY <5>1
        <5>3. QED
          BY <5>2, Zenon DEF e, f
      <4>3. Bar(buffer'[j]) \in Published
        BY <1>7, <4>2 DEF Bar
      <4>4. n = BarCount(log[buffer'[j].source + 1])
        BY <4>2 DEF n
      <4>5. QED
        BY <4>2, <4>3, <4>4, Zenon
    <3>3. QED
      BY <1>6, <3>1, <3>2
  <2>2. QED
    BY <1>1, <1>2, <2>1 DEF DataInv, OnlyPublished
<1>9. ASSUME NEW b \in Buffered
      PROVE  \E k \in 1 .. m : Bar(buffer'[k]) = b
  BY <1>5 DEF Buffered
<1>10. NothingDropped'
  <2>1. SUFFICES ASSUME NEW b \in Published, b[1] < position + 1
                 PROVE  Stored(b) \/ b \in Buffered'
    BY <1>1, <1>2 DEF NothingDropped
  <2>2. CASE b[1] < position
    <3>1. Stored(b) \/ b \in Buffered
      BY <2>2 DEF DataInv, NothingDropped
    <3>2. ASSUME NEW k \in 1 .. m
          PROVE  k \in DOMAIN buffer'
      BY <1>3, <1>5
    <3>3. QED
      BY <1>9, <3>1, <3>2 DEF Buffered
  <2>3. CASE ~(b[1] < position)
    <3>1. b = <<b[1], b[2]>> /\ b[1] \in Nat
      BY PublishedBar, BarCountType
    <3>2. b[1] = position
      BY <1>3, <2>1, <2>3, <3>1
    <3>3. b[2] \in 1 .. n
      BY <3>2, PublishedBar DEF n
    <3>4. m + b[2] \in DOMAIN buffer' /\ Bar(buffer'[m + b[2]]) = b
      BY <1>3, <1>4, <1>5, <3>1, <3>2, <3>3 DEF Bar
    <3>5. QED
      BY <3>4 DEF Buffered
  <2>4. QED
    BY <2>2, <2>3
<1>11. BufferInOrder'
  <2>1. SUFFICES ASSUME NEW j \in DOMAIN buffer', NEW a \in Published,
                        Precedes(a, Bar(buffer'[j]))
                 PROVE  Stored(a) \/ \E k \in 1 .. (j - 1) : Bar(buffer'[k]) = a
    BY <1>2 DEF BufferInOrder, Precedes
  <2>2. CASE j \in 1 .. m /\ j \in DOMAIN buffer /\ buffer'[j] = buffer[j]
    <3>1. Stored(a) \/ \E k \in 1 .. (j - 1) : Bar(buffer[k]) = a
      BY <2>1, <2>2 DEF DataInv, BufferInOrder
    <3>2. ASSUME NEW k \in 1 .. (j - 1)
          PROVE  buffer'[k] = buffer[k]
      BY <1>3, <1>5, <2>2
    <3>3. QED
      BY <3>1, <3>2
  <2>3. CASE \E i \in 1 .. n :
               /\ j = m + i
               /\ buffer'[j] = [source |-> position, index |-> i,
                                final |-> i = n]
    <3>1. PICK i \in 1 .. n :
                 /\ j = m + i
                 /\ buffer'[j] = [source |-> position, index |-> i,
                                  final |-> i = n]
      BY <2>3
    <3>2. \/ a[1] < position
          \/ a[1] = position /\ a[2] < i
      BY <2>1, <3>1 DEF Precedes, Bar
    <3>3. CASE a[1] < position
      <4>1. Stored(a) \/ a \in Buffered
        BY <3>3 DEF DataInv, NothingDropped
      <4>2. ASSUME NEW k \in 1 .. m
            PROVE  k \in 1 .. (j - 1)
        BY <1>3, <3>1
      <4>3. QED
        BY <1>9, <4>1, <4>2
    <3>4. CASE a[1] = position /\ a[2] < i
      <4>1. a = <<position, a[2]>> /\ a[2] \in 1 .. n
        BY <3>4, PublishedBar DEF n
      <4>2. m + a[2] \in 1 .. (j - 1)
        BY <1>3, <3>1, <3>4, <4>1
      <4>3. Bar(buffer'[m + a[2]]) = a
        BY <1>4, <1>5, <4>1 DEF Bar
      <4>4. QED
        BY <4>2, <4>3
    <3>5. QED
      BY <3>2, <3>3, <3>4
  <2>4. QED
    BY <1>6, <2>2, <2>3
<1>12. BatchStored' /\ NoLoss' /\ TableHasNoGaps'
  BY <1>1, <1>2 DEF DataInv, BatchStored, NoLoss, TableHasNoGaps
<1>13. QED
  BY <1>8, <1>10, <1>11, <1>12 DEF DataInv

\* The consumer joins again: it re-reads from an offset below which nothing
\* can be missing, whatever the batch still holds.
LEMMA DataInvRejoin ==
  ASSUME TypeOK, DataInv, Rejoin
  PROVE  DataInv'
<1>1. /\ UNCHANGED <<log, committed, table, buffer>>
      /\ position' = committed
      /\ stage' # "offsets"
  BY DEF Rejoin, ResumeOffset
<1>2. /\ Offsets' = Offsets
      /\ Published' = Published
      /\ \A o : BarsOf(o)' = BarsOf(o)
      /\ \A b : Stored(b)' <=> Stored(b)
      /\ Durable' = Durable
  BY <1>1, SameBars
<1>3. OnlyPublished' /\ BufferInOrder'
  BY <1>1, <1>2 DEF DataInv, OnlyPublished, BufferInOrder
<1>4. NothingDropped'
  BY <1>1, <1>2, PublishedBar DEF DataInv, NothingDropped, NoLoss, Durable
<1>5. BatchStored' /\ NoLoss' /\ TableHasNoGaps'
  BY <1>1, <1>2 DEF DataInv, BatchStored, NoLoss, TableHasNoGaps
<1>6. QED
  BY <1>3, <1>4, <1>5 DEF DataInv

\* The batch becomes part of the table.  No gap can appear: what precedes a
\* bar of the batch is in the table or in the same batch.
LEMMA AppendKeepsNoGaps ==
  ASSUME TypeOK, LoopInv, DataInv, Flushing, log' = log,
         table' = Append(table, DataFile)
  PROVE  /\ \A b : Stored(b) => Stored(b)'
         /\ \A b : (\E j \in 1 .. BatchSize : b = Bar(buffer[j])) => Stored(b)'
         /\ Durable \subseteq Durable'
         /\ TableHasNoGaps'
         /\ \A k \in DOMAIN table' : \A i \in DOMAIN table'[k] :
              table'[k][i] \in Published
<1>1. /\ \A b : Stored(b) => Stored(b)'
      /\ \A b : (\E j \in 1 .. BatchSize : b = Bar(buffer[j])) => Stored(b)'
      /\ \A b : Stored(b)' =>
           Stored(b) \/ \E j \in 1 .. BatchSize : b = Bar(buffer[j])
      /\ \A k \in DOMAIN table' : \A i \in DOMAIN table'[k] :
           \/ k \in DOMAIN table /\ table'[k] = table[k]
           \/ i \in 1 .. BatchSize /\ table'[k][i] = Bar(buffer[i])
  BY AppendStores DEF LoopInv
<1>2. BatchSize \in 1 .. Len(buffer) /\ DOMAIN buffer = 1 .. Len(buffer)
      /\ Len(buffer) \in Nat
  BY BatchOfFlush DEF LoopInv, TypeOK
<1>3. Published' = Published
  BY DEF Published, Offsets, BarsOf
<1> HIDE DEF BatchSize
<1>4. Durable \subseteq Durable'
  BY <1>1, <1>3 DEF Durable
<1>5. ASSUME NEW b \in Durable', NEW a \in Published, Precedes(a, b)
      PROVE  a \in Durable'
  <2>1. b \in Published /\ Stored(b)'
    BY <1>3 DEF Durable
  <2>2. CASE Stored(b)
    BY <1>4, <1>5, <2>1, <2>2 DEF DataInv, TableHasNoGaps, Durable
  <2>3. CASE \E j \in 1 .. BatchSize : b = Bar(buffer[j])
    <3>1. PICK j \in 1 .. BatchSize : b = Bar(buffer[j])
      BY <2>3
    <3>2. j \in DOMAIN buffer /\ j \in Nat
      BY <1>2
    <3>3. Stored(a) \/ \E i \in 1 .. (j - 1) : Bar(buffer[i]) = a
      BY <1>5, <3>1, <3>2 DEF DataInv, BufferInOrder
    <3>4. ASSUME NEW i \in 1 .. (j - 1)
          PROVE  i \in 1 .. BatchSize
      BY <1>2, <3>2
    <3>5. Stored(a)'
      BY <1>1, <3>3, <3>4
    <3>6. QED
      BY <1>3, <3>5 DEF Durable
  <2>4. QED
    BY <1>1, <2>1, <2>2, <2>3
<1>6. TableHasNoGaps'
  BY <1>3, <1>5 DEF TableHasNoGaps, Precedes
<1>7. ASSUME NEW k \in DOMAIN table', NEW i \in DOMAIN table'[k]
      PROVE  table'[k][i] \in Published
  <2>1. CASE k \in DOMAIN table /\ table'[k] = table[k]
    BY <2>1 DEF DataInv, OnlyPublished
  <2>2. CASE i \in 1 .. BatchSize /\ table'[k][i] = Bar(buffer[i])
    <3>1. i \in DOMAIN buffer
      BY <1>2, <2>2
    <3>2. QED
      BY <2>2, <3>1 DEF DataInv, OnlyPublished
  <2>3. QED
    BY <1>1, <2>1, <2>2
<1>8. QED
  BY <1>1, <1>4, <1>6, <1>7

\* The Iceberg commit stores the whole batch.
LEMMA DataInvCommitTable ==
  ASSUME TypeOK, LoopInv, DataInv, CommitTable
  PROVE  DataInv'
<1>1. /\ UNCHANGED <<log, committed, position, buffer, site>>
      /\ Flushing
      /\ table' = Append(table, DataFile)
      /\ BatchSize' = BatchSize
  BY DEF CommitTable, Flushing, BatchSize
<1>2. /\ \A b : Stored(b) => Stored(b)'
      /\ \A b : (\E j \in 1 .. BatchSize : b = Bar(buffer[j])) => Stored(b)'
      /\ Durable \subseteq Durable'
      /\ TableHasNoGaps'
      /\ \A k \in DOMAIN table' : \A i \in DOMAIN table'[k] :
           table'[k][i] \in Published
  BY <1>1, AppendKeepsNoGaps
<1>3. /\ Offsets' = Offsets
      /\ Published' = Published
      /\ \A o : BarsOf(o)' = BarsOf(o)
  BY <1>1 DEF Offsets, Published, BarsOf
<1>4. OnlyPublished'
  BY <1>1, <1>2, <1>3 DEF DataInv, OnlyPublished
<1>5. NothingDropped' /\ BufferInOrder'
  BY <1>1, <1>2, <1>3 DEF DataInv, NothingDropped, BufferInOrder, Buffered
<1>6. BatchStored'
  <2>1. ASSUME NEW j \in 1 .. BatchSize
        PROVE  \A b : b = Bar(buffer[j]) => Stored(b)'
    BY <1>2
  <2>2. QED
    BY <1>1, <2>1 DEF BatchStored, Stored
<1>7. NoLoss'
  BY <1>1, <1>2, <1>3 DEF DataInv, NoLoss
<1>8. QED
  BY <1>2, <1>4, <1>5, <1>6, <1>7 DEF DataInv

\* An Iceberg commit that failed or whose outcome is unknown ends the process;
\* the batch is in the table, or it is not.
LEMMA DataInvCommitTableFails ==
  ASSUME TypeOK, LoopInv, DataInv, CommitTableFails
  PROVE  DataInv'
<1>1. /\ UNCHANGED <<log, committed>>
      /\ buffer' = <<>> /\ position' = 0 /\ stage' = "down"
      /\ Flushing
      /\ table' = table \/ table' = Append(table, DataFile)
  BY DEF CommitTableFails, ProcessGone, Flushing
<1>2. \A o \in Offsets : ~(o < 0)
  BY BarCountType
<1>3. CASE table' = table
  BY <1>1, <1>2, <1>3, DataInvEmptyMemory DEF DataInv, NoLoss
<1>4. CASE table' = Append(table, DataFile)
  <2>1. /\ Durable \subseteq Durable'
        /\ TableHasNoGaps'
        /\ \A k \in DOMAIN table' : \A i \in DOMAIN table'[k] :
             table'[k][i] \in Published
    BY <1>1, <1>4, AppendKeepsNoGaps
  <2>2. /\ Offsets' = Offsets
        /\ Published' = Published
        /\ \A o : BarsOf(o)' = BarsOf(o)
    BY <1>1 DEF Offsets, Published, BarsOf
  <2>3. DOMAIN buffer' = {}
    BY <1>1, EmptySeq
  <2>4. OnlyPublished' /\ BufferInOrder'
    BY <2>1, <2>2, <2>3 DEF OnlyPublished, BufferInOrder
  <2>5. NothingDropped'
    BY <1>1, <1>2, <2>2, PublishedBar DEF NothingDropped
  <2>6. BatchStored' /\ NoLoss'
    BY <1>1, <2>1, <2>2 DEF DataInv, BatchStored, NoLoss
  <2>7. QED
    BY <2>1, <2>4, <2>5, <2>6 DEF DataInv
<1>5. QED
  BY <1>1, <1>3, <1>4

\* commitSync: the offset moves, if at all, to one that is safe, and the rest
\* of the buffer, if the process goes on, stays in order behind the table.
LEMMA DataInvCommitOffsets ==
  ASSUME TypeOK, LoopInv, DataInv, CommitOffsets
  PROVE  DataInv'
<1>1. /\ UNCHANGED <<log, table>>
      /\ stage = "offsets" /\ Flushing
      /\ committed' = committed \/ committed' \in MergedOffset
  BY DEF CommitOffsets, Flushing
<1>2. \A o \in Offsets : o < committed' => BarsOf(o) \subseteq Durable
  BY <1>1, MergedOffsetIsSafe DEF DataInv, NoLoss
<1>3. CASE ExitAfterFlush
  <2>1. buffer' = <<>> /\ position' = 0 /\ stage' = "down"
    BY <1>3 DEF ExitAfterFlush, ProcessGone
  <2>2. \A o \in Offsets : ~(o < 0)
    BY BarCountType
  <2>3. QED
    BY <1>1, <1>2, <2>1, <2>2, DataInvEmptyMemory
<1>4. CASE AfterFlush
  <2>1. /\ buffer' = Remainder /\ position' = position
        /\ stage' # "offsets"
    BY <1>4 DEF AfterFlush
  <2>2. /\ Offsets' = Offsets
        /\ Published' = Published
        /\ \A o : BarsOf(o)' = BarsOf(o)
        /\ \A b : Stored(b)' <=> Stored(b)
        /\ Durable' = Durable
    BY <1>1, SameBars
  <2> DEFINE n == BatchSize
  <2>3. n \in 1 .. Len(buffer)
    BY <1>1, BatchOfFlush DEF LoopInv
  <2>4. /\ DOMAIN buffer = 1 .. Len(buffer)
        /\ Len(buffer) \in Nat
        /\ DOMAIN buffer' = 1 .. (Len(buffer) - n)
        /\ \A j \in 1 .. (Len(buffer) - n) : buffer'[j] = buffer[n + j]
    BY <2>1, <2>3, RemainderOfBuffer DEF TypeOK
  <2>5. \A j \in 1 .. n : Stored(Bar(buffer[j]))
    BY <1>1 DEF DataInv, BatchStored
  <2> HIDE DEF n
  <2>6. OnlyPublished'
    <3>1. ASSUME NEW j \in DOMAIN buffer'
          PROVE  n + j \in DOMAIN buffer /\ buffer'[j] = buffer[n + j]
      BY <2>3, <2>4
    <3>2. QED
      BY <1>1, <2>2, <3>1 DEF DataInv, OnlyPublished
  <2>7. NothingDropped'
    <3>1. ASSUME NEW b \in Buffered
          PROVE  Stored(b) \/ b \in Buffered'
      <4>1. PICK j \in DOMAIN buffer : b = Bar(buffer[j])
        BY DEF Buffered
      <4>2. CASE j \in 1 .. n
        BY <2>5, <4>1, <4>2
      <4>3. CASE j \notin 1 .. n
        <5>1. j - n \in DOMAIN buffer' /\ buffer'[j - n] = buffer[n + (j - n)]
          BY <2>3, <2>4, <4>3
        <5>2. n + (j - n) = j
          BY <2>3, <2>4
        <5>3. QED
          BY <4>1, <5>1, <5>2 DEF Buffered
      <4>4. QED
        BY <4>2, <4>3
    <3>2. QED
      BY <2>1, <2>2, <3>1 DEF DataInv, NothingDropped
  <2>8. BufferInOrder'
    <3>1. SUFFICES ASSUME NEW j \in DOMAIN buffer', NEW a \in Published,
                          Precedes(a, Bar(buffer'[j]))
                   PROVE  \/ Stored(a)
                          \/ \E i \in 1 .. (j - 1) : Bar(buffer'[i]) = a
      BY <2>2 DEF BufferInOrder, Precedes
    <3>2. /\ n + j \in DOMAIN buffer /\ buffer'[j] = buffer[n + j]
          /\ j \in Nat
      BY <2>3, <2>4
    <3>3. Stored(a) \/ \E i \in 1 .. (n + j - 1) : Bar(buffer[i]) = a
      <4>1. PICK q \in DOMAIN buffer : q = n + j
        BY <3>2
      <4>2. Precedes(a, Bar(buffer[q]))
        BY <3>1, <3>2, <4>1
      <4>3. Stored(a) \/ \E i \in 1 .. (q - 1) : Bar(buffer[i]) = a
        BY <4>2 DEF DataInv, BufferInOrder
      <4>4. CASE Stored(a)
        BY <4>4
      <4>5. ASSUME NEW i \in 1 .. (q - 1), Bar(buffer[i]) = a
            PROVE  \E k \in 1 .. (n + j - 1) : Bar(buffer[k]) = a
        <5>1. i \in 1 .. (n + j - 1)
          BY <2>3, <2>4, <3>2, <4>1
        <5>2. QED
          BY <4>5, <5>1
      <4>6. QED
        BY <4>3, <4>4, <4>5
    <3>4. ASSUME NEW i \in 1 .. (n + j - 1), Bar(buffer[i]) = a
          PROVE  \/ Stored(a)
                 \/ \E k \in 1 .. (j - 1) : Bar(buffer'[k]) = a
      <4>1. CASE i \in 1 .. n
        BY <2>5, <3>4, <4>1
      <4>2. CASE i \notin 1 .. n
        <5>1. /\ i - n \in 1 .. (j - 1)
              /\ i - n \in 1 .. (Len(buffer) - n)
              /\ n + (i - n) = i
          BY <2>3, <2>4, <3>2, <4>2
        <5>2. Bar(buffer'[i - n]) = a
          BY <2>4, <3>4, <5>1
        <5>3. QED
          BY <5>1, <5>2
      <4>3. QED
        BY <4>1, <4>2
    <3>5. QED
      BY <3>3, <3>4
  <2>9. BatchStored' /\ NoLoss' /\ TableHasNoGaps'
    BY <1>2, <2>1, <2>2 DEF DataInv, BatchStored, NoLoss, TableHasNoGaps
  <2>10. QED
    BY <2>6, <2>7, <2>8, <2>9 DEF DataInv
<1>5. QED
  BY <1>3, <1>4 DEF CommitOffsets

\* Every step of the loader preserves DataInv.
LEMMA DataInvStep ==
  ASSUME TypeOK, LoopInv, DataInv, [Next]_vars
  PROVE  DataInv'
<1> USE DEF vars, process, history
<1>1. \A o \in Offsets : ~(o < 0)
  BY BarCountType
<1>2. CASE UNCHANGED vars
  BY <1>2, DataInvQuietStep
<1>3. CASE WindowExpires \/ Terminate
  BY <1>3, DataInvQuietStep DEF WindowExpires, Terminate
<1>4. CASE PollNothing \/ FlushExpired \/ KeepBuffering \/ Heartbeat
           \/ FlushOnShutdown \/ WriteDataFile
  BY <1>4, DataInvQuietStep
  DEF PollNothing, FlushExpired, KeepBuffering, Heartbeat, FlushOnShutdown,
      WriteDataFile
<1>5. CASE JvmHalts \/ Crash \/ PollPoison \/ ExitLoop \/ WriteDataFileFails
  <2>1. ProcessGone /\ UNCHANGED <<log, committed, table>>
    BY <1>5 DEF JvmHalts, Crash, PollPoison, ExitLoop, WriteDataFileFails
  <2>2. QED
    BY <1>1, <2>1, DataInvEmptyMemory DEF ProcessGone, DataInv, NoLoss
<1>6. CASE CommitOffsetsFails
  <2>1. /\ ProcessGone /\ UNCHANGED <<log, table>>
        /\ stage = "offsets"
        /\ committed' = committed \/ committed' \in MergedOffset
    BY <1>6 DEF CommitOffsetsFails
  <2>2. \A o \in Offsets : o < committed' => BarsOf(o) \subseteq Durable
    BY <2>1, MergedOffsetIsSafe DEF DataInv, NoLoss
  <2>3. QED
    BY <1>1, <2>1, <2>2, DataInvEmptyMemory DEF ProcessGone
<1>7. CASE Start
  BY <1>7, DataInvEmptyMemory DEF Start, ResumeOffset, DataInv, NoLoss
<1>8. QED
  BY <1>2, <1>3, <1>4, <1>5, <1>6, <1>7, DataInvPublish, DataInvPollRecord,
     DataInvRejoin, DataInvCommitTable, DataInvCommitTableFails,
     DataInvCommitOffsets
  DEF Next, Environment, Loop, Flush

(***************************************************************************)
(* Types.                                                                  *)
(***************************************************************************)

\* A process that is gone leaves well-typed memory behind.
LEMMA TypeOKProcessGone ==
  ASSUME ProcessGone
  PROVE  /\ stage' \in Stages /\ running' \in BOOLEAN /\ position' = 0
         /\ buffer' \in Seq(Entry) /\ site' \in Sites /\ window' \in Windows
  BY EmptySeq DEF ProcessGone, Stages, Sites, Windows

\* Every step keeps the types; the offsets stay within the log because an
\* offset that is committed is the successor of a buffered frame's.
LEMMA TypeOKStep ==
  ASSUME TypeOK, LoopInv, DataInv, [Next]_vars
  PROVE  TypeOK'
<1> USE DEF vars, process, history
<1>1. Len(log) \in Nat
  BY DEF TypeOK
<1>2. CASE UNCHANGED vars
  BY <1>2 DEF TypeOK
<1>3. CASE Publish
  <2>1. PICK f \in FrameKinds : log' = Append(log, f)
    BY <1>3 DEF Publish
  <2>2. log' \in Seq(FrameKinds) /\ Len(log') = Len(log) + 1
    BY <2>1, AppendProperties DEF TypeOK
  <2>3. QED
    BY <1>1, <1>3, <2>2 DEF Publish, TypeOK
<1>4. CASE WindowExpires \/ Terminate \/ Rejoin \/ Start
  <2>1. CASE WindowExpires
    BY <2>1 DEF WindowExpires, TypeOK, Windows
  <2>2. CASE Terminate
    BY <2>2 DEF Terminate, TypeOK
  <2>3. CASE Rejoin
    BY <2>3 DEF Rejoin, ResumeOffset, TypeOK
  <2>4. CASE Start
    <3>1. <<>> \in Seq(Entry)
      BY EmptySeq
    <3>2. QED
      BY <2>4, <3>1 DEF Start, ResumeOffset, TypeOK, Stages, Sites, Windows
  <2>5. QED
    BY <1>4, <2>1, <2>2, <2>3, <2>4
<1>5. CASE JvmHalts \/ Crash \/ PollPoison \/ ExitLoop \/ WriteDataFileFails
  <2>1. ProcessGone /\ UNCHANGED <<log, committed, table, history>>
    BY <1>5 DEF JvmHalts, Crash, PollPoison, ExitLoop, WriteDataFileFails
  <2>2. QED
    BY <1>1, <2>1, TypeOKProcessGone DEF TypeOK
<1>6. CASE PollNothing \/ FlushExpired \/ KeepBuffering \/ Heartbeat
           \/ FlushOnShutdown \/ WriteDataFile
  BY <1>6
  DEF PollNothing, FlushExpired, KeepBuffering, Heartbeat, FlushOnShutdown,
      WriteDataFile, TypeOK, Stages, Sites
<1>7. CASE PollRecord
  <2>1. position \in Offsets
    BY <1>7 DEF PollRecord
  <2>2. EntriesOf(position) \in Seq(Entry)
    BY <2>1, EntriesOfFrame
  <2>3. buffer \o EntriesOf(position) \in Seq(Entry)
    BY <2>2, ConcatProperties DEF TypeOK
  <2>4. position + 1 \in 0 .. Len(log)
    BY <1>1, <2>1 DEF Offsets, TypeOK
  <2>5. OpenWindow(EntriesOf(position)) \in Windows
    BY DEF OpenWindow, Windows, TypeOK
  <2>6. QED
    BY <1>7, <2>3, <2>4, <2>5 DEF PollRecord, TypeOK, Stages, Sites
<1>8. ASSUME Flushing, table' = Append(table, DataFile)
      PROVE  table' \in Seq(Seq(Nat \X Nat))
  <2>1. DataFile \in Seq(Nat \X Nat)
    BY <1>8, BatchOfFlush, DataFileOfBatch DEF LoopInv
  <2> HIDE DEF DataFile
  <2>2. QED
    BY <1>8, <2>1, AppendProperties DEF TypeOK
<1>9. CASE CommitTable
  <2>1. table' \in Seq(Seq(Nat \X Nat))
    BY <1>8, <1>9 DEF CommitTable, Flushing
  <2>2. QED
    BY <1>9, <2>1 DEF CommitTable, TypeOK, Stages
<1>10. CASE CommitTableFails
  <2>1. table' \in Seq(Seq(Nat \X Nat))
    BY <1>8, <1>10 DEF CommitTableFails, Flushing, TypeOK
  <2>2. QED
    BY <1>1, <1>10, <2>1, TypeOKProcessGone DEF CommitTableFails, TypeOK
<1>11. CASE CommitOffsets \/ CommitOffsetsFails
  <2>1. /\ stage = "offsets" /\ Flushing
        /\ UNCHANGED <<log, table, history>>
        /\ committed' = committed \/ committed' \in MergedOffset
        /\ AfterFlush \/ ProcessGone
    BY <1>11 DEF CommitOffsets, CommitOffsetsFails, ExitAfterFlush, Flushing
  <2>2. committed' \in 0 .. Len(log)
    BY <2>1, MergedOffsetIsSafe DEF TypeOK
  <2>3. CASE ProcessGone
    BY <1>1, <2>1, <2>2, <2>3, TypeOKProcessGone DEF TypeOK
  <2>4. CASE AfterFlush
    <3>1. Remainder \in Seq(Entry)
      BY <2>1, BatchOfFlush, RemainderOfBuffer DEF LoopInv
    <3>2. QED
      BY <2>1, <2>2, <2>4, <3>1
      DEF AfterFlush, ResetWindow, TypeOK, Stages, Windows
  <2>5. QED
    BY <2>1, <2>3, <2>4
<1>12. QED
  BY <1>2, <1>3, <1>4, <1>5, <1>6, <1>7, <1>9, <1>10, <1>11
  DEF Next, Environment, Loop, Flush

(***************************************************************************)
(* Theorems.                                                               *)
(***************************************************************************)

\* The strengthened invariant holds in every reachable state, for every
\* batch size, topic and number of sessions.
THEOREM InductiveInvariant == Spec => []IInv
<1>1. Init => IInv
  <2> SUFFICES ASSUME Init PROVE IInv
    OBVIOUS
  <2> USE DEF Init
  <2>1. Len(<<>>) = 0 /\ DOMAIN <<>> = {}
    BY EmptySeq
  <2>2. Offsets = {} /\ Published = {} /\ Durable = {}
    BY <2>1 DEF Offsets, Published, Durable
  <2>3. TypeOK
    <3>1. /\ log \in Seq(FrameKinds) /\ table \in Seq(Seq(Nat \X Nat))
          /\ buffer \in Seq(Entry)
      BY EmptySeq
    <3>2. committed \in 0 .. Len(log) /\ position \in 0 .. Len(log)
      BY <2>1
    <3>3. /\ sessions \in Nat /\ rejoins \in Nat /\ running \in BOOLEAN
          /\ stage \in Stages /\ site \in Sites /\ window \in Windows
      BY DEF Stages, Sites, Windows
    <3>4. QED
      BY <3>1, <3>2, <3>3 DEF TypeOK
  <2>4. LoopInv
    BY <2>1, LoaderAssumption
    DEF LoopInv, BatchShape, WindowTracksBuffer, BoundedFiles, Flushing
  <2>5. DataInv
    BY <2>1, <2>2
    DEF DataInv, OnlyPublished, NothingDropped, BufferInOrder, BatchStored,
        NoLoss, TableHasNoGaps
  <2>6. QED
    BY <2>3, <2>4, <2>5 DEF IInv
<1>2. IInv /\ [Next]_vars => IInv'
  BY TypeOKStep, LoopInvStep, DataInvStep DEF IInv
<1>3. QED
  BY <1>1, <1>2, PTL DEF Spec

\* Types, and the ranges of the committed offset and of the position.
THEOREM TypeCorrectness == Spec => []TypeOK
<1>1. IInv => TypeOK
  BY DEF IInv
<1>2. QED
  BY <1>1, InductiveInvariant, PTL

\* An offset is committed only when everything below it is in the table.
THEOREM CommittedIsDurable == Spec => []NoLoss
<1>1. IInv => NoLoss
  BY DEF IInv, DataInv
<1>2. QED
  BY <1>1, InductiveInvariant, PTL

\* The table grows along the stream and never has a gap.
THEOREM NoGaps == Spec => []TableHasNoGaps
<1>1. IInv => TableHasNoGaps
  BY DEF IInv, DataInv
<1>2. QED
  BY <1>1, InductiveInvariant, PTL

\* No data file is empty or larger than a batch, and the partial-batch clock
\* runs exactly while bars wait for it.
THEOREM BatchesAreBounded == Spec => [](BoundedFiles /\ WindowTracksBuffer)
<1>1. IInv => BoundedFiles /\ WindowTracksBuffer
  BY DEF IInv, LoopInv
<1>2. QED
  BY <1>1, InductiveInvariant, PTL

(***************************************************************************)
(* The loader implements DurableDelivery.                                  *)
(***************************************************************************)

\* The bars below an offset are the published bars of the frames below it.
LEMMA BelowIsPublished ==
  ASSUME NEW o
  PROVE  Delivery!BarsBelow(o) = {b \in Published : b[1] < o}
  BY DEF Delivery!BarsBelow, Delivery!Offsets, Delivery!BarsOf, Published,
         Offsets, BarsOf

\* A data file that reaches the table is a step of Store.
LEMMA TableStepStores ==
  ASSUME IInv, IInv', Flushing, table' = Append(table, DataFile),
         UNCHANGED <<log, committed>>
  PROVE  Delivery!Store
<1> USE DEF IInv
<1>1. Durable \subseteq Durable'
  BY AppendKeepsNoGaps DEF LoopInv
<1>2. Published' = Published
  BY DEF Published, Offsets, BarsOf
<1>3. ASSUME NEW b \in Durable'
      PROVE  b \in Published /\ b[1] < Len(log)
  <2>1. b \in Published
    BY <1>2 DEF Durable
  <2>2. b[1] \in Offsets
    BY <2>1, PublishedBar
  <2>3. QED
    BY <2>1, <2>2 DEF Offsets, TypeOK
<1>4. Durable' \subseteq Delivery!BarsBelow(Len(log))
  BY <1>3, BelowIsPublished
<1>5. Delivery!GapFree(Durable')
  <2>1. ASSUME NEW b \in Durable', NEW a \in Delivery!BarsBelow(b[1] + 1),
               Delivery!Precedes(a, b)
        PROVE  a \in Durable'
    <3>1. a \in Published'
      BY <1>2, BelowIsPublished
    <3>2. Precedes(a, b)
      BY <2>1 DEF Precedes, Delivery!Precedes
    <3>3. QED
      BY <3>1, <3>2 DEF DataInv, TableHasNoGaps, Precedes
  <2>2. QED
    BY <2>1 DEF Delivery!GapFree
<1>6. QED
  BY <1>1, <1>4, <1>5 DEF Delivery!Store

\* A step that may move the committed offset, and nothing else that the
\* abstract promise sees, is a step of Acknowledge.
LEMMA OffsetStepAcknowledges ==
  ASSUME IInv, IInv', UNCHANGED <<log, table>>
  PROVE  Delivery!Acknowledge
<1> USE DEF IInv
<1>1. /\ Offsets' = Offsets
      /\ Published' = Published
      /\ \A o : BarsOf(o)' = BarsOf(o)
      /\ Durable' = Durable
  BY SameBars
<1>2. committed' \in 0 .. Len(log)
  BY DEF TypeOK
<1>3. ASSUME NEW b \in Published, b[1] < committed'
      PROVE  b \in Durable
  <2>1. b[1] \in Offsets /\ b \in BarsOf(b[1])
    BY PublishedBar
  <2>2. QED
    BY <1>1, <1>3, <2>1 DEF DataInv, NoLoss
<1>4. Delivery!BarsBelow(committed') \subseteq Durable
  BY <1>3, BelowIsPublished
<1>5. QED
  BY <1>1, <1>2, <1>4 DEF Delivery!Acknowledge

\* The loader does what DurableDelivery promises, whatever fails and for every
\* instance: frames are published, bars become durable without gaps, offsets
\* are acknowledged below durable bars only, and no other step is visible.
THEOREM Implementation == Spec => DeliverySpec
<1>1. Init => Delivery!Init
  <2> SUFFICES ASSUME Init PROVE Delivery!Init
    OBVIOUS
  <2>1. Published = {}
    BY EmptySeq DEF Init, Published, Offsets
  <2>2. QED
    BY <2>1 DEF Init, Delivery!Init, Durable
<1>2. IInv /\ IInv' /\ [Next]_vars => [Delivery!Next]_(Delivery!vars)
  <2> SUFFICES ASSUME IInv, IInv', [Next]_vars
               PROVE  Delivery!Next \/ UNCHANGED Delivery!vars
    OBVIOUS
  <2>1. CASE Publish
    <3>1. Durable' = Durable /\ committed' = committed
      BY <2>1, PublishKeepsBars DEF IInv, DataInv
    <3>2. QED
      BY <2>1, <3>1 DEF Publish, Delivery!Next, Delivery!Publish
  <2>2. CASE CommitTable
    BY <2>2, TableStepStores DEF CommitTable, Flushing, Delivery!Next
  <2>3. CASE CommitTableFails
    <3>1. CASE table' = table
      BY <2>3, <3>1, OffsetStepAcknowledges
      DEF CommitTableFails, Delivery!Next
    <3>2. CASE table' = Append(table, DataFile)
      BY <2>3, <3>2, TableStepStores
      DEF CommitTableFails, Flushing, Delivery!Next
    <3>3. QED
      BY <2>3, <3>1, <3>2 DEF CommitTableFails
  <2>4. CASE UNCHANGED <<log, table>>
    BY <2>4, OffsetStepAcknowledges DEF Delivery!Next
  <2>5. CASE UNCHANGED vars \/ (Environment /\ ~Publish) \/ Loop
    BY <2>4, <2>5
    DEF vars, process, Environment, WindowExpires, Terminate, JvmHalts, Crash,
        Rejoin, Loop, Start, PollRecord, PollPoison, PollNothing,
        FlushExpired, KeepBuffering, Heartbeat, FlushOnShutdown, ExitLoop
  <2>6. CASE WriteDataFile \/ WriteDataFileFails \/ CommitOffsets
             \/ CommitOffsetsFails
    BY <2>4, <2>6
    DEF WriteDataFile, WriteDataFileFails, CommitOffsets, CommitOffsetsFails
  <2>7. QED
    BY <2>1, <2>2, <2>3, <2>5, <2>6 DEF Next, Flush
<1>3. QED
  BY <1>1, <1>2, InductiveInvariant, PTL
  DEF Spec, DeliverySpec, Delivery!Spec

-----------------------------------------------------------------------------
(* The inductive invariant, beyond IInv.                                   *)

\* Nothing is at or beyond a frame that does not decode.
PoisonInv ==
  \A o \in Offsets : log[o + 1] = Poison =>
    /\ committed <= o
    /\ position <= o
    /\ \A j \in DOMAIN buffer : buffer[j].source < o
    /\ \A b \in Durable : b[1] < o

\* Without a rejoin the buffer holds a stretch of the topic: in order, from
\* the committed offset on and before the position.
OrderInv ==
  rejoins = 0 =>
    /\ stage # "down" => committed <= position
    /\ \A j \in DOMAIN buffer :
         committed <= buffer[j].source /\ buffer[j].source < position
    /\ \A i, j \in DOMAIN buffer : i < j => Precedes(Bar(buffer[i]), Bar(buffer[j]))

\* The rows of a bar.
Rows(b) ==
  {kj \in UNION {{k} \X DOMAIN table[k] : k \in DOMAIN table} :
     table[kj[1]][kj[2]] = b}

\* The entries of a bar that no data file has yet.
Waiting(b) ==
  {j \in DOMAIN buffer : Bar(buffer[j]) = b /\ (stage = "offsets" => j > BatchSize)}

\* A session reads each bar once at most: the bar is in the table, waits in
\* the buffer, or is still ahead of the session.
AheadOf(b) == IF stage # "down" /\ b[1] >= position THEN 1 ELSE 0

RedeliveryInv ==
  \A b \in Nat \X Nat : Copies(b) + Cardinality(Waiting(b)) + AheadOf(b) <= sessions
-----------------------------------------------------------------------------
(* The kinds of steps, by what they do to the bars.                        *)

CalmStep ==
  /\ UNCHANGED <<log, committed, table, position, buffer, sessions, rejoins>>
  /\ stage = "offsets" \/ stage' = "offsets" => UNCHANGED <<stage, site>>
  /\ stage = "down" <=> stage' = "down"

\* The process ends, and a commit to table or group may have succeeded.
EndStep ==
  /\ ProcessGone
  /\ UNCHANGED <<log, sessions, rejoins>>
  /\ \/ table' = table
     \/ stage = "commit" /\ table' = Append(table, DataFile)
  /\ \/ committed' = committed
     \/ stage = "offsets" /\ committed' \in MergedOffset

\* The steps, by what they do to bars and offsets.
LEMMA StepKinds ==
  ASSUME [Next]_vars
  PROVE  \/ CalmStep \/ EndStep
         \/ Publish \/ Start \/ Rejoin \/ PollRecord \/ CommitTable
         \/ CommitOffsets /\ AfterFlush
<1> USE DEF vars, process, history
<1>1. CASE UNCHANGED vars
  BY <1>1 DEF CalmStep
<1>2. CASE WindowExpires \/ Terminate
  BY <1>2 DEF CalmStep, WindowExpires, Terminate
<1>3. CASE PollNothing \/ FlushExpired \/ KeepBuffering \/ Heartbeat
  BY <1>3 DEF CalmStep, PollNothing, FlushExpired, KeepBuffering, Heartbeat
<1>4. CASE FlushOnShutdown \/ WriteDataFile
  BY <1>4 DEF CalmStep, FlushOnShutdown, WriteDataFile
<1>5. CASE JvmHalts \/ Crash \/ PollPoison \/ ExitLoop \/ WriteDataFileFails
  BY <1>5 DEF EndStep, JvmHalts, Crash, PollPoison, ExitLoop, WriteDataFileFails
<1>6. CASE CommitTableFails \/ CommitOffsetsFails
  BY <1>6 DEF EndStep, CommitTableFails, CommitOffsetsFails
<1>7. CASE CommitOffsets /\ ExitAfterFlush
  BY <1>7 DEF EndStep, CommitOffsets, ExitAfterFlush
<1>8. QED
  BY <1>1, <1>2, <1>3, <1>4, <1>5, <1>6, <1>7
     DEF Next, Environment, Loop, Flush, CommitOffsets

\* The types of the buffer and of the offsets, entry by entry.
LEMMA BufferTypes ==
  ASSUME TypeOK
  PROVE  /\ committed \in Nat /\ position \in Nat /\ rejoins \in Nat /\ sessions \in Nat
         /\ DOMAIN buffer = 1 .. Len(buffer) /\ Len(buffer) \in Nat
         /\ \A j \in DOMAIN buffer :
              /\ j \in Nat /\ buffer[j].source \in Nat /\ buffer[j].index \in Nat
              /\ Bar(buffer[j]) = <<buffer[j].source, buffer[j].index>>
<1>1. buffer \in Seq(Entry)
  BY DEF TypeOK
<1>2. DOMAIN buffer = 1 .. Len(buffer) /\ Len(buffer) \in Nat
  BY <1>1
<1>3. \A j \in DOMAIN buffer : buffer[j] \in Entry
  BY <1>1
<1>4. \A j \in DOMAIN buffer :
        /\ j \in Nat /\ buffer[j].source \in Nat /\ buffer[j].index \in Nat
        /\ Bar(buffer[j]) = <<buffer[j].source, buffer[j].index>>
  BY <1>2, <1>3 DEF Entry, Bar
<1>5. committed \in Nat /\ position \in Nat /\ rejoins \in Nat /\ sessions \in Nat
  BY DEF TypeOK
<1>6. QED
  BY <1>2, <1>4, <1>5

\* The entries PollRecord adds, all of the frame at the position.
LEMMA PollRecordEntries ==
  ASSUME TypeOK, PollRecord
  PROVE  /\ position \in Offsets /\ position \in Nat /\ log[position + 1] # Poison
         /\ position' = position + 1 /\ UNCHANGED <<log, committed, table, sessions, rejoins>>
         /\ stage = "poll" /\ stage' \in {"write", "timeout"}
         /\ Len(buffer) \in Nat /\ DOMAIN buffer = 1 .. Len(buffer)
         /\ BarCount(log[position + 1]) \in Nat
         /\ DOMAIN buffer' = 1 .. (Len(buffer) + BarCount(log[position + 1]))
         /\ \A j \in DOMAIN buffer : j \in DOMAIN buffer' /\ buffer'[j] = buffer[j]
         /\ \A j \in DOMAIN buffer' : j \notin DOMAIN buffer =>
              /\ j > Len(buffer)
              /\ buffer'[j].source = position
              /\ buffer'[j].index = j - Len(buffer)
<1> DEFINE es == EntriesOf(position)
           n  == BarCount(log[position + 1])
<1>1. /\ position \in Offsets /\ log[position + 1] # Poison
      /\ buffer' = buffer \o es /\ position' = position + 1
      /\ UNCHANGED <<log, committed, table, sessions, rejoins>>
      /\ stage = "poll" /\ stage' \in {"write", "timeout"}
  BY DEF PollRecord, history
<1>2. n \in Nat /\ position \in Nat
  BY <1>1, BarCountType
<1>3. /\ es \in Seq(Entry) /\ Len(es) = n
      /\ \A i \in 1 .. n : es[i].source = position /\ es[i].index = i
  <2>1. /\ es \in Seq(Entry) /\ Len(es) = n
        /\ \A i \in 1 .. n : es[i] = [source |-> position, index |-> i, final |-> i = n]
    BY <1>1, EntriesOfFrame
  <2> HIDE DEF es, n
  <2>2. \A i \in 1 .. n : es[i].source = position /\ es[i].index = i
    BY <2>1
  <2>3. QED
    BY <2>1, <2>2
<1> HIDE DEF es, n
<1>4. buffer \in Seq(Entry) /\ Len(buffer) \in Nat /\ DOMAIN buffer = 1 .. Len(buffer)
  BY DEF TypeOK
<1>5. /\ buffer' \in Seq(Entry) /\ Len(buffer') = Len(buffer) + n
      /\ \A j \in 1 .. Len(buffer) + n :
           buffer'[j] = IF j <= Len(buffer) THEN buffer[j] ELSE es[j - Len(buffer)]
  BY <1>1, <1>3, <1>4, ConcatProperties
<1>6. DOMAIN buffer' = 1 .. (Len(buffer) + n)
  BY <1>5
<1>7. \A j \in DOMAIN buffer : j \in DOMAIN buffer' /\ buffer'[j] = buffer[j]
  BY <1>2, <1>4, <1>5, <1>6
<1>8. ASSUME NEW j \in DOMAIN buffer', j \notin DOMAIN buffer
      PROVE  /\ j > Len(buffer)
             /\ buffer'[j].source = position
             /\ buffer'[j].index = j - Len(buffer)
  <2>1. j > Len(buffer) /\ j - Len(buffer) \in 1 .. n
    BY <1>2, <1>4, <1>6, <1>8
  <2>2. buffer'[j] = es[j - Len(buffer)]
    BY <1>4, <1>5, <1>6, <2>1
  <2>3. QED
    BY <1>3, <2>1, <2>2
<1>9. QED
  BY <1>1, <1>2, <1>4, <1>6, <1>7, <1>8 DEF n

\* What stays in the buffer when a flush returns.
LEMMA AfterFlushEntries ==
  ASSUME TypeOK, LoopInv, CommitOffsets, AfterFlush
  PROVE  /\ UNCHANGED <<log, table, position, sessions, rejoins>>
         /\ stage = "offsets" /\ stage' \notin {"offsets", "down"}
         /\ committed' = committed \/ committed' \in MergedOffset
         /\ BatchSize \in 1 .. Len(buffer) /\ Len(buffer) \in Nat
         /\ DOMAIN buffer = 1 .. Len(buffer)
         /\ DOMAIN buffer' = 1 .. (Len(buffer) - BatchSize)
         /\ \A j \in DOMAIN buffer' :
              BatchSize + j \in DOMAIN buffer /\ buffer'[j] = buffer[BatchSize + j]
<1>1. /\ UNCHANGED <<log, table, position, sessions, rejoins>>
      /\ stage = "offsets" /\ stage' \notin {"offsets", "down"} /\ buffer' = Remainder
      /\ committed' = committed \/ committed' \in MergedOffset
  BY DEF CommitOffsets, AfterFlush, history
<1>2. BatchSize \in 1 .. Len(buffer)
  BY <1>1, BatchOfFlush DEF Flushing, LoopInv
<1>3. /\ Len(buffer) \in Nat /\ DOMAIN buffer = 1 .. Len(buffer)
  BY DEF TypeOK
<1>4. /\ Remainder \in Seq(Entry) /\ Len(Remainder) = Len(buffer) - BatchSize
      /\ \A i \in 1 .. Len(Remainder) : Remainder[i] = buffer[BatchSize + i]
  BY <1>2, RemainderOfBuffer
<1> HIDE DEF BatchSize
<1>5. DOMAIN buffer' = 1 .. (Len(buffer) - BatchSize)
  BY <1>1, <1>4
<1>6. \A j \in DOMAIN buffer' :
        BatchSize + j \in DOMAIN buffer /\ buffer'[j] = buffer[BatchSize + j]
  BY <1>1, <1>2, <1>3, <1>4, <1>5
<1>7. QED
  BY <1>1, <1>2, <1>3, <1>5, <1>6

\* An offset that is committed is the one after the frame of a final entry.
LEMMA MergedOffsetEntry ==
  ASSUME TypeOK, LoopInv, stage = "offsets", NEW c \in MergedOffset
  PROVE  \E j \in DOMAIN buffer :
           j <= BatchSize /\ buffer[j].final /\ c = buffer[j].source + 1
<1>1. BatchSize \in 1 .. Len(buffer) /\ DOMAIN buffer = 1 .. Len(buffer)
  BY BatchOfFlush DEF Flushing, LoopInv, TypeOK
<1>2. \E j \in 1 .. BatchSize : buffer[j].final /\ c = buffer[j].source + 1
  BY DEF MergedOffset, OffsetsToCommit
<1> HIDE DEF BatchSize
<1>3. QED
  BY <1>1, <1>2

-----------------------------------------------------------------------------
(* Frames that do not decode.                                              *)

\* No step gets past a frame that does not decode.
LEMMA PoisonInvStep ==
  ASSUME TypeOK, LoopInv, DataInv, PoisonInv, [Next]_vars
  PROVE  PoisonInv'
<1>1. /\ Len(log) \in Nat /\ committed \in 0 .. Len(log) /\ position \in 0 .. Len(log)
      /\ \A o \in Offsets : o \in Nat
      /\ \A j \in DOMAIN buffer : buffer[j].source \in Offsets /\ buffer[j] \in Entry
      /\ \A j \in DOMAIN buffer : Bar(buffer[j])[1] = buffer[j].source
  <2>1. \A j \in DOMAIN buffer : buffer[j] \in Entry
    BY DEF TypeOK
  <2>2. \A j \in DOMAIN buffer : Bar(buffer[j])[1] = buffer[j].source
    BY DEF Bar
  <2>3. \A j \in DOMAIN buffer : Bar(buffer[j])[1] \in Offsets
    BY PublishedBar DEF DataInv, OnlyPublished
  <2>4. /\ Len(log) \in Nat /\ committed \in 0 .. Len(log) /\ position \in 0 .. Len(log)
    BY DEF TypeOK
  <2>5. \A o \in Offsets : o \in Nat
    BY BarCountType
  <2>6. QED
    BY <2>1, <2>2, <2>3, <2>4, <2>5
<1>2. DOMAIN <<>> = {}
  BY EmptySeq
<1>3. ASSUME log' = log, NEW o \in Offsets, log[o + 1] = Poison,
             stage = "commit", table' = Append(table, DataFile)
      PROVE  \A b \in Durable' : b[1] < o
  <2>1. BatchSize \in 1 .. Len(buffer) /\ DOMAIN buffer = 1 .. Len(buffer)
    BY <1>3, BatchOfFlush DEF Flushing, LoopInv, TypeOK
  <2>2. Published' = Published
    BY <1>3 DEF Published, Offsets, BarsOf
  <2>3. \A b : Stored(b)' => Stored(b) \/ \E j \in 1 .. BatchSize : b = Bar(buffer[j])
    BY <1>3, AppendStores DEF Flushing, LoopInv
  <2> HIDE DEF BatchSize
  <2>4. \A j \in 1 .. BatchSize : j \in DOMAIN buffer
    BY <1>1, <2>1
  <2>5. QED
    BY <1>1, <1>3, <2>2, <2>3, <2>4 DEF PoisonInv, Durable
<1>4. ASSUME NEW o \in Offsets, log[o + 1] = Poison,
             \/ committed' = committed
             \/ stage = "offsets" /\ committed' \in MergedOffset
      PROVE  committed' <= o
  <2>1. CASE committed' = committed
    BY <1>4, <2>1 DEF PoisonInv
  <2>2. CASE stage = "offsets" /\ committed' \in MergedOffset
    <3>1. PICK j \in DOMAIN buffer : committed' = buffer[j].source + 1
      BY <2>2, MergedOffsetEntry
    <3>2. buffer[j].source < o /\ buffer[j].source \in Nat /\ o \in Nat
      BY <1>1, <1>4 DEF PoisonInv
    <3>3. QED
      BY <3>1, <3>2
  <2>3. QED
    BY <1>4, <2>1, <2>2
<1>5. CASE CalmStep
  BY <1>5, SameBars DEF CalmStep, PoisonInv
<1>6. CASE EndStep
  <2>1. log' = log /\ Offsets' = Offsets /\ buffer' = <<>> /\ position' = 0
    BY <1>6 DEF EndStep, ProcessGone, Offsets
  <2>2. ASSUME NEW o \in Offsets, log[o + 1] = Poison
        PROVE  committed' <= o /\ 0 <= o /\ \A b \in Durable' : b[1] < o
    <3>1. committed' <= o
      BY <1>4, <1>6, <2>2 DEF EndStep
    <3>2. \A b \in Durable' : b[1] < o
      <4>1. CASE table' = table
        BY <2>1, <2>2, <4>1, SameBars DEF PoisonInv
      <4>2. CASE stage = "commit" /\ table' = Append(table, DataFile)
        BY <1>3, <2>1, <2>2, <4>2
      <4>3. QED
        BY <1>6, <4>1, <4>2 DEF EndStep
    <3>3. QED
      BY <1>1, <3>1, <3>2
  <2>3. QED
    BY <1>2, <2>1, <2>2 DEF PoisonInv
<1>7. CASE Publish
  <2>1. /\ UNCHANGED <<committed, position, buffer>> /\ Durable' = Durable
        /\ \A o \in Offsets : log'[o + 1] = log[o + 1] /\ o < Len(log)
        /\ \A o \in Offsets' : o \in Offsets \/ o = Len(log)
    BY <1>7, PublishKeepsBars DEF DataInv
  <2>2. \A b \in Durable : b[1] < Len(log)
    BY <2>1, PublishedBar DEF Durable
  <2>3. QED
    BY <1>1, <2>1, <2>2 DEF PoisonInv
<1>8. CASE Start \/ Rejoin
  <2>1. /\ UNCHANGED <<log, committed, table>> /\ position' = committed
        /\ buffer' = buffer \/ buffer' = <<>>
    BY <1>8 DEF Start, Rejoin, ResumeOffset
  <2>2. QED
    BY <1>2, <2>1, SameBars DEF PoisonInv
<1>9. CASE PollRecord
  <2>1. /\ position \in Offsets /\ position \in Nat /\ log[position + 1] # Poison
        /\ position' = position + 1 /\ UNCHANGED <<log, committed, table>>
        /\ \A j \in DOMAIN buffer : buffer'[j] = buffer[j]
        /\ \A j \in DOMAIN buffer' : j \notin DOMAIN buffer => buffer'[j].source = position
    BY <1>9, PollRecordEntries
  <2>2. ASSUME NEW o \in Offsets, log[o + 1] = Poison
        PROVE  position < o
    <3>1. position <= o /\ position # o /\ o \in Nat
      BY <1>1, <2>1, <2>2 DEF PoisonInv
    <3>2. QED
      BY <2>1, <3>1
  <2>3. \A o \in Offsets : position < o => position + 1 <= o
    BY <1>1, <2>1
  <2>4. QED
    BY <2>1, <2>2, <2>3, SameBars DEF PoisonInv
<1>10. CASE CommitTable
  <2>1. /\ stage = "commit" /\ table' = Append(table, DataFile)
        /\ UNCHANGED <<log, committed, position, buffer>>
    BY <1>10 DEF CommitTable
  <2>2. Offsets' = Offsets
    BY <2>1 DEF Offsets
  <2>3. QED
    BY <1>3, <2>1, <2>2 DEF PoisonInv
<1>11. CASE CommitOffsets /\ AfterFlush
  <2>1. /\ UNCHANGED <<log, table, position>> /\ stage = "offsets"
        /\ committed' = committed \/ committed' \in MergedOffset
        /\ \A j \in DOMAIN buffer' :
             BatchSize + j \in DOMAIN buffer /\ buffer'[j] = buffer[BatchSize + j]
    BY <1>11, AfterFlushEntries
  <2>2. Offsets' = Offsets /\ Durable' = Durable
    BY <2>1, SameBars
  <2>3. \A o \in Offsets : log[o + 1] = Poison => committed' <= o
    BY <1>4, <2>1
  <2>4. QED
    BY <2>1, <2>2, <2>3 DEF PoisonInv
<1>12. QED
  BY <1>5, <1>6, <1>7, <1>8, <1>9, <1>10, <1>11, StepKinds

\* A frame that does not decode is never passed over, by any session.
THEOREM PoisonIsNeverPassed == Spec => []PoisonBlocks
<1>1. Init => PoisonInv
  <2>1. Init => Offsets = {}
    BY EmptySeq DEF Init, Offsets
  <2>2. QED
    BY <2>1 DEF PoisonInv
<1>2. IInv /\ PoisonInv /\ [Next]_vars => PoisonInv'
  BY PoisonInvStep DEF IInv
<1>3. PoisonInv => PoisonBlocks
  BY DEF PoisonInv, PoisonBlocks
<1>4. QED
  BY <1>1, <1>2, <1>3, InductiveInvariant, PTL DEF Spec

-----------------------------------------------------------------------------
(* The committed offset.                                                   *)

\* Entries are in stream order.
LEMMA StreamOrder ==
  ASSUME TypeOK, NEW i \in DOMAIN buffer, NEW j \in DOMAIN buffer
  PROVE  Precedes(Bar(buffer[i]), Bar(buffer[j])) <=>
           \/ buffer[i].source < buffer[j].source
           \/ /\ buffer[i].source = buffer[j].source
              /\ buffer[i].index < buffer[j].index
  BY BufferTypes DEF Precedes

\* What a flush commits is not below the committed offset, nor beyond the
\* entries that stay in the buffer: they follow a final entry of the batch.
LEMMA MergedOffsetInOrder ==
  ASSUME TypeOK, LoopInv, OnlyPublished, OrderInv, rejoins = 0, stage = "offsets",
         NEW c \in MergedOffset
  PROVE  /\ c \in Nat /\ committed <= c /\ c <= position
         /\ \A j \in DOMAIN buffer : j > BatchSize => c <= buffer[j].source
<1>1. PICK k \in DOMAIN buffer :
        k <= BatchSize /\ buffer[k].final /\ c = buffer[k].source + 1
  BY MergedOffsetEntry
<1>2. /\ \A j \in DOMAIN buffer :
           /\ buffer[j].source \in Nat /\ buffer[j].index \in Nat /\ j \in Nat
           /\ Bar(buffer[j]) = <<buffer[j].source, buffer[j].index>>
      /\ position \in Nat /\ committed \in Nat
  BY BufferTypes
<1>3. BatchSize \in Nat
  BY BatchOfFlush DEF Flushing, LoopInv, TypeOK
<1> HIDE DEF BatchSize
<1>4. /\ committed <= buffer[k].source /\ buffer[k].source < position
      /\ \A j \in DOMAIN buffer : k < j => Precedes(Bar(buffer[k]), Bar(buffer[j]))
  BY DEF OrderInv
<1>5. c \in Nat /\ committed <= c /\ c <= position
  BY <1>1, <1>2, <1>4
<1>6. ASSUME NEW j \in DOMAIN buffer, j > BatchSize
      PROVE  c <= buffer[j].source
  <2>1. k < j
    BY <1>1, <1>2, <1>3, <1>6
  <2>2. \/ buffer[k].source < buffer[j].source
        \/ /\ buffer[k].source = buffer[j].source
           /\ buffer[k].index < buffer[j].index
    BY <1>4, <2>1, StreamOrder
  <2>3. buffer[k].index = BarCount(log[buffer[k].source + 1])
    BY <1>1 DEF OnlyPublished
  <2>4. buffer[j].index \in 1 .. BarCount(log[buffer[j].source + 1])
    <3>1. Bar(buffer[j]) \in Published
      BY DEF OnlyPublished
    <3>2. Bar(buffer[j])[1] = buffer[j].source /\ Bar(buffer[j])[2] = buffer[j].index
      BY <1>2
    <3>3. QED
      BY <3>1, <3>2, PublishedBar
  <2>5. ~(buffer[k].source = buffer[j].source /\ buffer[k].index < buffer[j].index)
    BY <1>2, <2>3, <2>4
  <2>6. QED
    BY <1>1, <1>2, <2>2, <2>5
<1>7. QED
  BY <1>5, <1>6

\* Without a rejoin every step keeps the buffer a stretch of the topic.
LEMMA OrderInvStep ==
  ASSUME TypeOK, LoopInv, OnlyPublished, OrderInv, [Next]_vars
  PROVE  OrderInv'
<1>1. /\ committed \in Nat /\ position \in Nat /\ rejoins \in Nat
      /\ DOMAIN buffer = 1 .. Len(buffer) /\ Len(buffer) \in Nat
      /\ \A j \in DOMAIN buffer :
           /\ buffer[j].source \in Nat /\ buffer[j].index \in Nat /\ j \in Nat
           /\ Bar(buffer[j]) = <<buffer[j].source, buffer[j].index>>
  BY BufferTypes
<1>2. DOMAIN <<>> = {}
  BY EmptySeq
<1>3. CASE CalmStep
  BY <1>3 DEF CalmStep, OrderInv
<1>4. CASE EndStep
  BY <1>2, <1>4 DEF EndStep, ProcessGone, OrderInv
<1>5. CASE Publish
  BY <1>5 DEF Publish, process, history, OrderInv
<1>6. CASE Start
  <2>1. /\ buffer' = <<>> /\ position' = committed /\ UNCHANGED <<committed, rejoins>>
    BY <1>6 DEF Start, ResumeOffset
  <2>2. QED
    BY <1>1, <1>2, <2>1 DEF OrderInv
<1>7. CASE Rejoin
  BY <1>1, <1>7 DEF Rejoin, OrderInv
<1>8. CASE PollRecord
  <2>1. /\ position' = position + 1 /\ UNCHANGED <<committed, rejoins>>
        /\ stage = "poll"
        /\ \A j \in DOMAIN buffer : j \in DOMAIN buffer' /\ buffer'[j] = buffer[j]
        /\ \A j \in DOMAIN buffer' : j \notin DOMAIN buffer =>
             /\ j > Len(buffer)
             /\ buffer'[j].source = position
             /\ buffer'[j].index = j - Len(buffer)
    BY <1>8, PollRecordEntries
  <2> SUFFICES ASSUME rejoins = 0
               PROVE  /\ committed <= position + 1
                      /\ \A j \in DOMAIN buffer' :
                           /\ committed <= buffer'[j].source
                           /\ buffer'[j].source < position + 1
                      /\ \A i, j \in DOMAIN buffer' :
                           i < j => Precedes(Bar(buffer'[i]), Bar(buffer'[j]))
    BY <2>1 DEF OrderInv, Bar
  <2>2. /\ committed <= position
        /\ \A j \in DOMAIN buffer :
             committed <= buffer[j].source /\ buffer[j].source < position
        /\ \A i, j \in DOMAIN buffer : i < j => Precedes(Bar(buffer[i]), Bar(buffer[j]))
    BY <2>1 DEF OrderInv
  <2>3. ASSUME NEW j \in DOMAIN buffer'
        PROVE  committed <= buffer'[j].source /\ buffer'[j].source < position + 1
    <3>1. CASE j \in DOMAIN buffer
      BY <1>1, <2>1, <2>2, <3>1
    <3>2. CASE j \notin DOMAIN buffer
      BY <1>1, <2>1, <2>2, <3>2
    <3>3. QED
      BY <3>1, <3>2
  <2>4. ASSUME NEW i \in DOMAIN buffer', NEW j \in DOMAIN buffer', i < j
        PROVE  Precedes(Bar(buffer'[i]), Bar(buffer'[j]))
    <3>1. CASE i \in DOMAIN buffer /\ j \in DOMAIN buffer
      BY <2>1, <2>2, <2>4, <3>1
    <3>2. CASE i \in DOMAIN buffer /\ j \notin DOMAIN buffer
      <4>1. buffer'[i].source < position /\ buffer'[j].source = position
        BY <2>1, <2>2, <3>2
      <4>2. QED
        BY <4>1 DEF Precedes, Bar
    <3>3. CASE i \notin DOMAIN buffer
      <4>1. /\ i > Len(buffer) /\ buffer'[i].source = position
            /\ buffer'[i].index = i - Len(buffer)
        BY <2>1, <3>3
      <4>2. DOMAIN buffer' \subseteq Nat
        BY <1>8, PollRecordEntries
      <4>3. j \notin DOMAIN buffer /\ i \in Nat /\ j \in Nat
        BY <1>1, <2>4, <4>1, <4>2
      <4>4. buffer'[j].source = position /\ buffer'[j].index = j - Len(buffer)
        BY <2>1, <4>3
      <4>5. buffer'[i].index < buffer'[j].index
        BY <1>1, <2>4, <4>1, <4>3, <4>4
      <4>6. QED
        BY <4>1, <4>4, <4>5 DEF Precedes, Bar
    <3>4. QED
      BY <3>1, <3>2, <3>3
  <2>5. committed <= position + 1
    BY <1>1, <2>2
  <2>6. QED
    BY <2>3, <2>4, <2>5
<1>9. CASE CommitTable
  BY <1>9 DEF CommitTable, history, OrderInv
<1>10. CASE CommitOffsets /\ AfterFlush
  <2>1. /\ UNCHANGED <<position, rejoins>> /\ stage = "offsets"
        /\ committed' = committed \/ committed' \in MergedOffset
        /\ BatchSize \in 1 .. Len(buffer)
        /\ DOMAIN buffer' = 1 .. (Len(buffer) - BatchSize)
        /\ \A j \in DOMAIN buffer' :
             BatchSize + j \in DOMAIN buffer /\ buffer'[j] = buffer[BatchSize + j]
    BY <1>10, AfterFlushEntries
  <2> SUFFICES ASSUME rejoins = 0
               PROVE  /\ committed' <= position
                      /\ \A j \in DOMAIN buffer' :
                           /\ committed' <= buffer'[j].source
                           /\ buffer'[j].source < position
                      /\ \A i, j \in DOMAIN buffer' :
                           i < j => Precedes(Bar(buffer'[i]), Bar(buffer'[j]))
    BY <2>1 DEF OrderInv, Bar
  <2>2. /\ committed <= position
        /\ \A j \in DOMAIN buffer :
             committed <= buffer[j].source /\ buffer[j].source < position
        /\ \A i, j \in DOMAIN buffer : i < j => Precedes(Bar(buffer[i]), Bar(buffer[j]))
    BY <2>1 DEF OrderInv
  <2>3. /\ committed' <= position
        /\ \A j \in DOMAIN buffer : j > BatchSize => committed' <= buffer[j].source
    BY <2>1, <2>2, MergedOffsetInOrder
  <2> HIDE DEF BatchSize
  <2>4. \A j \in DOMAIN buffer' : j \in Nat /\ BatchSize + j > BatchSize
    BY <1>1, <2>1
  <2>5. \A i, j \in DOMAIN buffer' : i < j => BatchSize + i < BatchSize + j
    BY <1>1, <2>1
  <2>6. QED
    BY <2>1, <2>2, <2>3, <2>4, <2>5
<1>11. QED
  BY <1>3, <1>4, <1>5, <1>6, <1>7, <1>8, <1>9, <1>10, StepKinds

\* Hence a commit does not move the offset back.
LEMMA CommittedMovesForward ==
  ASSUME IInv, OrderInv, [Next]_vars, rejoins = 0
  PROVE  committed \in Nat /\ committed' \in Nat /\ committed <= committed'
<1>1. committed \in Nat
  BY DEF IInv, TypeOK
<1>2. committed' = committed \/ (stage = "offsets" /\ committed' \in MergedOffset)
  <2>1. CASE CalmStep \/ EndStep
    BY <2>1 DEF CalmStep, EndStep
  <2>2. CASE Publish \/ Start \/ Rejoin \/ PollRecord \/ CommitTable
    BY <2>2 DEF Publish, Start, Rejoin, PollRecord, CommitTable
  <2>3. CASE CommitOffsets
    BY <2>3 DEF CommitOffsets
  <2>4. QED
    BY <2>1, <2>2, <2>3, StepKinds
<1>3. CASE committed' = committed
  BY <1>1, <1>3
<1>4. CASE stage = "offsets" /\ committed' \in MergedOffset
  BY <1>1, <1>4, MergedOffsetInOrder DEF IInv, DataInv
<1>5. QED
  BY <1>2, <1>3, <1>4

\* The order holds in every reachable state.
LEMMA OrderInvariant == Spec => []OrderInv
<1>1. Init => OrderInv
  BY EmptySeq DEF Init, OrderInv
<1>2. IInv /\ OrderInv /\ [Next]_vars => OrderInv'
  BY OrderInvStep DEF IInv, DataInv
<1>3. QED
  BY <1>1, <1>2, InductiveInvariant, PTL DEF Spec

\* No step moves the committed offset back, unless the consumer has rejoined.
THEOREM OffsetsMoveBackOnlyAfterRejoin == Spec => OffsetsMonotone
<1>1. IInv /\ OrderInv /\ [Next]_vars => [committed' < committed => rejoins > 0]_vars
  <2> SUFFICES ASSUME IInv, OrderInv, [Next]_vars, rejoins = 0
               PROVE  ~(committed' < committed)
    BY DEF IInv, TypeOK
  <2>1. QED
    BY CommittedMovesForward
<1>2. QED
  BY <1>1, InductiveInvariant, OrderInvariant, PTL DEF Spec, OffsetsMonotone

-----------------------------------------------------------------------------
(* Redelivered bars.                                                       *)

\* What is counted is finite, because data files are bounded.
LEMMA CountsAreNumbers ==
  ASSUME TypeOK, BoundedFiles, NEW b
  PROVE  /\ IsFiniteSet(Rows(b)) /\ IsFiniteSet(Waiting(b))
         /\ Copies(b) = Cardinality(Rows(b))
         /\ Copies(b) \in Nat /\ Cardinality(Waiting(b)) \in Nat
<1>1. /\ table \in Seq(Seq(Nat \X Nat)) /\ Len(table) \in Nat /\ DOMAIN table = 1 .. Len(table)
      /\ \A k \in DOMAIN table : table[k] \in Seq(Nat \X Nat)
  BY DEF TypeOK
<1>2. \A k \in DOMAIN table : DOMAIN table[k] \subseteq 1 .. MaxRecords
  <2> TAKE k \in DOMAIN table
  <2>1. DOMAIN table[k] = 1 .. Len(table[k]) /\ Len(table[k]) \in 1 .. MaxRecords
    BY <1>1 DEF BoundedFiles
  <2>2. QED
    BY <2>1, LoaderAssumption
<1>3. Rows(b) \subseteq (1 .. Len(table)) \X (1 .. MaxRecords)
  BY <1>1, <1>2 DEF Rows
<1>4. IsFiniteSet((1 .. Len(table)) \X (1 .. MaxRecords))
  <2>1. IsFiniteSet(1 .. Len(table)) /\ IsFiniteSet(1 .. MaxRecords)
    BY <1>1, LoaderAssumption, FS_Interval
  <2>2. QED
    BY <2>1, FS_Product
<1>5. IsFiniteSet(DOMAIN buffer) /\ Waiting(b) \subseteq DOMAIN buffer
  BY BufferTypes, FS_Interval DEF Waiting
<1>6. IsFiniteSet(Rows(b)) /\ IsFiniteSet(Waiting(b))
  BY <1>3, <1>4, <1>5, FS_Subset
<1>7. Copies(b) = Cardinality(Rows(b))
  BY DEF Copies, Rows
<1>8. QED
  BY <1>6, <1>7, FS_CardinalityType

\* The entries of a bar in the batch of a flush.
InBatch(b) == {j \in 1 .. BatchSize : Bar(buffer[j]) = b}

\* A data file adds a row for each entry of the batch.
LEMMA AppendAddsRows ==
  ASSUME TypeOK, LoopInv, Flushing, table' = Append(table, DataFile), BoundedFiles', TypeOK',
         NEW b
  PROVE  /\ IsFiniteSet(InBatch(b)) /\ Cardinality(InBatch(b)) \in Nat
         /\ Cardinality(Rows(b)') = Cardinality(Rows(b)) + Cardinality(InBatch(b))
<1> DEFINE n == Len(table) + 1
           added == {n} \X InBatch(b)
           number == [j \in InBatch(b) |-> <<n, j>>]
<1>1. /\ BatchSize \in 1 .. Len(buffer) /\ BatchSize \in Nat
      /\ DataFile \in Seq(Nat \X Nat) /\ DOMAIN DataFile = 1 .. BatchSize
      /\ \A j \in 1 .. BatchSize : DataFile[j] = Bar(buffer[j])
  <2>1. BatchSize \in 1 .. Len(buffer) /\ BatchSize \in Nat
    BY BatchOfFlush DEF LoopInv, TypeOK
  <2>2. /\ DataFile \in Seq(Nat \X Nat) /\ Len(DataFile) = BatchSize
        /\ \A j \in 1 .. BatchSize : DataFile[j] = Bar(buffer[j])
    BY <2>1, DataFileOfBatch
  <2> HIDE DEF DataFile, BatchSize
  <2>3. QED
    BY <2>1, <2>2
<1>2. /\ Len(table) \in Nat /\ DOMAIN table = 1 .. Len(table)
      /\ DOMAIN table' = 1 .. n /\ table'[n] = DataFile
      /\ \A k \in 1 .. Len(table) : table'[k] = table[k]
  <2>1. table \in Seq(Seq(Nat \X Nat)) /\ Len(table) \in Nat
    BY DEF TypeOK
  <2> HIDE DEF DataFile
  <2>2. QED
    BY <1>1, <2>1, AppendProperties
<1>3. n \notin DOMAIN table /\ DOMAIN table' = DOMAIN table \union {n}
  BY <1>2
<1> HIDE DEF DataFile, BatchSize, n
<1>4. IsFiniteSet(InBatch(b))
  <2>1. InBatch(b) \subseteq 1 .. BatchSize
    BY DEF InBatch
  <2>2. IsFiniteSet(1 .. BatchSize)
    BY <1>1, FS_Interval
  <2>3. QED
    BY <2>1, <2>2, FS_Subset
<1>5. IsFiniteSet(added) /\ Cardinality(added) = Cardinality(InBatch(b))
  <2>1. number \in [InBatch(b) -> added]
    OBVIOUS
  <2>2. \A i, j \in InBatch(b) : number[i] = number[j] => i = j
    OBVIOUS
  <2>3. \A kj \in added : \E j \in InBatch(b) : number[j] = kj
    OBVIOUS
  <2> HIDE DEF number, added
  <2>4. ExistsBijection(InBatch(b), added)
    BY <2>1, <2>2, <2>3, Fun_IsBij, Fun_ExistsBij
  <2>5. QED
    BY <1>4, <2>4, FS_Bijection
<1>6. Rows(b)' = Rows(b) \union added
  <2>1. \A kj : kj \in Rows(b) <=>
          \E k \in DOMAIN table : \E j \in DOMAIN table[k] : kj = <<k, j>> /\ table[k][j] = b
    BY DEF Rows
  <2>2. \A kj : kj \in Rows(b)' <=>
          \E k \in DOMAIN table' : \E j \in DOMAIN table'[k] : kj = <<k, j>> /\ table'[k][j] = b
    BY DEF Rows
  <2>3. \A kj : kj \in added <=> \E j \in InBatch(b) : kj = <<n, j>>
    OBVIOUS
  <2>4. \A j : j \in InBatch(b) <=> j \in DOMAIN table'[n] /\ table'[n][j] = b
    BY <1>1, <1>2 DEF InBatch
  <2> HIDE DEF added
  <2>5. \A kj : kj \in Rows(b)' <=> kj \in Rows(b) \/ kj \in added
    <3>1. \A k \in DOMAIN table : table'[k] = table[k]
      BY <1>2
    <3>2. QED
      BY <1>3, <2>1, <2>2, <2>3, <2>4, <3>1
  <2>6. QED
    BY <2>5
<1>7. Rows(b) \intersect added = {}
  <2>1. \A kj \in Rows(b) : kj[1] \in DOMAIN table
    BY DEF Rows
  <2>2. \A kj \in added : kj[1] = n
    OBVIOUS
  <2>3. QED
    BY <1>3, <2>1, <2>2
<1> HIDE DEF added
<1>8. /\ IsFiniteSet(Rows(b)) /\ Cardinality(Rows(b)) \in Nat
      /\ Cardinality(InBatch(b)) \in Nat
  BY <1>4, CountsAreNumbers, FS_CardinalityType DEF LoopInv
<1>9. Cardinality(Rows(b) \intersect added) = 0
  BY <1>7, FS_EmptySet
<1>10. Cardinality(Rows(b)') = Cardinality(Rows(b)) + Cardinality(InBatch(b)) - 0
  BY <1>5, <1>6, <1>8, <1>9, FS_Union
<1>11. QED
  BY <1>4, <1>8, <1>10

\* Rows, waiting entries and the session ahead of a bar: only a new session adds
\* to their sum.
LEMMA RedeliveryInvStep ==
  ASSUME IInv, IInv', RedeliveryInv, [Next]_vars
  PROVE  RedeliveryInv'
<1> SUFFICES ASSUME NEW b \in Nat \X Nat
             PROVE  (Copies(b) + Cardinality(Waiting(b)) + AheadOf(b) <= sessions)'
  BY DEF RedeliveryInv
<1>1. /\ Copies(b) \in Nat /\ Cardinality(Waiting(b)) \in Nat /\ AheadOf(b) \in {0, 1}
      /\ IsFiniteSet(Rows(b)) /\ IsFiniteSet(Waiting(b)) /\ Copies(b) = Cardinality(Rows(b))
  BY CountsAreNumbers DEF IInv, LoopInv, AheadOf
<1>2. /\ Copies(b)' \in Nat /\ Cardinality(Waiting(b)') \in Nat /\ AheadOf(b)' \in {0, 1}
      /\ IsFiniteSet(Waiting(b)') /\ Copies(b)' = Cardinality(Rows(b)')
  <2>1. (IsFiniteSet(Waiting(b)) /\ Copies(b) = Cardinality(Rows(b))
           /\ Copies(b) \in Nat /\ Cardinality(Waiting(b)) \in Nat)'
    BY CountsAreNumbers, PTL DEF IInv, LoopInv
  <2>2. QED
    BY <2>1 DEF AheadOf
<1>3. Copies(b) + Cardinality(Waiting(b)) + AheadOf(b) <= sessions /\ sessions \in Nat
  BY DEF RedeliveryInv, IInv, TypeOK
<1>4. ASSUME table' = table PROVE Copies(b)' = Copies(b)
  BY <1>4 DEF Copies
<1>5. ASSUME Waiting(b)' \subseteq Waiting(b)
      PROVE  Cardinality(Waiting(b)') <= Cardinality(Waiting(b))
  BY <1>1, <1>5, FS_Subset
<1>6. CASE CalmStep
  <2>1. Waiting(b)' \subseteq Waiting(b)
    BY <1>6 DEF CalmStep, Waiting, BatchSize
  <2>2. Copies(b)' = Copies(b) /\ AheadOf(b)' = AheadOf(b) /\ sessions' = sessions
    BY <1>4, <1>6 DEF CalmStep, AheadOf
  <2>3. QED
    BY <1>1, <1>2, <1>3, <1>5, <2>1, <2>2
<1>7. ASSUME stage = "commit", table' = Append(table, DataFile)
      PROVE  /\ IsFiniteSet(InBatch(b)) /\ Cardinality(InBatch(b)) \in Nat
             /\ Copies(b)' = Copies(b) + Cardinality(InBatch(b))
             /\ InBatch(b) \subseteq Waiting(b)
  <2>1. Flushing /\ TypeOK /\ LoopInv /\ BoundedFiles' /\ TypeOK'
    BY <1>7 DEF Flushing, IInv, LoopInv
  <2>2. /\ IsFiniteSet(InBatch(b)) /\ Cardinality(InBatch(b)) \in Nat
        /\ Cardinality(Rows(b)') = Cardinality(Rows(b)) + Cardinality(InBatch(b))
    BY <1>7, <2>1, AppendAddsRows
  <2>3. 1 .. BatchSize \subseteq DOMAIN buffer
    <3>1. BatchSize \in 1 .. Len(buffer)
      BY <2>1, BatchOfFlush DEF LoopInv
    <3>2. DOMAIN buffer = 1 .. Len(buffer) /\ Len(buffer) \in Nat
      BY <2>1, BufferTypes
    <3> HIDE DEF BatchSize
    <3>3. QED
      BY <3>1, <3>2
  <2>4. InBatch(b) \subseteq Waiting(b)
    BY <1>7, <2>3 DEF InBatch, Waiting
  <2>5. QED
    BY <1>1, <1>2, <2>2, <2>4
<1>8. CASE EndStep
  <2>1. buffer' = <<>> /\ stage' = "down" /\ sessions' = sessions
    BY <1>8 DEF EndStep, ProcessGone
  <2>2. Waiting(b)' = {} /\ AheadOf(b)' = 0
    BY <2>1, EmptySeq DEF Waiting, AheadOf
  <2>3. Cardinality(Waiting(b)') = 0
    BY <2>2, FS_EmptySet
  <2>4. CASE table' = table
    BY <1>1, <1>3, <1>4, <2>1, <2>2, <2>3, <2>4
  <2>5. CASE stage = "commit" /\ table' = Append(table, DataFile)
    <3>1. Cardinality(InBatch(b)) <= Cardinality(Waiting(b))
      BY <1>1, <1>7, <2>5, FS_Subset
    <3>2. Copies(b)' = Copies(b) + Cardinality(InBatch(b)) /\ Cardinality(InBatch(b)) \in Nat
      BY <1>7, <2>5
    <3>3. QED
      BY <1>1, <1>3, <2>1, <2>2, <2>3, <3>1, <3>2
  <2>6. QED
    BY <1>8, <2>4, <2>5 DEF EndStep
<1>9. CASE Publish
  <2>1. UNCHANGED <<table, process, history>>
    BY <1>9 DEF Publish
  <2>2. Waiting(b)' \subseteq Waiting(b)
    BY <2>1 DEF process, Waiting, BatchSize
  <2>3. Copies(b)' = Copies(b) /\ AheadOf(b)' = AheadOf(b) /\ sessions' = sessions
    BY <1>4, <2>1 DEF process, history, AheadOf
  <2>4. QED
    BY <1>1, <1>2, <1>3, <1>5, <2>2, <2>3
<1>10. CASE Start \/ Rejoin
  <2>1. table' = table /\ sessions' = sessions + 1
    BY <1>10 DEF Start, Rejoin
  <2>2. Waiting(b)' \subseteq Waiting(b)
    <3>1. CASE Start
      BY <3>1, EmptySeq DEF Start, Waiting
    <3>2. CASE Rejoin
      BY <3>2 DEF Rejoin, Waiting
    <3>3. QED
      BY <1>10, <3>1, <3>2
  <2>3. QED
    BY <1>1, <1>2, <1>3, <1>4, <1>5, <2>1, <2>2
<1>11. CASE PollRecord
  <2> DEFINE new == Len(buffer) + b[2]
  <2>1. /\ position \in Nat /\ position' = position + 1
        /\ table' = table /\ sessions' = sessions
        /\ stage = "poll" /\ stage' \in {"write", "timeout"}
        /\ Len(buffer) \in Nat /\ DOMAIN buffer = 1 .. Len(buffer)
        /\ DOMAIN buffer' = 1 .. (Len(buffer) + BarCount(log[position + 1]))
        /\ \A j \in DOMAIN buffer : j \in DOMAIN buffer' /\ buffer'[j] = buffer[j]
        /\ \A j \in DOMAIN buffer' : j \notin DOMAIN buffer =>
             /\ j > Len(buffer)
             /\ buffer'[j].source = position
             /\ buffer'[j].index = j - Len(buffer)
    BY <1>11, PollRecordEntries DEF IInv
  <2>2. b[1] \in Nat /\ b[2] \in Nat
    OBVIOUS
  <2>3. Copies(b)' = Copies(b)
    BY <1>4, <2>1
  <2>4. ASSUME NEW j \in Waiting(b)', j \notin DOMAIN buffer
        PROVE  b[1] = position /\ j = new
    <3>1. j \in DOMAIN buffer' /\ b = <<buffer'[j].source, buffer'[j].index>>
      BY <2>4 DEF Waiting, Bar
    <3>2. /\ buffer'[j].source = position
          /\ buffer'[j].index = j - Len(buffer)
      BY <2>1, <2>4, <3>1
    <3>3. b[1] = position /\ b[2] = j - Len(buffer)
      BY <3>1, <3>2
    <3>4. j \in Int
      BY <2>1, <3>1
    <3>5. QED
      BY <2>1, <2>2, <3>3, <3>4
  <2>5. ASSUME NEW j \in Waiting(b)', j \in DOMAIN buffer
        PROVE  j \in Waiting(b)
    BY <2>1, <2>5 DEF Waiting, Bar
  <2>6. CASE b[1] = position
    <3>1. Waiting(b)' \subseteq Waiting(b) \union {new}
      BY <2>4, <2>5
    <3>2. /\ IsFiniteSet(Waiting(b) \union {new})
          /\ Cardinality(Waiting(b) \union {new}) \in
               {Cardinality(Waiting(b)), Cardinality(Waiting(b)) + 1}
      BY <1>1, FS_AddElement
    <3>3. Cardinality(Waiting(b)') <= Cardinality(Waiting(b) \union {new})
      BY <3>1, <3>2, FS_Subset
    <3>4. Cardinality(Waiting(b)') <= Cardinality(Waiting(b)) + 1
      BY <1>1, <1>2, <3>2, <3>3
    <3>5. AheadOf(b) = 1 /\ AheadOf(b)' = 0
      BY <2>1, <2>2, <2>6 DEF AheadOf
    <3>6. QED
      BY <1>1, <1>2, <1>3, <2>1, <2>3, <3>4, <3>5
  <2>7. CASE b[1] # position
    <3>1. Waiting(b)' \subseteq Waiting(b)
      BY <2>4, <2>5, <2>7
    <3>2. AheadOf(b)' <= AheadOf(b)
      BY <2>1, <2>2, <2>7 DEF AheadOf
    <3>3. QED
      BY <1>1, <1>2, <1>3, <1>5, <2>1, <2>3, <3>1, <3>2
  <2>8. QED
    BY <2>6, <2>7
<1>12. CASE CommitTable
  <2>1. /\ stage = "commit" /\ stage' = "offsets" /\ table' = Append(table, DataFile)
        /\ UNCHANGED <<position, buffer, site, sessions>>
    BY <1>12 DEF CommitTable, history
  <2>2. BatchSize' = BatchSize /\ BatchSize \in Nat
    <3>1. BatchSize \in 1 .. Len(buffer)
      BY <2>1, BatchOfFlush DEF IInv, LoopInv, Flushing
    <3>2. BatchSize' = BatchSize
      BY <2>1 DEF BatchSize
    <3>3. QED
      BY <3>1, <3>2
  <2>3. /\ Waiting(b)' \subseteq Waiting(b)
        /\ \A j \in Waiting(b)' : j > BatchSize
    BY <2>1, <2>2 DEF Waiting, Bar
  <2>4. \A j \in InBatch(b) : j \in Nat /\ j <= BatchSize
    BY <2>2 DEF InBatch
  <2>5. InBatch(b) \intersect Waiting(b)' = {}
    <3> HIDE DEF BatchSize
    <3>1. Waiting(b)' \subseteq Nat
      BY <2>1, BufferTypes DEF Waiting, IInv
    <3>2. QED
      BY <2>2, <2>3, <2>4, <3>1
  <2>6. /\ IsFiniteSet(InBatch(b)) /\ Cardinality(InBatch(b)) \in Nat
        /\ Copies(b)' = Copies(b) + Cardinality(InBatch(b))
        /\ InBatch(b) \subseteq Waiting(b)
    BY <1>7, <2>1
  <2>7. /\ IsFiniteSet(InBatch(b) \union Waiting(b)')
        /\ Cardinality(InBatch(b) \union Waiting(b)') =
             Cardinality(InBatch(b)) + Cardinality(Waiting(b)')
    <3>1. Cardinality(InBatch(b) \intersect Waiting(b)') = 0
      BY <2>5, FS_EmptySet
    <3>2. /\ IsFiniteSet(InBatch(b) \union Waiting(b)')
          /\ Cardinality(InBatch(b) \union Waiting(b)') =
               Cardinality(InBatch(b)) + Cardinality(Waiting(b)')
                 - Cardinality(InBatch(b) \intersect Waiting(b)')
      BY <1>2, <2>6, FS_Union
    <3>3. QED
      BY <1>2, <2>6, <3>1, <3>2
  <2>8. Cardinality(InBatch(b)) + Cardinality(Waiting(b)') <= Cardinality(Waiting(b))
    <3>1. InBatch(b) \union Waiting(b)' \subseteq Waiting(b)
      BY <2>3, <2>6
    <3>2. Cardinality(InBatch(b) \union Waiting(b)') <= Cardinality(Waiting(b))
      BY <1>1, <3>1, FS_Subset
    <3>3. QED
      BY <2>7, <3>2
  <2>9. AheadOf(b)' = AheadOf(b) /\ sessions' = sessions
    BY <2>1 DEF AheadOf
  <2>10. QED
    BY <1>1, <1>2, <1>3, <2>6, <2>8, <2>9
<1>13. CASE CommitOffsets /\ AfterFlush
  <2>1. /\ UNCHANGED <<table, position, sessions>>
        /\ stage = "offsets" /\ stage' \notin {"offsets", "down"}
        /\ BatchSize \in 1 .. Len(buffer) /\ Len(buffer) \in Nat
        /\ DOMAIN buffer' = 1 .. (Len(buffer) - BatchSize)
        /\ \A j \in DOMAIN buffer' :
             BatchSize + j \in DOMAIN buffer /\ buffer'[j] = buffer[BatchSize + j]
    BY <1>13, AfterFlushEntries DEF IInv
  <2> DEFINE shift == [j \in Waiting(b)' |-> BatchSize + j]
  <2>2. \A j \in Waiting(b)' : j \in Nat /\ j > 0 /\ j \in DOMAIN buffer' /\ Bar(buffer'[j]) = b
    <3>1. \A j \in Waiting(b)' : j \in DOMAIN buffer' /\ Bar(buffer'[j]) = b
      BY DEF Waiting, Bar
    <3> HIDE DEF BatchSize
    <3>2. \A j \in DOMAIN buffer' : j \in Nat /\ j > 0
      BY <2>1
    <3>3. QED
      BY <3>1, <3>2
  <2>3. \A j \in Waiting(b)' : BatchSize + j \in Waiting(b)
    <3> TAKE j \in Waiting(b)'
    <3>1. BatchSize + j > BatchSize
      <4> HIDE DEF BatchSize
      <4>1. QED
        BY <2>1, <2>2
    <3>2. BatchSize + j \in DOMAIN buffer /\ Bar(buffer[BatchSize + j]) = b
      BY <2>1, <2>2
    <3>3. QED
      BY <3>1, <3>2 DEF Waiting
  <2> HIDE DEF BatchSize
  <2>4. shift \in [Waiting(b)' -> Waiting(b)]
    BY <2>3
  <2>5. \A i, j \in Waiting(b)' : shift[i] = shift[j] => i = j
    BY <2>1, <2>2
  <2>6. Cardinality(Waiting(b)') <= Cardinality(Waiting(b))
    <3> HIDE DEF shift
    <3>1. shift \in Injection(Waiting(b)', Waiting(b))
      BY <2>4, <2>5, Fun_IsInj
    <3>2. QED
      BY <1>1, <3>1, FS_Injection
  <2>7. AheadOf(b)' = AheadOf(b) /\ Copies(b)' = Copies(b)
    BY <1>4, <2>1 DEF AheadOf
  <2>8. QED
    BY <1>1, <1>2, <1>3, <2>1, <2>6, <2>7
<1>14. QED
  BY <1>6, <1>8, <1>9, <1>10, <1>11, <1>12, <1>13, StepKinds

\* A bar is appended at most once for each session that read the topic.
THEOREM SessionsBoundDuplicates == Spec => []BoundedDuplication
<1>1. Init => RedeliveryInv
  <2> SUFFICES ASSUME Init, NEW b \in Nat \X Nat
               PROVE  Copies(b) + Cardinality(Waiting(b)) + AheadOf(b) <= sessions
    BY DEF RedeliveryInv
  <2>1. Rows(b) = {} /\ Waiting(b) = {} /\ AheadOf(b) = 0 /\ sessions = 0
    BY EmptySeq DEF Init, Rows, Waiting, AheadOf
  <2>2. Copies(b) = Cardinality(Rows(b))
    BY DEF Copies, Rows
  <2>3. QED
    BY <2>1, <2>2, FS_EmptySet
<1>2. IInv /\ IInv' /\ RedeliveryInv /\ [Next]_vars => RedeliveryInv'
  BY RedeliveryInvStep
<1>3. IInv /\ RedeliveryInv => BoundedDuplication
  <2> SUFFICES ASSUME IInv, RedeliveryInv, NEW b \in Published
               PROVE  Copies(b) <= sessions
    BY DEF BoundedDuplication
  <2>1. b \in Nat \X Nat
    <3>1. /\ b[1] \in Offsets /\ b[2] \in 1 .. BarCount(log[b[1] + 1])
          /\ b = <<b[1], b[2]>>
      BY PublishedBar DEF IInv
    <3>2. b[1] \in Nat /\ b[2] \in Nat
      BY <3>1, BarCountType DEF IInv
    <3>3. QED
      BY <3>1, <3>2
  <2>2. /\ Copies(b) \in Nat /\ Cardinality(Waiting(b)) \in Nat /\ AheadOf(b) \in {0, 1}
        /\ sessions \in Nat
    BY CountsAreNumbers DEF IInv, LoopInv, AheadOf, TypeOK
  <2>3. Copies(b) + Cardinality(Waiting(b)) + AheadOf(b) <= sessions
    BY <2>1 DEF RedeliveryInv
  <2>4. QED
    BY <2>2, <2>3
<1>4. QED
  BY <1>1, <1>2, <1>3, InductiveInvariant, PTL DEF Spec
=============================================================================
