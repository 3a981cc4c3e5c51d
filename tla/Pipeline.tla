------------------------------ MODULE Pipeline ------------------------------
(***************************************************************************)
(* From the socket to the table: extractor processes, one after the other, *)
(* that do what FrameHandover promises, as the one of Extractor.tla does,  *)
(* and the loader of Loader.tla, over one topic.  The extractor knows      *)
(* which frame a record is (topic), the loader what is in it (log).        *)
(*                                                                         *)
(* The two share nothing but the topic: either of them is stopped, dies    *)
(* and is started again without the other.                                 *)
(***************************************************************************)
EXTENDS Loader

CONSTANT MaxFrames  \* bound: frames accepted

ASSUME PipelineAssumption == MaxFrames \in Nat

VARIABLES
  received, pending, topic, sent, failures, lost, closing,  \* of FrameHandover
  content  \* what is in the frames accepted so far

extractor == <<received, pending, topic, sent, failures, lost, closing, content>>
allVars   == <<vars, extractor>>

Handover == INSTANCE FrameHandover

PipelineInit == Init /\ Handover!Init /\ content = <<>>

AcceptFrame ==
  /\ received < MaxFrames
  /\ Handover!Accept
  /\ \E kind \in FrameKinds : content' = Append(content, kind)
  /\ UNCHANGED vars

\* The broker appends a frame that librdkafka sends, or sends again: it is what
\* Loader knows as Publish.
RecordFrame(f) ==
  /\ Handover!Record(f)
  /\ Publish
  /\ log' = Append(log, content[f])
  /\ UNCHANGED content

SettleFrame(f) ==
  /\ Handover!Confirm(f) \/ Handover!GiveUp(f)
  /\ UNCHANGED <<content, vars>>

StopExtractor ==
  /\ Handover!Close \/ Handover!Drop
  /\ UNCHANGED <<content, vars>>

\* The process is gone, with the frames it kept in memory, and systemd or its
\* timer starts another.  The counters are sums over the processes.
RestartExtractor ==
  /\ lost' = lost \union pending
  /\ pending' = {}
  /\ closing' = FALSE
  /\ UNCHANGED <<received, topic, sent, failures, content, vars>>

\* Whatever happens to the loader, Publish excepted.
LoaderStep == UNCHANGED <<log, extractor>> /\ Next

PipelineNext ==
  \/ AcceptFrame
  \/ \E f \in pending : RecordFrame(f) \/ SettleFrame(f)
  \/ StopExtractor
  \/ RestartExtractor
  \/ LoaderStep

PipelineSpec == PipelineInit /\ [][PipelineNext]_allVars

(***************************************************************************)
(* Properties.                                                             *)
(***************************************************************************)

\* The record at offset o is a copy of frame f.
IsCopy(o, f) == topic[o + 1] = f

\* A copy of the frame has all its bars in the table.
InTable(f) ==
  \E o \in Offsets :
    /\ IsCopy(o, f)
    /\ {<<o, i>> : i \in 1 .. BarCount(content[f])} \subseteq Durable

\* A copy of the frame is one that this session of the loader, or the next,
\* has yet to commit.
ToBeRead(f) == \E o \in Offsets : IsCopy(o, f) /\ committed <= o

\* From the socket to the table no frame disappears without a trace: one that
\* was accepted (ws.rs) is in the memory of the extractor, was dropped with it,
\* counts as a failed delivery (kafka.rs), waits in the topic above the committed
\* offset, or is in the table with all its bars (Main.flush), whichever of the two
\* processes dies and starts again when. Neither of them can see to this alone.
EveryFrameIsSomewhere ==
  received <= failures
    + Cardinality({f \in 1 .. received :
                     f \in pending \union lost \/ InTable(f) \/ ToBeRead(f)})
=============================================================================
