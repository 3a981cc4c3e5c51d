-------------------------- MODULE DurableDelivery --------------------------
(***************************************************************************)
(* What the loader promises to the rest of the pipeline, without saying    *)
(* how: frames are appended to a topic, the bars of the topic become       *)
(* durable in the raw table in stream order, and an offset is acknowledged *)
(* only when every bar below it is durable.  Nothing durable is ever lost. *)
(* The loader of iceberg-loader-java is shown to implement this module     *)
(* (Loader.tla, LoaderProofs.tla).                                         *)
(*                                                                         *)
(* The promise is "at least once": the table may hold several copies of a  *)
(* bar, which this abstraction, a set, does not see.                       *)
(***************************************************************************)
EXTENDS Naturals, Sequences

CONSTANTS
  FrameKinds,   \* the frames a producer may publish
  BarCount(_)   \* how many bars a frame contributes to the table

VARIABLES
  log,          \* the topic: the sequence of frames published so far
  durable,      \* the bars that are in the table
  acknowledged  \* the offset the consumer group would resume from

vars == <<log, durable, acknowledged>>

(***************************************************************************)
(* Kafka offsets start at 0, sequences at 1: the frame with offset o is    *)
(* log[o + 1].  A bar is the pair of its frame's offset and its index.     *)
(***************************************************************************)
Offsets == 0 .. (Len(log) - 1)

BarsOf(o) == {<<o, i>> : i \in 1 .. BarCount(log[o + 1])}

BarsBelow(o) == {b \in UNION {BarsOf(p) : p \in Offsets} : b[1] < o}

Precedes(a, b) == a[1] < b[1] \/ (a[1] = b[1] /\ a[2] < b[2])

\* A set of bars without gaps: with a bar it holds all earlier ones.
GapFree(S) ==
  \A b \in S : \A a \in BarsBelow(b[1] + 1) : Precedes(a, b) => a \in S

Init ==
  /\ log = <<>>
  /\ durable = {}
  /\ acknowledged = 0

Publish ==
  /\ \E f \in FrameKinds : log' = Append(log, f)
  /\ UNCHANGED <<durable, acknowledged>>

Store ==
  /\ durable \subseteq durable'
  /\ durable' \subseteq BarsBelow(Len(log))
  /\ GapFree(durable')
  /\ UNCHANGED <<log, acknowledged>>

\* The offset may also move back: a redelivery is always allowed.
Acknowledge ==
  /\ acknowledged' \in 0 .. Len(log)
  /\ BarsBelow(acknowledged') \subseteq durable
  /\ UNCHANGED <<log, durable>>

Next == Publish \/ Store \/ Acknowledge

Spec == Init /\ [][Next]_vars
=============================================================================
