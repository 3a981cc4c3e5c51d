--------------------------- MODULE FrameHandover ---------------------------
(***************************************************************************)
(* What the extractor promises to the rest of the pipeline, without saying *)
(* how: a frame that was accepted is pending until it is confirmed, given  *)
(* up or dropped, and meets one of these once. Only a pending frame is     *)
(* appended to the topic, perhaps several times and in any order; it is    *)
(* confirmed only when it is there; it is dropped only when the process    *)
(* closes, which then accepts nothing more. The extractor of               *)
(* websocket-extractor-rust is shown to implement this module              *)
(* (Extractor.tla, ExtractorProofs.tla).                                   *)
(***************************************************************************)
EXTENDS Naturals, Sequences

VARIABLES
  received,  \* frames accepted so far; they are numbered
  pending,   \* accepted, and nothing has become of them yet
  topic,     \* the records
  sent,      \* how many frames were confirmed
  failures,  \* how many were given up, and counted
  lost,      \* the frames that were dropped
  closing    \* nothing is accepted any more

vars == <<received, pending, topic, sent, failures, lost, closing>>

InTopic == {topic[i] : i \in DOMAIN topic}

Init ==
  /\ received = 0
  /\ pending = {}
  /\ topic = <<>>
  /\ sent = 0
  /\ failures = 0
  /\ lost = {}
  /\ closing = FALSE

Accept ==
  /\ ~closing
  /\ received' = received + 1
  /\ pending' = pending \union {received + 1}
  /\ UNCHANGED <<topic, sent, failures, lost, closing>>

Record(f) ==
  /\ f \in pending
  /\ topic' = Append(topic, f)
  /\ UNCHANGED <<received, pending, sent, failures, lost, closing>>

Confirm(f) ==
  /\ f \in pending \intersect InTopic
  /\ pending' = pending \ {f}
  /\ sent' = sent + 1
  /\ UNCHANGED <<received, topic, failures, lost, closing>>

\* Whether it is in the topic or not.
GiveUp(f) ==
  /\ f \in pending
  /\ pending' = pending \ {f}
  /\ failures' = failures + 1
  /\ UNCHANGED <<received, topic, sent, lost, closing>>

Close ==
  /\ closing' = TRUE
  /\ UNCHANGED <<received, pending, topic, sent, failures, lost>>

Drop ==
  /\ closing
  /\ pending' \in SUBSET pending
  /\ lost' = lost \union (pending \ pending')
  /\ UNCHANGED <<received, topic, sent, failures, closing>>

Next ==
  \/ Accept
  \/ \E f \in pending : Record(f) \/ Confirm(f) \/ GiveUp(f)
  \/ Close
  \/ Drop

Spec == Init /\ [][Next]_vars
=============================================================================
