--------------------------- MODULE PipelineProofs ---------------------------
(***************************************************************************)
(* Theorems about Pipeline: the loader in it is the one of Loader, and no  *)
(* frame disappears between the socket and the table.                      *)
(***************************************************************************)
EXTENDS Pipeline, LoaderProofs

-----------------------------------------------------------------------------
(* The inductive invariant.                                                *)

\* The frames that are in the topic and that the extractor is done with.
Settled == Handover!InTopic \ (pending \union lost)

\* Extractor and loader agree on the topic.
TopicInv ==
  /\ content \in Seq(FrameKinds)
  /\ Len(content) = received
  /\ topic \in Seq(Nat)
  /\ \A i \in DOMAIN topic : topic[i] \in 1 .. received
  /\ Len(topic) = Len(log)
  /\ \A i \in DOMAIN topic : log[i] = content[topic[i]]

\* Every frame is accepted once, and what was confirmed is in the topic.
AccountInv ==
  /\ received \in Nat /\ sent \in Nat /\ failures \in Nat
  /\ pending \subseteq 1 .. received
  /\ lost \subseteq 1 .. received
  /\ pending \intersect lost = {}
  /\ received = sent + failures + Cardinality(pending) + Cardinality(lost)
  /\ sent <= Cardinality(Settled)

PipelineInv == IInv /\ TopicInv /\ AccountInv

-----------------------------------------------------------------------------
(* The loader in the pipeline.                                             *)

\* Take the extractor away and a step of the loader, or none, is left.
LEMMA PipelineStepIsLoaderStep ==
  ASSUME [PipelineNext]_allVars
  PROVE  [Next]_vars
<1>1. CASE UNCHANGED allVars
  BY <1>1 DEF allVars
<1>2. CASE AcceptFrame \/ StopExtractor \/ RestartExtractor
  BY <1>2 DEF AcceptFrame, StopExtractor, RestartExtractor, vars
<1>3. ASSUME NEW f \in pending, RecordFrame(f) \/ SettleFrame(f) PROVE [Next]_vars
  BY <1>3 DEF RecordFrame, SettleFrame, Next, Environment, vars
<1>4. CASE LoaderStep
  BY <1>4 DEF LoaderStep
<1>5. QED
  BY <1>1, <1>2, <1>3, <1>4 DEF PipelineNext

\* Whatever extractors feed it, the loader of the pipeline is the one of Loader:
\* every theorem about Loader holds of it.
THEOREM PipelineImplementsLoader == PipelineSpec => Spec
<1>1. PipelineInit => Init
  BY DEF PipelineInit
<1>2. [PipelineNext]_allVars => [Next]_vars
  BY PipelineStepIsLoaderStep
<1>3. QED
  BY <1>1, <1>2, PTL DEF PipelineSpec, Spec

-----------------------------------------------------------------------------
(* The frames of the extractor.                                            *)

\* Sets that have nothing in common.
LEMMA DisjointSets ==
  ASSUME NEW S, NEW T, IsFiniteSet(S), IsFiniteSet(T), S \intersect T = {}
  PROVE  Cardinality(S \union T) = Cardinality(S) + Cardinality(T)
<1>1. Cardinality(S \union T)
        = Cardinality(S) + Cardinality(T) - Cardinality(S \intersect T)
  BY FS_Union
<1>2. Cardinality(S \intersect T) = 0
  BY FS_EmptySet
<1>3. Cardinality(S) \in Nat /\ Cardinality(T) \in Nat
  BY FS_CardinalityType
<1>4. QED
  BY <1>1, <1>2, <1>3

\* What the extractor knows of is finite.
LEMMA FramesAreFinite ==
  ASSUME AccountInv, TopicInv
  PROVE  /\ Handover!InTopic \subseteq 1 .. received
         /\ IsFiniteSet(1 .. received)
         /\ \A S \in SUBSET (1 .. received) :
              IsFiniteSet(S) /\ Cardinality(S) \in Nat
<1>1. Handover!InTopic \subseteq 1 .. received
  BY DEF TopicInv, Handover!InTopic
<1>2. IsFiniteSet(1 .. received)
  BY FS_Interval DEF AccountInv
<1>3. QED
  BY <1>1, <1>2, FS_Subset, FS_CardinalityType

\* What a record adds to the topic.
LEMMA RecordFacts ==
  ASSUME TopicInv, NEW f \in Nat, topic' = Append(topic, f)
  PROVE  /\ topic' \in Seq(Nat)
         /\ Len(topic') = Len(topic) + 1
         /\ DOMAIN topic = 1 .. Len(topic)
         /\ DOMAIN topic' = (1 .. Len(topic)) \union {Len(topic) + 1}
         /\ \A i \in 1 .. Len(topic) : topic'[i] = topic[i]
         /\ topic'[Len(topic) + 1] = f
         /\ Handover!InTopic' = Handover!InTopic \union {f}
<1>1. topic \in Seq(Nat)
  BY DEF TopicInv
<1>2. /\ topic' \in Seq(Nat)
      /\ Len(topic') = Len(topic) + 1
      /\ \A i \in 1 .. Len(topic) : topic'[i] = topic[i]
      /\ topic'[Len(topic) + 1] = f
  BY <1>1, AppendProperties
<1>3. /\ DOMAIN topic = 1 .. Len(topic)
      /\ DOMAIN topic' = (1 .. Len(topic)) \union {Len(topic) + 1}
  BY <1>1, <1>2, LenProperties
<1>4. Handover!InTopic' = Handover!InTopic \union {f}
  BY <1>2, <1>3 DEF Handover!InTopic
<1>5. QED
  BY <1>2, <1>3, <1>4

\* A frame that is accepted is a new one.
LEMMA AcceptKeepsAccount ==
  ASSUME PipelineInv, AcceptFrame
  PROVE  TopicInv' /\ AccountInv'
<1> DEFINE new == received + 1
<1>1. /\ received' = new
      /\ pending' = pending \union {new}
      /\ UNCHANGED <<topic, sent, failures, lost, log>>
  BY DEF AcceptFrame, Handover!Accept, vars
<1>2. received \in Nat /\ 1 .. received' = (1 .. received) \union {new}
  BY <1>1 DEF PipelineInv, AccountInv
<1>3. new \notin 1 .. received
  BY <1>2
<1>4. PICK kind \in FrameKinds : content' = Append(content, kind)
  BY DEF AcceptFrame
<1>5. /\ content' \in Seq(FrameKinds) /\ Len(content') = received'
      /\ \A k \in 1 .. received : content'[k] = content[k]
  BY <1>1, <1>4, AppendProperties DEF PipelineInv, TopicInv
<1>6. TopicInv'
  BY <1>1, <1>2, <1>5 DEF PipelineInv, TopicInv
<1>7. Settled' = Settled
  <2>1. new \notin Handover!InTopic
    BY <1>3, FramesAreFinite DEF PipelineInv
  <2>2. Handover!InTopic' = Handover!InTopic
    BY <1>1 DEF Handover!InTopic
  <2>3. QED
    BY <1>1, <2>1, <2>2 DEF Settled
<1>8. Cardinality(pending') = Cardinality(pending) + 1 /\ Cardinality(pending) \in Nat
  BY <1>1, <1>3, FramesAreFinite, FS_AddElement DEF PipelineInv, AccountInv
<1>9. /\ pending' \subseteq 1 .. received' /\ lost' \subseteq 1 .. received'
      /\ pending' \intersect lost' = {}
  BY <1>1, <1>2, <1>3 DEF PipelineInv, AccountInv
<1>10. Cardinality(lost) \in Nat
  BY FramesAreFinite DEF PipelineInv, AccountInv
<1>11. received' = sent' + failures' + Cardinality(pending') + Cardinality(lost')
  BY <1>1, <1>2, <1>8, <1>10 DEF PipelineInv, AccountInv
<1>12. QED
  BY <1>1, <1>2, <1>6, <1>7, <1>9, <1>11 DEF PipelineInv, AccountInv

\* A record is one of a pending frame, on either side of the topic.
LEMMA RecordKeepsAccount ==
  ASSUME PipelineInv, NEW f \in pending, RecordFrame(f)
  PROVE  TopicInv' /\ AccountInv'
<1>1. /\ topic' = Append(topic, f)
      /\ log' = Append(log, content[f])
      /\ UNCHANGED <<received, pending, sent, failures, lost, content>>
  BY DEF RecordFrame, Handover!Record
<1>2. f \in 1 .. received /\ f \in Nat /\ received \in Nat
  BY DEF PipelineInv, AccountInv
<1>3. content[f] \in FrameKinds
  BY <1>2 DEF PipelineInv, TopicInv
<1>4. /\ Len(log') = Len(log) + 1
      /\ \A i \in 1 .. Len(log) : log'[i] = log[i]
      /\ log'[Len(log) + 1] = content[f]
  BY <1>1, <1>3, AppendProperties DEF PipelineInv, IInv, TypeOK
<1>5. TopicInv'
  <2>1. /\ topic' \in Seq(Nat)
        /\ Len(topic') = Len(topic) + 1
        /\ DOMAIN topic = 1 .. Len(topic)
        /\ DOMAIN topic' = (1 .. Len(topic)) \union {Len(topic) + 1}
        /\ \A i \in 1 .. Len(topic) : topic'[i] = topic[i]
        /\ topic'[Len(topic) + 1] = f
    BY <1>1, <1>2, RecordFacts DEF PipelineInv
  <2>2. \A i \in DOMAIN topic' : topic'[i] \in 1 .. received'
    BY <1>1, <1>2, <2>1 DEF PipelineInv, TopicInv
  <2>3. \A i \in DOMAIN topic' : log'[i] = content'[topic'[i]]
    BY <1>1, <1>4, <2>1 DEF PipelineInv, TopicInv
  <2>4. QED
    BY <1>1, <1>4, <2>1, <2>2, <2>3 DEF PipelineInv, TopicInv
<1>6. Settled' = Settled
  BY <1>1, <1>2, RecordFacts DEF PipelineInv, Settled
<1>7. QED
  BY <1>1, <1>5, <1>6 DEF PipelineInv, AccountInv

\* A confirmed frame is in the topic; one that is given up may be.
LEMMA SettleKeepsAccount ==
  ASSUME PipelineInv, NEW f \in pending, SettleFrame(f)
  PROVE  TopicInv' /\ AccountInv'
<1>1. /\ pending' = pending \ {f}
      /\ UNCHANGED <<received, topic, lost, content, log>>
  BY DEF SettleFrame, Handover!Confirm, Handover!GiveUp, vars
<1>2. TopicInv'
  BY <1>1 DEF PipelineInv, TopicInv
<1>3. Cardinality(pending') = Cardinality(pending) - 1
  BY <1>1, FramesAreFinite, FS_RemoveElement DEF PipelineInv, AccountInv
<1>4. /\ Cardinality(pending) \in Nat /\ Cardinality(lost) \in Nat
      /\ Settled \subseteq 1 .. received
      /\ IsFiniteSet(Settled) /\ Cardinality(Settled) \in Nat
  BY FramesAreFinite DEF PipelineInv, AccountInv, Settled
<1>5. f \notin Settled /\ f \notin lost /\ f \in 1 .. received
  BY DEF PipelineInv, AccountInv, Settled
<1>6. Handover!InTopic' = Handover!InTopic
  BY <1>1 DEF Handover!InTopic
<1>7. sent \in Nat /\ failures \in Nat /\ received \in Nat
  BY DEF PipelineInv, AccountInv
<1>8. /\ sent' \in Nat /\ failures' \in Nat
      /\ sent' + failures' = sent + failures + 1
  BY <1>7 DEF SettleFrame, Handover!Confirm, Handover!GiveUp
<1>9. sent' <= Cardinality(Settled')
  <2>1. CASE Handover!Confirm(f)
    <3>1. Settled' = Settled \union {f}
      BY <1>1, <1>5, <1>6, <2>1 DEF Settled, Handover!Confirm
    <3>2. Cardinality(Settled') = Cardinality(Settled) + 1
      BY <1>4, <1>5, <3>1, FS_AddElement
    <3>3. QED
      BY <1>4, <1>7, <2>1, <3>2 DEF Handover!Confirm, PipelineInv, AccountInv
  <2>2. CASE Handover!GiveUp(f)
    <3>1. Settled \subseteq Settled' /\ Settled' \subseteq 1 .. received
      BY <1>1, <1>6, FramesAreFinite DEF Settled, PipelineInv
    <3>2. IsFiniteSet(Settled') /\ Cardinality(Settled') \in Nat
      BY <3>1, FramesAreFinite DEF PipelineInv
    <3>3. Cardinality(Settled) <= Cardinality(Settled')
      BY <3>1, <3>2, FS_Subset
    <3>4. QED
      BY <1>4, <1>7, <2>2, <3>2, <3>3 DEF Handover!GiveUp, PipelineInv, AccountInv
  <2>3. QED
    BY <2>1, <2>2 DEF SettleFrame
<1>10. /\ pending' \subseteq 1 .. received' /\ lost' \subseteq 1 .. received'
       /\ pending' \intersect lost' = {}
  BY <1>1 DEF PipelineInv, AccountInv
<1>11. received' = sent' + failures' + Cardinality(pending') + Cardinality(lost')
  <2>1. received' = received /\ Cardinality(lost') = Cardinality(lost)
    BY <1>1
  <2>2. received = sent + failures + Cardinality(pending) + Cardinality(lost)
    BY DEF PipelineInv, AccountInv
  <2>3. Cardinality(pending) \in Nat /\ Cardinality(lost) \in Nat
    BY <1>4
  <2>4. received = (sent + failures + 1) + (Cardinality(pending) - 1) + Cardinality(lost)
    BY <1>7, <2>2, <2>3
  <2>5. QED
    BY <1>3, <1>8, <2>1, <2>4
<1>12. QED
  BY <1>1, <1>2, <1>7, <1>8, <1>9, <1>10, <1>11 DEF AccountInv

\* On a shutdown and in a crash, frames go from pending to lost.
LEMMA DropKeepsAccount ==
  ASSUME PipelineInv, pending' \subseteq pending,
         lost' = lost \union (pending \ pending'),
         UNCHANGED <<received, topic, sent, failures, content, log>>
  PROVE  TopicInv' /\ AccountInv'
<1>1. TopicInv'
  BY DEF PipelineInv, TopicInv
<1>2. /\ pending \subseteq 1 .. received /\ pending' \subseteq 1 .. received
      /\ pending \ pending' \subseteq 1 .. received
      /\ lost \subseteq 1 .. received /\ lost' \subseteq 1 .. received
      /\ pending \intersect lost = {} /\ pending' \intersect lost' = {}
  BY DEF PipelineInv, AccountInv
<1>3. \A S \in SUBSET (1 .. received) : IsFiniteSet(S) /\ Cardinality(S) \in Nat
  BY FramesAreFinite DEF PipelineInv
<1>4. Cardinality(pending) = Cardinality(pending') + Cardinality(pending \ pending')
  <2>1. /\ pending = pending' \union (pending \ pending')
        /\ pending' \intersect (pending \ pending') = {}
    OBVIOUS
  <2>2. IsFiniteSet(pending') /\ IsFiniteSet(pending \ pending')
    BY <1>2, <1>3
  <2>3. QED
    BY <2>1, <2>2, DisjointSets
<1>5. Cardinality(lost') = Cardinality(lost) + Cardinality(pending \ pending')
  <2>1. lost \intersect (pending \ pending') = {}
    BY <1>2
  <2>2. IsFiniteSet(lost) /\ IsFiniteSet(pending \ pending')
    BY <1>2, <1>3
  <2>3. QED
    BY <2>1, <2>2, DisjointSets
<1>6. Settled' = Settled
  <2>1. pending' \union lost' = pending \union lost
    OBVIOUS
  <2>2. Handover!InTopic' = Handover!InTopic
    BY DEF Handover!InTopic
  <2>3. QED
    BY <2>1, <2>2 DEF Settled
<1>7. /\ Cardinality(pending) \in Nat /\ Cardinality(pending') \in Nat
      /\ Cardinality(pending \ pending') \in Nat
      /\ Cardinality(lost) \in Nat /\ Cardinality(lost') \in Nat
  BY <1>2, <1>3
<1>8. received' = sent' + failures' + Cardinality(pending') + Cardinality(lost')
  BY <1>4, <1>5, <1>7 DEF PipelineInv, AccountInv
<1>9. QED
  BY <1>1, <1>2, <1>6, <1>8 DEF PipelineInv, AccountInv

\* Every step keeps the account.
LEMMA PipelineInvStep ==
  ASSUME PipelineInv, IInv', [PipelineNext]_allVars
  PROVE  PipelineInv'
<1>1. CASE UNCHANGED <<log, extractor>>
  <2>1. TopicInv'
    BY <1>1 DEF extractor, PipelineInv, TopicInv
  <2>2. Settled' = Settled
    BY <1>1 DEF extractor, Settled, Handover!InTopic
  <2>3. AccountInv'
    BY <1>1, <2>2 DEF extractor, PipelineInv, AccountInv
  <2>4. QED
    BY <2>1, <2>3 DEF PipelineInv
<1>2. CASE UNCHANGED allVars \/ LoaderStep
  BY <1>1, <1>2 DEF allVars, vars, LoaderStep
<1>3. CASE AcceptFrame
  BY <1>3, AcceptKeepsAccount DEF PipelineInv
<1>4. ASSUME NEW f \in pending, RecordFrame(f) \/ SettleFrame(f) PROVE PipelineInv'
  BY <1>4, RecordKeepsAccount, SettleKeepsAccount DEF PipelineInv
<1>5. CASE StopExtractor
  <2>1. CASE Handover!Close
    <3>1. /\ pending' \subseteq pending
          /\ lost' = lost \union (pending \ pending')
          /\ UNCHANGED <<received, topic, sent, failures, content, log>>
      BY <1>5, <2>1 DEF StopExtractor, Handover!Close, vars
    <3>2. QED
      BY <3>1, DropKeepsAccount DEF PipelineInv
  <2>2. CASE Handover!Drop
    <3>1. /\ pending' \subseteq pending
          /\ lost' = lost \union (pending \ pending')
          /\ UNCHANGED <<received, topic, sent, failures, content, log>>
      BY <1>5, <2>2 DEF StopExtractor, Handover!Drop, vars
    <3>2. QED
      BY <3>1, DropKeepsAccount DEF PipelineInv
  <2>3. QED
    BY <1>5, <2>1, <2>2 DEF StopExtractor
<1>6. CASE RestartExtractor
  <2>1. /\ pending' \subseteq pending
        /\ lost' = lost \union (pending \ pending')
        /\ UNCHANGED <<received, topic, sent, failures, content, log>>
    BY <1>6 DEF RestartExtractor, vars
  <2>2. QED
    BY <2>1, DropKeepsAccount DEF PipelineInv
<1>7. QED
  BY <1>2, <1>3, <1>4, <1>5, <1>6 DEF PipelineNext

\* The account holds in every reachable state.
LEMMA PipelineInvariant == PipelineSpec => []PipelineInv
<1>1. PipelineInit /\ IInv => PipelineInv
  <2> SUFFICES ASSUME PipelineInit, IInv PROVE TopicInv /\ AccountInv
    BY DEF PipelineInv
  <2>1. /\ received = 0 /\ pending = {} /\ lost = {} /\ sent = 0 /\ failures = 0
        /\ topic = <<>> /\ content = <<>> /\ log = <<>>
    BY DEF PipelineInit, Init, Handover!Init
  <2>2. TopicInv
    BY <2>1, EmptySeq DEF TopicInv
  <2>3. Cardinality(pending) = 0 /\ Cardinality(lost) = 0 /\ Cardinality(Settled) = 0
    BY <2>1, FS_EmptySet DEF Settled, Handover!InTopic
  <2>4. QED
    BY <2>1, <2>2, <2>3 DEF AccountInv
<1>2. PipelineInv /\ IInv' /\ [PipelineNext]_allVars => PipelineInv'
  BY PipelineInvStep
<1>3. QED
  BY <1>1, <1>2, PipelineImplementsLoader, InductiveInvariant, PTL DEF PipelineSpec

-----------------------------------------------------------------------------
(* End to end.                                                             *)

\* A frame that the extractor is done with is in the table, or the loader has yet
\* to read it: NoLoss, for the frames of the extractor.
LEMMA SettledFramesArrive ==
  ASSUME PipelineInv, NEW f \in Settled
  PROVE  InTable(f) \/ ToBeRead(f)
<1>1. PICK i \in DOMAIN topic : topic[i] = f
  BY DEF Settled, Handover!InTopic
<1>2. i \in 1 .. Len(log) /\ Len(log) \in Nat /\ log[i] = content[f]
  BY <1>1, LenProperties DEF PipelineInv, TopicInv, IInv, TypeOK
<1> DEFINE o == i - 1
<1>3. o \in Offsets /\ o + 1 = i /\ IsCopy(o, f)
  BY <1>1, <1>2 DEF Offsets, IsCopy
<1>4. committed \in Nat
  BY DEF PipelineInv, IInv, TypeOK
<1>5. CASE committed <= o
  BY <1>3, <1>5 DEF ToBeRead
<1>6. CASE o < committed
  <2>1. BarsOf(o) \subseteq Durable
    BY <1>3, <1>6 DEF PipelineInv, IInv, DataInv, NoLoss
  <2>2. {<<o, k>> : k \in 1 .. BarCount(content[f])} \subseteq Durable
    BY <1>2, <1>3, <2>1 DEF BarsOf
  <2>3. QED
    BY <1>3, <2>2 DEF InTable
<1>7. QED
  BY <1>2, <1>4, <1>5, <1>6

\* Through any number of crashes, restarts and rejoins on either side, for any
\* frames and any size of a batch, every frame that was accepted is in memory, was
\* dropped with it, counts as failed, waits in the topic or is in the table.
THEOREM EndToEnd == PipelineSpec => []EveryFrameIsSomewhere
<1>1. PipelineInv => EveryFrameIsSomewhere
  <2> SUFFICES ASSUME PipelineInv PROVE EveryFrameIsSomewhere
    OBVIOUS
  <2> DEFINE Kept == pending \union lost
             Somewhere == {f \in 1 .. received :
                             f \in Kept \/ InTable(f) \/ ToBeRead(f)}
  <2>1. /\ Kept \subseteq 1 .. received /\ Settled \subseteq 1 .. received
        /\ Kept \intersect Settled = {} /\ pending \intersect lost = {}
    BY FramesAreFinite DEF PipelineInv, AccountInv, Settled
  <2>2. Kept \union Settled \subseteq Somewhere /\ Somewhere \subseteq 1 .. received
    BY <2>1, SettledFramesArrive
  <2>3. \A S \in SUBSET (1 .. received) : IsFiniteSet(S) /\ Cardinality(S) \in Nat
    BY FramesAreFinite DEF PipelineInv
  <2>4. Cardinality(Kept) = Cardinality(pending) + Cardinality(lost)
    <3>1. IsFiniteSet(pending) /\ IsFiniteSet(lost)
      BY <2>3 DEF PipelineInv, AccountInv
    <3>2. QED
      BY <2>1, <3>1, DisjointSets
  <2>5. Cardinality(Kept \union Settled) = Cardinality(Kept) + Cardinality(Settled)
    <3>1. IsFiniteSet(Kept) /\ IsFiniteSet(Settled)
      BY <2>1, <2>3
    <3>2. QED
      BY <2>1, <3>1, DisjointSets
  <2>6. Cardinality(Kept \union Settled) <= Cardinality(Somewhere)
    BY <2>2, <2>3, FS_Subset
  <2>7. /\ Cardinality(pending) \in Nat /\ Cardinality(lost) \in Nat
        /\ Cardinality(Settled) \in Nat /\ Cardinality(Somewhere) \in Nat
    BY <2>1, <2>2, <2>3 DEF PipelineInv, AccountInv
  <2>8. /\ received \in Nat /\ sent \in Nat /\ failures \in Nat
        /\ received = sent + failures + Cardinality(pending) + Cardinality(lost)
        /\ sent <= Cardinality(Settled)
    BY DEF PipelineInv, AccountInv
  <2> HIDE DEF Somewhere, Kept
  <2>9. received <= failures + Cardinality(Somewhere)
    BY <2>4, <2>5, <2>6, <2>7, <2>8
  <2>10. QED
    BY <2>9 DEF EveryFrameIsSomewhere, Somewhere, Kept
<1>2. QED
  BY <1>1, PipelineInvariant, PTL
=============================================================================
