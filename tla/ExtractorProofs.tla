-------------------------- MODULE ExtractorProofs --------------------------
(***************************************************************************)
(* Theorems about Extractor, for every capacity, in-flight limit, retry    *)
(* limit and backoff cap, and any number of frames and errors.             *)
(***************************************************************************)
EXTENDS Extractor, NumberFacts, SequenceTheorems, FiniteSetTheorems

-----------------------------------------------------------------------------
(* The inductive invariant.                                                *)

\* Where the loop stands, and the attempts it has behind it.
LoopInv ==
  /\ ws \in {"startup", "connecting", "handshake", "streaming", "sending", "backoff"} =>
       outcome = "none" /\ (ErrorsInARow > 0 => failed < MaxRetries)
  /\ ws = "startup" => attempt = 0 /\ failed = 0 /\ ~dropped
  /\ ws \in {"connecting", "handshake", "streaming", "sending"} => attempt = failed + 1
  /\ ws = "backoff" => attempt = failed /\ ErrorsInARow > 0
  /\ ws \in {"startup", "connecting", "handshake", "backoff"} => ~connected
  /\ ws \in {"streaming", "sending"} => connected
  /\ ws \in {"teardown", "exited"} =>
       /\ failed <= Larger(MaxRetries, 1)
       /\ outcome = "exhausted" <=> ErrorsInARow > 0 /\ failed >= MaxRetries

\* Who holds a frame, and what the end of a task leaves behind.
TaskInv ==
  /\ held # 0 <=> ws = "sending"
  /\ taken # 0 <=> producer = "enqueue"
  /\ draining => shutdown
  /\ producer = "exited" => draining /\ channel = <<>> /\ inflight = {}
  /\ ws \in {"startup", "exited"} => channel = <<>> /\ inflight = {} /\ taken = 0
  /\ ~shutdown => lost = {}

ControlInv == TypeOK /\ LoopInv /\ TaskInv

\* The backoff that comes next, and the one the loop is in.
BackoffInv ==
  /\ ws = "startup" => backoff = 1
  /\ ws \in {"connecting", "handshake"} =>
       backoff = IF ErrorsInARow = 0 THEN 1 ELSE Smaller(2 ^ ErrorsInARow, BackoffMax)
  /\ ws = "backoff" =>
       /\ ErrorsInARow > 0
       /\ backoff = IF ErrorsInARow = 1 THEN 1
                    ELSE Smaller(2 ^ (ErrorsInARow - 1), BackoffMax)

Logged == Range(log)

\* A frame is in one place only, and only received frames are anywhere.
PlacesInv ==
  /\ received <= MaxFrames
  /\ InMemory \union lost \union Logged \subseteq 1 .. received
  /\ held # 0 => held = received
  /\ IsInjective(channel)
  /\ held # 0 => held # taken /\ held \notin InChannel \union inflight \union lost
  /\ taken # 0 => taken \notin InChannel \union inflight \union lost
  /\ InChannel \intersect inflight = {}
  /\ InChannel \intersect lost = {}
  /\ inflight \intersect lost = {}

\* The two limits, and what has been counted as sent.
BoundsInv ==
  /\ Len(channel) <= ChannelCapacity
  /\ Cardinality(inflight) + (IF taken # 0 THEN 1 ELSE 0) <= MaxInflight
  /\ sent <= Cardinality(Logged \ InMemory)

IInv == ControlInv /\ BackoffInv /\ PlacesInv /\ BoundsInv /\ Conservation

\* The types once more, number by number.
LEMMA TypesOf ==
  ASSUME TypeOK
  PROVE  /\ received \in Nat /\ sent \in Nat /\ failures \in Nat
         /\ errors \in Nat /\ failed \in Nat
         /\ attempt \in Nat /\ backoff \in Nat /\ held \in Nat /\ taken \in Nat
BY ExtractorAssumption DEF TypeOK

\* What waits in the channel are frames.
LEMMA FramesInChannel ==
  ASSUME TypeOK
  PROVE  InChannel \subseteq Frames
BY DEF TypeOK, InChannel

\* Every step keeps the types.
LEMMA TypeStep ==
  ASSUME TypeOK, LoopInv, TaskInv, [Next]_vars
  PROVE  TypeOK'
<1> USE ExtractorAssumption DEF TypeOK, LoopInv, ErrorsInARow, Larger, WsStates, ProducerStates, Outcomes, Frames, wsVars, producerVars, metricVars, history
<1>1. CASE Startup
  BY <1>1, TypesOf DEF Startup
<1>2. CASE SetupSucceeds
  BY <1>2, TypesOf DEF SetupSucceeds
<1>3. CASE SetupRefused
  BY <1>3, TypesOf DEF SetupRefused, Return
<1>4. CASE SetupFails
  <2>1. ws' \in WsStates /\ attempt' \in 0 .. Larger(MaxRetries, 1) /\ backoff' \in 0 .. Larger(BackoffMax, 1)
    BY <1>4, TypesOf DEF SetupFails, TransientError, Return, ResetAttempt, ResetBackoff
  <2>2. held' \in 0 .. MaxFrames /\ taken' \in 0 .. MaxFrames
    BY <1>4, TypesOf DEF SetupFails, TransientError, Return, ResetAttempt, ResetBackoff
  <2>3. inflight' \subseteq Frames /\ lost' \subseteq Frames
    BY <1>4, TypesOf DEF SetupFails, TransientError, Return, ResetAttempt, ResetBackoff
  <2>4. channel' \in Seq(Frames) /\ log' \in Seq(Frames)
    BY <1>4, TypesOf DEF SetupFails, TransientError, Return, ResetAttempt, ResetBackoff
  <2>5. {received', sent', failures', errors', failed'} \subseteq Nat
    BY <1>4, TypesOf DEF SetupFails, TransientError, Return, ResetAttempt, ResetBackoff
  <2>6. QED
    BY <1>4, <2>1, <2>2, <2>3, <2>4, <2>5 DEF SetupFails, TransientError, Return, ResetAttempt, ResetBackoff
<1>5. CASE StreamFails
  <2>1. ws' \in WsStates /\ attempt' \in 0 .. Larger(MaxRetries, 1) /\ backoff' \in 0 .. Larger(BackoffMax, 1)
    BY <1>5, TypesOf DEF StreamFails, TransientError, Return, ResetAttempt, ResetBackoff
  <2>2. held' \in 0 .. MaxFrames /\ taken' \in 0 .. MaxFrames
    BY <1>5, TypesOf DEF StreamFails, TransientError, Return, ResetAttempt, ResetBackoff
  <2>3. inflight' \subseteq Frames /\ lost' \subseteq Frames
    BY <1>5, TypesOf DEF StreamFails, TransientError, Return, ResetAttempt, ResetBackoff
  <2>4. channel' \in Seq(Frames) /\ log' \in Seq(Frames)
    BY <1>5, TypesOf DEF StreamFails, TransientError, Return, ResetAttempt, ResetBackoff
  <2>5. {received', sent', failures', errors', failed'} \subseteq Nat
    BY <1>5, TypesOf DEF StreamFails, TransientError, Return, ResetAttempt, ResetBackoff
  <2>6. QED
    BY <1>5, <2>1, <2>2, <2>3, <2>4, <2>5 DEF StreamFails, TransientError, Return, ResetAttempt, ResetBackoff
<1>6. CASE BackoffEnds
  BY <1>6, TypesOf DEF BackoffEnds, NextBackoff, Smaller
<1>7. CASE BackoffInterrupted
  BY <1>7, TypesOf DEF BackoffInterrupted, Return
<1>8. CASE ReceiveFrame
  <2>1. ws' \in WsStates /\ attempt' \in 0 .. Larger(MaxRetries, 1) /\ backoff' \in 0 .. Larger(BackoffMax, 1)
    BY <1>8, TypesOf DEF ReceiveFrame
  <2>2. held' \in 0 .. MaxFrames /\ taken' \in 0 .. MaxFrames
    BY <1>8, TypesOf DEF ReceiveFrame
  <2>3. inflight' \subseteq Frames /\ lost' \subseteq Frames
    BY <1>8, TypesOf DEF ReceiveFrame
  <2>4. channel' \in Seq(Frames) /\ log' \in Seq(Frames)
    BY <1>8, TypesOf DEF ReceiveFrame
  <2>5. {received', sent', failures', errors', failed'} \subseteq Nat
    BY <1>8, TypesOf DEF ReceiveFrame
  <2>6. QED
    BY <1>8, <2>1, <2>2, <2>3, <2>4, <2>5 DEF ReceiveFrame
<1>9. CASE SendFrame
  <2>0. held \in Frames
    BY <1>9, TypesOf DEF SendFrame, HasRoom, TaskInv
  <2>1. ws' \in WsStates /\ attempt' \in 0 .. Larger(MaxRetries, 1) /\ backoff' \in 0 .. Larger(BackoffMax, 1)
    BY <1>9, TypesOf DEF SendFrame, HasRoom
  <2>2. held' \in 0 .. MaxFrames /\ taken' \in 0 .. MaxFrames
    BY <1>9, TypesOf DEF SendFrame, HasRoom
  <2>3. inflight' \subseteq Frames /\ lost' \subseteq Frames
    BY <1>9, TypesOf, <2>0 DEF SendFrame, HasRoom
  <2>4. channel' \in Seq(Frames) /\ log' \in Seq(Frames)
    BY <1>9, TypesOf, <2>0 DEF SendFrame, HasRoom
  <2>5. {received', sent', failures', errors', failed'} \subseteq Nat
    BY <1>9, TypesOf DEF SendFrame, HasRoom
  <2>6. QED
    BY <1>9, <2>1, <2>2, <2>3, <2>4, <2>5 DEF SendFrame, HasRoom
<1>10. CASE SendFails
  <2>0. held \in Frames
    BY <1>10, TypesOf DEF SendFails, Return, TaskInv
  <2>1. ws' \in WsStates /\ attempt' \in 0 .. Larger(MaxRetries, 1) /\ backoff' \in 0 .. Larger(BackoffMax, 1)
    BY <1>10, TypesOf DEF SendFails, Return
  <2>2. held' \in 0 .. MaxFrames /\ taken' \in 0 .. MaxFrames
    BY <1>10, TypesOf DEF SendFails, Return
  <2>3. inflight' \subseteq Frames /\ lost' \subseteq Frames
    BY <1>10, TypesOf, <2>0 DEF SendFails, Return
  <2>4. channel' \in Seq(Frames) /\ log' \in Seq(Frames)
    BY <1>10, TypesOf, <2>0 DEF SendFails, Return
  <2>5. {received', sent', failures', errors', failed'} \subseteq Nat
    BY <1>10, TypesOf DEF SendFails, Return
  <2>6. QED
    BY <1>10, <2>1, <2>2, <2>3, <2>4, <2>5 DEF SendFails, Return
<1>11. CASE StreamSeesShutdown
  BY <1>11, TypesOf DEF StreamSeesShutdown, Return
<1>12. CASE Exit
  BY <1>12, TypesOf DEF Exit
<1>13. CASE ProducerSeesShutdown
  BY <1>13, TypesOf DEF ProducerSeesShutdown
<1>14. CASE TakeFrame
  <2>1. ws' \in WsStates /\ attempt' \in 0 .. Larger(MaxRetries, 1) /\ backoff' \in 0 .. Larger(BackoffMax, 1)
    BY <1>14, TypesOf DEF TakeFrame, InflightBelowLimit
  <2>2. held' \in 0 .. MaxFrames /\ taken' \in 0 .. MaxFrames
    BY <1>14, TypesOf DEF TakeFrame, InflightBelowLimit
  <2>3. inflight' \subseteq Frames /\ lost' \subseteq Frames
    BY <1>14, TypesOf DEF TakeFrame, InflightBelowLimit
  <2>4. channel' \in Seq(Frames) /\ log' \in Seq(Frames)
    BY <1>14, TypesOf DEF TakeFrame, InflightBelowLimit
  <2>5. {received', sent', failures', errors', failed'} \subseteq Nat
    BY <1>14, TypesOf DEF TakeFrame, InflightBelowLimit
  <2>6. QED
    BY <1>14, <2>1, <2>2, <2>3, <2>4, <2>5 DEF TakeFrame, InflightBelowLimit
<1>15. CASE EnqueueFrame
  <2>0. taken \in Frames
    BY <1>15, TypesOf DEF EnqueueFrame, TaskInv
  <2>1. ws' \in WsStates /\ attempt' \in 0 .. Larger(MaxRetries, 1) /\ backoff' \in 0 .. Larger(BackoffMax, 1)
    BY <1>15, TypesOf DEF EnqueueFrame
  <2>2. held' \in 0 .. MaxFrames /\ taken' \in 0 .. MaxFrames
    BY <1>15, TypesOf DEF EnqueueFrame
  <2>3. inflight' \subseteq Frames /\ lost' \subseteq Frames
    BY <1>15, TypesOf, <2>0 DEF EnqueueFrame
  <2>4. channel' \in Seq(Frames) /\ log' \in Seq(Frames)
    BY <1>15, TypesOf, <2>0 DEF EnqueueFrame
  <2>5. {received', sent', failures', errors', failed'} \subseteq Nat
    BY <1>15, TypesOf DEF EnqueueFrame
  <2>6. QED
    BY <1>15, <2>1, <2>2, <2>3, <2>4, <2>5 DEF EnqueueFrame
<1>16. CASE RefuseFrame
  BY <1>16, TypesOf DEF RefuseFrame
<1>17. CASE ProducerExits
  <2>1. ws' \in WsStates /\ attempt' \in 0 .. Larger(MaxRetries, 1) /\ backoff' \in 0 .. Larger(BackoffMax, 1)
    BY <1>17, TypesOf, FramesInChannel DEF ProducerExits, NothingInflight
  <2>2. held' \in 0 .. MaxFrames /\ taken' \in 0 .. MaxFrames
    BY <1>17, TypesOf, FramesInChannel DEF ProducerExits, NothingInflight
  <2>3. inflight' \subseteq Frames /\ lost' \subseteq Frames
    BY <1>17, TypesOf, FramesInChannel DEF ProducerExits, NothingInflight
  <2>4. channel' \in Seq(Frames) /\ log' \in Seq(Frames)
    BY <1>17, TypesOf, FramesInChannel DEF ProducerExits, NothingInflight
  <2>5. {received', sent', failures', errors', failed'} \subseteq Nat
    BY <1>17, TypesOf, FramesInChannel DEF ProducerExits, NothingInflight
  <2>6. QED
    BY <1>17, <2>1, <2>2, <2>3, <2>4, <2>5 DEF ProducerExits, NothingInflight
<1>18. CASE FallQuiet
  BY <1>18, TypesOf DEF FallQuiet
<1>19. CASE RequestStop
  BY <1>19, TypesOf DEF RequestStop
<1>20. ASSUME NEW f \in Frames, DeliverySucceeds(f) PROVE TypeOK'
  <2>1. ws' \in WsStates /\ attempt' \in 0 .. Larger(MaxRetries, 1) /\ backoff' \in 0 .. Larger(BackoffMax, 1)
    BY <1>20, TypesOf DEF DeliverySucceeds
  <2>2. held' \in 0 .. MaxFrames /\ taken' \in 0 .. MaxFrames
    BY <1>20, TypesOf DEF DeliverySucceeds
  <2>3. inflight' \subseteq Frames /\ lost' \subseteq Frames
    BY <1>20, TypesOf DEF DeliverySucceeds
  <2>4. channel' \in Seq(Frames) /\ log' \in Seq(Frames)
    BY <1>20, TypesOf DEF DeliverySucceeds
  <2>5. {received', sent', failures', errors', failed'} \subseteq Nat
    BY <1>20, TypesOf DEF DeliverySucceeds
  <2>6. QED
    BY <1>20, <2>1, <2>2, <2>3, <2>4, <2>5 DEF DeliverySucceeds
<1>21. ASSUME NEW f \in Frames, DeliveryFails(f) PROVE TypeOK'
  BY <1>21, TypesOf DEF DeliveryFails
<1>22. ASSUME NEW f \in Frames, BrokerAppends(f) PROVE TypeOK'
  BY <1>22, TypesOf DEF BrokerAppends
<1>23. CASE Connects
  BY <1>23, TypesOf DEF Connects
<1>24. CASE UNCHANGED vars
  BY <1>24, TypesOf DEF vars
<1>25. QED
  BY <1>1, <1>2, <1>3, <1>4, <1>5, <1>6, <1>7, <1>8, <1>9, <1>10, <1>11, <1>12, <1>13, <1>14, <1>15, <1>16, <1>17, <1>18, <1>19, <1>20, <1>21, <1>22, <1>23, <1>24
     DEF Next, WsStep, ProducerStep, Surroundings, Settle, Watchdog, Signal

\* Every step keeps attempts and outcome in line with the stage of the reader.
LEMMA LoopStep ==
  ASSUME TypeOK, LoopInv, [Next]_vars
  PROVE  LoopInv'
<1> USE ExtractorAssumption DEF TypeOK, LoopInv, ErrorsInARow, Larger, Frames, wsVars, producerVars, metricVars, history
<1>1. CASE Startup
  BY <1>1 DEF Startup
<1>2. CASE SetupSucceeds
  BY <1>2 DEF SetupSucceeds
<1>3. CASE SetupRefused
  BY <1>3 DEF SetupRefused, Return
<1>4. CASE SetupFails
  <2>1. /\ ws \in {"connecting", "handshake"} /\ ~connected /\ failed \in Nat
        /\ outcome = "none" /\ attempt = failed + 1
        /\ failed = 0 \/ failed < MaxRetries
    BY <1>4, TypesOf DEF SetupFails
  <2>2. /\ failed' = failed + 1 /\ attempt' = attempt /\ connected' = FALSE
        /\ \/ attempt >= MaxRetries /\ ws' = "teardown" /\ outcome' = "exhausted"
           \/ attempt < MaxRetries /\ ws' = "backoff" /\ outcome' = outcome
    BY <1>4, <2>1 DEF SetupFails, TransientError, Return, ResetAttempt
  <2>3. QED
    BY <2>1, <2>2
<1>5. CASE StreamFails
  <2>1. connected /\ outcome = "none"
    BY <1>5 DEF StreamFails
  <2>2. /\ failed' = 0 /\ dropped' /\ attempt' = 0 /\ connected' = FALSE
        /\ \/ 0 >= MaxRetries /\ ws' = "teardown" /\ outcome' = "exhausted"
           \/ 0 < MaxRetries /\ ws' = "backoff" /\ outcome' = outcome
    BY <1>5, <2>1 DEF StreamFails, TransientError, Return, ResetAttempt
  <2>3. QED
    BY <2>1, <2>2
<1>6. CASE BackoffEnds
  BY <1>6 DEF BackoffEnds, NextBackoff, Smaller
<1>7. CASE BackoffInterrupted
  BY <1>7 DEF BackoffInterrupted, Return
<1>8. CASE ReceiveFrame
  BY <1>8 DEF ReceiveFrame
<1>9. CASE SendFrame
  BY <1>9 DEF SendFrame, HasRoom
<1>10. CASE SendFails
  BY <1>10 DEF SendFails, Return
<1>11. CASE StreamSeesShutdown
  BY <1>11 DEF StreamSeesShutdown, Return
<1>12. CASE Exit
  BY <1>12 DEF Exit
<1>13. CASE ProducerSeesShutdown
  BY <1>13 DEF ProducerSeesShutdown
<1>14. CASE TakeFrame
  BY <1>14 DEF TakeFrame, InflightBelowLimit
<1>15. CASE EnqueueFrame
  BY <1>15 DEF EnqueueFrame
<1>16. CASE RefuseFrame
  BY <1>16 DEF RefuseFrame
<1>17. CASE ProducerExits
  BY <1>17 DEF ProducerExits, NothingInflight
<1>18. CASE FallQuiet
  BY <1>18 DEF FallQuiet
<1>19. CASE RequestStop
  BY <1>19 DEF RequestStop
<1>20. ASSUME NEW f \in Frames, DeliverySucceeds(f) PROVE LoopInv'
  BY <1>20 DEF DeliverySucceeds
<1>21. ASSUME NEW f \in Frames, DeliveryFails(f) PROVE LoopInv'
  BY <1>21 DEF DeliveryFails
<1>22. ASSUME NEW f \in Frames, BrokerAppends(f) PROVE LoopInv'
  BY <1>22 DEF BrokerAppends
<1>23. CASE Connects
  BY <1>23, TypesOf DEF Connects
<1>24. CASE UNCHANGED vars
  BY <1>24, TypesOf DEF vars
<1>25. QED
  BY <1>1, <1>2, <1>3, <1>4, <1>5, <1>6, <1>7, <1>8, <1>9, <1>10, <1>11, <1>12, <1>13, <1>14, <1>15, <1>16, <1>17, <1>18, <1>19, <1>20, <1>21, <1>22, <1>23, <1>24
     DEF Next, WsStep, ProducerStep, Surroundings, Settle, Watchdog, Signal

\* Every step keeps track of who holds a frame, and of what a task leaves behind.
LEMMA TaskStep ==
  ASSUME TypeOK, LoopInv, TaskInv, [Next]_vars
  PROVE  TaskInv'
<1> USE ExtractorAssumption DEF TypeOK, TaskInv, Frames, wsVars, producerVars, metricVars, history
<1>1. CASE Startup
  BY <1>1 DEF Startup
<1>2. CASE SetupSucceeds
  BY <1>2 DEF SetupSucceeds
<1>3. CASE SetupRefused
  BY <1>3 DEF SetupRefused, Return
<1>4. CASE SetupFails
  <2>1. /\ ws \in {"connecting", "handshake"} /\ ws' \in {"backoff", "teardown"}
        /\ shutdown' = shutdown \/ shutdown'
        /\ UNCHANGED <<held, producerVars, channel, lost>>
    BY <1>4 DEF SetupFails, TransientError, Return
  <2>2. QED
    BY <2>1
<1>5. CASE StreamFails
  BY <1>5 DEF StreamFails, TransientError, Return, ResetAttempt, ResetBackoff
<1>6. CASE BackoffEnds
  BY <1>6 DEF BackoffEnds, NextBackoff, Smaller
<1>7. CASE BackoffInterrupted
  BY <1>7 DEF BackoffInterrupted, Return
<1>8. CASE ReceiveFrame
  BY <1>8 DEF ReceiveFrame
<1>9. CASE SendFrame
  BY <1>9 DEF SendFrame, HasRoom
<1>10. CASE SendFails
  BY <1>10 DEF SendFails, Return
<1>11. CASE StreamSeesShutdown
  BY <1>11 DEF StreamSeesShutdown, Return
<1>12. CASE Exit
  BY <1>12 DEF Exit
<1>13. CASE ProducerSeesShutdown
  BY <1>13 DEF ProducerSeesShutdown
<1>14. CASE TakeFrame
  BY <1>14 DEF TakeFrame, InflightBelowLimit
<1>15. CASE EnqueueFrame
  BY <1>15 DEF EnqueueFrame
<1>16. CASE RefuseFrame
  BY <1>16 DEF RefuseFrame
<1>17. CASE ProducerExits
  BY <1>17 DEF ProducerExits, NothingInflight
<1>18. CASE FallQuiet
  BY <1>18 DEF FallQuiet
<1>19. CASE RequestStop
  BY <1>19 DEF RequestStop
<1>20. ASSUME NEW f \in Frames, DeliverySucceeds(f) PROVE TaskInv'
  BY <1>20 DEF DeliverySucceeds
<1>21. ASSUME NEW f \in Frames, DeliveryFails(f) PROVE TaskInv'
  BY <1>21 DEF DeliveryFails
<1>22. ASSUME NEW f \in Frames, BrokerAppends(f) PROVE TaskInv'
  BY <1>22 DEF BrokerAppends
<1>23. CASE Connects
  BY <1>23, TypesOf DEF Connects
<1>24. CASE UNCHANGED vars
  BY <1>24, TypesOf DEF vars
<1>25. QED
  BY <1>1, <1>2, <1>3, <1>4, <1>5, <1>6, <1>7, <1>8, <1>9, <1>10, <1>11, <1>12, <1>13, <1>14, <1>15, <1>16, <1>17, <1>18, <1>19, <1>20, <1>21, <1>22, <1>23, <1>24
     DEF Next, WsStep, ProducerStep, Surroundings, Settle, Watchdog, Signal

-----------------------------------------------------------------------------
(* The retry schedule.                                                     *)

\* The attempts and the backoff follow the errors in a row.
LEMMA BackoffStep ==
  ASSUME ControlInv, BackoffInv, [Next]_vars
  PROVE  BackoffInv'
<1> USE ExtractorAssumption DEF ControlInv, BackoffInv, ErrorsInARow, wsVars, history
<1>1. CASE Startup
  <2>1. failed = 0 /\ ~dropped /\ backoff = 1
    BY <1>1 DEF Startup, LoopInv
  <2>2. QED
    BY <1>1, <2>1 DEF Startup
<1>2. CASE SetupFails
  <2>1. /\ ~connected /\ failed \in Nat /\ dropped \in BOOLEAN
        /\ ws \in {"connecting", "handshake"}
    BY <1>2, TypesOf DEF SetupFails, LoopInv, TypeOK
  <2>2. /\ failed' = failed + 1 /\ (dropped' <=> dropped) /\ backoff' = backoff
        /\ ws' \in {"backoff", "teardown"}
    BY <1>2, <2>1 DEF SetupFails, TransientError, Return, ResetBackoff
  <2>3. ErrorsInARow' = ErrorsInARow + 1 /\ ErrorsInARow \in Nat
    BY <2>1, <2>2
  <2>4. /\ ErrorsInARow' - 1 = ErrorsInARow /\ ErrorsInARow' > 0
        /\ ErrorsInARow' = 1 <=> ErrorsInARow = 0
    BY <2>3
  <2>5. backoff = IF ErrorsInARow = 0 THEN 1 ELSE Smaller(2 ^ ErrorsInARow, BackoffMax)
    BY <2>1
  <2>6. QED
    <3> HIDE DEF ErrorsInARow
    <3> QED BY <2>2, <2>4, <2>5
<1>3. CASE StreamFails
  <2>1. connected /\ dropped \in BOOLEAN
    BY <1>3 DEF StreamFails, LoopInv, TypeOK
  <2>2. /\ failed' = 0 /\ dropped' /\ backoff' = 1
        /\ ws' \in {"backoff", "teardown"}
    BY <1>3, <2>1 DEF StreamFails, TransientError, Return, ResetBackoff
  <2>3. ErrorsInARow' = 1
    BY <2>2
  <2>4. QED
    <3> HIDE DEF ErrorsInARow
    <3> QED BY <2>2, <2>3
<1>4. CASE BackoffEnds
  <2>1. ErrorsInARow \in Nat /\ ErrorsInARow > 0
    BY <1>4, TypesOf DEF BackoffEnds
  <2> DEFINE k == ErrorsInARow - 1
             power == 2 ^ k
  <2>2. k \in Nat /\ ErrorsInARow = k + 1 /\ (ErrorsInARow = 1 => k = 0)
    BY <2>1
  <2>3. power \in Nat /\ 2 ^ ErrorsInARow = 2 * power /\ (k = 0 => power = 1)
    <3>1. k \in Nat => 2 ^ k \in Nat /\ 2 ^ (k + 1) = 2 * 2 ^ k
      BY PowersOfTwo
    <3>2. 2 ^ 0 = 1
      BY SMT
    <3>3. QED
      <4> HIDE DEF k, ErrorsInARow
      <4> QED BY <2>2, <3>1, <3>2
  <2>4. /\ backoff = IF ErrorsInARow = 1 THEN 1 ELSE Smaller(power, BackoffMax)
        /\ backoff' = Smaller(2 * backoff, BackoffMax)
    BY <1>4 DEF BackoffEnds, NextBackoff
  <2>5. ErrorsInARow' = ErrorsInARow /\ ws' = "connecting"
    BY <1>4 DEF BackoffEnds
  <2> HIDE DEF power, k, ErrorsInARow
  <2>6. backoff' = Smaller(2 * power, BackoffMax)
    BY <2>2, <2>3, <2>4 DEF Smaller
  <2>7. QED
    BY <2>1, <2>3, <2>5, <2>6
<1>5. CASE /\ UNCHANGED <<backoff, failed, dropped>>
           /\ \/ ws' = ws
              \/ ws' \notin {"startup", "connecting", "handshake", "backoff"}
              \/ ws = "connecting" /\ ws' = "handshake"
  BY <1>5
<1>6. QED
  BY <1>1, <1>2, <1>3, <1>4, <1>5
     DEF Next, WsStep, ProducerStep, Surroundings, Settle, Watchdog, Signal, Return, vars,
         Connects, SetupSucceeds, SetupRefused, BackoffInterrupted, ReceiveFrame, SendFrame, SendFails,
         StreamSeesShutdown, Exit, ProducerSeesShutdown, TakeFrame, EnqueueFrame, RefuseFrame,
         ProducerExits, DeliverySucceeds, DeliveryFails, BrokerAppends, FallQuiet, RequestStop

-----------------------------------------------------------------------------
(* The frames.                                                             *)

\* What the places are made of; a step that leaves these alone moves no frame.
frameVars == <<held, taken, inflight, channel, received, sent, failures, lost, log>>

FramesInv == PlacesInv /\ BoundsInv /\ Conservation

\* Appending an element adds it to the range, and a new one repeats nothing.
LEMMA AppendFacts ==
  ASSUME NEW S, NEW s \in Seq(S), NEW e \in S
  PROVE  /\ Range(Append(s, e)) = Range(s) \union {e}
         /\ Len(Append(s, e)) = Len(s) + 1
         /\ IsInjective(s) /\ e \notin Range(s) => IsInjective(Append(s, e))
<1>1. /\ Append(s, e) \in Seq(S) /\ Len(Append(s, e)) = Len(s) + 1
      /\ \A i \in 1 .. Len(s) : Append(s, e)[i] = s[i]
      /\ Append(s, e)[Len(s) + 1] = e
  BY AppendProperties
<1>2. /\ Len(s) \in Nat /\ DOMAIN s = 1 .. Len(s)
      /\ DOMAIN Append(s, e) = (1 .. Len(s)) \union {Len(s) + 1}
  BY <1>1, LenProperties
<1>3. \A i \in 1 .. Len(s) : i # Len(s) + 1
  BY <1>2
<1>4. Range(Append(s, e)) = Range(s) \union {e}
  BY <1>1, <1>2 DEF Range
<1>5. ASSUME IsInjective(s), e \notin Range(s) PROVE IsInjective(Append(s, e))
  <2>1. /\ \A i, j \in 1 .. Len(s) : s[i] = s[j] => i = j
        /\ \A i \in 1 .. Len(s) : s[i] # e
    BY <1>2, <1>5 DEF IsInjective, Range
  <2>2. QED
    BY <1>1, <1>2, <1>3, <2>1 DEF IsInjective
<1>6. QED
  BY <1>1, <1>4, <1>5

\* The head of a sequence without repetition is not in its tail.
LEMMA TailFacts ==
  ASSUME NEW S, NEW s \in Seq(S), s # <<>>
  PROVE  /\ Range(s) = Range(Tail(s)) \union {Head(s)}
         /\ Len(Tail(s)) = Len(s) - 1
         /\ IsInjective(s) => IsInjective(Tail(s)) /\ Head(s) \notin Range(Tail(s))
<1>1. /\ Tail(s) \in Seq(S) /\ Len(Tail(s)) = Len(s) - 1
      /\ \A i \in 1 .. Len(Tail(s)) : Tail(s)[i] = s[i + 1]
      /\ Head(s) = s[1]
  BY HeadTailProperties
<1>2. Len(s) \in Nat \ {0}
  BY EmptySeq
<1>3. DOMAIN s = 1 .. Len(s) /\ DOMAIN Tail(s) = 1 .. Len(s) - 1
  BY <1>1, LenProperties
<1>4. Range(s) \subseteq Range(Tail(s)) \union {Head(s)}
  <2> SUFFICES ASSUME NEW i \in DOMAIN s PROVE s[i] \in Range(Tail(s)) \union {Head(s)}
    BY DEF Range
  <2>1. CASE i = 1
    BY <1>1, <2>1
  <2>2. CASE i # 1
    <3>1. i - 1 \in DOMAIN Tail(s) /\ Tail(s)[i - 1] = s[i]
      BY <1>1, <1>2, <1>3, <2>2
    <3>2. QED
      BY <3>1 DEF Range
  <2>3. QED
    BY <2>1, <2>2
<1>5. \A i \in DOMAIN Tail(s) : i + 1 \in DOMAIN s /\ i + 1 # 1 /\ Tail(s)[i] = s[i + 1]
  BY <1>1, <1>2, <1>3
<1>6. 1 \in DOMAIN s
  BY <1>2, <1>3
<1>7. Range(Tail(s)) \union {Head(s)} \subseteq Range(s)
  BY <1>1, <1>5, <1>6 DEF Range
<1>8. ASSUME IsInjective(s) PROVE IsInjective(Tail(s)) /\ Head(s) \notin Range(Tail(s))
  <2>1. \A i, j \in DOMAIN s : s[i] = s[j] => i = j
    BY <1>8 DEF IsInjective
  <2>2. \A i, j \in DOMAIN Tail(s) : i + 1 = j + 1 => i = j
    BY <1>2, <1>3
  <2>3. QED
    BY <1>1, <1>5, <1>6, <2>1, <2>2 DEF IsInjective, Range
<1>9. QED
  BY <1>1, <1>4, <1>7, <1>8

\* Everything that is counted is finite.
LEMMA FramesAreFinite ==
  ASSUME TypeOK, PlacesInv
  PROVE  /\ IsFiniteSet(InMemory) /\ IsFiniteSet(lost) /\ IsFiniteSet(Logged)
         /\ IsFiniteSet(InChannel) /\ IsFiniteSet(inflight)
         /\ IsFiniteSet(Logged \ InMemory)
<1>1. IsFiniteSet(1 .. received)
  BY TypesOf, FS_Interval
<1>2. /\ InMemory \subseteq 1 .. received /\ lost \subseteq 1 .. received
      /\ Logged \subseteq 1 .. received /\ InChannel \subseteq 1 .. received
      /\ inflight \subseteq 1 .. received /\ Logged \ InMemory \subseteq 1 .. received
  BY DEF PlacesInv, InMemory
<1>3. QED
  BY <1>1, <1>2, FS_Subset

\* A step that moves no frame.
LEMMA NoFrameMoves ==
  ASSUME FramesInv, UNCHANGED frameVars
  PROVE  FramesInv' /\ InMemory' = InMemory
<1>1. /\ held' = held /\ taken' = taken /\ inflight' = inflight /\ channel' = channel
      /\ received' = received /\ sent' = sent /\ failures' = failures /\ lost' = lost
      /\ log' = log
  BY DEF frameVars
<1>2. InChannel' = InChannel /\ Logged' = Logged
  BY <1>1 DEF InChannel, Logged
<1>3. InMemory' = InMemory
  BY <1>1, <1>2 DEF InMemory
<1>4. PlacesInv'
  BY <1>1, <1>2, <1>3 DEF FramesInv, PlacesInv
<1>5. BoundsInv' /\ Conservation'
  BY <1>1, <1>2, <1>3 DEF FramesInv, BoundsInv, Conservation
<1>6. QED
  BY <1>3, <1>4, <1>5 DEF FramesInv

\* A frame arrives.
LEMMA FrameArrives ==
  ASSUME TypeOK, TaskInv, FramesInv, ReceiveFrame
  PROVE  FramesInv' /\ InMemory' = InMemory \union {received + 1}
<1> DEFINE new == received + 1
<1>1. /\ held = 0 /\ held' = new /\ received' = new /\ received < MaxFrames
      /\ taken' = taken /\ inflight' = inflight /\ channel' = channel /\ sent' = sent
      /\ failures' = failures /\ lost' = lost /\ log' = log
  BY DEF ReceiveFrame, TaskInv, producerVars, history
<1>2. InChannel' = InChannel /\ Logged' = Logged
  BY <1>1 DEF InChannel, Logged
<1>3. /\ new # 0 /\ new \notin 1 .. received /\ new <= MaxFrames /\ new \in 1 .. new
      /\ 1 .. received \subseteq 1 .. new
  <2>1. received \in Nat /\ MaxFrames \in Nat /\ received < MaxFrames
    BY <1>1, TypesOf, ExtractorAssumption
  <2>2. QED
    BY <2>1
<1>4. /\ InMemory \subseteq 1 .. received /\ lost \subseteq 1 .. received
      /\ Logged \subseteq 1 .. received
  BY DEF FramesInv, PlacesInv
<1> HIDE DEF new
<1>5. InMemory' = InMemory \union {new} /\ new \notin InMemory
  BY <1>1, <1>2, <1>3, <1>4 DEF InMemory
<1>6. PlacesInv'
  <2>1. InMemory' \union lost' \union Logged' \subseteq 1 .. received'
    BY <1>1, <1>2, <1>3, <1>4, <1>5
  <2>2. new # taken /\ new \notin InChannel \union inflight \union lost
    BY <1>3, <1>4 DEF InMemory
  <2>3. QED
    BY <1>1, <1>2, <1>3, <2>1, <2>2 DEF FramesInv, PlacesInv
<1>7. Conservation'
  <2>1. Cardinality(InMemory') = Cardinality(InMemory) + 1
    BY <1>5, FS_AddElement, FramesAreFinite DEF FramesInv
  <2>2. Cardinality(InMemory) \in Nat /\ Cardinality(lost) \in Nat
    BY FS_CardinalityType, FramesAreFinite DEF FramesInv
  <2>3. QED
    BY <1>1, <2>1, <2>2, TypesOf DEF FramesInv, Conservation, new
<1>8. BoundsInv'
  <2>1. Logged' \ InMemory' = Logged \ InMemory
    BY <1>2, <1>3, <1>4, <1>5
  <2>2. QED
    BY <1>1, <2>1 DEF FramesInv, BoundsInv
<1>9. QED
  BY <1>5, <1>6, <1>7, <1>8 DEF FramesInv, new

\* The channel takes the frame the reader holds.
LEMMA FrameIsQueued ==
  ASSUME TypeOK, TaskInv, FramesInv, SendFrame
  PROVE  FramesInv' /\ InMemory' = InMemory
<1>1. /\ held # 0 /\ held' = 0 /\ channel' = Append(channel, held)
      /\ Len(channel) < ChannelCapacity
      /\ taken' = taken /\ inflight' = inflight /\ received' = received /\ sent' = sent
      /\ failures' = failures /\ lost' = lost /\ log' = log
  BY DEF SendFrame, HasRoom, TaskInv, producerVars, metricVars, history
<1>2. held \in Frames /\ channel \in Seq(Frames)
  BY <1>1 DEF TypeOK, Frames
<1>3. held # taken /\ held \notin InChannel \union inflight \union lost
  BY <1>1 DEF FramesInv, PlacesInv
<1>4. InChannel = Range(channel) /\ InChannel' = Range(channel')
  BY DEF InChannel, Range
<1>5. /\ InChannel' = InChannel \union {held} /\ Len(channel') = Len(channel) + 1
      /\ IsInjective(channel')
  BY <1>1, <1>2, <1>3, <1>4, AppendFacts DEF FramesInv, PlacesInv
<1>6. Logged' = Logged
  BY <1>1 DEF Logged
<1>7. InMemory' = InMemory
  BY <1>1, <1>5 DEF InMemory
<1>8. PlacesInv'
  <2>1. \A f : f \in InChannel' <=> f \in InChannel \/ f = held
    BY <1>5
  <2>2. QED
    BY <1>1, <1>3, <1>5, <1>6, <1>7, <2>1 DEF FramesInv, PlacesInv
<1>9. BoundsInv'
  <2>1. Len(channel) \in Nat
    BY <1>2, LenProperties
  <2>2. Len(channel') <= ChannelCapacity
    BY <1>1, <1>5, <2>1, ExtractorAssumption
  <2>3. QED
    BY <1>1, <1>6, <1>7, <2>2 DEF FramesInv, BoundsInv
<1>10. Conservation'
  BY <1>1, <1>7 DEF FramesInv, Conservation
<1>11. QED
  BY <1>7, <1>8, <1>9, <1>10 DEF FramesInv

\* The producer task takes a frame from the channel.
LEMMA FrameIsTaken ==
  ASSUME TypeOK, TaskInv, FramesInv, TakeFrame
  PROVE  FramesInv' /\ InMemory' = InMemory
<1>1. /\ taken = 0 /\ taken' = Head(channel) /\ channel' = Tail(channel) /\ channel # <<>>
      /\ Cardinality(inflight) < MaxInflight
      /\ held' = held /\ inflight' = inflight /\ received' = received /\ sent' = sent
      /\ failures' = failures /\ lost' = lost /\ log' = log
  BY DEF TakeFrame, InflightBelowLimit, TaskInv, wsVars, metricVars, history
<1>2. channel \in Seq(Frames) /\ IsInjective(channel)
  BY DEF TypeOK, FramesInv, PlacesInv
<1>3. InChannel = Range(channel) /\ InChannel' = Range(channel')
  BY DEF InChannel, Range
<1>4. /\ InChannel = InChannel' \union {taken'} /\ taken' \notin InChannel'
      /\ Len(channel') = Len(channel) - 1 /\ IsInjective(channel')
  BY <1>1, <1>2, <1>3, TailFacts
<1>5. taken' # 0
  BY <1>4, FramesInChannel DEF Frames
<1>6. Logged' = Logged
  BY <1>1 DEF Logged
<1>7. InMemory' = InMemory
  BY <1>1, <1>4, <1>5 DEF InMemory
<1>8. PlacesInv'
  <2>1. \A f : f \in InChannel <=> f \in InChannel' \/ f = taken'
    BY <1>4
  <2>2. QED
    BY <1>1, <1>4, <1>5, <1>6, <1>7, <2>1 DEF FramesInv, PlacesInv
<1>9. BoundsInv'
  <2>1. Len(channel) \in Nat /\ Cardinality(inflight) \in Nat
    BY <1>2, LenProperties, FS_CardinalityType, FramesAreFinite DEF FramesInv
  <2>2. Len(channel') <= ChannelCapacity
    BY <1>4, <2>1, ExtractorAssumption DEF FramesInv, BoundsInv
  <2>3. Cardinality(inflight') + 1 <= MaxInflight
    BY <1>1, <2>1, ExtractorAssumption
  <2>4. QED
    BY <1>1, <1>5, <1>6, <1>7, <2>2, <2>3 DEF FramesInv, BoundsInv
<1>10. Conservation'
  BY <1>1, <1>7 DEF FramesInv, Conservation
<1>11. QED
  BY <1>7, <1>8, <1>9, <1>10 DEF FramesInv

\* A frame that leaves memory is one less, whatever becomes of it.
LEMMA OneFrameLess ==
  ASSUME TypeOK, FramesInv, NEW f \in InMemory, InMemory' = InMemory \ {f}, Logged' = Logged
  PROVE  /\ Cardinality(InMemory) \in Nat /\ Cardinality(InMemory') = Cardinality(InMemory) - 1
         /\ Cardinality(Logged \ InMemory) \in Nat /\ Cardinality(Logged' \ InMemory') \in Nat
         /\ Cardinality(Logged' \ InMemory') >= Cardinality(Logged \ InMemory)
         /\ Cardinality(Logged' \ InMemory') =
              IF f \in Logged THEN Cardinality(Logged \ InMemory) + 1
                              ELSE Cardinality(Logged \ InMemory)
<1>1. IsFiniteSet(InMemory) /\ IsFiniteSet(Logged \ InMemory)
  BY FramesAreFinite DEF FramesInv
<1>2. Cardinality(InMemory) \in Nat /\ Cardinality(Logged \ InMemory) \in Nat
  BY <1>1, FS_CardinalityType
<1>3. Cardinality(InMemory') = Cardinality(InMemory) - 1
  BY <1>1, FS_RemoveElement
<1>4. CASE f \in Logged
  <2>1. Logged' \ InMemory' = (Logged \ InMemory) \union {f} /\ f \notin Logged \ InMemory
    BY <1>4
  <2>2. Cardinality(Logged' \ InMemory') = Cardinality(Logged \ InMemory) + 1
    BY <1>1, <2>1, FS_AddElement
  <2>3. Cardinality(Logged' \ InMemory') \in Nat
        /\ Cardinality(Logged' \ InMemory') >= Cardinality(Logged \ InMemory)
    BY <1>2, <2>2
  <2>4. QED
    BY <1>2, <1>3, <1>4, <2>2, <2>3
<1>5. CASE f \notin Logged
  <2>1. Logged' \ InMemory' = Logged \ InMemory
    BY <1>5
  <2>2. Cardinality(Logged' \ InMemory') = Cardinality(Logged \ InMemory)
    BY <2>1
  <2>3. Cardinality(Logged' \ InMemory') >= Cardinality(Logged \ InMemory)
    BY <1>2, <2>2
  <2>4. QED
    BY <1>2, <1>3, <1>5, <2>2, <2>3
<1>6. QED
  BY <1>4, <1>5

\* The channel is closed, and the reader drops the frame it holds.
LEMMA FrameIsDropped ==
  ASSUME TypeOK, TaskInv, FramesInv, SendFails
  PROVE  FramesInv' /\ held \in InMemory /\ InMemory' = InMemory \ {held}
<1>1. /\ held # 0 /\ held' = 0 /\ lost' = lost \union {held}
      /\ taken' = taken /\ inflight' = inflight /\ channel' = channel
      /\ received' = received /\ sent' = sent /\ failures' = failures /\ log' = log
  BY DEF SendFails, TaskInv, producerVars, metricVars
<1>2. held # taken /\ held \notin InChannel \union inflight \union lost
  BY <1>1 DEF FramesInv, PlacesInv
<1>3. InChannel' = InChannel /\ Logged' = Logged
  BY <1>1 DEF InChannel, Logged
<1>4. held \in InMemory /\ InMemory' = InMemory \ {held}
  BY <1>1, <1>2, <1>3 DEF InMemory
<1>5. /\ Cardinality(InMemory) \in Nat /\ Cardinality(InMemory') = Cardinality(InMemory) - 1
      /\ Cardinality(Logged \ InMemory) \in Nat /\ Cardinality(Logged' \ InMemory') \in Nat
      /\ Cardinality(Logged' \ InMemory') >= Cardinality(Logged \ InMemory)
  BY <1>3, <1>4, OneFrameLess
<1>6. PlacesInv'
  <2>1. InMemory' \union lost' \union Logged' \subseteq 1 .. received'
    BY <1>1, <1>3, <1>4 DEF FramesInv, PlacesInv
  <2>2. QED
    BY <1>1, <1>2, <1>3, <2>1 DEF FramesInv, PlacesInv
<1>7. BoundsInv'
  <2>1. sent <= Cardinality(Logged' \ InMemory')
    BY <1>5, TypesOf DEF FramesInv, BoundsInv
  <2>2. QED
    BY <1>1, <2>1 DEF FramesInv, BoundsInv
<1>8. Conservation'
  <2>1. Cardinality(lost') = Cardinality(lost) + 1 /\ Cardinality(lost) \in Nat
    BY <1>1, <1>2, FS_AddElement, FS_CardinalityType, FramesAreFinite DEF FramesInv
  <2>2. QED
    BY <1>1, <1>5, <2>1, TypesOf DEF FramesInv, Conservation
<1>9. QED
  BY <1>4, <1>6, <1>7, <1>8 DEF FramesInv

\* The frame is given to librdkafka.
LEMMA FrameIsEnqueued ==
  ASSUME TypeOK, TaskInv, FramesInv, EnqueueFrame
  PROVE  FramesInv' /\ InMemory' = InMemory
<1>1. /\ taken # 0 /\ taken' = 0 /\ inflight' = inflight \union {taken}
      /\ held' = held /\ channel' = channel /\ received' = received /\ sent' = sent
      /\ failures' = failures /\ lost' = lost /\ log' = log
  BY DEF EnqueueFrame, TaskInv, wsVars, metricVars, history
<1>2. taken \notin InChannel \union inflight \union lost /\ (held # 0 => held # taken)
  BY <1>1 DEF FramesInv, PlacesInv
<1>3. InChannel' = InChannel /\ Logged' = Logged
  BY <1>1 DEF InChannel, Logged
<1>4. InMemory' = InMemory
  BY <1>1, <1>3 DEF InMemory
<1>5. PlacesInv'
  BY <1>1, <1>2, <1>3, <1>4 DEF FramesInv, PlacesInv
<1>6. BoundsInv'
  <2>1. Cardinality(inflight') = Cardinality(inflight) + 1 /\ Cardinality(inflight) \in Nat
    BY <1>1, <1>2, FS_AddElement, FS_CardinalityType, FramesAreFinite DEF FramesInv
  <2>2. Cardinality(inflight') + 0 <= MaxInflight
    BY <1>1, <2>1 DEF FramesInv, BoundsInv
  <2>3. QED
    BY <1>1, <1>3, <1>4, <2>2 DEF FramesInv, BoundsInv
<1>7. Conservation'
  BY <1>1, <1>4 DEF FramesInv, Conservation
<1>8. QED
  BY <1>4, <1>5, <1>6, <1>7 DEF FramesInv

\* librdkafka refuses the frame.
LEMMA FrameIsRefused ==
  ASSUME TypeOK, TaskInv, FramesInv, RefuseFrame
  PROVE  FramesInv' /\ taken \in InMemory /\ InMemory' = InMemory \ {taken}
<1>1. /\ taken # 0 /\ taken' = 0 /\ failures' = failures + 1
      /\ held' = held /\ inflight' = inflight /\ channel' = channel
      /\ received' = received /\ sent' = sent /\ lost' = lost /\ log' = log
  BY DEF RefuseFrame, TaskInv, wsVars, history
<1>2. taken \notin InChannel \union inflight \union lost /\ (held # 0 => held # taken)
  BY <1>1 DEF FramesInv, PlacesInv
<1>3. InChannel' = InChannel /\ Logged' = Logged
  BY <1>1 DEF InChannel, Logged
<1>4. taken \in InMemory /\ InMemory' = InMemory \ {taken}
  BY <1>1, <1>2, <1>3 DEF InMemory
<1>5. /\ Cardinality(InMemory) \in Nat /\ Cardinality(InMemory') = Cardinality(InMemory) - 1
      /\ Cardinality(Logged \ InMemory) \in Nat /\ Cardinality(Logged' \ InMemory') \in Nat
      /\ Cardinality(Logged' \ InMemory') >= Cardinality(Logged \ InMemory)
  BY <1>3, <1>4, OneFrameLess
<1>6. PlacesInv'
  <2>1. InMemory' \union lost' \union Logged' \subseteq 1 .. received'
    BY <1>1, <1>3, <1>4 DEF FramesInv, PlacesInv
  <2>2. QED
    BY <1>1, <1>2, <1>3, <2>1 DEF FramesInv, PlacesInv
<1>7. BoundsInv'
  <2>1. sent <= Cardinality(Logged' \ InMemory')
    BY <1>5, TypesOf DEF FramesInv, BoundsInv
  <2>2. Cardinality(inflight) \in Nat
    BY FS_CardinalityType, FramesAreFinite DEF FramesInv
  <2>3. Cardinality(inflight) + 0 <= MaxInflight
    BY <1>1, <2>2, ExtractorAssumption DEF FramesInv, BoundsInv
  <2>4. QED
    BY <1>1, <2>1, <2>3 DEF FramesInv, BoundsInv
<1>8. Conservation'
  <2>1. Cardinality(lost) \in Nat
    BY FS_CardinalityType, FramesAreFinite DEF FramesInv
  <2>2. QED
    BY <1>1, <1>5, <2>1, TypesOf DEF FramesInv, Conservation
<1>9. QED
  BY <1>4, <1>6, <1>7, <1>8 DEF FramesInv

\* A delivery is acknowledged: the record is in the topic, and is counted.
LEMMA FrameIsSent ==
  ASSUME TypeOK, TaskInv, FramesInv, NEW f \in Frames, DeliverySucceeds(f)
  PROVE  FramesInv' /\ f \in InMemory /\ InMemory' = InMemory \ {f}
<1>1. /\ f \in inflight /\ inflight' = inflight \ {f} /\ sent' = sent + 1
      /\ \E i \in DOMAIN log : log[i] = f
      /\ held' = held /\ taken' = taken /\ channel' = channel
      /\ received' = received /\ failures' = failures /\ lost' = lost /\ log' = log
  BY DEF DeliverySucceeds, wsVars, history
<1>2. f # 0 /\ f # held /\ f # taken /\ f \notin InChannel \union lost
  BY <1>1 DEF FramesInv, PlacesInv, Frames
<1>3. InChannel' = InChannel /\ Logged' = Logged /\ f \in Logged
  BY <1>1 DEF InChannel, Logged, Range
<1>4. f \in InMemory /\ InMemory' = InMemory \ {f}
  BY <1>1, <1>2, <1>3 DEF InMemory
<1>5. /\ Cardinality(InMemory) \in Nat /\ Cardinality(InMemory') = Cardinality(InMemory) - 1
      /\ Cardinality(Logged \ InMemory) \in Nat
      /\ Cardinality(Logged' \ InMemory') = Cardinality(Logged \ InMemory) + 1
  BY <1>3, <1>4, OneFrameLess
<1>6. PlacesInv'
  <2>1. InMemory' \union lost' \union Logged' \subseteq 1 .. received'
    BY <1>1, <1>3, <1>4 DEF FramesInv, PlacesInv
  <2>2. QED
    BY <1>1, <1>2, <1>3, <2>1 DEF FramesInv, PlacesInv
<1>7. BoundsInv'
  <2>1. sent' <= Cardinality(Logged' \ InMemory')
    BY <1>1, <1>5, TypesOf DEF FramesInv, BoundsInv
  <2>2. Cardinality(inflight') = Cardinality(inflight) - 1 /\ Cardinality(inflight) \in Nat
    BY <1>1, FS_RemoveElement, FS_CardinalityType, FramesAreFinite DEF FramesInv
  <2>3. Cardinality(inflight') + (IF taken # 0 THEN 1 ELSE 0) <= MaxInflight
    BY <2>2, ExtractorAssumption DEF FramesInv, BoundsInv
  <2>4. QED
    BY <1>1, <2>1, <2>3 DEF FramesInv, BoundsInv
<1>8. Conservation'
  <2>1. Cardinality(lost) \in Nat
    BY FS_CardinalityType, FramesAreFinite DEF FramesInv
  <2>2. QED
    BY <1>1, <1>5, <2>1, TypesOf DEF FramesInv, Conservation
<1>9. QED
  BY <1>4, <1>6, <1>7, <1>8 DEF FramesInv

\* A delivery fails, whether the record is in the topic or not.
LEMMA FrameFails ==
  ASSUME TypeOK, TaskInv, FramesInv, NEW f \in Frames, DeliveryFails(f)
  PROVE  FramesInv' /\ f \in InMemory /\ InMemory' = InMemory \ {f}
<1>1. /\ f \in inflight /\ inflight' = inflight \ {f} /\ failures' = failures + 1
      /\ held' = held /\ taken' = taken /\ channel' = channel
      /\ received' = received /\ sent' = sent /\ lost' = lost /\ log' = log
  BY DEF DeliveryFails, wsVars, history
<1>2. f # 0 /\ f # held /\ f # taken /\ f \notin InChannel \union lost
  BY <1>1 DEF FramesInv, PlacesInv, Frames
<1>3. InChannel' = InChannel /\ Logged' = Logged
  BY <1>1 DEF InChannel, Logged
<1>4. f \in InMemory /\ InMemory' = InMemory \ {f}
  BY <1>1, <1>2, <1>3 DEF InMemory
<1>5. /\ Cardinality(InMemory) \in Nat /\ Cardinality(InMemory') = Cardinality(InMemory) - 1
      /\ Cardinality(Logged \ InMemory) \in Nat /\ Cardinality(Logged' \ InMemory') \in Nat
      /\ Cardinality(Logged' \ InMemory') >= Cardinality(Logged \ InMemory)
  BY <1>3, <1>4, OneFrameLess
<1>6. PlacesInv'
  <2>1. InMemory' \union lost' \union Logged' \subseteq 1 .. received'
    BY <1>1, <1>3, <1>4 DEF FramesInv, PlacesInv
  <2>2. QED
    BY <1>1, <1>2, <1>3, <2>1 DEF FramesInv, PlacesInv
<1>7. BoundsInv'
  <2>1. sent <= Cardinality(Logged' \ InMemory')
    BY <1>5, TypesOf DEF FramesInv, BoundsInv
  <2>2. Cardinality(inflight') = Cardinality(inflight) - 1 /\ Cardinality(inflight) \in Nat
    BY <1>1, FS_RemoveElement, FS_CardinalityType, FramesAreFinite DEF FramesInv
  <2>3. Cardinality(inflight') + (IF taken # 0 THEN 1 ELSE 0) <= MaxInflight
    BY <2>2, ExtractorAssumption DEF FramesInv, BoundsInv
  <2>4. QED
    BY <1>1, <2>1, <2>3 DEF FramesInv, BoundsInv
<1>8. Conservation'
  <2>1. Cardinality(lost) \in Nat
    BY FS_CardinalityType, FramesAreFinite DEF FramesInv
  <2>2. QED
    BY <1>1, <1>5, <2>1, TypesOf DEF FramesInv, Conservation
<1>9. QED
  BY <1>4, <1>6, <1>7, <1>8 DEF FramesInv

\* The producer task ends, and the frames in the channel are dropped.
LEMMA ChannelIsDropped ==
  ASSUME TypeOK, TaskInv, FramesInv, ProducerExits
  PROVE  FramesInv' /\ InMemory' \subseteq InMemory /\ InChannel = InMemory \ InMemory'
<1>1. /\ taken = 0 /\ inflight = {} /\ channel' = <<>> /\ lost' = lost \union InChannel
      /\ held' = held /\ taken' = taken /\ inflight' = inflight
      /\ received' = received /\ sent' = sent /\ failures' = failures /\ log' = log
  BY DEF ProducerExits, NothingInflight, TaskInv, wsVars, metricVars
<1>2. /\ InChannel \intersect lost = {} /\ (held # 0 => held \notin InChannel \union lost)
      /\ InMemory \union lost \union Logged \subseteq 1 .. received
  BY DEF FramesInv, PlacesInv
<1>3. InChannel' = {} /\ Logged' = Logged
  BY <1>1 DEF InChannel, Logged
<1>4. InMemory = InMemory' \union InChannel /\ InMemory' \intersect InChannel = {}
  BY <1>1, <1>2, <1>3 DEF InMemory
<1>5. /\ IsFiniteSet(InMemory) /\ IsFiniteSet(InMemory') /\ IsFiniteSet(InChannel)
      /\ IsFiniteSet(lost) /\ IsFiniteSet(Logged \ InMemory) /\ IsFiniteSet(Logged' \ InMemory')
  <2>1. IsFiniteSet(InMemory) /\ IsFiniteSet(InChannel) /\ IsFiniteSet(lost)
        /\ IsFiniteSet(Logged) /\ IsFiniteSet(Logged \ InMemory)
    BY FramesAreFinite DEF FramesInv
  <2>2. InMemory' \subseteq InMemory /\ Logged' \ InMemory' \subseteq Logged
    BY <1>3, <1>4
  <2>3. QED
    BY <2>1, <2>2, FS_Subset
<1>6. PlacesInv'
  <2>1. InMemory' \union lost' \union Logged' \subseteq 1 .. received'
    BY <1>1, <1>2, <1>3, <1>4
  <2>2. IsInjective(channel')
    BY <1>1 DEF IsInjective
  <2>3. QED
    BY <1>1, <1>2, <1>3, <2>1, <2>2 DEF FramesInv, PlacesInv
<1>7. BoundsInv'
  <2>1. Len(channel') = 0
    BY <1>1
  <2>2. Logged \ InMemory \subseteq Logged' \ InMemory'
    BY <1>3, <1>4
  <2>3. Cardinality(Logged \ InMemory) <= Cardinality(Logged' \ InMemory')
    BY <1>5, <2>2, FS_Subset
  <2>4. /\ Cardinality(Logged \ InMemory) \in Nat
        /\ Cardinality(Logged' \ InMemory') \in Nat
    BY <1>5, FS_CardinalityType
  <2>5. sent <= Cardinality(Logged' \ InMemory')
    BY <2>3, <2>4, TypesOf DEF FramesInv, BoundsInv
  <2>6. QED
    BY <1>1, <2>1, <2>5, ExtractorAssumption DEF FramesInv, BoundsInv
<1>8. Conservation'
  <2>1. Cardinality(InMemory' \intersect InChannel) = 0
        /\ Cardinality(lost \intersect InChannel) = 0
    <3>1. lost \intersect InChannel = {}
      BY <1>2
    <3>2. QED
      BY <1>4, <3>1, FS_EmptySet
  <2>2. /\ Cardinality(InMemory) = Cardinality(InMemory') + Cardinality(InChannel) - 0
        /\ Cardinality(lost') = Cardinality(lost) + Cardinality(InChannel) - 0
    BY <1>1, <1>4, <1>5, <2>1, FS_Union
  <2>3. /\ Cardinality(InMemory') \in Nat /\ Cardinality(InChannel) \in Nat
        /\ Cardinality(lost) \in Nat
    BY <1>5, FS_CardinalityType
  <2>4. Cardinality(InMemory) + Cardinality(lost) = Cardinality(InMemory') + Cardinality(lost')
    BY <2>2, <2>3
  <2>5. /\ Cardinality(InMemory) \in Nat /\ Cardinality(lost') \in Nat
    BY <2>2, <2>3
  <2>6. received' = received /\ sent' = sent /\ failures' = failures
    BY <1>1
  <2>7. received = sent + failures + Cardinality(InMemory) + Cardinality(lost)
    BY DEF FramesInv, Conservation
  <2>8. received = sent + failures + Cardinality(InMemory') + Cardinality(lost')
    BY <2>3, <2>4, <2>5, <2>7, TypesOf
  <2>9. QED
    BY <2>6, <2>8 DEF Conservation
<1>9. QED
  BY <1>4, <1>6, <1>7, <1>8 DEF FramesInv

\* The broker appends a record, for the first time or once more.
LEMMA FrameIsLogged ==
  ASSUME TypeOK, TaskInv, FramesInv, NEW f \in Frames, BrokerAppends(f)
  PROVE  FramesInv' /\ f \in InMemory /\ InMemory' = InMemory
<1>1. /\ f \in inflight /\ log' = Append(log, f)
      /\ held' = held /\ taken' = taken /\ inflight' = inflight /\ channel' = channel
      /\ received' = received /\ sent' = sent /\ failures' = failures /\ lost' = lost
  BY DEF BrokerAppends, wsVars, producerVars, metricVars, history
<1>2. Logged' = Logged \union {f}
  BY <1>1, AppendFacts DEF TypeOK, Logged
<1>3. InChannel' = InChannel
  BY <1>1 DEF InChannel
<1>4. f \in InMemory /\ InMemory' = InMemory
  BY <1>1, <1>3 DEF InMemory
<1>5. Logged' \ InMemory' = Logged \ InMemory
  BY <1>2, <1>4
<1>6. PlacesInv'
  <2>1. InMemory' \union lost' \union Logged' \subseteq 1 .. received'
    BY <1>1, <1>2, <1>4 DEF FramesInv, PlacesInv
  <2>2. QED
    BY <1>1, <1>3, <2>1 DEF FramesInv, PlacesInv
<1>7. BoundsInv' /\ Conservation'
  BY <1>1, <1>4, <1>5 DEF FramesInv, BoundsInv, Conservation
<1>8. QED
  BY <1>4, <1>6, <1>7 DEF FramesInv


\* Every step keeps the places of the frames apart, bounded and counted.
LEMMA FramesStep ==
  ASSUME ControlInv, FramesInv, [Next]_vars
  PROVE  FramesInv'
<1> USE DEF ControlInv
<1>1. CASE ReceiveFrame
  BY <1>1, FrameArrives
<1>2. CASE SendFrame
  BY <1>2, FrameIsQueued
<1>3. CASE SendFails
  BY <1>3, FrameIsDropped
<1>4. CASE TakeFrame
  BY <1>4, FrameIsTaken
<1>5. CASE EnqueueFrame
  BY <1>5, FrameIsEnqueued
<1>6. CASE RefuseFrame
  BY <1>6, FrameIsRefused
<1>7. CASE ProducerExits
  BY <1>7, ChannelIsDropped
<1>8. ASSUME NEW f \in Frames, Settle(f) PROVE FramesInv'
  BY <1>8, FrameIsSent, FrameFails DEF Settle
<1>9. ASSUME NEW f \in Frames, BrokerAppends(f) PROVE FramesInv'
  BY <1>9, FrameIsLogged
<1>10. CASE UNCHANGED frameVars
  BY <1>10, NoFrameMoves
<1>11. QED
  BY <1>1, <1>2, <1>3, <1>4, <1>5, <1>6, <1>7, <1>8, <1>9, <1>10
     DEF Next, WsStep, ProducerStep, Surroundings, Watchdog, Signal, vars, frameVars,
         wsVars, producerVars, metricVars, history, Startup, Connects, SetupSucceeds, SetupRefused,
         SetupFails, StreamFails, TransientError, BackoffEnds, BackoffInterrupted,
         StreamSeesShutdown, Exit, ProducerSeesShutdown, FallQuiet, RequestStop
-----------------------------------------------------------------------------
(* The theorems.                                                           *)

\* No frame, no error, no task.
LEMMA InvariantHoldsInitially ==
  ASSUME Init
  PROVE  IInv
<1>1. ControlInv
  <2>1. TypeOK
    <3>1. attempt \in 0 .. Larger(MaxRetries, 1) /\ backoff \in 0 .. Larger(BackoffMax, 1)
      BY ExtractorAssumption DEF Init, Larger
    <3>2. held \in 0 .. MaxFrames /\ taken \in 0 .. MaxFrames
      BY ExtractorAssumption DEF Init
    <3>3. channel \in Seq(Frames) /\ log \in Seq(Frames)
      BY EmptySeq DEF Init
    <3>4. watchdog \in BOOLEAN
      BY ExtractorAssumption DEF Init
    <3>5. {received, sent, failures, errors, failed} \subseteq Nat
      BY DEF Init
    <3>6. inflight \subseteq Frames /\ lost \subseteq Frames
      BY DEF Init
    <3>7. ws \in WsStates /\ producer \in ProducerStates /\ outcome \in Outcomes
      BY DEF Init, WsStates, ProducerStates, Outcomes
    <3>8. /\ connected \in BOOLEAN /\ draining \in BOOLEAN /\ shutdown \in BOOLEAN
          /\ quiet \in BOOLEAN /\ stopped \in BOOLEAN /\ dropped \in BOOLEAN
      BY DEF Init
    <3>9. QED
      BY <3>1, <3>2, <3>3, <3>4, <3>5, <3>6, <3>7, <3>8 DEF TypeOK
  <2>2. LoopInv /\ TaskInv
    BY DEF Init, LoopInv, TaskInv, ErrorsInARow
  <2>3. QED
    BY <2>1, <2>2 DEF ControlInv
<1>2. BackoffInv
  BY DEF Init, BackoffInv
<1>3. InChannel = {} /\ Logged = {} /\ InMemory = {}
  BY DEF Init, InChannel, Logged, Range, InMemory
<1>4. Cardinality({}) = 0
  BY FS_EmptySet
<1>5. PlacesInv
  BY <1>3, ExtractorAssumption DEF Init, PlacesInv, IsInjective
<1>6. BoundsInv
  <2>1. Logged \ InMemory = {}
    BY <1>3
  <2>2. Len(channel) = 0 /\ Cardinality(inflight) = 0 /\ taken = 0 /\ sent = 0
    BY <1>4 DEF Init
  <2>3. Cardinality(Logged \ InMemory) = 0
    BY <1>4, <2>1
  <2>4. QED
    BY <2>2, <2>3, ExtractorAssumption DEF BoundsInv
<1>7. Conservation
  BY <1>3, <1>4 DEF Init, Conservation
<1>8. QED
  BY <1>1, <1>2, <1>5, <1>6, <1>7 DEF IInv

\* The invariant is one: it holds in every state of every behaviour.
THEOREM InductiveInvariant == Spec => []IInv
<1>1. Init => IInv
  BY InvariantHoldsInitially
<1>2. IInv /\ [Next]_vars => IInv'
  BY TypeStep, LoopStep, TaskStep, BackoffStep, FramesStep
     DEF IInv, ControlInv, FramesInv
<1>3. QED
  BY <1>1, <1>2, PTL DEF Spec

\* Every variable keeps its type: attempts never exceed MAX_RETRIES, and a
\* backoff never exceeds BACKOFF_MAX.
THEOREM TypeCorrectness == Spec => []TypeOK
<1>1. IInv => TypeOK
  BY DEF IInv, ControlInv
<1>2. QED
  BY <1>1, InductiveInvariant, PTL

\* Every received frame is sent, counted as a failure, in memory, or dropped
\* by a shutdown, and is so once.
THEOREM EveryFrameIsAccountedFor == Spec => []Conservation
<1>1. IInv => Conservation
  BY DEF IInv
<1>2. QED
  BY <1>1, InductiveInvariant, PTL

\* What is counted as sent is in the topic, each frame once.
THEOREM SentFramesAreInTheTopic == Spec => []SentIsInTopic
<1>1. IInv => SentIsInTopic
  <2> SUFFICES ASSUME IInv PROVE SentIsInTopic
    OBVIOUS
  <2>1. IsFiniteSet(Logged) /\ IsFiniteSet(Logged \ InMemory)
    BY FramesAreFinite DEF IInv, ControlInv
  <2>2. Cardinality(Logged \ InMemory) <= Cardinality(Logged)
    <3>1. Logged \ InMemory \subseteq Logged
      OBVIOUS
    <3>2. QED
      BY <2>1, <3>1, FS_Subset
  <2>3. Cardinality(Logged) \in Nat /\ Cardinality(Logged \ InMemory) \in Nat
    BY <2>1, FS_CardinalityType
  <2>4. sent <= Cardinality(Logged)
    BY <2>2, <2>3, TypesOf DEF IInv, ControlInv, BoundsInv
  <2>5. Logged = {log[i] : i \in DOMAIN log}
    BY DEF Logged, Range
  <2>6. QED
    BY <2>4, <2>5 DEF SentIsInTopic
<1>2. QED
  BY <1>1, InductiveInvariant, PTL

\* The frames in memory are as many as the two limits allow, and one.
THEOREM MemoryStaysBounded == Spec => []MemoryIsBounded
<1>1. IInv => MemoryIsBounded
  <2> SUFFICES ASSUME IInv PROVE MemoryIsBounded
    OBVIOUS
  <2> DEFINE InHands == {held, taken} \ {0}
  <2>1. TypeOK /\ PlacesInv
    BY DEF IInv, ControlInv
  <2>2. /\ IsFiniteSet(InChannel) /\ IsFiniteSet(inflight)
        /\ Cardinality(InChannel) \in Nat /\ Cardinality(inflight) \in Nat
    BY <2>1, FramesAreFinite, FS_CardinalityType
  <2>3. Cardinality(InChannel) <= Len(channel)
    <3>1. Len(channel) \in Nat /\ channel \in [1 .. Len(channel) -> Frames]
          /\ DOMAIN channel = 1 .. Len(channel)
      BY <2>1, LenProperties DEF TypeOK
    <3>2. channel \in Surjection(1 .. Len(channel), Range(channel))
      BY <3>1, Fun_RangeProperties
    <3>3. InChannel = Range(channel)
      BY DEF InChannel, Range
    <3>4. QED
      BY <3>1, <3>2, <3>3, FS_SurjCardinalityBound, Fun_ExistsSurj
  <2>4. /\ IsFiniteSet(InHands) /\ Cardinality(InHands) \in Nat
        /\ Cardinality(InHands) <= 1 + (IF taken # 0 THEN 1 ELSE 0)
    <3>1. IsFiniteSet({}) /\ Cardinality({}) = 0
      BY FS_EmptySet
    <3>2. IsFiniteSet({held}) /\ Cardinality({held}) = 1
      BY FS_Singleton
    <3>3. CASE taken = 0
      <4>1. InHands \subseteq {held}
        BY <3>3
      <4>2. IsFiniteSet(InHands) /\ Cardinality(InHands) <= 1
        BY <3>2, <4>1, FS_Subset
      <4>3. QED
        BY <3>3, <4>2, FS_CardinalityType
    <3>4. CASE taken # 0
      <4>1. IsFiniteSet({held} \union {taken}) /\ Cardinality({held} \union {taken}) <= 2
        BY <3>2, FS_AddElement
      <4>2. InHands \subseteq {held} \union {taken}
        OBVIOUS
      <4>3. IsFiniteSet(InHands) /\ Cardinality(InHands) <= Cardinality({held} \union {taken})
        BY <4>1, <4>2, FS_Subset
      <4>4. Cardinality(InHands) \in Nat /\ Cardinality({held} \union {taken}) \in Nat
        BY <4>1, <4>3, FS_CardinalityType
      <4>5. QED
        BY <3>4, <4>1, <4>3, <4>4
    <3>5. QED
      BY <3>3, <3>4
  <2> HIDE DEF InHands
  <2>5. /\ IsFiniteSet(InHands \union InChannel)
        /\ Cardinality(InHands \union InChannel) <= Cardinality(InHands) + Cardinality(InChannel)
        /\ Cardinality(InHands \union InChannel) \in Nat
    BY <2>2, <2>4, UnionIsBounded
  <2>6. /\ IsFiniteSet((InHands \union InChannel) \union inflight)
        /\ Cardinality((InHands \union InChannel) \union inflight)
             <= Cardinality(InHands \union InChannel) + Cardinality(inflight)
        /\ Cardinality((InHands \union InChannel) \union inflight) \in Nat
    BY <2>2, <2>5, UnionIsBounded
  <2>7. InMemory = (InHands \union InChannel) \union inflight
    BY DEF InMemory, InHands
  <2>8. /\ Len(channel) <= ChannelCapacity /\ Len(channel) \in Nat
        /\ Cardinality(inflight) + (IF taken # 0 THEN 1 ELSE 0) <= MaxInflight
    BY <2>1, LenProperties DEF IInv, BoundsInv, TypeOK
  <2>9. QED
    BY <2>2, <2>3, <2>4, <2>5, <2>6, <2>7, <2>8, ExtractorAssumption DEF MemoryIsBounded
<1>2. QED
  BY <1>1, InductiveInvariant, PTL

\* As long as the token is not cancelled, no frame is dropped.
THEOREM OnlyShutdownDrops == Spec => []NothingLostBeforeShutdown
<1>1. IInv => NothingLostBeforeShutdown
  BY DEF IInv, ControlInv, TaskInv, NothingLostBeforeShutdown
<1>2. QED
  BY <1>1, InductiveInvariant, PTL

\* When the process exits nothing is left in memory, and the counters of the
\* last snapshot add up.
THEOREM LastSnapshotAddsUp == Spec => []FinalSnapshotAddsUp
<1>1. IInv => FinalSnapshotAddsUp
  <2> SUFFICES ASSUME IInv, ws = "exited"
               PROVE  InMemory = {} /\ received = sent + failures + Cardinality(lost)
    BY DEF FinalSnapshotAddsUp
  <2>1. held = 0 /\ taken = 0 /\ channel = <<>> /\ inflight = {}
    BY DEF IInv, ControlInv, TaskInv
  <2>2. InMemory = {}
    BY <2>1 DEF InMemory, InChannel
  <2>3. Cardinality(InMemory) = 0
    BY <2>2, FS_EmptySet
  <2>4. QED
    BY <2>2, <2>3, TypesOf DEF IInv, ControlInv, Conservation
<1>2. QED
  BY <1>1, InductiveInvariant, PTL

\* Whatever the settings, 0 included: the loop gives up at the error that makes
\* it MAX_RETRIES failed attempts in a row (at any error, with 0) and not
\* before, and the backoffs of a row of errors are 1, 2, 4, ... seconds, capped
\* at BACKOFF_MAX from the second on.
THEOREM RetriesFollowThePolicy == Spec => []RetryPolicy
<1>1. IInv => RetryPolicy
  <2> SUFFICES ASSUME IInv PROVE RetryPolicy
    OBVIOUS
  <2>1. GivesUpOnTime
    BY TypesOf, ExtractorAssumption 
       DEF IInv, ControlInv, LoopInv, TypeOK, WsStates, GivesUpOnTime, ErrorsInARow, Larger
  <2>2. BackoffSchedule
    BY DEF IInv, BackoffInv, BackoffSchedule
  <2>3. QED
    BY <2>1, <2>2 DEF RetryPolicy
<1>2. QED
  BY <1>1, InductiveInvariant, PTL
-----------------------------------------------------------------------------
(* The promise.                                                            *)

\* A step that moves a frame does one thing of the abstract module.
LEMMA MovesArePromised ==
  ASSUME IInv,
         \/ ReceiveFrame \/ SendFrame \/ SendFails \/ TakeFrame \/ EnqueueFrame \/ RefuseFrame
         \/ ProducerExits
         \/ \E f \in Frames : Settle(f) \/ BrokerAppends(f)
  PROVE  Handover!Next \/ UNCHANGED Handover!vars
<1> USE DEF IInv, ControlInv
<1>0. TypeOK /\ TaskInv /\ FramesInv
  BY DEF FramesInv
<1> HIDE DEF IInv, ControlInv
<1> USE DEF Handover!vars
<1>1. CASE ReceiveFrame
  <2>1. InMemory' = InMemory \union {received + 1}
    BY <1>0, <1>1, FrameArrives
  <2>2. Handover!Accept
    BY <1>1, <2>1 DEF Handover!Accept, ReceiveFrame, history
  <2>3. QED
    BY <2>2 DEF Handover!Next
<1>2. CASE SendFrame
  BY <1>0, <1>2, FrameIsQueued DEF SendFrame, metricVars, history
<1>3. CASE TakeFrame
  BY <1>0, <1>3, FrameIsTaken DEF TakeFrame, metricVars, history
<1>4. CASE EnqueueFrame
  BY <1>0, <1>4, FrameIsEnqueued DEF EnqueueFrame, metricVars, history
<1>5. CASE SendFails
  <2>1. held \in InMemory /\ InMemory' = InMemory \ {held}
    BY <1>0, <1>5, FrameIsDropped
  <2>2. shutdown = TRUE /\ shutdown' = TRUE
    BY <1>0, <1>5 DEF SendFails, Return, TaskInv, TypeOK
  <2>3. lost' = lost \union (InMemory \ InMemory')
    BY <1>5, <2>1 DEF SendFails
  <2>4. Handover!Drop
    BY <1>5, <2>1, <2>2, <2>3 DEF Handover!Drop, SendFails, metricVars
  <2>5. QED
    BY <2>4 DEF Handover!Next
<1>6. CASE RefuseFrame
  <2>1. taken \in InMemory /\ InMemory' = InMemory \ {taken}
    BY <1>0, <1>6, FrameIsRefused
  <2>2. Handover!GiveUp(taken)
    BY <1>6, <2>1 DEF Handover!GiveUp, RefuseFrame, history
  <2>3. QED
    BY <2>1, <2>2 DEF Handover!Next
<1>7. CASE ProducerExits
  <2>1. InMemory' \subseteq InMemory /\ InChannel = InMemory \ InMemory'
    BY <1>0, <1>7, ChannelIsDropped
  <2>2. Handover!Drop
    BY <1>0, <1>7, <2>1 DEF Handover!Drop, ProducerExits, metricVars, TaskInv
  <2>3. QED
    BY <2>2 DEF Handover!Next
<1>8. ASSUME NEW f \in Frames, DeliverySucceeds(f)
      PROVE  Handover!Next
  <2>1. f \in InMemory /\ InMemory' = InMemory \ {f}
    BY <1>0, <1>8, FrameIsSent
  <2>2. f \in Handover!InTopic
    BY <1>8 DEF DeliverySucceeds, Handover!InTopic
  <2>3. Handover!Confirm(f)
    BY <1>8, <2>1, <2>2 DEF Handover!Confirm, DeliverySucceeds, history
  <2>4. QED
    BY <2>1, <2>3 DEF Handover!Next
<1>9. ASSUME NEW f \in Frames, DeliveryFails(f)
      PROVE  Handover!Next
  <2>1. f \in InMemory /\ InMemory' = InMemory \ {f}
    BY <1>0, <1>9, FrameFails
  <2>2. Handover!GiveUp(f)
    BY <1>9, <2>1 DEF Handover!GiveUp, DeliveryFails, history
  <2>3. QED
    BY <2>1, <2>2 DEF Handover!Next
<1>10. ASSUME NEW f \in Frames, BrokerAppends(f)
       PROVE  Handover!Next
  <2>1. f \in InMemory /\ InMemory' = InMemory
    BY <1>0, <1>10, FrameIsLogged
  <2>2. Handover!Record(f)
    BY <1>10, <2>1 DEF Handover!Record, BrokerAppends, metricVars, history
  <2>3. QED
    BY <2>1, <2>2 DEF Handover!Next
<1>11. QED
  BY <1>1, <1>2, <1>3, <1>4, <1>5, <1>6, <1>7, <1>8, <1>9, <1>10 DEF Settle

\* The others leave all frames where they are; some of them cancel the token.
LEMMA OtherStepsArePromised ==
  ASSUME IInv, UNCHANGED frameVars, shutdown' = shutdown \/ shutdown' = TRUE
  PROVE  Handover!Next \/ UNCHANGED Handover!vars
<1>1. InMemory' = InMemory
  BY NoFrameMoves DEF IInv, FramesInv
<1>2. /\ received' = received /\ sent' = sent /\ failures' = failures /\ lost' = lost
      /\ log' = log
  BY DEF frameVars
<1>3. CASE shutdown' = shutdown
  BY <1>1, <1>2, <1>3 DEF Handover!vars
<1>4. CASE shutdown' = TRUE
  BY <1>1, <1>2, <1>4 DEF Handover!Next, Handover!Close
<1>5. QED
  BY <1>3, <1>4

\* The tasks of the extractor do together what FrameHandover promises, however
\* their steps interleave: a frame that was received is recorded only while somebody
\* has it, meets one end, and is dropped only after the token was cancelled.
THEOREM Implementation == Spec => HandoverSpec
<1>1. Init => Handover!Init
  <2>1. Init => InMemory = {}
    BY DEF Init, InMemory, InChannel
  <2>2. QED
    BY <2>1 DEF Init, Handover!Init
<1>2. IInv /\ [Next]_vars => [Handover!Next]_(Handover!vars)
  <2> SUFFICES ASSUME IInv, [Next]_vars
               PROVE  Handover!Next \/ UNCHANGED Handover!vars
    OBVIOUS
  <2> DEFINE Moves == \/ ReceiveFrame \/ SendFrame \/ SendFails \/ TakeFrame \/ EnqueueFrame
                      \/ RefuseFrame \/ ProducerExits
                      \/ \E f \in Frames : Settle(f) \/ BrokerAppends(f)
  <2>1. Moves \/ (UNCHANGED frameVars /\ (shutdown' = shutdown \/ shutdown' = TRUE))
    BY DEF Next, WsStep, ProducerStep, Surroundings, Watchdog, Signal, vars, frameVars,
           wsVars, producerVars, metricVars, history, Startup, Connects, SetupSucceeds, SetupRefused,
           SetupFails, StreamFails, TransientError, BackoffEnds, BackoffInterrupted,
           StreamSeesShutdown, Exit, ProducerSeesShutdown, FallQuiet, RequestStop, Return
  <2>2. QED
    BY <2>1, MovesArePromised, OtherStepsArePromised
<1>3. QED
  BY <1>1, <1>2, InductiveInvariant, PTL DEF Spec, HandoverSpec, Handover!Spec
=============================================================================
