-------------------------- MODULE DemoPrograms_proofs --------------------------
(***************************************************************************)
(* What is proved about the process controller and about the memory pool,  *)
(* carried over to the module that puts the demo programs side by side.    *)
(***************************************************************************)
EXTENDS DemoPrograms, SequencesExt, FiniteSetTheorems, SequenceTheorems, TLAPS

ControllerFacts == INSTANCE ProcessController_proofs WITH running <- fsmRunning
PoolFacts == INSTANCE MemoryPoolClients_proofs WITH Buffers <- ClientBuffers

-----------------------------------------------------------------------------
(* The module of the proofs has the definitions of the module it extends:  *)
(* ControllerFacts and Controller are the same instance.                   *)
LEMMA SameController ==
  /\ Controller!ControllerAssumption <=> ControllerFacts!ControllerAssumption
  /\ Controller!Init <=> ControllerFacts!Init
  /\ Controller!Next <=> ControllerFacts!Next
  /\ Controller!ImagesSharp <=> ControllerFacts!ImagesSharp
  /\ Controller!SegmentsInOrder <=> ControllerFacts!SegmentsInOrder
  BY Zenon DEF
     Controller!ControllerAssumption, ControllerFacts!ControllerAssumption,
     Controller!fsmVars, ControllerFacts!fsmVars, Controller!queueVars,
     ControllerFacts!queueVars, Controller!deviceVars,
     ControllerFacts!deviceVars, Controller!vars, ControllerFacts!vars,
     Controller!Workers, ControllerFacts!Workers, Controller!States,
     ControllerFacts!States, Controller!CommandTypes,
     ControllerFacts!CommandTypes, Controller!EventTypes,
     ControllerFacts!EventTypes, Controller!Command, ControllerFacts!Command,
     Controller!Event, ControllerFacts!Event, Controller!Nothing,
     ControllerFacts!Nothing, Controller!Init, ControllerFacts!Init,
     Controller!In, ControllerFacts!In, Controller!Send, ControllerFacts!Send,
     Controller!TaskLoaded, ControllerFacts!TaskLoaded,
     Controller!MoveToPoint, ControllerFacts!MoveToPoint, Controller!Await,
     ControllerFacts!Await, Controller!WaitPlatformArrived,
     ControllerFacts!WaitPlatformArrived, Controller!OpenShutterAndCapture,
     ControllerFacts!OpenShutterAndCapture, Controller!BothArrived,
     ControllerFacts!BothArrived, Controller!WaitCaptureDone,
     ControllerFacts!WaitCaptureDone, Controller!CloseShutter,
     ControllerFacts!CloseShutter, Controller!LastSegment,
     ControllerFacts!LastSegment, Controller!SegmentFinished,
     ControllerFacts!SegmentFinished, Controller!Timeout,
     ControllerFacts!Timeout, Controller!StopAllWorkers,
     ControllerFacts!StopAllWorkers, Controller!Fsm, ControllerFacts!Fsm,
     Controller!Take, ControllerFacts!Take, Controller!Done,
     ControllerFacts!Done, Controller!PlatformArrives,
     ControllerFacts!PlatformArrives, Controller!ShutterOpens,
     ControllerFacts!ShutterOpens, Controller!ShutterCloses,
     ControllerFacts!ShutterCloses, Controller!CameraCaptures,
     ControllerFacts!CameraCaptures, Controller!Platform,
     ControllerFacts!Platform, Controller!Shutter, ControllerFacts!Shutter,
     Controller!Camera, ControllerFacts!Camera, Controller!Ended,
     ControllerFacts!Ended, Controller!Join, ControllerFacts!Join,
     Controller!Next, ControllerFacts!Next, Controller!Spec,
     ControllerFacts!Spec, Controller!CommandRecords,
     ControllerFacts!CommandRecords, Controller!EventRecords,
     ControllerFacts!EventRecords, Controller!TypeOK, ControllerFacts!TypeOK,
     Controller!Outstanding, ControllerFacts!Outstanding,
     Controller!ExposureUndisturbed, ControllerFacts!ExposureUndisturbed,
     Controller!NoMotionWithOpenShutter,
     ControllerFacts!NoMotionWithOpenShutter, Controller!Expected,
     ControllerFacts!Expected, Controller!EventsMatchState,
     ControllerFacts!EventsMatchState, Controller!FinishedMeansCaptured,
     ControllerFacts!FinishedMeansCaptured, Controller!ImagesSharp,
     ControllerFacts!ImagesSharp, Controller!SegmentsInOrder,
     ControllerFacts!SegmentsInOrder

(* And so are PoolFacts and Clients.                                       *)
LEMMA SamePool ==
  /\ Clients!ClientAssumption <=> PoolFacts!ClientAssumption
  /\ Clients!Init <=> PoolFacts!Init
  /\ Clients!Next <=> PoolFacts!Next
  /\ Clients!PoolConsistent <=> PoolFacts!PoolConsistent
  /\ Clients!NoLostWakeup <=> PoolFacts!NoLostWakeup
  BY Zenon DEF
     Clients!IsFiniteSet, PoolFacts!IsFiniteSet, Clients!Cardinality,
     PoolFacts!Cardinality, Clients!IsInjective, PoolFacts!IsInjective,
     Clients!SetToSeq, PoolFacts!SetToSeq, Clients!ToSet, PoolFacts!ToSet,
     Clients!poolVars, PoolFacts!poolVars, Clients!PoolInit,
     PoolFacts!PoolInit, Clients!UpdateHighWaterMark,
     PoolFacts!UpdateHighWaterMark, Clients!HandOut, PoolFacts!HandOut,
     Clients!Acquire, PoolFacts!Acquire, Clients!AcquireSleeps,
     PoolFacts!AcquireSleeps, Clients!AcquireReturnsNull,
     PoolFacts!AcquireReturnsNull, Clients!TryAcquire, PoolFacts!TryAcquire,
     Clients!TryAcquireFails, PoolFacts!TryAcquireFails, Clients!NotifyOne,
     PoolFacts!NotifyOne, Clients!CountDown, PoolFacts!CountDown,
     Clients!Release, PoolFacts!Release, Clients!StoreStop,
     PoolFacts!StoreStop, Clients!NotifyAll, PoolFacts!NotifyAll,
     Clients!ClientAssumption, PoolFacts!ClientAssumption, Clients!vars,
     PoolFacts!vars, Clients!ClientInit, PoolFacts!ClientInit, Clients!Init,
     PoolFacts!Init, Clients!Goes, PoolFacts!Goes, Clients!Keeps,
     PoolFacts!Keeps, Clients!CallAcquire, PoolFacts!CallAcquire,
     Clients!AcquireSucceeds, PoolFacts!AcquireSucceeds, Clients!AcquireWaits,
     PoolFacts!AcquireWaits, Clients!AcquireGivesUp, PoolFacts!AcquireGivesUp,
     Clients!CallTryAcquire, PoolFacts!CallTryAcquire, Clients!DropHandle,
     PoolFacts!DropHandle, Clients!CallShutdown, PoolFacts!CallShutdown,
     Clients!ShutdownNotifies, PoolFacts!ShutdownNotifies, Clients!Continue,
     PoolFacts!Continue, Clients!Next, PoolFacts!Next, Clients!TypeOK,
     PoolFacts!TypeOK, Clients!OneOwnerPerBuffer, PoolFacts!OneOwnerPerBuffer,
     Clients!NoLostWakeup, PoolFacts!NoLostWakeup, Clients!StatisticsAgree,
     PoolFacts!StatisticsAgree, Clients!PoolConsistent,
     PoolFacts!PoolConsistent

-----------------------------------------------------------------------------
(* The controller runs as ProcessController says, or not at all.           *)
LEMMA ControllerRuns == Spec => ControllerFacts!Spec
<1>1. Init => ControllerFacts!Init
  BY SameController DEF Init
<1>2. [Next]_vars => [ControllerFacts!Next]_(ControllerFacts!vars)
  <2>1. CASE Controls /\ Controller!Next
    BY <2>1, SameController
  <2>2. CASE UNCHANGED controllerVars
    BY <2>2 DEF controllerVars, ControllerFacts!vars, ControllerFacts!fsmVars,
       ControllerFacts!queueVars, ControllerFacts!deviceVars
  <2> QED
    BY <2>1, <2>2 DEF Next, vars, Uses, Demos
<1> QED
  BY <1>1, <1>2, PTL DEF Spec, ControllerFacts!Spec

(* The clients use the pool as MemoryPoolClients says, while it is theirs. *)
ClientsInv == program = "clients" => PoolFacts!PoolInv

LEMMA ClientsInvHolds == Spec => []ClientsInv
<1>1. PoolFacts!ClientAssumption
  BY DemoConstants, SamePool
<1>2. Init => ClientsInv
  BY <1>1, SamePool, PoolFacts!InitPoolInv DEF Init, ClientsInv
<1>3. ClientsInv /\ [Next]_vars => ClientsInv'
  <2> SUFFICES ASSUME ClientsInv, [Next]_vars, program' = "clients"
               PROVE  PoolFacts!PoolInv'
    BY DEF ClientsInv
  <2>1. program = "clients"
    BY DEF Next, Controls, Uses, Demos, vars
  <2>2. [PoolFacts!Next]_(PoolFacts!vars)
    <3>1. CASE Uses /\ Clients!Next
      BY <3>1, SamePool
    <3>2. CASE UNCHANGED vars
      BY <3>2 DEF vars, poolVars, clientVars, PoolFacts!vars, PoolFacts!poolVars
    <3> QED
      BY <2>1, <3>1, <3>2 DEF Next, Controls, Demos
  <2> QED
    BY <1>1, <2>1, <2>2, PoolFacts!NextPoolInv DEF ClientsInv
<1> QED
  BY <1>2, <1>3, PTL DEF Spec

-----------------------------------------------------------------------------
(* For any number of segments, with a timeout at any wait and devices as   *)
(* slow as they like, no image is spoilt: the platform stands at its       *)
(* segment while the camera captures, nothing closes the shutter before,   *)
(* and the platform moves only with the shutter closed                     *)
(* (fsm_demo.cpp:353-426).                                                 *)
THEOREM ImagesStaySharp == Spec => []ImagesSharp
<1>1. ControllerFacts!ControllerAssumption
  BY DemoConstants, SameController
<1>2. Spec => []ControllerFacts!ImagesSharp
  BY <1>1, ControllerRuns, ControllerFacts!NoImageSpoilt, PTL
<1>3. ControllerFacts!ImagesSharp <=> ImagesSharp
  BY SameController DEF ImagesSharp
<1> QED
  BY <1>2, <1>3, PTL

(* For any number of segments each state gets only the events it waits     *)
(* for, and a task that is finished has captured every segment, once and   *)
(* in order (fsm_demo.cpp:339, 391, 436, 449).                             *)
THEOREM SegmentsStayInOrder == Spec => []SegmentsInOrder
<1>1. ControllerFacts!ControllerAssumption
  BY DemoConstants, SameController
<1>2. Spec => []ControllerFacts!SegmentsInOrder
  BY <1>1, ControllerRuns, ControllerFacts!SegmentsOneByOne, PTL
<1>3. ControllerFacts!SegmentsInOrder <=> SegmentsInOrder
  BY SameController DEF SegmentsInOrder
<1> QED
  BY <1>2, <1>3, PTL

(* For any number of threads and buffers, and any order of calls: no       *)
(* buffer has two owners or none, and the statistics count what is handed  *)
(* out (mem_pool_demo.cpp:52-132).                                         *)
THEOREM PoolStaysConsistent == Spec => []PoolConsistent
<1>1. ClientsInv => PoolConsistent
  BY SamePool, PoolFacts!PoolInvSuffices DEF ClientsInv, PoolConsistent
<1> QED
  BY <1>1, ClientsInvHolds, PTL

(* And no thread sleeps while a buffer is free that no woken thread comes  *)
(* for, or after a shutdown that has woken everybody: one notify_one() for *)
(* each buffer is enough (mem_pool_demo.cpp:54, 101, 123).                 *)
THEOREM NoWakeupIsLost == Spec => []NoLostWakeup
<1>1. ClientsInv => NoLostWakeup
  BY SamePool, PoolFacts!PoolInvSuffices DEF ClientsInv, NoLostWakeup
<1> QED
  BY <1>1, ClientsInvHolds, PTL
-----------------------------------------------------------------------------
(* The demo.  Free list and queue are sequences without repetition; the    *)
(* instances have the operators on them in common.                         *)
LEMMA SameSequences ==
  /\ \A s : PoolFacts!ToSet(s) = ToSet(s) /\ Demo!ToSet(s) = ToSet(s)
  /\ \A s : PoolFacts!IsInjective(s) <=> IsInjective(s)
  /\ \A S : PoolFacts!SetToSeq(S) = Demo!SetToSeq(S)
  /\ \A S : /\ Demo!Cardinality(S) = Cardinality(S)
            /\ PoolFacts!Cardinality(S) = Cardinality(S)
            /\ Demo!IsFiniteSet(S) <=> IsFiniteSet(S)
            /\ PoolFacts!IsFiniteSet(S) <=> IsFiniteSet(S)
  BY Zenon DEF PoolFacts!ToSet, Demo!ToSet, ToSet, PoolFacts!IsInjective,
     IsInjective, Demo!IsInjective, PoolFacts!SetToSeq, Demo!SetToSeq,
     Demo!Cardinality, Cardinality, PoolFacts!Cardinality, Demo!IsFiniteSet,
     IsFiniteSet, PoolFacts!IsFiniteSet

LEMMA TakeFirst ==
  ASSUME NEW S, NEW s \in Seq(S), s # <<>>, IsInjective(s)
  PROVE  /\ Head(s) \in S /\ Tail(s) \in Seq(S) /\ IsInjective(Tail(s))
         /\ Len(s) \in Nat /\ Len(s) > 0 /\ Len(Tail(s)) = Len(s) - 1
         /\ Head(s) \in ToSet(s) /\ ToSet(Tail(s)) = ToSet(s) \ {Head(s)}
  BY PoolFacts!TakeHead, SameSequences

LEMMA AddLast ==
  ASSUME NEW S, NEW s \in Seq(S), IsInjective(s), NEW b \in S, b \notin ToSet(s)
  PROVE  /\ Append(s, b) \in Seq(S) /\ IsInjective(Append(s, b))
         /\ Len(s) \in Nat /\ Len(Append(s, b)) = Len(s) + 1
         /\ ToSet(Append(s, b)) = ToSet(s) \cup {b}
  BY PoolFacts!PutBack, SameSequences

(* A sequence that has each element of a set once is as long as the set.   *)
LEMMA OnceEach ==
  ASSUME NEW S, IsFiniteSet(S), NEW s \in Seq(S), IsInjective(s), ToSet(s) = S
  PROVE  Len(s) = Cardinality(S)
<1>1. s \in [1 .. Len(s) -> S] /\ Len(s) \in Nat
  OBVIOUS
<1>2. DOMAIN s = 1 .. Len(s)
  BY <1>1
<1>3. s \in Injection(1 .. Len(s), S)
  BY <1>1, <1>2 DEF Injection, IsInjective
<1>4. s \in Surjection(1 .. Len(s), S)
  BY <1>1, <1>2 DEF Surjection, ToSet
<1>5. \A n \in Nat : Cardinality(1 .. n) = n
  BY FS_Interval
<1>6. Cardinality(1 .. Len(s)) = Cardinality(S)
  BY <1>3, <1>4, FS_Injection
<1> QED
  BY <1>1, <1>5, <1>6

-----------------------------------------------------------------------------
(* A buffer is free, queued, or with one of the two threads.               *)
Size == Cardinality(DemoBuffers)

BuffersOwned ==
    /\ freeList \in Seq(DemoBuffers) /\ IsInjective(freeList)
    /\ frameQueue \in Seq(DemoBuffers) /\ IsInjective(frameQueue)
    /\ {producerBuf, consumerBuf} \subseteq DemoBuffers \cup {NoBuffer}
    /\ ToSet(freeList) \cap ToSet(frameQueue) = {}
    /\ producerBuf \notin ToSet(freeList) \cup ToSet(frameQueue)
    /\ consumerBuf \notin ToSet(freeList) \cup ToSet(frameQueue)
    /\ producerBuf = consumerBuf => producerBuf = NoBuffer
    /\ DemoBuffers \subseteq ToSet(freeList) \cup ToSet(frameQueue)
                             \cup {producerBuf, consumerBuf}

(* What a thread is doing with its buffer.                                 *)
HandlesHeld ==
    /\ producerBuf # NoBuffer <=> producerPc \in {"fill", "push"}
    /\ consumerPc = "send" => consumerBuf # NoBuffer
    /\ consumerPc = "done" => consumerBuf = NoBuffer

(* The statistics count the buffers that are not in the free list.         *)
StatisticsCount ==
    /\ inUse \in Nat /\ highWater \in Nat /\ Len(freeList) \in Nat
    /\ inUse + Len(freeList) = Size /\ highWater <= Size
    /\ acquireFails = 0

(* The frames that were sent, the one that is being sent, those in the     *)
(* queue and the one that is being pushed are numbered in this order.      *)
Taken == IF consumerPc = "send" THEN Len(sent) + 1 ELSE Len(sent)

FramesNumbered ==
    /\ content \in [DemoBuffers -> 0 .. MaxFrames]
    /\ sent \in Seq(1 .. MaxFrames)
    /\ frameNo \in 0 .. MaxFrames
    /\ \A i \in 1 .. Len(sent) : sent[i] = i
    /\ consumerPc = "send" => content[consumerBuf] = Taken
    /\ \A i \in 1 .. Len(frameQueue) : content[frameQueue[i]] = Taken + i
    /\ producerPc = "push" => content[producerBuf] = frameNo
    /\ frameNo = Taken + Len(frameQueue) + (IF producerPc = "push" THEN 1 ELSE 0)
    /\ producerPc \in {"acquire", "fill"} => frameNo < MaxFrames

(* Who sleeps, and how far main() is with ending the two.                  *)
Ending ==
    /\ stop \in BOOLEAN /\ asleep \subseteq {Producer} /\ woken \subseteq {Producer}
    /\ {queueStop, consumerAsleep, running} \subseteq BOOLEAN
    /\ producerPc \in {"loop", "acquire", "fill", "push", "notify", "done"}
    /\ consumerPc \in {"pop", "send", "done"}
    /\ mainPc \in {"sleep", "joinProducer", "storeStop", "notify",
                   "joinConsumer", "poolStop", "poolNotify", "report"}
    /\ mainPc \notin {"sleep", "joinProducer"} => producerPc = "done"
    /\ queueStop => mainPc \notin {"sleep", "joinProducer", "storeStop"}
    /\ mainPc \in {"poolStop", "poolNotify", "report"} => consumerPc = "done"
    /\ consumerPc = "done" => queueStop /\ frameQueue = <<>>

DemoInv == BuffersOwned /\ HandlesHeld /\ StatisticsCount /\ FramesNumbered /\ Ending

LEMMA DemoConstantsHold ==
  /\ IsFiniteSet(DemoBuffers) /\ Size \in Nat /\ NoBuffer \notin DemoBuffers
  /\ MaxFrames \in Nat
  BY DemoConstants, SameSequences, FS_CardinalityType
  DEF Demo!DemoAssumption, Size

LEMMA InitDemoInv == Demo!Init => DemoInv
<1> SUFFICES ASSUME Demo!Init PROVE DemoInv
  OBVIOUS
<1> USE DEF Demo!Init, Demo!DemoInit, Demo!PoolInit
<1>1. /\ freeList \in Seq(DemoBuffers) /\ Len(freeList) = Size
      /\ IsInjective(freeList) /\ ToSet(freeList) = DemoBuffers
  BY PoolFacts!AllBuffersOnce, SameSequences, DemoConstantsHold DEF Size
<1>2. frameQueue = <<>> /\ ToSet(frameQueue) = {} /\ IsInjective(frameQueue)
  BY DEF ToSet, IsInjective
<1>3. BuffersOwned
  BY <1>1, <1>2, DemoConstantsHold DEF BuffersOwned
<1>4. HandlesHeld /\ StatisticsCount
  BY <1>1, DemoConstantsHold DEF HandlesHeld, StatisticsCount
<1>5. FramesNumbered
  <2>1. sent = <<>> /\ frameQueue = <<>> /\ Len(<<>>) = 0 /\ Taken = 0
    BY DEF Taken
  <2> QED
    BY <2>1, DemoConstantsHold DEF FramesNumbered
<1>6. Ending
  BY DEF Ending
<1> QED
  BY <1>3, <1>4, <1>5, <1>6 DEF DemoInv

(* The two steps of the pool.                                              *)
LEMMA BufferTaken ==
  ASSUME DemoInv, Demo!ProducerAcquires
  PROVE  BuffersOwned' /\ HandlesHeld' /\ StatisticsCount'
<1> DEFINE b == Head(freeList)
<1>1. /\ freeList # <<>> /\ freeList' = Tail(freeList) /\ producerBuf' = b
      /\ producerPc = "acquire" /\ producerPc' = "fill"
      /\ inUse' = inUse + 1
      /\ highWater' = IF inUse + 1 > highWater THEN inUse + 1 ELSE highWater
      /\ UNCHANGED <<frameQueue, consumerBuf, consumerPc, acquireFails>>
  BY DEF Demo!ProducerAcquires, Demo!Acquire, Demo!HandOut,
     Demo!UpdateHighWaterMark, Demo!queueVars, Demo!consumerVars
<1>2. /\ b \in DemoBuffers /\ freeList' \in Seq(DemoBuffers)
      /\ IsInjective(freeList') /\ b \in ToSet(freeList)
      /\ ToSet(freeList') = ToSet(freeList) \ {b}
      /\ Len(freeList) \in Nat /\ Len(freeList) > 0
      /\ Len(freeList') = Len(freeList) - 1
  BY <1>1, TakeFirst DEF DemoInv, BuffersOwned
<1> HIDE DEF b
<1>3. BuffersOwned'
  BY <1>1, <1>2, DemoConstantsHold DEF DemoInv, BuffersOwned, HandlesHeld
<1>4. HandlesHeld'
  BY <1>1, <1>2, DemoConstantsHold DEF DemoInv, HandlesHeld
<1>5. StatisticsCount'
  BY <1>1, <1>2, DemoConstantsHold DEF DemoInv, StatisticsCount
<1> QED
  BY <1>3, <1>4, <1>5

LEMMA BufferReturned ==
  ASSUME DemoInv, Demo!Release(consumerBuf), consumerBuf # NoBuffer
  PROVE  /\ freeList' \in Seq(DemoBuffers) /\ IsInjective(freeList')
         /\ ToSet(freeList') = ToSet(freeList) \cup {consumerBuf}
         /\ StatisticsCount'
<1> DEFINE b == consumerBuf
<1>1. /\ freeList' = Append(freeList, b)
      /\ inUse' = IF inUse > 0 THEN inUse - 1 ELSE 0
      /\ UNCHANGED <<highWater, acquireFails>>
  BY DEF Demo!Release, Demo!CountDown
<1>2. b \in DemoBuffers /\ b \notin ToSet(freeList)
  BY DEF DemoInv, BuffersOwned
<1>3. /\ freeList' \in Seq(DemoBuffers) /\ IsInjective(freeList')
      /\ ToSet(freeList') = ToSet(freeList) \cup {b}
      /\ Len(freeList) \in Nat /\ Len(freeList') = Len(freeList) + 1
  BY <1>1, <1>2, AddLast DEF DemoInv, BuffersOwned
<1>4. Len(freeList) < Size
  BY <1>2, PoolFacts!RoomForTheRest, SameSequences, DemoConstantsHold
  DEF DemoInv, BuffersOwned, Size
<1>5. StatisticsCount'
  BY <1>1, <1>3, <1>4, DemoConstantsHold DEF DemoInv, StatisticsCount
<1> QED
  BY <1>3, <1>5

(* pop() drops the consumer's buffer, if it has one.                       *)
LEMMA BufferDropped ==
  ASSUME DemoInv, Demo!DropConsumerBuf
  PROVE  /\ freeList' \in Seq(DemoBuffers) /\ IsInjective(freeList')
         /\ ToSet(freeList') = ToSet(freeList) \cup ({consumerBuf} \ {NoBuffer})
         /\ StatisticsCount'
         /\ stop' = stop /\ asleep' \subseteq {Producer} /\ woken' \subseteq {Producer}
<1>1. CASE consumerBuf = NoBuffer
  BY <1>1 DEF Demo!DropConsumerBuf, Demo!poolVars, DemoInv, BuffersOwned,
     StatisticsCount, Ending
<1>2. CASE consumerBuf # NoBuffer
  <2>1. Demo!Release(consumerBuf)
    BY <1>2 DEF Demo!DropConsumerBuf
  <2>2. stop' = stop /\ asleep' \subseteq {Producer} /\ woken' \subseteq {Producer}
    BY <2>1 DEF Demo!Release, Demo!NotifyOne, DemoInv, Ending
  <2> QED
    BY <1>2, <2>1, <2>2, BufferReturned
<1> QED
  BY <1>1, <1>2

-----------------------------------------------------------------------------
(* A step that touches no buffer, no frame and no statistics.              *)
LEMMA NothingMoved ==
  ASSUME DemoInv,
         UNCHANGED <<freeList, frameQueue, inUse, highWater, acquireFails,
                     content, producerBuf, consumerBuf, consumerPc, sent, frameNo>>,
         \/ producerPc' = producerPc
         \/ {producerPc, producerPc'} \subseteq {"loop", "notify", "done"}
         \/ /\ producerPc = "loop" /\ producerPc' = "acquire"
            /\ frameNo < MaxFrames
  PROVE  BuffersOwned' /\ HandlesHeld' /\ StatisticsCount' /\ FramesNumbered'
<1>1. BuffersOwned'
  BY DEF DemoInv, BuffersOwned
<1>2. HandlesHeld' /\ StatisticsCount'
  BY DEF DemoInv, HandlesHeld, StatisticsCount
<1>3. Taken' = Taken
  BY DEF Taken
<1>4. FramesNumbered'
  BY <1>3 DEF DemoInv, FramesNumbered
<1> QED
  BY <1>1, <1>2, <1>4

(* NoBuffer is not one of the buffers in a list.                           *)
LEMMA NoBufferNowhere ==
  ASSUME DemoInv
  PROVE  NoBuffer \notin ToSet(freeList) \cup ToSet(frameQueue)
<1>1. /\ ToSet(freeList) \subseteq DemoBuffers
      /\ ToSet(frameQueue) \subseteq DemoBuffers
  BY DEF ToSet, DemoInv, BuffersOwned
<1> QED
  BY <1>1, DemoConstantsHold

(* producer() from getting a buffer to pushing the frame.                  *)
LEMMA ProducerGetsBuffer ==
  ASSUME DemoInv, Demo!ProducerAcquires
  PROVE  DemoInv'
<1>1. /\ producerPc = "acquire" /\ producerPc' = "fill"
      /\ UNCHANGED <<frameQueue, queueStop, consumerAsleep, frameNo, content,
                     consumerPc, consumerBuf, sent, running, mainPc>>
      /\ UNCHANGED <<stop, asleep>> /\ woken' = woken \ {Producer}
  BY DEF Demo!ProducerAcquires, Demo!Acquire, Demo!queueVars,
     Demo!consumerVars, Demo!mainVars
<1>2. FramesNumbered'
  BY <1>1 DEF DemoInv, FramesNumbered, Taken
<1>3. Ending'
  BY <1>1 DEF DemoInv, Ending
<1> QED
  BY <1>2, <1>3, BufferTaken DEF DemoInv

LEMMA ProducerFillsBuffer ==
  ASSUME DemoInv, Demo!ProducerFills
  PROVE  DemoInv'
<1>1. /\ producerPc = "fill" /\ producerPc' = "push"
      /\ frameNo' = frameNo + 1
      /\ content' = [content EXCEPT ![producerBuf] = frameNo + 1]
      /\ UNCHANGED <<freeList, stop, asleep, woken, inUse, highWater,
                     acquireFails, frameQueue, queueStop, consumerAsleep,
                     producerBuf, consumerPc, consumerBuf, sent, running, mainPc>>
  BY DEF Demo!ProducerFills, Demo!poolVars, Demo!queueVars,
     Demo!consumerVars, Demo!mainVars
<1>2. BuffersOwned' /\ HandlesHeld' /\ StatisticsCount'
  BY <1>1 DEF DemoInv, BuffersOwned, HandlesHeld, StatisticsCount
<1>3. Ending'
  BY <1>1 DEF DemoInv, Ending
<1>4. /\ producerBuf \in DemoBuffers /\ producerBuf \notin ToSet(frameQueue)
      /\ consumerPc = "send" => consumerBuf # producerBuf
  BY <1>1 DEF DemoInv, BuffersOwned, HandlesHeld
<1>5. \A i \in 1 .. Len(frameQueue) : frameQueue[i] # producerBuf
                                   /\ frameQueue[i] \in DemoBuffers
  BY <1>4 DEF ToSet, DemoInv, BuffersOwned
<1>6. /\ content' \in [DemoBuffers -> 0 .. MaxFrames] /\ frameNo' \in 0 .. MaxFrames
      /\ content'[producerBuf] = frameNo'
      /\ \A b \in DemoBuffers \ {producerBuf} : content'[b] = content[b]
  BY <1>1, <1>4, DemoConstantsHold DEF DemoInv, FramesNumbered
<1>7. Taken' = Taken
  BY <1>1 DEF Taken
<1>8. consumerPc' = "send" => content'[consumerBuf'] = Taken'
  BY <1>1, <1>4, <1>6, <1>7
  DEF DemoInv, BuffersOwned, HandlesHeld, FramesNumbered
<1>9. \A i \in 1 .. Len(frameQueue') : content'[frameQueue'[i]] = Taken' + i
  BY <1>1, <1>5, <1>6, <1>7 DEF DemoInv, FramesNumbered
<1>10. /\ frameNo' = Taken' + Len(frameQueue') + 1
       /\ \A i \in 1 .. Len(sent') : sent'[i] = i
       /\ sent' \in Seq(1 .. MaxFrames)
  <2>1. Len(frameQueue) \in Nat /\ Taken \in Nat
    BY DEF DemoInv, BuffersOwned, FramesNumbered, Taken
  <2> QED
    BY <1>1, <1>7, <2>1, DemoConstantsHold DEF DemoInv, FramesNumbered
<1>11. FramesNumbered'
  BY <1>1, <1>6, <1>8, <1>9, <1>10 DEF FramesNumbered
<1> QED
  BY <1>2, <1>3, <1>11 DEF DemoInv

LEMMA ProducerPushesBuffer ==
  ASSUME DemoInv, Demo!ProducerPushes
  PROVE  DemoInv'
<1>1. /\ producerPc = "push" /\ producerPc' = "notify"
      /\ frameQueue' = Append(frameQueue, producerBuf)
      /\ producerBuf' = NoBuffer
      /\ UNCHANGED <<freeList, stop, asleep, woken, inUse, highWater,
                     acquireFails, queueStop, consumerAsleep, frameNo, content,
                     consumerPc, consumerBuf, sent, running, mainPc>>
  BY DEF Demo!ProducerPushes, Demo!poolVars, Demo!consumerVars, Demo!mainVars
<1>2. producerBuf \in DemoBuffers /\ producerBuf \notin ToSet(frameQueue)
  BY <1>1 DEF DemoInv, BuffersOwned, HandlesHeld
<1>3. /\ frameQueue' \in Seq(DemoBuffers) /\ IsInjective(frameQueue')
      /\ ToSet(frameQueue') = ToSet(frameQueue) \cup {producerBuf}
      /\ Len(frameQueue) \in Nat /\ Len(frameQueue') = Len(frameQueue) + 1
  BY <1>1, <1>2, AddLast DEF DemoInv, BuffersOwned
<1>4. BuffersOwned'
  BY <1>1, <1>2, <1>3, NoBufferNowhere, DemoConstantsHold
  DEF DemoInv, BuffersOwned
<1>5. HandlesHeld' /\ StatisticsCount'
  BY <1>1 DEF DemoInv, HandlesHeld, StatisticsCount
<1>6. Ending'
  BY <1>1 DEF DemoInv, Ending
<1>7. /\ frameQueue'[Len(frameQueue) + 1] = producerBuf
      /\ \A i \in 1 .. Len(frameQueue) : frameQueue'[i] = frameQueue[i]
  BY <1>1, <1>2, <1>3 DEF DemoInv, BuffersOwned
<1>8. Taken' = Taken /\ Taken \in Nat
  BY <1>1 DEF Taken, DemoInv, FramesNumbered
<1>9. content[producerBuf] = Taken + (Len(frameQueue) + 1)
  BY <1>1, <1>3, <1>8 DEF DemoInv, FramesNumbered
<1>10. \A i \in 1 .. Len(frameQueue') : content'[frameQueue'[i]] = Taken' + i
  <2> SUFFICES ASSUME NEW i \in 1 .. Len(frameQueue) + 1
               PROVE  content[frameQueue'[i]] = Taken + i
    BY <1>1, <1>3, <1>8
  <2>1. CASE i = Len(frameQueue) + 1
    BY <1>7, <1>9, <2>1
  <2>2. CASE i # Len(frameQueue) + 1
    <3>1. i \in 1 .. Len(frameQueue)
      BY <1>3, <2>2
    <3> QED
      BY <1>7, <3>1 DEF DemoInv, FramesNumbered
  <2> QED
    BY <2>1, <2>2
<1>11. frameNo' = Taken' + Len(frameQueue')
  BY <1>1, <1>3, <1>8 DEF DemoInv, FramesNumbered
<1>12. FramesNumbered'
  BY <1>1, <1>3, <1>8, <1>10, <1>11 DEF DemoInv, FramesNumbered
<1> QED
  BY <1>4, <1>5, <1>6, <1>12 DEF DemoInv

-----------------------------------------------------------------------------
(* consumer(): pop() with a frame, pop() at the end, and sending.          *)
LEMMA ConsumerGetsFrame ==
  ASSUME DemoInv, Demo!PopReturnsFrame
  PROVE  DemoInv'
<1>1. /\ consumerPc = "pop" /\ consumerPc' = "send"
      /\ frameQueue # <<>> /\ frameQueue' = Tail(frameQueue)
      /\ consumerBuf' = Head(frameQueue) /\ Demo!DropConsumerBuf
      /\ UNCHANGED <<queueStop, consumerAsleep, producerPc, producerBuf,
                     frameNo, content, sent, running, mainPc>>
  BY DEF Demo!PopReturnsFrame, Demo!producerVars, Demo!mainVars
<1>2. /\ freeList' \in Seq(DemoBuffers) /\ IsInjective(freeList')
      /\ ToSet(freeList') = ToSet(freeList) \cup ({consumerBuf} \ {NoBuffer})
      /\ StatisticsCount' /\ stop' = stop
      /\ asleep' \subseteq {Producer} /\ woken' \subseteq {Producer}
  BY <1>1, BufferDropped
<1>3. /\ consumerBuf' \in DemoBuffers /\ frameQueue' \in Seq(DemoBuffers)
      /\ IsInjective(frameQueue')
      /\ consumerBuf' \in ToSet(frameQueue)
      /\ ToSet(frameQueue') = ToSet(frameQueue) \ {consumerBuf'}
      /\ Len(frameQueue) \in Nat /\ Len(frameQueue) > 0
      /\ Len(frameQueue') = Len(frameQueue) - 1
  BY <1>1, TakeFirst DEF DemoInv, BuffersOwned
<1>4. BuffersOwned'
  BY <1>1, <1>2, <1>3, DemoConstantsHold DEF DemoInv, BuffersOwned
<1>5. HandlesHeld'
  BY <1>1, <1>3, DemoConstantsHold DEF DemoInv, HandlesHeld
<1>6. Ending'
  BY <1>1, <1>2 DEF DemoInv, Ending
<1>7. /\ Taken' = Taken + 1 /\ Taken \in Nat /\ Taken = Len(sent)
  BY <1>1 DEF Taken, DemoInv, FramesNumbered
<1>8. /\ consumerBuf' = frameQueue[1] /\ 1 \in 1 .. Len(frameQueue)
      /\ \A i \in 1 .. Len(frameQueue') :
            frameQueue'[i] = frameQueue[i + 1] /\ i + 1 \in 1 .. Len(frameQueue)
  BY <1>1, <1>3 DEF DemoInv, BuffersOwned
<1>9. content'[consumerBuf'] = Taken'
  BY <1>1, <1>7, <1>8 DEF DemoInv, FramesNumbered
<1>10. \A i \in 1 .. Len(frameQueue') : content'[frameQueue'[i]] = Taken' + i
  <2> SUFFICES ASSUME NEW i \in 1 .. Len(frameQueue')
               PROVE  content[frameQueue[i + 1]] = Taken + 1 + i
    BY <1>1, <1>7, <1>8
  <2>1. content[frameQueue[i + 1]] = Taken + (i + 1)
    BY <1>8 DEF DemoInv, FramesNumbered
  <2> QED
    BY <1>3, <1>7, <2>1
<1>11. frameNo' = Taken' + Len(frameQueue')
                    + (IF producerPc' = "push" THEN 1 ELSE 0)
  BY <1>1, <1>3, <1>7 DEF DemoInv, FramesNumbered
<1>12. FramesNumbered'
  BY <1>1, <1>7, <1>9, <1>10, <1>11 DEF DemoInv, FramesNumbered
<1> QED
  BY <1>2, <1>4, <1>5, <1>6, <1>12 DEF DemoInv

LEMMA ConsumerGetsNothing ==
  ASSUME DemoInv, Demo!PopReturnsFalse
  PROVE  DemoInv'
<1>1. /\ consumerPc = "pop" /\ consumerPc' = "done" /\ consumerBuf' = NoBuffer
      /\ frameQueue = <<>> /\ queueStop /\ Demo!DropConsumerBuf
      /\ UNCHANGED <<frameQueue, queueStop, consumerAsleep, producerPc,
                     producerBuf, frameNo, content, sent, running, mainPc>>
  BY DEF Demo!PopReturnsFalse, Demo!producerVars, Demo!mainVars, Demo!queueVars
<1>2. /\ freeList' \in Seq(DemoBuffers) /\ IsInjective(freeList')
      /\ ToSet(freeList') = ToSet(freeList) \cup ({consumerBuf} \ {NoBuffer})
      /\ StatisticsCount' /\ stop' = stop
      /\ asleep' \subseteq {Producer} /\ woken' \subseteq {Producer}
  BY <1>1, BufferDropped
<1>3. BuffersOwned'
  BY <1>1, <1>2, NoBufferNowhere, DemoConstantsHold DEF DemoInv, BuffersOwned
<1>4. HandlesHeld' /\ Ending'
  BY <1>1, <1>2 DEF DemoInv, HandlesHeld, Ending
<1>5. FramesNumbered'
  BY <1>1 DEF DemoInv, FramesNumbered, Taken
<1> QED
  BY <1>2, <1>3, <1>4, <1>5 DEF DemoInv

LEMMA ConsumerSendsFrame ==
  ASSUME DemoInv, Demo!ConsumerSends
  PROVE  DemoInv'
<1> DEFINE n == content[consumerBuf]
<1>1. /\ consumerPc = "send" /\ consumerPc' = "pop" /\ sent' = Append(sent, n)
      /\ UNCHANGED <<freeList, stop, asleep, woken, inUse, highWater,
                     acquireFails, frameQueue, queueStop, consumerAsleep,
                     producerPc, producerBuf, frameNo, content, consumerBuf,
                     running, mainPc>>
  BY DEF Demo!ConsumerSends, Demo!poolVars, Demo!queueVars,
     Demo!producerVars, Demo!mainVars
<1>2. BuffersOwned' /\ HandlesHeld' /\ StatisticsCount' /\ Ending'
  BY <1>1
  DEF DemoInv, BuffersOwned, HandlesHeld, StatisticsCount, Ending
<1>3. /\ Taken = Len(sent) + 1 /\ n = Len(sent) + 1 /\ Len(sent) \in Nat
      /\ Len(frameQueue) \in Nat
  BY <1>1 DEF DemoInv, FramesNumbered, BuffersOwned, Taken
<1>4. n \in 1 .. MaxFrames
  BY <1>3, DemoConstantsHold DEF DemoInv, FramesNumbered
<1>5. /\ sent' \in Seq(1 .. MaxFrames) /\ Len(sent') = Len(sent) + 1
      /\ sent'[Len(sent) + 1] = n
      /\ \A i \in 1 .. Len(sent) : sent'[i] = sent[i]
  BY <1>1, <1>4 DEF DemoInv, FramesNumbered
<1>6. Taken' = Taken
  BY <1>1, <1>3, <1>5 DEF Taken
<1>7. \A i \in 1 .. Len(sent') : sent'[i] = i
  BY <1>3, <1>5 DEF DemoInv, FramesNumbered
<1>8. FramesNumbered'
  BY <1>1, <1>5, <1>6, <1>7 DEF DemoInv, FramesNumbered
<1> QED
  BY <1>2, <1>8 DEF DemoInv

-----------------------------------------------------------------------------
(* The steps that only move a thread, and those of main().                 *)
LEMMA ThreadMoves ==
  ASSUME DemoInv,
         \/ Demo!ProducerLoops \/ Demo!ProducerSleeps \/ Demo!ProducerNotifies
         \/ Demo!PopSleeps
  PROVE  DemoInv'
<1> USE DEF Demo!poolVars, Demo!queueVars, Demo!producerVars,
            Demo!consumerVars, Demo!mainVars
<1>1. CASE Demo!ProducerLoops
  BY <1>1, NothingMoved DEF Demo!ProducerLoops, DemoInv, Ending
<1>2. CASE Demo!ProducerSleeps
  BY <1>2, NothingMoved DEF Demo!ProducerSleeps, Demo!AcquireSleeps, DemoInv,
     Ending
<1>3. CASE Demo!ProducerNotifies
  BY <1>3, NothingMoved DEF Demo!ProducerNotifies, DemoInv, Ending
<1>4. CASE Demo!PopSleeps
  BY <1>4, NothingMoved DEF Demo!PopSleeps, DemoInv, Ending
<1> QED
  BY <1>1, <1>2, <1>3, <1>4

LEMMA MainMoves ==
  ASSUME DemoInv, Demo!MainSteps
  PROVE  DemoInv'
<1> USE DEF Demo!MainGoes, Demo!poolVars, Demo!queueVars, Demo!producerVars,
            Demo!consumerVars
<1>1. CASE Demo!StopRunning \/ Demo!JoinProducer
  <2>1. BuffersOwned' /\ HandlesHeld' /\ StatisticsCount' /\ FramesNumbered'
    BY <1>1, NothingMoved DEF Demo!StopRunning, Demo!JoinProducer
  <2>2. CASE Demo!StopRunning
    BY <2>1, <2>2 DEF Demo!StopRunning, DemoInv, Ending
  <2>3. CASE Demo!JoinProducer
    BY <2>1, <2>3 DEF Demo!JoinProducer, DemoInv, Ending
  <2> QED
    BY <1>1, <2>2, <2>3
<1>2. CASE Demo!StoreQueueStop \/ Demo!NotifyConsumer
  <2>1. BuffersOwned' /\ HandlesHeld' /\ StatisticsCount' /\ FramesNumbered'
    BY <1>2, NothingMoved DEF Demo!StoreQueueStop, Demo!NotifyConsumer
  <2>2. Ending'
    BY <1>2 DEF Demo!StoreQueueStop, Demo!NotifyConsumer, DemoInv, Ending
  <2> QED
    BY <2>1, <2>2 DEF DemoInv
<1>3. CASE Demo!JoinConsumer
  BY <1>3, NothingMoved DEF Demo!JoinConsumer, DemoInv, Ending
<1>4. CASE Demo!StopPool
  BY <1>4, NothingMoved DEF Demo!StopPool, Demo!StoreStop, DemoInv, Ending
<1>5. CASE Demo!NotifyPool
  <2>1. BuffersOwned' /\ HandlesHeld' /\ StatisticsCount' /\ FramesNumbered'
    BY <1>5, NothingMoved DEF Demo!NotifyPool, Demo!NotifyAll
  <2>2. Ending'
    BY <1>5 DEF Demo!NotifyPool, Demo!NotifyAll, DemoInv, Ending
  <2> QED
    BY <2>1, <2>2 DEF DemoInv
<1> QED
  BY <1>1, <1>2, <1>3, <1>4, <1>5 DEF Demo!MainSteps

LEMMA NextDemoInv == DemoInv /\ [Demo!Next]_(Demo!vars) => DemoInv'
<1> SUFFICES ASSUME DemoInv, [Demo!Next]_(Demo!vars) PROVE DemoInv'
  OBVIOUS
<1>1. CASE Demo!ProducerSteps
  BY <1>1, ThreadMoves, ProducerGetsBuffer, ProducerFillsBuffer,
     ProducerPushesBuffer DEF Demo!ProducerSteps
<1>2. CASE Demo!ConsumerSteps
  BY <1>2, ThreadMoves, ConsumerGetsFrame, ConsumerGetsNothing,
     ConsumerSendsFrame DEF Demo!ConsumerSteps
<1>3. CASE Demo!MainSteps
  BY <1>3, MainMoves
<1>4. CASE UNCHANGED Demo!vars
  <2> USE DEF Demo!vars, Demo!poolVars, Demo!queueVars, Demo!producerVars,
              Demo!consumerVars, Demo!mainVars
  <2>1. Ending'
    BY <1>4 DEF DemoInv, Ending
  <2> QED
    BY <1>4, <2>1, NothingMoved DEF DemoInv
<1> QED
  BY <1>1, <1>2, <1>3, <1>4 DEF Demo!Next

(* At the report neither thread has a buffer and the queue is empty, so    *)
(* that every buffer is in the free list, once.                            *)
LEMMA DemoInvSuffices == DemoInv => Demo!DemoDelivers
<1> SUFFICES ASSUME DemoInv PROVE Demo!DemoDelivers
  OBVIOUS
<1>1. Demo!TypeOK
  <2>1. {inUse, highWater} \subseteq 0 .. Size
    BY DemoConstantsHold DEF DemoInv, StatisticsCount
  <2>2. /\ freeList \in Seq(DemoBuffers) /\ frameQueue \in Seq(DemoBuffers)
        /\ {producerBuf, consumerBuf} \subseteq DemoBuffers \cup {NoBuffer}
    BY DEF DemoInv, BuffersOwned
  <2>3. acquireFails = 0
    BY DEF DemoInv, StatisticsCount
  <2>4. /\ content \in [DemoBuffers -> 0 .. MaxFrames]
        /\ sent \in Seq(1 .. MaxFrames) /\ frameNo \in 0 .. MaxFrames
    BY DEF DemoInv, FramesNumbered
  <2>5. Demo!Cardinality(DemoBuffers) = Size
    BY SameSequences DEF Size
  <2> QED
    BY <2>1, <2>2, <2>3, <2>4, <2>5 DEF Demo!TypeOK, DemoInv, Ending
<1>2. Demo!SentInOrder
  <2>1. DOMAIN sent = 1 .. Len(sent)
    BY DEF DemoInv, FramesNumbered
  <2> QED
    BY <2>1 DEF Demo!SentInOrder, DemoInv, FramesNumbered
<1>3. ASSUME mainPc = "report"
      PROVE  Len(sent) = frameNo /\ inUse = 0 /\ Demo!ToSet(freeList) = DemoBuffers
  <2>1. /\ consumerPc = "done" /\ producerPc = "done" /\ frameQueue = <<>>
    BY <1>3 DEF DemoInv, Ending
  <2>2. producerBuf = NoBuffer /\ consumerBuf = NoBuffer
    BY <2>1 DEF DemoInv, HandlesHeld
  <2>3. Len(sent) = frameNo
    <3>1. Len(frameQueue) = 0 /\ Taken = Len(sent) /\ Len(sent) \in Nat
      BY <2>1 DEF Taken, DemoInv, FramesNumbered
    <3> QED
      BY <2>1, <3>1 DEF DemoInv, FramesNumbered
  <2>4. ToSet(freeList) = DemoBuffers
    <3>1. ToSet(freeList) \subseteq DemoBuffers /\ ToSet(frameQueue) = {}
      BY <2>1 DEF ToSet, DemoInv, BuffersOwned
    <3> QED
      BY <2>2, <3>1, DemoConstantsHold DEF DemoInv, BuffersOwned
  <2>5. Len(freeList) = Size
    BY <2>4, OnceEach, DemoConstantsHold DEF DemoInv, BuffersOwned, Size
  <2> QED
    BY <2>3, <2>4, <2>5, SameSequences, DemoConstantsHold
    DEF DemoInv, StatisticsCount
<1> QED
  BY <1>1, <1>2, <1>3 DEF Demo!DemoDelivers, Demo!NothingLeftAtReport

(* The demo runs as MemoryPoolDemo says, or not at all.                    *)
DemoRuns == program = "demo" => DemoInv

LEMMA DemoRunsHolds == Spec => []DemoRuns
<1>1. Init => DemoRuns
  BY InitDemoInv DEF Init, DemoRuns
<1>2. DemoRuns /\ [Next]_vars => DemoRuns'
  <2> SUFFICES ASSUME DemoRuns, [Next]_vars, program' = "demo"
               PROVE  DemoInv'
    BY DEF DemoRuns
  <2>1. program = "demo"
    BY DEF Next, Controls, Uses, Demos, vars
  <2>2. [Demo!Next]_(Demo!vars)
    <3>1. CASE Demos /\ Demo!Next
      BY <3>1
    <3>2. CASE UNCHANGED vars
      BY <3>2 DEF vars, poolVars, demoVars, Demo!vars, Demo!poolVars,
         Demo!queueVars, Demo!producerVars, Demo!consumerVars, Demo!mainVars
    <3> QED
      BY <2>1, <3>1, <3>2 DEF Next, Controls, Uses
  <2> QED
    BY <2>1, <2>2, NextDemoInv DEF DemoRuns
<1> QED
  BY <1>1, <1>2, PTL DEF Spec

(* For any number of buffers, at least two, and of frames: each frame is   *)
(* sent once, unaltered and in order, and when main() reports, every frame *)
(* has been sent and every buffer is back, counted                         *)
(* (mem_pool_main_demo.cpp:44-106).                                        *)
THEOREM DemoAlwaysDelivers == Spec => []DemoDelivers
<1>1. DemoRuns => DemoDelivers
  BY DemoInvSuffices DEF DemoRuns, DemoDelivers
<1> QED
  BY <1>1, DemoRunsHolds, PTL
=============================================================================
