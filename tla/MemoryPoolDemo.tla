--------------------------- MODULE MemoryPoolDemo ---------------------------
(***************************************************************************)
(* mem_pool_main_demo.cpp: a producer that fills buffers of a MemoryPool   *)
(* and pushes them into a FrameQueue, a consumer that sends them, and      *)
(* main(), which stops and joins the two.                                  *)
(*                                                                         *)
(* FrameQueue::push() and shutdown() notify after the unlock (steps of     *)
(* their own); pop() tests and goes to sleep under the mutex, which both   *)
(* of them take, so that this is one step.  The consumer is the only       *)
(* thread that waits in the queue, and the producer the only one that      *)
(* waits for a buffer.  Frames fit into a buffer (1 MB), so the branch of  *)
(* line 55 is not taken.                                                   *)
(***************************************************************************)
EXTENDS MemoryPool, FiniteSets, SequencesExt

CONSTANTS Producer,
          Buffers,    \* 8 in the code
          NoBuffer,
          MaxFrames   \* bound on frameNo

(* With one buffer the consumer, waiting for the next frame, would hold    *)
(* the buffer that the producer waits for.                                 *)
DemoAssumption ==
    /\ IsFiniteSet(Buffers) /\ Cardinality(Buffers) >= 2
    /\ NoBuffer \notin Buffers /\ MaxFrames \in Nat

VARIABLES
    frameQueue, queueStop,   \* queue_ and stop_ of FrameQueue
    consumerAsleep,          \* the consumer sleeps on cond_ of FrameQueue
    content,                 \* the frame in each buffer's block
    producerPc, producerBuf, frameNo,
    consumerPc, consumerBuf,
    sent,                    \* the frames sent, in order
    running, mainPc

queueVars    == <<frameQueue, queueStop, consumerAsleep>>
producerVars == <<producerPc, producerBuf, frameNo, content>>
consumerVars == <<consumerPc, consumerBuf, sent>>
mainVars     == <<running, mainPc>>
vars == <<poolVars, queueVars, producerVars, consumerVars, mainVars>>

DemoInit ==
    /\ frameQueue = <<>> /\ queueStop = FALSE /\ consumerAsleep = FALSE
    /\ content = [b \in Buffers |-> 0]
    /\ producerPc = "loop" /\ producerBuf = NoBuffer /\ frameNo = 0
    /\ consumerPc = "pop" /\ consumerBuf = NoBuffer /\ sent = <<>>
    /\ running = TRUE /\ mainPc = "sleep"

Init == PoolInit(SetToSeq(Buffers)) /\ DemoInit

-----------------------------------------------------------------------------
(* producer().                                                             *)

ProducerLoops ==
    /\ producerPc = "loop"
    /\ \/ running /\ frameNo < MaxFrames /\ producerPc' = "acquire"
       \/ ~running /\ producerPc' = "done"
    /\ UNCHANGED <<poolVars, queueVars, producerBuf, frameNo, content,
                   consumerVars, mainVars>>

ProducerAcquires ==
    /\ producerPc = "acquire" /\ Acquire(Producer)
    /\ producerBuf' = Head(freeList) /\ producerPc' = "fill"
    /\ UNCHANGED <<queueVars, frameNo, content, consumerVars, mainVars>>

ProducerSleeps ==
    /\ producerPc = "acquire" /\ AcquireSleeps(Producer)
    /\ UNCHANGED <<queueVars, producerVars, consumerVars, mainVars>>

ProducerFills ==
    /\ producerPc = "fill"
    /\ frameNo' = frameNo + 1
    /\ content' = [content EXCEPT ![producerBuf] = frameNo + 1]
    /\ producerPc' = "push"
    /\ UNCHANGED <<poolVars, queueVars, producerBuf, consumerVars, mainVars>>

ProducerPushes ==
    /\ producerPc = "push"
    /\ frameQueue' = Append(frameQueue, producerBuf)
    /\ producerBuf' = NoBuffer /\ producerPc' = "notify"
    /\ UNCHANGED <<poolVars, queueStop, consumerAsleep, frameNo, content,
                   consumerVars, mainVars>>

ProducerNotifies ==
    /\ producerPc = "notify"
    /\ consumerAsleep' = FALSE /\ producerPc' = "loop"
    /\ UNCHANGED <<poolVars, frameQueue, queueStop, producerBuf, frameNo,
                   content, consumerVars, mainVars>>

ProducerSteps ==
    \/ ProducerLoops \/ ProducerAcquires \/ ProducerSleeps \/ ProducerFills
    \/ ProducerPushes \/ ProducerNotifies

-----------------------------------------------------------------------------
(* consumer().  The assignment to out in pop() drops the handle of the     *)
(* last frame, and so does the end of the function.                        *)

DropConsumerBuf ==
    IF consumerBuf = NoBuffer THEN UNCHANGED poolVars ELSE Release(consumerBuf)

PopReturnsFrame ==
    /\ consumerPc = "pop" /\ ~consumerAsleep
    /\ frameQueue # <<>>
    /\ DropConsumerBuf /\ consumerBuf' = Head(frameQueue)
    /\ frameQueue' = Tail(frameQueue) /\ consumerPc' = "send"
    /\ UNCHANGED <<queueStop, consumerAsleep, producerVars, sent, mainVars>>

PopSleeps ==
    /\ consumerPc = "pop" /\ ~consumerAsleep
    /\ frameQueue = <<>> /\ ~queueStop
    /\ consumerAsleep' = TRUE
    /\ UNCHANGED <<poolVars, frameQueue, queueStop, producerVars, consumerVars,
                   mainVars>>

PopReturnsFalse ==
    /\ consumerPc = "pop" /\ ~consumerAsleep
    /\ frameQueue = <<>> /\ queueStop
    /\ DropConsumerBuf /\ consumerBuf' = NoBuffer /\ consumerPc' = "done"
    /\ UNCHANGED <<queueVars, producerVars, sent, mainVars>>

ConsumerSends ==
    /\ consumerPc = "send"
    /\ sent' = Append(sent, content[consumerBuf]) /\ consumerPc' = "pop"
    /\ UNCHANGED <<poolVars, queueVars, producerVars, consumerBuf, mainVars>>

ConsumerSteps ==
    PopReturnsFrame \/ PopSleeps \/ PopReturnsFalse \/ ConsumerSends

-----------------------------------------------------------------------------
(* main(): the producer is joined before the queue is closed.              *)

MainGoes(from, to) == mainPc = from /\ mainPc' = to

StopRunning ==
    /\ MainGoes("sleep", "joinProducer") /\ running' = FALSE
    /\ UNCHANGED <<poolVars, queueVars, producerVars, consumerVars>>

(* Mutant: nobody waits for the producer.                                  *)
LeaveProducer ==
    /\ MainGoes("joinProducer", "storeStop")
    /\ UNCHANGED <<poolVars, queueVars, producerVars, consumerVars, running>>

JoinProducer ==
    /\ producerPc = "done" /\ MainGoes("joinProducer", "storeStop")
    /\ UNCHANGED <<poolVars, queueVars, producerVars, consumerVars, running>>

StoreQueueStop ==
    /\ MainGoes("storeStop", "notify") /\ queueStop' = TRUE
    /\ UNCHANGED <<poolVars, frameQueue, consumerAsleep, producerVars,
                   consumerVars, running>>

(* Mutant: shutdown() of the queue does not notify.                        *)
NotifyNoConsumer ==
    /\ MainGoes("notify", "joinConsumer")
    /\ UNCHANGED <<poolVars, queueVars, producerVars, consumerVars, running>>

NotifyConsumer ==
    /\ MainGoes("notify", "joinConsumer") /\ consumerAsleep' = FALSE
    /\ UNCHANGED <<poolVars, frameQueue, queueStop, producerVars, consumerVars,
                   running>>

JoinConsumer ==
    /\ consumerPc = "done" /\ MainGoes("joinConsumer", "poolStop")
    /\ UNCHANGED <<poolVars, queueVars, producerVars, consumerVars, running>>

StopPool ==
    /\ MainGoes("poolStop", "poolNotify") /\ StoreStop
    /\ UNCHANGED <<queueVars, producerVars, consumerVars, running>>

NotifyPool ==
    /\ MainGoes("poolNotify", "report") /\ NotifyAll
    /\ UNCHANGED <<queueVars, producerVars, consumerVars, running>>

MainSteps ==
    \/ StopRunning \/ JoinProducer \/ StoreQueueStop \/ NotifyConsumer
    \/ JoinConsumer \/ StopPool \/ NotifyPool

Next == ProducerSteps \/ ConsumerSteps \/ MainSteps

Spec == Init /\ [][Next]_vars
FairSpec ==
    Spec /\ WF_vars(ProducerSteps) /\ WF_vars(ConsumerSteps) /\ WF_vars(MainSteps)

-----------------------------------------------------------------------------
TypeOK ==
    /\ freeList \in Seq(Buffers) /\ stop \in BOOLEAN
    /\ asleep \subseteq {Producer} /\ woken \subseteq {Producer}
    /\ {inUse, highWater} \subseteq 0 .. Cardinality(Buffers) /\ acquireFails = 0
    /\ frameQueue \in Seq(Buffers)
    /\ {queueStop, consumerAsleep, running} \subseteq BOOLEAN
    /\ content \in [Buffers -> 0 .. MaxFrames] /\ frameNo \in 0 .. MaxFrames
    /\ {producerBuf, consumerBuf} \subseteq Buffers \cup {NoBuffer}
    /\ producerPc \in {"loop", "acquire", "fill", "push", "notify", "done"}
    /\ consumerPc \in {"pop", "send", "done"}
    /\ mainPc \in {"sleep", "joinProducer", "storeStop", "notify",
                   "joinConsumer", "poolStop", "poolNotify", "report"}
    /\ sent \in Seq(1 .. MaxFrames)

(* Each frame is sent once, unaltered and in order: no buffer is filled    *)
(* again while its frame waits or is being sent (lines 60-63, 23, 75).     *)
SentInOrder == \A i \in DOMAIN sent : sent[i] = i

(* When main() prints its statistics every frame has been sent, and every  *)
(* buffer is back: the first figure it prints is 0 (lines 97-106).         *)
NothingLeftAtReport ==
    mainPc = "report" =>
        /\ Len(sent) = frameNo
        /\ inUse = 0 /\ ToSet(freeList) = Buffers

(* main() gets to its report: neither thread is left waiting for the       *)
(* other, for a buffer or for a notification (lines 98-103).               *)
DemoEnds == <>(mainPc = "report")

(* The demo delivers: in order while it runs, everything when it ends     *)
(* (mem_pool_main_demo.cpp:44-106).                                       *)
DemoDelivers == TypeOK /\ SentInOrder /\ NothingLeftAtReport
=============================================================================
