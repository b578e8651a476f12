------------------------- MODULE ReconstructPipeline -------------------------
(***************************************************************************)
(* The threads of reconstruct_picture/src/main.cpp: a producer that reads  *)
(* frames from a socket into rawQueue, workers that turn a frame into spot *)
(* signals and push them into signalQueue, an accumulator that adds the    *)
(* signals to the image, and main(), which joins them in order.  A frame   *)
(* is a number, and stands for the signals computed from it as well.       *)
(***************************************************************************)
EXTENDS Naturals, Sequences, FiniteSets

CONSTANTS Workers,         \* the worker threads
          Producer, Accumulator, None,
          MaxFrames,       \* bound on the frames the sender sends
          RawCapacity,     \* 50 in the code
          SignalCapacity   \* 200 in the code

ASSUME PipelineAssumption ==
    /\ Workers # {} /\ IsFiniteSet(Workers)
    /\ Producer \notin Workers /\ Accumulator \notin Workers
    /\ Producer # Accumulator
    /\ None \notin Workers \cup {Producer, Accumulator}
    /\ MaxFrames \in Nat
    /\ RawCapacity \in Nat \ {0} /\ SignalCapacity \in Nat \ {0}

VARIABLES
    undecodable,             \* frames that cv::imdecode() cannot decode: as sent
    rawQueue, rawFinished, rawOwner, rawEmptyWaiters, rawFullWaiters,
    signalQueue, signalFinished, signalOwner, signalEmptyWaiters,
    signalFullWaiters,
    producerPc, received,    \* frames the producer has read, and its place
    workerPc, packet,        \* each worker's place and frame (0: none)
    accumulatorPc, signals,  \* the accumulator's place and packet (0: none)
    accumulated,             \* how often each frame was added to the image
    mainPc

rawVars    == <<rawQueue, rawFinished, rawOwner, rawEmptyWaiters, rawFullWaiters>>
signalVars == <<signalQueue, signalFinished, signalOwner, signalEmptyWaiters,
                signalFullWaiters>>
producerVars    == <<producerPc, received>>
workerVars      == <<workerPc, packet>>
accumulatorVars == <<accumulatorPc, signals, accumulated>>
vars == <<rawVars, signalVars, producerVars, workerVars, accumulatorVars, mainPc>>

Raw == INSTANCE BoundedQueue WITH
    Capacity <- RawCapacity, queue <- rawQueue, finished <- rawFinished,
    owner <- rawOwner, emptyWaiters <- rawEmptyWaiters,
    fullWaiters <- rawFullWaiters

Signal == INSTANCE BoundedQueue WITH
    Capacity <- SignalCapacity, queue <- signalQueue,
    finished <- signalFinished, owner <- signalOwner,
    emptyWaiters <- signalEmptyWaiters, fullWaiters <- signalFullWaiters

Frames == 1 .. MaxFrames

Init ==
    /\ undecodable \in SUBSET Frames
    /\ Raw!QInit /\ Signal!QInit
    /\ producerPc = "receive" /\ received = 0
    /\ workerPc = [w \in Workers |-> "pop"]
    /\ packet = [w \in Workers |-> 0]
    /\ accumulatorPc = "pop" /\ signals = 0
    /\ accumulated = [f \in Frames |-> 0]
    /\ mainPc = "joinProducer"

-----------------------------------------------------------------------------
(* The producer.                                                           *)

ProducerReceives ==
    /\ producerPc = "receive" /\ received < MaxFrames
    /\ received' = received + 1 /\ producerPc' = "push"
    /\ UNCHANGED <<rawVars, signalVars, workerVars, accumulatorVars, mainPc>>

(* The sender disconnects, or the header's magic word is wrong.            *)
StreamEnds ==
    /\ producerPc = "receive"
    /\ producerPc' = "store"
    /\ UNCHANGED <<rawVars, signalVars, received, workerVars, accumulatorVars,
                   mainPc>>

ProducerPushes ==
    /\ producerPc = "push"
    /\ \/ Raw!Push(Producer, received) /\ producerPc' = "notify"
       \/ Raw!PushWaits(Producer) /\ UNCHANGED producerPc
    /\ UNCHANGED <<signalVars, received, workerVars, accumulatorVars, mainPc>>

ProducerNotifies ==
    /\ producerPc = "notify"
    /\ Raw!NotifyNotEmpty
    /\ producerPc' = "receive"
    /\ UNCHANGED <<signalVars, received, workerVars, accumulatorVars, mainPc>>

(* rawQueue.setFinished(), and the thread ends.                            *)
ProducerFinishes ==
    /\ \/ producerPc = "store" /\ Raw!StoreFinished /\ producerPc' = "notifyAll"
       \/ producerPc = "notifyAll" /\ Raw!NotifyAllNotEmpty
          /\ producerPc' = "exit"
    /\ UNCHANGED <<signalVars, received, workerVars, accumulatorVars, mainPc>>

ProducerStep == ProducerReceives \/ ProducerPushes \/ ProducerNotifies
                \/ ProducerFinishes

-----------------------------------------------------------------------------
(* A worker.                                                               *)

At(w, p) == workerPc[w] = p
GoTo(w, p) == workerPc' = [workerPc EXCEPT ![w] = p]

WorkerPops(w) ==
    /\ At(w, "pop")
    /\ \/ /\ Raw!Pop(w)
          /\ packet' = [packet EXCEPT ![w] = Head(rawQueue)]
          /\ GoTo(w, "notifyRaw")
       \/ Raw!PopReturnsFalse(w) /\ GoTo(w, "exit") /\ UNCHANGED packet
       \/ Raw!PopFindsEmpty(w) /\ GoTo(w, "sleep") /\ UNCHANGED packet
    /\ UNCHANGED <<signalVars, producerVars, accumulatorVars, mainPc>>

WorkerSleeps(w) ==
    /\ At(w, "sleep") /\ Raw!PopSleeps(w)
    /\ GoTo(w, "pop")
    /\ UNCHANGED <<signalVars, producerVars, packet, accumulatorVars, mainPc>>

WorkerNotifiesRaw(w) ==
    /\ At(w, "notifyRaw") /\ Raw!NotifyNotFull
    /\ GoTo(w, "decode")
    /\ UNCHANGED <<signalVars, producerVars, packet, accumulatorVars, mainPc>>

(* A frame that cannot be decoded is skipped.                              *)
WorkerDecodes(w) ==
    /\ At(w, "decode")
    /\ IF packet[w] \in undecodable
       THEN GoTo(w, "pop") /\ packet' = [packet EXCEPT ![w] = 0]
       ELSE GoTo(w, "push") /\ UNCHANGED packet
    /\ UNCHANGED <<rawVars, signalVars, producerVars, accumulatorVars, mainPc>>

WorkerPushes(w) ==
    /\ At(w, "push")
    /\ \/ /\ Signal!Push(w, packet[w])
          /\ GoTo(w, "notifySignal")
          /\ packet' = [packet EXCEPT ![w] = 0]
       \/ Signal!PushWaits(w) /\ UNCHANGED workerVars
    /\ UNCHANGED <<rawVars, producerVars, accumulatorVars, mainPc>>

WorkerNotifiesSignal(w) ==
    /\ At(w, "notifySignal") /\ Signal!NotifyNotEmpty
    /\ GoTo(w, "pop")
    /\ UNCHANGED <<rawVars, producerVars, packet, accumulatorVars, mainPc>>

WorkerStep(w) ==
    \/ WorkerPops(w) \/ WorkerSleeps(w) \/ WorkerNotifiesRaw(w)
    \/ WorkerDecodes(w) \/ WorkerPushes(w) \/ WorkerNotifiesSignal(w)

-----------------------------------------------------------------------------
(* The accumulator.                                                        *)

AccumulatorPops ==
    /\ accumulatorPc = "pop"
    /\ \/ /\ Signal!Pop(Accumulator)
          /\ signals' = Head(signalQueue)
          /\ accumulatorPc' = "notify"
       \/ /\ Signal!PopReturnsFalse(Accumulator)
          /\ accumulatorPc' = "exit" /\ UNCHANGED signals
       \/ /\ Signal!PopFindsEmpty(Accumulator)
          /\ accumulatorPc' = "sleep" /\ UNCHANGED signals
    /\ UNCHANGED <<rawVars, producerVars, workerVars, accumulated, mainPc>>

AccumulatorSleeps ==
    /\ accumulatorPc = "sleep" /\ Signal!PopSleeps(Accumulator)
    /\ accumulatorPc' = "pop"
    /\ UNCHANGED <<rawVars, producerVars, workerVars, signals, accumulated,
                   mainPc>>

AccumulatorNotifies ==
    /\ accumulatorPc = "notify" /\ Signal!NotifyNotFull
    /\ accumulatorPc' = "add"
    /\ UNCHANGED <<rawVars, producerVars, workerVars, signals, accumulated,
                   mainPc>>

(* addBilinearSample() of every signal of the packet.                      *)
AccumulatorAdds ==
    /\ accumulatorPc = "add"
    /\ accumulated' = [accumulated EXCEPT ![signals] = @ + 1]
    /\ signals' = 0 /\ accumulatorPc' = "pop"
    /\ UNCHANGED <<rawVars, signalVars, producerVars, workerVars, mainPc>>

AccumulatorStep == AccumulatorPops \/ AccumulatorSleeps \/ AccumulatorNotifies
                   \/ AccumulatorAdds

-----------------------------------------------------------------------------
(* main() joins the producer, then the workers, closes signalQueue and     *)
(* joins the accumulator; then it computes the image.                      *)

JoinProducer ==
    /\ mainPc = "joinProducer" /\ producerPc = "exit"
    /\ mainPc' = "joinWorkers"
    /\ UNCHANGED <<rawVars, signalVars, producerVars, workerVars,
                   accumulatorVars>>

(* Mutant: signalQueue is closed as soon as the producer has ended.        *)
JoinNoWorkers ==
    /\ mainPc = "joinWorkers"
    /\ mainPc' = "store"
    /\ UNCHANGED <<rawVars, signalVars, producerVars, workerVars,
                   accumulatorVars>>

JoinWorkers ==
    /\ mainPc = "joinWorkers" /\ \A w \in Workers : At(w, "exit")
    /\ mainPc' = "store"
    /\ UNCHANGED <<rawVars, signalVars, producerVars, workerVars,
                   accumulatorVars>>

CloseSignals ==
    /\ \/ mainPc = "store" /\ Signal!StoreFinished /\ mainPc' = "notifyAll"
       \/ mainPc = "notifyAll" /\ Signal!NotifyAllNotEmpty
          /\ mainPc' = "joinAccumulator"
    /\ UNCHANGED <<rawVars, producerVars, workerVars, accumulatorVars>>

JoinAccumulator ==
    /\ mainPc = "joinAccumulator" /\ accumulatorPc = "exit"
    /\ mainPc' = "done"
    /\ UNCHANGED <<rawVars, signalVars, producerVars, workerVars,
                   accumulatorVars>>

MainStep == JoinProducer \/ JoinWorkers \/ CloseSignals \/ JoinAccumulator

Next ==
    /\ \/ ProducerStep \/ StreamEnds \/ AccumulatorStep \/ MainStep
       \/ \E w \in Workers : WorkerStep(w)
    /\ UNCHANGED undecodable

Spec == Init /\ [][Next]_<<vars, undecodable>>

(* The threads run; the sender may stop to send without disconnecting.     *)
FairSpec ==
    /\ Spec
    /\ WF_vars(ProducerPushes \/ ProducerNotifies \/ ProducerFinishes)
    /\ WF_vars(AccumulatorStep) /\ WF_vars(MainStep)
    /\ \A w \in Workers : WF_vars(WorkerStep(w))

-----------------------------------------------------------------------------
TypeOK ==
    /\ undecodable \subseteq Frames
    /\ rawQueue \in Seq(Frames) /\ Len(rawQueue) <= RawCapacity
    /\ signalQueue \in Seq(Frames \ undecodable)
    /\ Len(signalQueue) <= SignalCapacity
    /\ rawFinished \in BOOLEAN /\ signalFinished \in BOOLEAN
    /\ rawOwner \in Workers \cup {None}
    /\ signalOwner \in {Accumulator, None}
    /\ rawEmptyWaiters \subseteq Workers /\ rawFullWaiters \subseteq {Producer}
    /\ signalEmptyWaiters \subseteq {Accumulator}
    /\ signalFullWaiters \subseteq Workers
    /\ producerPc \in {"receive", "push", "notify", "store", "notifyAll", "exit"}
    /\ received \in 0 .. MaxFrames
    /\ workerPc \in [Workers -> {"pop", "sleep", "notifyRaw", "decode", "push",
                                 "notifySignal", "exit"}]
    /\ packet \in [Workers -> {0} \cup Frames]
    /\ accumulatorPc \in {"pop", "sleep", "notify", "add", "exit"}
    /\ signals \in {0} \cup (Frames \ undecodable)
    /\ accumulated \in [Frames -> Nat]
    /\ mainPc \in {"joinProducer", "joinWorkers", "store", "notifyAll",
                   "joinAccumulator", "done"}

(* How many copies of a frame there are between the socket and the image.  *)
Copies(f) ==
    Cardinality({i \in 1 .. Len(rawQueue) : rawQueue[i] = f})
    + Cardinality({i \in 1 .. Len(signalQueue) : signalQueue[i] = f})
    + Cardinality({w \in Workers : packet[w] = f})
    + (IF producerPc = "push" /\ received = f THEN 1 ELSE 0)
    + (IF signals = f THEN 1 ELSE 0)
    + accumulated[f]

(* Each decodable frame that was received is in exactly one place on its   *)
(* way, and ends once in the image: none is dropped between the queues and *)
(* none is added twice.                                                    *)
OneCopyOfEachFrame ==
    \A f \in Frames \ undecodable : Copies(f) = IF f <= received THEN 1 ELSE 0

(* When main() goes on to compute the image, every decodable frame that    *)
(* was received is in it: closing a queue loses nothing that it holds.     *)
ImageIsComplete ==
    mainPc = "done"
        => \A f \in (1 .. received) \ undecodable : accumulated[f] = 1

(* The threads and their queues implement the pipeline of Reconstruction:  *)
(* a frame is added at most once, only after it was read, never after      *)
(* main() went on, and main() goes on only with the whole image.           *)
Abstract == INSTANCE Reconstruction WITH
    arrived <- received, image <- accumulated, used <- mainPc = "done"

ImplementsReconstruction == Abstract!RSpec

(* main.cpp calls it a graceful shutdown: once the stream has ended, all   *)
(* the threads end and main() goes on.                                     *)
ShutdownCompletes == producerPc = "store" ~> mainPc = "done"

(* Each frame is in one place until the image has it, and the image that is*)
(* used misses none (concurrent_queue.h:20-41, main.cpp:214-218).         *)
FramesAccountedFor == TypeOK /\ OneCopyOfEachFrame /\ ImageIsComplete
=============================================================================
