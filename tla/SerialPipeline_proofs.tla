------------------------- MODULE SerialPipeline_proofs -------------------------
(***************************************************************************)
(* Theorems about the two pipelines, for any number of workers and of      *)
(* frames, any capacities and any files: first about that of main.cpp      *)
(* (ReconstructPipeline), then about that of reconstruct_serial.cpp, whose *)
(* steps are steps of the former, so that what is proved of one is true of *)
(* the other.                                                              *)
(***************************************************************************)
EXTENDS SerialPipeline, FiniteSetTheorems, SequenceTheorems, TLAPS

-----------------------------------------------------------------------------
(* The type invariant, part by part: the queues and the threads.           *)
RawOK ==
    /\ rawQueue \in Seq(Frames) /\ Len(rawQueue) <= RawCapacity
    /\ rawFinished \in BOOLEAN /\ rawOwner \in Workers \cup {None}
    /\ rawEmptyWaiters \subseteq Workers /\ rawFullWaiters \subseteq {Producer}

SignalOK ==
    /\ signalQueue \in Seq(Frames \ undecodable)
    /\ Len(signalQueue) <= SignalCapacity
    /\ signalFinished \in BOOLEAN /\ signalOwner \in {Accumulator, None}
    /\ signalEmptyWaiters \subseteq {Accumulator}
    /\ signalFullWaiters \subseteq Workers

ProducerOK ==
    /\ producerPc \in {"receive", "push", "notify", "store", "notifyAll", "exit"}
    /\ received \in 0 .. MaxFrames

WorkersOK ==
    /\ workerPc \in [Workers -> {"pop", "sleep", "notifyRaw", "decode", "push",
                                 "notifySignal", "exit"}]
    /\ packet \in [Workers -> {0} \cup Frames]

AccumulatorOK ==
    /\ accumulatorPc \in {"pop", "sleep", "notify", "add", "exit"}
    /\ signals \in {0} \cup (Frames \ undecodable)
    /\ accumulated \in [Frames -> Nat]

MainOK == mainPc \in {"joinProducer", "joinWorkers", "store", "notifyAll",
                      "joinAccumulator", "done"}

PartsOK == /\ undecodable \subseteq Frames
           /\ RawOK /\ SignalOK /\ ProducerOK /\ WorkersOK /\ AccumulatorOK
           /\ MainOK

LEMMA TypeParts == TypeOK <=> PartsOK
  BY DEF TypeOK, PartsOK, RawOK, SignalOK, ProducerOK, WorkersOK,
     AccumulatorOK, MainOK

(* Where a frame is, and whose turn it is.  PipeInv follows below.         *)
(* A worker that has a frame to push has a usable one.                     *)
HasFrame(w) == workerPc[w] \in {"notifyRaw", "decode", "push"}

Carried ==
    /\ \A w \in Workers : HasFrame(w) <=> packet[w] # 0
    /\ \A w \in Workers : workerPc[w] = "push" => packet[w] \notin undecodable
    /\ accumulatorPc \in {"notify", "add"} <=> signals # 0
    /\ producerPc = "push" => received > 0

LEMMA InitPartsOK == Init => PartsOK /\ Carried
<1> SUFFICES ASSUME Init PROVE PartsOK /\ Carried
  OBVIOUS
<1> USE PipelineAssumption DEF Init, Frames
<1>1. RawOK
  <2>1. rawQueue \in Seq(Frames) /\ Len(rawQueue) = 0
    BY DEF Raw!QInit
  <2>2. rawFinished \in BOOLEAN
    BY DEF Raw!QInit
  <2>3. rawOwner \in Workers \cup {None}
    BY DEF Raw!QInit
  <2>4. rawEmptyWaiters = {} /\ rawFullWaiters = {}
    BY DEF Raw!QInit
  <2> QED
    BY <2>1, <2>2, <2>3, <2>4 DEF RawOK
<1>6. SignalOK
  <2>1. signalQueue \in Seq(Frames \ undecodable) /\ Len(signalQueue) = 0
    BY DEF Signal!QInit
  <2>2. signalFinished \in BOOLEAN
    BY DEF Signal!QInit
  <2>3. signalOwner \in {Accumulator, None}
    BY DEF Signal!QInit
  <2>4. signalEmptyWaiters = {} /\ signalFullWaiters = {}
    BY DEF Signal!QInit
  <2> QED
    BY <2>1, <2>2, <2>3, <2>4 DEF SignalOK
<1>2. WorkersOK
  BY DEF WorkersOK
<1>3. AccumulatorOK
  BY DEF AccumulatorOK
<1>4. ProducerOK /\ MainOK /\ undecodable \subseteq Frames
  BY DEF ProducerOK, MainOK
<1>5. Carried
  BY DEF Carried, HasFrame
<1> QED
  BY <1>1, <1>2, <1>3, <1>4, <1>5, <1>6 DEF PartsOK

(* What a step leaves alone keeps its type.                                *)
LEMMA Unchanged ==
  ASSUME PartsOK, undecodable' = undecodable
  PROVE  /\ UNCHANGED rawVars => RawOK'
         /\ UNCHANGED signalVars => SignalOK'
         /\ UNCHANGED producerVars => ProducerOK'
         /\ UNCHANGED workerVars => WorkersOK'
         /\ UNCHANGED accumulatorVars => AccumulatorOK'
         /\ UNCHANGED mainPc => MainOK'
  BY DEF PartsOK, RawOK, SignalOK, ProducerOK, WorkersOK, AccumulatorOK,
     MainOK, rawVars, signalVars, producerVars, workerVars, accumulatorVars

(* The operations on a queue.                                              *)
RawOperation ==
    \/ \E f \in Frames : Raw!Push(Producer, f)
    \/ Raw!PushWaits(Producer)
    \/ \E w \in Workers : \/ Raw!Pop(w) \/ Raw!PopReturnsFalse(w)
                          \/ Raw!PopFindsEmpty(w) \/ Raw!PopSleeps(w)
    \/ Raw!NotifyNotEmpty \/ Raw!NotifyNotFull
    \/ Raw!StoreFinished \/ Raw!NotifyAllNotEmpty

SignalOperation ==
    \/ \E w \in Workers :
          \/ \E f \in Frames \ undecodable : Signal!Push(w, f)
          \/ Signal!PushWaits(w)
    \/ Signal!Pop(Accumulator) \/ Signal!PopReturnsFalse(Accumulator)
    \/ Signal!PopFindsEmpty(Accumulator) \/ Signal!PopSleeps(Accumulator)
    \/ Signal!NotifyNotEmpty \/ Signal!NotifyNotFull
    \/ Signal!StoreFinished \/ Signal!NotifyAllNotEmpty

LEMMA RawTypes == RawOK /\ RawOperation => RawOK'
<1> SUFFICES ASSUME RawOK, RawOperation PROVE RawOK'
  OBVIOUS
<1> USE PipelineAssumption DEF RawOK, RawOperation
<1>1. ASSUME NEW f \in Frames, Raw!Push(Producer, f) PROVE RawOK'
  BY <1>1 DEF Raw!Push
<1>2. ASSUME NEW w \in Workers, Raw!Pop(w) PROVE RawOK'
  BY <1>2 DEF Raw!Pop
<1>3. CASE Raw!PushWaits(Producer)
  BY <1>3 DEF Raw!PushWaits
<1>4. ASSUME NEW w \in Workers,
             \/ Raw!PopReturnsFalse(w) \/ Raw!PopFindsEmpty(w)
             \/ Raw!PopSleeps(w)
      PROVE  RawOK'
  BY <1>4 DEF Raw!PopReturnsFalse, Raw!PopFindsEmpty, Raw!PopSleeps, Raw!qvars
<1>5. CASE \/ Raw!NotifyNotEmpty \/ Raw!NotifyNotFull
           \/ Raw!StoreFinished \/ Raw!NotifyAllNotEmpty
  BY <1>5 DEF Raw!NotifyNotEmpty, Raw!NotifyNotFull, Raw!WakesOne,
     Raw!StoreFinished, Raw!NotifyAllNotEmpty
<1> QED
  BY <1>1, <1>2, <1>3, <1>4, <1>5

LEMMA SignalTypes ==
  SignalOK /\ SignalOperation /\ undecodable' = undecodable => SignalOK'
<1> SUFFICES ASSUME SignalOK, SignalOperation, undecodable' = undecodable
             PROVE  SignalOK'
  OBVIOUS
<1> USE PipelineAssumption DEF SignalOK, SignalOperation
<1>1. ASSUME NEW w \in Workers, NEW f \in Frames \ undecodable,
             Signal!Push(w, f)
      PROVE  SignalOK'
  BY <1>1 DEF Signal!Push
<1>2. CASE Signal!Pop(Accumulator)
  BY <1>2 DEF Signal!Pop
<1>3. ASSUME NEW w \in Workers, Signal!PushWaits(w) PROVE SignalOK'
  BY <1>3 DEF Signal!PushWaits
<1>4. CASE \/ Signal!PopReturnsFalse(Accumulator)
           \/ Signal!PopFindsEmpty(Accumulator) \/ Signal!PopSleeps(Accumulator)
  BY <1>4 DEF Signal!PopReturnsFalse, Signal!PopFindsEmpty, Signal!PopSleeps,
     Signal!qvars
<1>5. CASE \/ Signal!NotifyNotEmpty \/ Signal!NotifyNotFull
           \/ Signal!StoreFinished \/ Signal!NotifyAllNotEmpty
  BY <1>5 DEF Signal!NotifyNotEmpty, Signal!NotifyNotFull, Signal!WakesOne,
     Signal!StoreFinished, Signal!NotifyAllNotEmpty
<1> QED
  BY <1>1, <1>2, <1>3, <1>4, <1>5

LEMMA NextPartsOK ==
  PartsOK /\ Carried /\ [Next]_<<vars, undecodable>> => PartsOK' /\ Carried'
<1> SUFFICES ASSUME PartsOK, Carried, [Next]_<<vars, undecodable>>
             PROVE  PartsOK' /\ Carried'
  OBVIOUS
<1>same. undecodable' = undecodable /\ undecodable \subseteq Frames
  BY DEF Next, PartsOK
<1>0. /\ RawOK /\ SignalOK /\ ProducerOK /\ WorkersOK /\ AccumulatorOK /\ MainOK
      /\ MaxFrames \in Nat
  BY PipelineAssumption DEF PartsOK
<1>1. ASSUME RawOperation PROVE RawOK'
  BY <1>0, <1>1, RawTypes
<1>2. ASSUME SignalOperation PROVE SignalOK'
  BY <1>0, <1>2, <1>same, SignalTypes
<1>3. CASE UNCHANGED <<vars, undecodable>>
  BY <1>3, <1>same, Unchanged DEF vars, PartsOK, Carried, HasFrame, producerVars,
     workerVars, accumulatorVars
<1>4. CASE ProducerStep \/ StreamEnds
  <2>1. ProducerOK' /\ Carried'
    BY <1>0, <1>4, <1>same DEF ProducerStep, StreamEnds, ProducerReceives,
       ProducerPushes, ProducerNotifies, ProducerFinishes, ProducerOK,
       Carried, HasFrame, workerVars, accumulatorVars
  <2>2. UNCHANGED <<signalVars, workerVars, accumulatorVars, mainPc>>
    BY <1>4 DEF ProducerStep, StreamEnds, ProducerReceives, ProducerPushes,
       ProducerNotifies, ProducerFinishes
  <2>3. producerPc = "push" => received \in Frames
    BY <1>0 DEF Carried, ProducerOK, Frames
  <2>4. RawOperation \/ UNCHANGED rawVars
    BY <1>4, <2>3 DEF ProducerStep, StreamEnds, ProducerReceives,
       ProducerPushes, ProducerNotifies, ProducerFinishes, RawOperation
  <2>5. RawOK'
    BY <1>1, <1>same, <2>4, Unchanged
  <2> QED
    BY <1>same, <2>1, <2>2, <2>5, Unchanged DEF PartsOK
<1>5. ASSUME NEW w \in Workers, WorkerStep(w) PROVE PartsOK' /\ Carried'
  <2>1. UNCHANGED <<producerVars, accumulatorVars, mainPc>>
    BY <1>5 DEF WorkerStep, WorkerPops, WorkerSleeps, WorkerNotifiesRaw,
       WorkerDecodes, WorkerPushes, WorkerNotifiesSignal, workerVars
  <2>2. rawQueue # <<>> => Head(rawQueue) \in Frames
    BY <1>0 DEF RawOK
  <2>3. workerPc[w] = "push" => packet[w] \in Frames \ undecodable
    BY <1>0 DEF Carried, HasFrame, WorkersOK
  <2>4. RawOperation \/ UNCHANGED rawVars
    BY <1>5 DEF WorkerStep, WorkerPops, WorkerSleeps, WorkerNotifiesRaw,
       WorkerDecodes, WorkerPushes, WorkerNotifiesSignal, RawOperation
  <2>5. SignalOperation \/ UNCHANGED signalVars
    BY <1>5, <2>3 DEF WorkerStep, WorkerPops, WorkerSleeps,
       WorkerNotifiesRaw, WorkerDecodes, WorkerPushes, WorkerNotifiesSignal,
       SignalOperation, At
  <2>6. WorkersOK' /\ Carried'
    <3> USE <1>0, <1>same, <2>1, <2>2
        DEF WorkersOK, Carried, HasFrame, At, GoTo, producerVars,
            accumulatorVars, Frames
    <3>1. CASE WorkerPops(w)
      BY <3>1 DEF WorkerPops, Raw!Pop
    <3>2. CASE WorkerSleeps(w)
      BY <3>2 DEF WorkerSleeps
    <3>3. CASE WorkerNotifiesRaw(w)
      BY <3>3 DEF WorkerNotifiesRaw
    <3>4. CASE WorkerDecodes(w)
      BY <3>4 DEF WorkerDecodes
    <3>5. CASE WorkerPushes(w)
      BY <3>5 DEF WorkerPushes, workerVars
    <3>6. CASE WorkerNotifiesSignal(w)
      BY <3>6 DEF WorkerNotifiesSignal
    <3> QED
      BY <1>5, <3>1, <3>2, <3>3, <3>4, <3>5, <3>6 DEF WorkerStep
  <2>7. RawOK' /\ SignalOK'
    BY <1>1, <1>2, <1>same, <2>4, <2>5, Unchanged
  <2> QED
    BY <1>same, <2>1, <2>6, <2>7, Unchanged DEF PartsOK
<1>6. CASE AccumulatorStep
  <2>1. UNCHANGED <<rawVars, producerVars, workerVars, mainPc>>
    BY <1>6 DEF AccumulatorStep, AccumulatorPops, AccumulatorSleeps,
       AccumulatorNotifies, AccumulatorAdds
  <2>2. signalQueue # <<>> => Head(signalQueue) \in Frames \ undecodable
    BY <1>0 DEF SignalOK
  <2>3. SignalOperation \/ UNCHANGED signalVars
    BY <1>6 DEF AccumulatorStep, AccumulatorPops, AccumulatorSleeps,
       AccumulatorNotifies, AccumulatorAdds, SignalOperation
  <2>4. AccumulatorOK' /\ Carried'
    <3>1. CASE AccumulatorPops
      <4>1. /\ accumulatorPc = "pop" /\ UNCHANGED accumulated
            /\ \/ /\ signals' = Head(signalQueue) /\ signalQueue # <<>>
                  /\ accumulatorPc' = "notify"
               \/ accumulatorPc' \in {"exit", "sleep"} /\ UNCHANGED signals
        BY <3>1 DEF AccumulatorPops, Signal!Pop
      <4>2. AccumulatorOK'
        BY <1>0, <1>same, <2>2, <4>1 DEF AccumulatorOK
      <4>3. signals' # 0 <=> accumulatorPc' = "notify"
        BY <1>0, <2>2, <4>1 DEF Carried, Frames
      <4> QED
        BY <1>0, <1>same, <2>1, <4>1, <4>2, <4>3
        DEF Carried, HasFrame, producerVars, workerVars
    <3>2. CASE AccumulatorSleeps \/ AccumulatorNotifies \/ AccumulatorAdds
      BY <1>0, <1>same, <2>1, <3>2
      DEF AccumulatorSleeps, AccumulatorNotifies, AccumulatorAdds,
          AccumulatorOK, Carried, HasFrame, producerVars, workerVars, Frames
    <3> QED
      BY <1>6, <3>1, <3>2 DEF AccumulatorStep
  <2> QED
    BY <1>2, <1>same, <2>1, <2>3, <2>4, Unchanged DEF PartsOK
<1>7. CASE MainStep
  <2>1. UNCHANGED <<rawVars, producerVars, workerVars, accumulatorVars>>
    BY <1>7 DEF MainStep, JoinProducer, JoinWorkers, CloseSignals,
       JoinAccumulator
  <2>2. SignalOperation \/ UNCHANGED signalVars
    BY <1>7 DEF MainStep, JoinProducer, JoinWorkers, CloseSignals,
       JoinAccumulator, SignalOperation
  <2>3. MainOK'
    BY <1>7 DEF MainStep, JoinProducer, JoinWorkers, CloseSignals,
       JoinAccumulator, MainOK
  <2>4. Carried'
    BY <1>same, <2>1 DEF Carried, HasFrame, producerVars, workerVars,
       accumulatorVars
  <2> QED
    BY <1>2, <1>same, <2>1, <2>2, <2>3, <2>4, Unchanged DEF PartsOK
<1> QED
  BY <1>3, <1>4, <1>5, <1>6, <1>7 DEF Next

-----------------------------------------------------------------------------
(* Where a frame is.                                                       *)
Member(s, x) == \E i \in 1 .. Len(s) : s[i] = x
Distinct(s)  == \A i, j \in 1 .. Len(s) : s[i] = s[j] => i = j

Places == {"producer", "raw", "worker", "signal", "accumulator", "image"}

In(k, f) ==
    \/ k = "producer" /\ producerPc = "push" /\ received = f
    \/ k = "raw" /\ Member(rawQueue, f)
    \/ k = "worker" /\ \E w \in Workers : packet[w] = f
    \/ k = "signal" /\ Member(signalQueue, f)
    \/ k = "accumulator" /\ signals = f
    \/ k = "image" /\ accumulated[f] > 0

(* A usable frame that was received is in one place, and no frame is in    *)
(* two places or twice in one.                                             *)
InOnePlace ==
    /\ \A f \in Frames, j, k \in Places : In(j, f) /\ In(k, f) => j = k
    /\ \A f \in Frames, k \in Places : In(k, f) => f <= received
    /\ \A f \in Frames \ undecodable :
          f <= received => \E k \in Places : In(k, f)

OnceThere ==
    /\ Distinct(rawQueue) /\ Distinct(signalQueue)
    /\ \A v, w \in Workers : packet[v] = packet[w] /\ packet[v] # 0 => v = w
    /\ \A f \in Frames : accumulated[f] \in {0, 1}

Placed == InOnePlace /\ OnceThere

LEMMA TailMembers ==
  ASSUME NEW S, NEW s \in Seq(S), s # <<>>, Distinct(s)
  PROVE  /\ Distinct(Tail(s)) /\ Member(s, Head(s))
         /\ \A x : Member(Tail(s), x) <=> Member(s, x) /\ x # Head(s)
<1>1. /\ Len(Tail(s)) = Len(s) - 1 /\ Len(s) \in Nat /\ Len(s) >= 1
      /\ Head(s) = s[1]
      /\ \A i \in 1 .. Len(s) - 1 : Tail(s)[i] = s[i + 1]
  OBVIOUS
<1>2. ASSUME NEW x, Member(s, x), x # Head(s) PROVE Member(Tail(s), x)
  <2>1. PICK i \in 1 .. Len(s) : s[i] = x
    BY <1>2 DEF Member
  <2>2. i - 1 \in 1 .. Len(s) - 1 /\ i - 1 + 1 = i
    BY <1>1, <1>2, <2>1
  <2> QED
    BY <1>1, <2>1, <2>2 DEF Member
<1>3. ASSUME NEW x, Member(Tail(s), x) PROVE Member(s, x) /\ x # Head(s)
  <2>1. PICK i \in 1 .. Len(s) - 1 : s[i + 1] = x
    BY <1>1, <1>3 DEF Member
  <2>2. i + 1 \in 1 .. Len(s) /\ i + 1 # 1 /\ 1 \in 1 .. Len(s)
    BY <1>1
  <2> QED
    BY <1>1, <2>1, <2>2 DEF Member, Distinct
<1>4. Distinct(Tail(s))
  <2> SUFFICES ASSUME NEW i \in 1 .. Len(s) - 1, NEW j \in 1 .. Len(s) - 1,
                      s[i + 1] = s[j + 1]
               PROVE  i = j
    BY <1>1 DEF Distinct
  <2>1. i + 1 \in 1 .. Len(s) /\ j + 1 \in 1 .. Len(s)
    BY <1>1
  <2>2. i + 1 = j + 1
    BY <2>1 DEF Distinct
  <2> QED
    BY <1>1, <2>2
<1>5. Member(s, Head(s))
  <2>1. 1 \in 1 .. Len(s)
    BY <1>1
  <2> QED
    BY <1>1, <2>1 DEF Member
<1> QED
  BY <1>2, <1>3, <1>4, <1>5

LEMMA AppendMembers ==
  ASSUME NEW S, NEW s \in Seq(S), NEW e \in S, Distinct(s), ~Member(s, e)
  PROVE  /\ Distinct(Append(s, e))
         /\ \A x : Member(Append(s, e), x) <=> Member(s, x) \/ x = e
<1>1. /\ Len(Append(s, e)) = Len(s) + 1 /\ Len(s) \in Nat
      /\ Append(s, e)[Len(s) + 1] = e
      /\ \A i \in 1 .. Len(s) : Append(s, e)[i] = s[i]
  OBVIOUS
<1> QED
  BY <1>1 DEF Member, Distinct

LEMMA InitPlaced == Init => Placed
<1> SUFFICES ASSUME Init PROVE Placed
  OBVIOUS
<1> USE PipelineAssumption DEF Init, Raw!QInit, Signal!QInit, Frames
<1>1. rawQueue = <<>> /\ signalQueue = <<>> /\ Len(<<>>) = 0
  OBVIOUS
<1>2. \A x : ~Member(rawQueue, x) /\ ~Member(signalQueue, x)
  BY <1>1 DEF Member
<1>3. \A f \in Frames, k \in Places : ~In(k, f)
  BY <1>2 DEF In, Places
<1>4. InOnePlace
  BY <1>3 DEF InOnePlace
<1>5. OnceThere
  BY <1>1 DEF OnceThere, Distinct
<1> QED
  BY <1>4, <1>5 DEF Placed

(* Frame f goes from where it is to place q, or leaves at q = "nowhere".   *)
Goes(f, q) ==
    \A g \in Frames, k \in Places :
        In(k, g)' <=> IF g = f THEN k = q ELSE In(k, g)

LEMMA MovedFrame ==
  ASSUME PartsOK, InOnePlace, received' = received, undecodable' = undecodable,
         NEW f \in Frames, NEW p \in Places, In(p, f), NEW q, Goes(f, q),
         q \in Places \/ f \in undecodable
  PROVE  InOnePlace'
<1>1. \A g \in Frames, j, k \in Places : In(j, g)' /\ In(k, g)' => j = k
  BY DEF InOnePlace, Goes
<1>2. \A g \in Frames, k \in Places : In(k, g)' => g <= received'
  BY DEF InOnePlace, Goes
<1>3. \A g \in Frames \ undecodable :
         g <= received => \E k \in Places : In(k, g)'
  BY DEF InOnePlace, Goes
<1> QED
  BY <1>1, <1>2, <1>3 DEF InOnePlace

(* Nothing moves.                                                          *)
LEMMA StaysPlaced ==
  ASSUME Placed,
         UNCHANGED <<rawQueue, signalQueue, packet, signals, accumulated,
                     received, undecodable>>,
         producerPc' = "push" <=> producerPc = "push"
  PROVE  Placed'
<1>1. \A f \in Frames, k \in Places : In(k, f)' <=> In(k, f)
  BY DEF In
<1>2. InOnePlace'
  BY <1>1 DEF Placed, InOnePlace
<1>3. OnceThere'
  BY DEF Placed, OnceThere
<1> QED
  BY <1>2, <1>3 DEF Placed

LEMMA ProducerPlaced ==
  ASSUME PartsOK, Carried, Placed, ProducerStep \/ StreamEnds,
         undecodable' = undecodable
  PROVE  Placed'
<1>0. /\ received \in 0 .. MaxFrames /\ MaxFrames \in Nat
      /\ rawQueue \in Seq(Frames) /\ InOnePlace /\ OnceThere
  BY PipelineAssumption DEF PartsOK, ProducerOK, RawOK, Placed
<1> USE DEF rawVars, signalVars, workerVars, accumulatorVars
<1>1. CASE ProducerReceives
  <2>1. /\ producerPc = "receive" /\ producerPc' = "push"
        /\ received' = received + 1 /\ received' \in Frames
        /\ UNCHANGED <<rawQueue, signalQueue, packet, signals, accumulated>>
    BY <1>0, <1>1 DEF ProducerReceives, Frames
  <2>2. \A f \in Frames, k \in Places :
           In(k, f)' <=> In(k, f) \/ (k = "producer" /\ f = received + 1)
    BY <2>1 DEF In
  <2>3. \A k \in Places : ~In(k, received + 1)
    BY <1>0, <2>1 DEF InOnePlace
  <2>4. \A f \in Frames, j, k \in Places : In(j, f)' /\ In(k, f)' => j = k
    BY <1>0, <2>2, <2>3 DEF InOnePlace
  <2>5. \A f \in Frames, k \in Places : In(k, f)' => f <= received'
    BY <1>0, <2>1, <2>2 DEF InOnePlace, Frames
  <2>6. \A f \in Frames \ undecodable :
           f <= received' => \E k \in Places : In(k, f)'
    <3> SUFFICES ASSUME NEW f \in Frames \ undecodable, f <= received + 1
                 PROVE  \E k \in Places : In(k, f)'
      BY <2>1
    <3>1. CASE f = received + 1
      BY <2>2, <3>1 DEF Places
    <3>2. CASE f <= received
      BY <1>0, <2>2, <3>2 DEF InOnePlace
    <3> QED
      BY <1>0, <3>1, <3>2 DEF Frames
  <2>7. OnceThere'
    BY <1>0, <2>1 DEF OnceThere
  <2> QED
    BY <2>4, <2>5, <2>6, <2>7 DEF Placed, InOnePlace
<1>2. CASE ProducerPushes /\ Raw!Push(Producer, received)
  <2>1. /\ producerPc = "push" /\ producerPc' # "push"
        /\ rawQueue' = Append(rawQueue, received)
        /\ UNCHANGED <<signalQueue, packet, signals, accumulated, received>>
    BY <1>2 DEF ProducerPushes, Raw!Push, Raw!PushWaits
  <2>2. received \in Frames
    BY <1>0, <2>1 DEF Carried, Frames
  <2>3. In("producer", received) /\ ~In("raw", received)
    BY <1>0, <2>1, <2>2 DEF In, InOnePlace, Places
  <2>4. ~Member(rawQueue, received)
    BY <2>3 DEF In
  <2>5. /\ Distinct(rawQueue')
        /\ \A x : Member(rawQueue', x) <=> Member(rawQueue, x) \/ x = received
    BY <1>0, <2>1, <2>2, <2>4, AppendMembers DEF OnceThere
  <2>6. Goes(received, "raw")
    <3> SUFFICES ASSUME NEW g \in Frames, NEW k \in Places
                 PROVE  In(k, g)' <=> IF g = received THEN k = "raw"
                                      ELSE In(k, g)
      BY DEF Goes
    <3>1. In(k, g)' <=> (In(k, g) /\ k # "producer") \/ (k = "raw" /\ g = received)
      BY <2>1, <2>5 DEF In
    <3>2. In("producer", g) => g = received
      BY DEF In
    <3>3. g = received /\ In(k, g) => k = "producer"
      BY <1>0, <2>2, <2>3 DEF InOnePlace, Places
    <3> QED
      BY <3>1, <3>2, <3>3
  <2>7. InOnePlace'
    BY <1>0, <2>1, <2>2, <2>3, <2>6, MovedFrame DEF Places
  <2>8. OnceThere'
    BY <1>0, <2>1, <2>5 DEF OnceThere
  <2> QED
    BY <2>7, <2>8 DEF Placed
<1>3. CASE ProducerPushes /\ Raw!PushWaits(Producer)
  BY <1>3, StaysPlaced DEF ProducerPushes, Raw!PushWaits, Raw!Push
<1>4. CASE ProducerNotifies
  BY <1>4, StaysPlaced DEF ProducerNotifies, Raw!NotifyNotEmpty
<1>5. CASE ProducerFinishes
  BY <1>5, StaysPlaced
  DEF ProducerFinishes, Raw!StoreFinished, Raw!NotifyAllNotEmpty
<1>6. CASE StreamEnds
  BY <1>6, StaysPlaced DEF StreamEnds
<1> QED
  BY <1>1, <1>2, <1>3, <1>4, <1>5, <1>6 DEF ProducerStep, ProducerPushes

(* A worker takes a frame from rawQueue.                                   *)
LEMMA PopPlaced ==
  ASSUME PartsOK, Carried, Placed, NEW w \in Workers, undecodable' = undecodable,
         At(w, "pop"), Raw!Pop(w), packet' = [packet EXCEPT ![w] = Head(rawQueue)],
         UNCHANGED <<signalVars, producerVars, accumulatorVars>>
  PROVE  Placed'
<1> DEFINE f == Head(rawQueue)
<1>0. /\ rawQueue \in Seq(Frames) /\ rawQueue # <<>> /\ InOnePlace /\ OnceThere
      /\ packet \in [Workers -> {0} \cup Frames] /\ 0 \notin Frames
  BY DEF PartsOK, RawOK, WorkersOK, Placed, Raw!Pop, Frames
<1>1. /\ rawQueue' = Tail(rawQueue) /\ packet[w] = 0
      /\ packet' = [packet EXCEPT ![w] = f]
      /\ UNCHANGED <<signalQueue, producerPc, received, signals, accumulated>>
  BY DEF Raw!Pop, Carried, HasFrame, At, signalVars, producerVars,
     accumulatorVars
<1>2. /\ Distinct(rawQueue') /\ Member(rawQueue, f)
      /\ \A x : Member(rawQueue', x) <=> Member(rawQueue, x) /\ x # f
  BY <1>0, <1>1, TailMembers DEF OnceThere
<1>3. f \in Frames
  BY <1>0
<1> HIDE DEF f
<1>4. In("raw", f) /\ ~In("worker", f)
  BY <1>0, <1>2, <1>3 DEF In, InOnePlace, Places
<1>5. Goes(f, "worker")
  <2> SUFFICES ASSUME NEW g \in Frames, NEW k \in Places
               PROVE  In(k, g)' <=> IF g = f THEN k = "worker" ELSE In(k, g)
    BY DEF Goes
  <2>1. (\E v \in Workers : packet'[v] = g)
          <=> (\E v \in Workers : packet[v] = g) \/ g = f
    BY <1>0, <1>1
  <2>2. In(k, g)' <=> \/ In(k, g) /\ ~(k = "raw" /\ g = f)
                      \/ k = "worker" /\ g = f
    BY <1>1, <1>2, <2>1 DEF In
  <2>3. g = f /\ In(k, g) => k = "raw"
    BY <1>0, <1>3, <1>4 DEF InOnePlace, Places
  <2> QED
    BY <2>2, <2>3
<1>6. InOnePlace'
  BY <1>0, <1>1, <1>3, <1>4, <1>5, MovedFrame DEF Places
<1>7. \A v \in Workers : packet[v] # f
  BY <1>4 DEF In
<1>8. OnceThere'
  BY <1>0, <1>1, <1>2, <1>7 DEF OnceThere
<1> QED
  BY <1>6, <1>8 DEF Placed

(* A worker drops its frame, or pushes it into signalQueue.                *)
LEMMA PacketLeaves ==
  ASSUME PartsOK, Carried, Placed, NEW w \in Workers, undecodable' = undecodable,
         HasFrame(w), packet' = [packet EXCEPT ![w] = 0],
         UNCHANGED <<rawQueue, producerVars, accumulatorVars>>,
         \/ signalQueue' = Append(signalQueue, packet[w])
            /\ packet[w] \notin undecodable
         \/ signalQueue' = signalQueue /\ packet[w] \in undecodable
  PROVE  Placed'
<1> DEFINE f == packet[w]
           q == IF f \in undecodable THEN "nowhere" ELSE "signal"
<1>0. /\ signalQueue \in Seq(Frames \ undecodable) /\ InOnePlace /\ OnceThere
      /\ packet \in [Workers -> {0} \cup Frames] /\ 0 \notin Frames
  BY DEF PartsOK, SignalOK, WorkersOK, Placed, Frames
<1>1. /\ f \in Frames
      /\ UNCHANGED <<rawQueue, producerPc, received, signals, accumulated>>
  BY <1>0 DEF Carried, producerVars, accumulatorVars
<1>2. In("worker", f) /\ ~In("signal", f)
  BY <1>0, <1>1 DEF In, InOnePlace, Places
<1>3. ~Member(signalQueue, f)
  BY <1>2 DEF In
<1>4. /\ Distinct(signalQueue')
      /\ \A x : Member(signalQueue', x)
                  <=> Member(signalQueue, x) \/ (x = f /\ f \notin undecodable)
  <2>1. CASE f \in undecodable
    BY <1>0, <2>1 DEF OnceThere
  <2>2. CASE f \notin undecodable
    <3>1. f \in Frames \ undecodable /\ signalQueue' = Append(signalQueue, f)
      BY <1>1, <2>2
    <3> QED
      BY <1>0, <1>3, <3>1, AppendMembers DEF OnceThere
  <2> QED
    BY <2>1, <2>2
<1>5. Goes(f, q)
  <2> SUFFICES ASSUME NEW g \in Frames, NEW k \in Places
               PROVE  In(k, g)' <=> IF g = f THEN k = q ELSE In(k, g)
    BY DEF Goes
  <2>1. (\E v \in Workers : packet'[v] = g)
          <=> (\E v \in Workers : packet[v] = g) /\ g # f
    BY <1>0, <1>1 DEF OnceThere
  <2>2. In(k, g)' <=> \/ In(k, g) /\ ~(k = "worker" /\ g = f)
                      \/ k = "signal" /\ g = f /\ f \notin undecodable
    BY <1>1, <1>4, <2>1 DEF In
  <2>3. g = f /\ In(k, g) => k = "worker"
    BY <1>0, <1>1, <1>2 DEF InOnePlace, Places
  <2> QED
    BY <2>2, <2>3 DEF Places
<1>6. InOnePlace'
  BY <1>0, <1>1, <1>2, <1>5, MovedFrame DEF Places
<1>7. OnceThere'
  BY <1>0, <1>1, <1>4 DEF OnceThere
<1> QED
  BY <1>6, <1>7 DEF Placed

LEMMA WorkerPlaced ==
  ASSUME PartsOK, Carried, Placed, NEW w \in Workers, WorkerStep(w),
         undecodable' = undecodable
  PROVE  Placed'
<1> USE DEF rawVars, signalVars, producerVars, accumulatorVars
<1>1. CASE WorkerPops(w)
  <2>1. CASE Raw!Pop(w) /\ packet' = [packet EXCEPT ![w] = Head(rawQueue)]
    BY <1>1, <2>1, PopPlaced DEF WorkerPops
  <2>2. CASE Raw!PopReturnsFalse(w) /\ UNCHANGED packet
    BY <1>1, <2>2, StaysPlaced DEF WorkerPops, Raw!PopReturnsFalse, Raw!qvars
  <2>3. CASE Raw!PopFindsEmpty(w) /\ UNCHANGED packet
    BY <1>1, <2>3, StaysPlaced DEF WorkerPops, Raw!PopFindsEmpty
  <2> QED
    BY <1>1, <2>1, <2>2, <2>3 DEF WorkerPops
<1>2. CASE WorkerSleeps(w)
  BY <1>2, StaysPlaced DEF WorkerSleeps, Raw!PopSleeps
<1>3. CASE WorkerNotifiesRaw(w)
  BY <1>3, StaysPlaced DEF WorkerNotifiesRaw, Raw!NotifyNotFull
<1>4. CASE WorkerDecodes(w)
  <2>1. CASE packet[w] \in undecodable
    BY <1>4, <2>1, PacketLeaves DEF WorkerDecodes, HasFrame, At
  <2>2. CASE packet[w] \notin undecodable
    BY <1>4, <2>2, StaysPlaced DEF WorkerDecodes
  <2> QED
    BY <2>1, <2>2
<1>5. CASE WorkerPushes(w)
  <2>1. CASE Signal!Push(w, packet[w]) /\ packet' = [packet EXCEPT ![w] = 0]
    <3>1. packet[w] \notin undecodable /\ HasFrame(w)
      BY <1>5 DEF WorkerPushes, Carried, HasFrame, At
    <3>2. signalQueue' = Append(signalQueue, packet[w])
      BY <2>1 DEF Signal!Push
    <3> QED
      BY <1>5, <2>1, <3>1, <3>2, PacketLeaves DEF WorkerPushes
  <2>2. CASE Signal!PushWaits(w) /\ UNCHANGED workerVars
    BY <1>5, <2>2, StaysPlaced DEF WorkerPushes, Signal!PushWaits, workerVars
  <2> QED
    BY <1>5, <2>1, <2>2 DEF WorkerPushes
<1>6. CASE WorkerNotifiesSignal(w)
  BY <1>6, StaysPlaced DEF WorkerNotifiesSignal, Signal!NotifyNotEmpty
<1> QED
  BY <1>1, <1>2, <1>3, <1>4, <1>5, <1>6 DEF WorkerStep

(* The accumulator takes a packet from signalQueue ...                     *)
LEMMA SignalsPlaced ==
  ASSUME PartsOK, Carried, Placed, undecodable' = undecodable,
         accumulatorPc = "pop", Signal!Pop(Accumulator),
         signals' = Head(signalQueue), accumulated' = accumulated,
         UNCHANGED <<rawVars, producerVars, workerVars>>
  PROVE  Placed'
<1> DEFINE f == Head(signalQueue)
<1>0. /\ signalQueue \in Seq(Frames \ undecodable) /\ signalQueue # <<>>
      /\ InOnePlace /\ OnceThere /\ 0 \notin Frames
  BY DEF PartsOK, SignalOK, Placed, Signal!Pop, Frames
<1>1. /\ signalQueue' = Tail(signalQueue) /\ signals = 0 /\ signals' = f
      /\ UNCHANGED <<rawQueue, producerPc, received, packet, accumulated>>
  BY DEF Signal!Pop, Carried, rawVars, producerVars, workerVars
<1>2. /\ Distinct(signalQueue') /\ Member(signalQueue, f)
      /\ \A x : Member(signalQueue', x) <=> Member(signalQueue, x) /\ x # f
  BY <1>0, <1>1, TailMembers DEF OnceThere
<1>3. f \in Frames
  BY <1>0
<1> HIDE DEF f
<1>4. In("signal", f)
  BY <1>2 DEF In
<1>5. Goes(f, "accumulator")
  <2> SUFFICES ASSUME NEW g \in Frames, NEW k \in Places
               PROVE  In(k, g)' <=> IF g = f THEN k = "accumulator" ELSE In(k, g)
    BY DEF Goes
  <2>1. In(k, g)' <=> \/ In(k, g) /\ ~(k = "signal" /\ g = f)
                      \/ k = "accumulator" /\ g = f
    BY <1>0, <1>1, <1>2 DEF In
  <2>2. g = f /\ In(k, g) => k = "signal"
    BY <1>0, <1>3, <1>4 DEF InOnePlace, Places
  <2> QED
    BY <2>1, <2>2
<1>6. InOnePlace'
  BY <1>0, <1>1, <1>3, <1>4, <1>5, MovedFrame DEF Places
<1>7. OnceThere'
  BY <1>0, <1>1, <1>2 DEF OnceThere
<1> QED
  BY <1>6, <1>7 DEF Placed

(* ... and adds it to the image, where it is not yet.                      *)
LEMMA AddsPlaced ==
  ASSUME PartsOK, Carried, Placed, undecodable' = undecodable, AccumulatorAdds
  PROVE  /\ Placed' /\ signals \in Frames \ undecodable
         /\ signals <= received /\ accumulated[signals] = 0
<1>0. /\ signals \in {0} \cup (Frames \ undecodable) /\ 0 \notin Frames
      /\ accumulated \in [Frames -> Nat] /\ InOnePlace /\ OnceThere
  BY DEF PartsOK, AccumulatorOK, Placed, Frames
<1>1. signals \in Frames \ undecodable
  BY <1>0 DEF AccumulatorAdds, Carried
<1>2. /\ accumulated' = [accumulated EXCEPT ![signals] = @ + 1] /\ signals' = 0
      /\ UNCHANGED <<rawQueue, signalQueue, producerPc, received, packet>>
  BY DEF AccumulatorAdds, rawVars, signalVars, producerVars, workerVars
<1>3. In("accumulator", signals) /\ ~In("image", signals)
  BY <1>0, <1>1 DEF In, InOnePlace, Places
<1>4. accumulated[signals] = 0
  BY <1>0, <1>1, <1>3 DEF In
<1>5. Goes(signals, "image")
  <2> SUFFICES ASSUME NEW g \in Frames, NEW k \in Places
               PROVE  In(k, g)' <=> IF g = signals THEN k = "image" ELSE In(k, g)
    BY DEF Goes
  <2>1. In(k, g)' <=> \/ In(k, g) /\ ~(k = "accumulator" /\ g = signals)
                      \/ k = "image" /\ g = signals
    BY <1>0, <1>1, <1>2, <1>4 DEF In
  <2>2. g = signals /\ In(k, g) => k = "accumulator"
    BY <1>0, <1>1, <1>3 DEF InOnePlace, Places
  <2> QED
    BY <2>1, <2>2
<1>6. InOnePlace'
  BY <1>0, <1>1, <1>2, <1>3, <1>5, MovedFrame DEF Places
<1>7. OnceThere'
  BY <1>0, <1>1, <1>2, <1>4 DEF OnceThere
<1>8. signals <= received
  BY <1>0, <1>1, <1>3 DEF InOnePlace, Places
<1> QED
  BY <1>1, <1>4, <1>6, <1>7, <1>8 DEF Placed

LEMMA NextPlaced ==
  PartsOK /\ Carried /\ Placed /\ [Next]_<<vars, undecodable>> => Placed'
<1> SUFFICES ASSUME PartsOK, Carried, Placed, [Next]_<<vars, undecodable>>
             PROVE  Placed'
  OBVIOUS
<1>0. undecodable' = undecodable
  BY DEF Next
<1> USE DEF rawVars, signalVars, producerVars, workerVars, accumulatorVars
<1>1. CASE UNCHANGED <<vars, undecodable>>
  BY <1>1, StaysPlaced DEF vars
<1>2. CASE ProducerStep \/ StreamEnds
  BY <1>0, <1>2, ProducerPlaced
<1>3. ASSUME NEW w \in Workers, WorkerStep(w) PROVE Placed'
  BY <1>0, <1>3, WorkerPlaced
<1>4. CASE AccumulatorPops
  <2>1. CASE Signal!Pop(Accumulator) /\ signals' = Head(signalQueue)
    BY <1>0, <1>4, <2>1, SignalsPlaced DEF AccumulatorPops
  <2>2. CASE /\ UNCHANGED signals
             /\ \/ Signal!PopReturnsFalse(Accumulator)
                \/ Signal!PopFindsEmpty(Accumulator)
    BY <1>0, <1>4, <2>2, StaysPlaced
    DEF AccumulatorPops, Signal!PopReturnsFalse, Signal!PopFindsEmpty,
        Signal!qvars
  <2> QED
    BY <1>4, <2>1, <2>2 DEF AccumulatorPops
<1>5. CASE AccumulatorSleeps \/ AccumulatorNotifies
  BY <1>0, <1>5, StaysPlaced DEF AccumulatorSleeps, AccumulatorNotifies,
     Signal!PopSleeps, Signal!NotifyNotFull
<1>6. CASE AccumulatorAdds
  BY <1>0, <1>6, AddsPlaced
<1>7. CASE MainStep
  BY <1>0, <1>7, StaysPlaced DEF MainStep, JoinProducer, JoinWorkers,
     CloseSignals, JoinAccumulator, Signal!StoreFinished,
     Signal!NotifyAllNotEmpty
<1> QED
  BY <1>1, <1>2, <1>3, <1>4, <1>5, <1>6, <1>7 DEF Next, AccumulatorStep

-----------------------------------------------------------------------------
(* What has ended has left nothing: a thread that has ended, and a join    *)
(* that main() is past.                                                    *)
Ends ==
    /\ rawFinished <=> producerPc \in {"notifyAll", "exit"}
    /\ mainPc # "joinProducer" => producerPc = "exit"
    /\ \A w \in Workers : workerPc[w] = "exit" => rawFinished /\ rawQueue = <<>>
    /\ mainPc \notin {"joinProducer", "joinWorkers"}
          => \A w \in Workers : workerPc[w] = "exit"
    /\ signalFinished <=> mainPc \in {"notifyAll", "joinAccumulator", "done"}
    /\ accumulatorPc = "exit" => signalFinished /\ signalQueue = <<>>
    /\ mainPc = "done" => accumulatorPc = "exit"

LEMMA InitEnds == Init => Ends
  BY DEF Init, Ends, Raw!QInit, Signal!QInit

LEMMA NextEnds ==
  PartsOK /\ Ends /\ [Next]_<<vars, undecodable>> => Ends'
<1> SUFFICES ASSUME PartsOK, Ends, [Next]_<<vars, undecodable>> PROVE Ends'
  OBVIOUS
<1>0. WorkersOK /\ MainOK /\ ProducerOK
  BY DEF PartsOK
<1> USE DEF rawVars, signalVars, producerVars, workerVars, accumulatorVars
<1>1. CASE UNCHANGED <<vars, undecodable>>
  BY <1>1 DEF vars, Ends
<1>2. CASE ProducerReceives \/ ProducerNotifies \/ StreamEnds
  BY <1>2 DEF ProducerReceives, ProducerNotifies, StreamEnds,
     Raw!NotifyNotEmpty, Ends
<1>3. CASE ProducerPushes
  BY <1>3 DEF ProducerPushes, Raw!Push, Raw!PushWaits, Ends
<1>4. CASE ProducerFinishes
  BY <1>4 DEF ProducerFinishes, Raw!StoreFinished, Raw!NotifyAllNotEmpty, Ends
<1>5. ASSUME NEW w \in Workers, WorkerPops(w) PROVE Ends'
  <2>1. CASE Raw!Pop(w) /\ GoTo(w, "notifyRaw")
    BY <1>0, <1>5, <2>1
    DEF WorkerPops, Raw!Pop, GoTo, At, Ends, WorkersOK
  <2>2. CASE Raw!PopReturnsFalse(w) /\ GoTo(w, "exit")
    BY <1>0, <1>5, <2>2
    DEF WorkerPops, Raw!PopReturnsFalse, Raw!qvars, GoTo, At, Ends, WorkersOK
  <2>3. CASE Raw!PopFindsEmpty(w) /\ GoTo(w, "sleep")
    BY <1>0, <1>5, <2>3
    DEF WorkerPops, Raw!PopFindsEmpty, GoTo, At, Ends, WorkersOK
  <2> QED
    BY <1>5, <2>1, <2>2, <2>3 DEF WorkerPops
<1>6. ASSUME NEW w \in Workers,
             WorkerSleeps(w) \/ WorkerNotifiesRaw(w) \/ WorkerDecodes(w)
      PROVE  Ends'
  BY <1>0, <1>6 DEF WorkerSleeps, WorkerNotifiesRaw, WorkerDecodes,
     Raw!PopSleeps, Raw!NotifyNotFull, GoTo, At, Ends, WorkersOK
<1>7. ASSUME NEW w \in Workers, WorkerPushes(w) \/ WorkerNotifiesSignal(w)
      PROVE  Ends'
  BY <1>0, <1>7 DEF WorkerPushes, WorkerNotifiesSignal, Signal!Push,
     Signal!PushWaits, Signal!NotifyNotEmpty, GoTo, At, Ends, WorkersOK, MainOK
<1>8. CASE AccumulatorStep
  BY <1>8 DEF AccumulatorStep, AccumulatorPops, AccumulatorSleeps,
     AccumulatorNotifies, AccumulatorAdds, Signal!Pop, Signal!PopReturnsFalse,
     Signal!PopFindsEmpty, Signal!PopSleeps, Signal!NotifyNotFull,
     Signal!qvars, Ends
<1>9. CASE MainStep
  BY <1>9 DEF MainStep, JoinProducer, JoinWorkers, CloseSignals,
     JoinAccumulator, Signal!StoreFinished, Signal!NotifyAllNotEmpty, At, Ends
<1> QED
  BY <1>1, <1>2, <1>3, <1>4, <1>5, <1>6, <1>7, <1>8, <1>9
  DEF Next, ProducerStep, WorkerStep

PipeInv == PartsOK /\ Carried /\ Placed /\ Ends

LEMMA PipeInvHolds == Spec => []PipeInv
<1>1. Init => PipeInv
  BY InitPartsOK, InitPlaced, InitEnds DEF PipeInv
<1>2. PipeInv /\ [Next]_<<vars, undecodable>> => PipeInv'
  BY NextPartsOK, NextPlaced, NextEnds DEF PipeInv
<1> QED
  BY <1>1, <1>2, PTL DEF Spec

(* When main() is done, the image is the only place left.                  *)
LEMMA DoneMeansAll ==
  ASSUME PipeInv, accumulatorPc = "exit",
         NEW f \in (1 .. received) \ undecodable
  PROVE  accumulated[f] = 1
<1>1. /\ PartsOK /\ Carried /\ InOnePlace /\ OnceThere /\ Ends
  BY DEF PipeInv, Placed
<1>2. /\ producerPc = "exit" /\ signalQueue = <<>> /\ signals = 0
      /\ \A w \in Workers : workerPc[w] = "exit"
  BY <1>1 DEF Ends, Carried
<1>3. rawQueue = <<>>
  BY <1>1, <1>2, PipelineAssumption DEF Ends
<1>4. \A w \in Workers : packet[w] = 0
  BY <1>1, <1>2 DEF Carried, HasFrame
<1>5. f \in Frames /\ f # 0
  BY <1>1, PipelineAssumption DEF PartsOK, ProducerOK, Frames
<1>6. Len(rawQueue) = 0 /\ Len(signalQueue) = 0
  BY <1>2, <1>3
<1>7. \A k \in Places : In(k, f) => k = "image"
  BY <1>2, <1>4, <1>5, <1>6 DEF In, Member
<1>8. \E k \in Places : In(k, f)
  BY <1>1, <1>5 DEF InOnePlace
<1> QED
  BY <1>1, <1>5, <1>7, <1>8 DEF In, OnceThere

-----------------------------------------------------------------------------
(* The copies of a frame, counted: one in the place where it is.           *)
LEMMA CountMembers ==
  ASSUME NEW S, NEW s \in Seq(S), Distinct(s), NEW x
  PROVE  Cardinality({i \in 1 .. Len(s) : s[i] = x})
            = IF Member(s, x) THEN 1 ELSE 0
<1>1. CASE Member(s, x)
  <2>1. PICK i \in 1 .. Len(s) : s[i] = x
    BY <1>1 DEF Member
  <2>2. {j \in 1 .. Len(s) : s[j] = x} = {i}
    BY <2>1 DEF Distinct
  <2> QED
    BY <1>1, <2>2, FS_Singleton
<1>2. CASE ~Member(s, x)
  <2>1. {j \in 1 .. Len(s) : s[j] = x} = {}
    BY <1>2 DEF Member
  <2> QED
    BY <1>2, <2>1, FS_EmptySet
<1> QED
  BY <1>1, <1>2

LEMMA CountPackets ==
  ASSUME OnceThere, NEW f, f # 0
  PROVE  Cardinality({w \in Workers : packet[w] = f})
            = IF \E w \in Workers : packet[w] = f THEN 1 ELSE 0
<1>1. CASE \E w \in Workers : packet[w] = f
  <2>1. PICK w \in Workers : packet[w] = f
    BY <1>1
  <2>2. {v \in Workers : packet[v] = f} = {w}
    BY <2>1 DEF OnceThere
  <2> QED
    BY <1>1, <2>2, FS_Singleton
<1>2. CASE ~\E w \in Workers : packet[w] = f
  <2>1. {v \in Workers : packet[v] = f} = {}
    BY <1>2
  <2> QED
    BY <1>2, <2>1, FS_EmptySet
<1> QED
  BY <1>1, <1>2

LEMMA CopiesCounted == PipeInv => OneCopyOfEachFrame
<1> SUFFICES ASSUME PipeInv, NEW f \in Frames \ undecodable
             PROVE  Copies(f) = IF f <= received THEN 1 ELSE 0
  BY DEF OneCopyOfEachFrame
<1>1. /\ rawQueue \in Seq(Frames) /\ signalQueue \in Seq(Frames \ undecodable)
      /\ InOnePlace /\ OnceThere /\ f # 0 /\ f \in Frames
  BY DEF PipeInv, Placed, PartsOK, RawOK, SignalOK, Frames
<1> DEFINE n(k) == IF In(k, f) THEN 1 ELSE 0
<1>2. Cardinality({i \in 1 .. Len(rawQueue) : rawQueue[i] = f}) = n("raw")
  BY <1>1, CountMembers DEF In, OnceThere
<1>3. Cardinality({i \in 1 .. Len(signalQueue) : signalQueue[i] = f})
        = n("signal")
  BY <1>1, CountMembers DEF In, OnceThere
<1>4. Cardinality({w \in Workers : packet[w] = f}) = n("worker")
  BY <1>1, CountPackets DEF In
<1>5. /\ (IF producerPc = "push" /\ received = f THEN 1 ELSE 0) = n("producer")
      /\ (IF signals = f THEN 1 ELSE 0) = n("accumulator")
      /\ accumulated[f] = n("image")
  BY <1>1 DEF In, OnceThere
<1>6. Copies(f) = n("raw") + n("signal") + n("worker") + n("producer")
                  + n("accumulator") + n("image")
  BY <1>2, <1>3, <1>4, <1>5 DEF Copies
<1>7. CASE f <= received
  <2>1. PICK k \in Places : In(k, f)
    BY <1>1, <1>7 DEF InOnePlace
  <2>2. \A j \in Places : In(j, f) <=> j = k
    BY <1>1, <2>1 DEF InOnePlace
  <2> QED
    BY <1>6, <1>7, <2>2 DEF Places
<1>8. CASE ~(f <= received)
  <2>1. \A j \in Places : ~In(j, f)
    BY <1>1, <1>8 DEF InOnePlace
  <2> QED
    BY <1>6, <1>8, <2>1 DEF Places
<1> QED
  BY <1>7, <1>8

(* For any number of workers and frames, any capacities and any frames     *)
(* that cannot be decoded: each usable frame that was received is in one   *)
(* place on its way or once in the image, and the image that main() goes   *)
(* on with misses none (concurrent_queue.h:20-41, main.cpp:214-218).       *)
THEOREM EachFrameOnce == Spec => []FramesAccountedFor
<1>1. PipeInv => TypeOK
  BY TypeParts DEF PipeInv
<1>2. PipeInv => ImageIsComplete
  BY DoneMeansAll DEF PipeInv, Ends, ImageIsComplete
<1>3. PipeInv => FramesAccountedFor
  BY <1>1, <1>2, CopiesCounted DEF FramesAccountedFor
<1> QED
  BY <1>3, PipeInvHolds, PTL

-----------------------------------------------------------------------------
(* A step that neither receives nor adds nor ends the joins is none of     *)
(* Reconstruction.                                                         *)
LEMMA AbstractStep ==
  PipeInv /\ [Next]_<<vars, undecodable>>
     => [Abstract!RNext]_(Abstract!rvars)
<1> SUFFICES ASSUME PipeInv, [Next]_<<vars, undecodable>>
             PROVE  [Abstract!RNext]_(Abstract!rvars)
  OBVIOUS
<1>0. /\ PartsOK /\ Carried /\ Placed /\ Ends /\ undecodable' = undecodable
  BY DEF PipeInv, Next
<1> USE DEF rawVars, signalVars, producerVars, workerVars, accumulatorVars
<1>1. CASE ProducerReceives
  <2>1. mainPc # "done"
    BY <1>0, <1>1 DEF ProducerReceives, Ends
  <2>2. Abstract!Arrive
    BY <1>1, <2>1 DEF ProducerReceives, Abstract!Arrive
  <2> QED
    BY <1>0, <2>2 DEF Abstract!RNext
<1>2. CASE AccumulatorAdds
  <2>1. /\ signals \in Frames \ undecodable /\ signals <= received
        /\ accumulated[signals] = 0
    BY <1>0, <1>2, AddsPlaced
  <2>2. mainPc # "done"
    BY <1>0, <1>2 DEF AccumulatorAdds, Ends
  <2>3. signals \in Abstract!Usable
    BY <1>0, <2>1, PipelineAssumption
    DEF Abstract!Usable, Frames, PartsOK, ProducerOK
  <2>4. accumulated' = [accumulated EXCEPT ![signals] = 1]
    BY <1>0, <1>2, <2>1 DEF AccumulatorAdds
  <2>5. Abstract!Add(signals)
    BY <1>2, <2>1, <2>2, <2>3, <2>4 DEF Abstract!Add, AccumulatorAdds
  <2> QED
    BY <1>0, <2>1, <2>5 DEF Abstract!RNext, Frames
<1>3. CASE JoinAccumulator
  <2>1. accumulatorPc = "exit" /\ mainPc # "done" /\ mainPc' = "done"
    BY <1>3 DEF JoinAccumulator
  <2>2. \A f \in Abstract!Usable : accumulated[f] = 1
    BY <2>1, DoneMeansAll DEF Abstract!Usable
  <2>3. Abstract!Use
    BY <1>3, <2>1, <2>2 DEF JoinAccumulator, Abstract!Use
  <2> QED
    BY <1>0, <2>3 DEF Abstract!RNext
<1>4. ASSUME UNCHANGED <<received, accumulated>>,
             mainPc' = "done" <=> mainPc = "done"
      PROVE  UNCHANGED Abstract!rvars
  BY <1>0, <1>4 DEF Abstract!rvars
<1>5. CASE UNCHANGED <<vars, undecodable>>
  BY <1>4, <1>5 DEF vars
<1>6. CASE ProducerPushes \/ ProducerNotifies \/ ProducerFinishes \/ StreamEnds
  BY <1>4, <1>6 DEF ProducerPushes, ProducerNotifies, ProducerFinishes,
     StreamEnds
<1>7. ASSUME NEW w \in Workers, WorkerStep(w)
      PROVE  UNCHANGED Abstract!rvars
  BY <1>4, <1>7 DEF WorkerStep, WorkerPops, WorkerSleeps, WorkerNotifiesRaw,
     WorkerDecodes, WorkerPushes, WorkerNotifiesSignal
<1>8. CASE AccumulatorPops \/ AccumulatorSleeps \/ AccumulatorNotifies
  BY <1>4, <1>8 DEF AccumulatorPops, AccumulatorSleeps, AccumulatorNotifies
<1>9. CASE JoinProducer \/ JoinWorkers \/ CloseSignals
  BY <1>4, <1>9 DEF JoinProducer, JoinWorkers, CloseSignals
<1> QED
  BY <1>1, <1>2, <1>3, <1>5, <1>6, <1>7, <1>8, <1>9
  DEF Next, ProducerStep, AccumulatorStep, MainStep

(* The threads, their queues and the joins implement Reconstruction: a     *)
(* frame is added once and after it was read, nothing is added after       *)
(* main() went on, and main() goes on only with the whole image            *)
(* (main.cpp:192-245).                                                     *)
THEOREM PipelineImplements == Spec => ImplementsReconstruction
<1>1. Init => Abstract!RInit
  BY DEF Init, Abstract!RInit, Frames
<1> QED
  BY <1>1, AbstractStep, PipeInvHolds, PTL
  DEF Spec, ImplementsReconstruction, Abstract!RSpec

-----------------------------------------------------------------------------
(* The pipeline of reconstruct_serial.cpp.                                 *)

(* A process that aborted keeps the state of its threads, and every other  *)
(* step of the serial program is one of a thread of main.cpp.              *)
LEMMA SerialStep == [SNext]_svars => [Next]_<<vars, undecodable>>
<1> SUFFICES ASSUME [SNext]_svars PROVE [Next]_<<vars, undecodable>>
  OBVIOUS
<1>1. CASE program = "serial" /\ SerialNext
  <2>1. CASE ReadThrows
    BY <1>1, <2>1 DEF SerialNext, ReadThrows
  <2>2. CASE ReadFrame \/ PositionsEnd \/ AddAndKeep \/ OtherSteps
    BY <1>1, <2>2 DEF SerialNext, ReadFrame, PositionsEnd, AddAndKeep,
       OtherSteps, Next, ProducerStep, AccumulatorStep
  <2> QED
    BY <1>1, <2>1, <2>2 DEF SerialNext
<1> QED
  BY <1>1 DEF SNext, svars

LEMMA SerialRuns == SSpec => Spec
<1>1. SInit => Init
  BY DEF SInit
<1> QED
  BY <1>1, SerialStep, PTL DEF SSpec, Spec

(* What holds of the frames on their way through the queues of main.cpp    *)
(* holds of the positions of a scan: the two programs share them, and      *)
(* reconstruct_serial.cpp may abort at any file (concurrent_queue.h:20-41, *)
(* reconstruct_serial.cpp:498-509).                                        *)
THEOREM EachPositionOnce == SSpec => []FramesAccountedFor
  BY SerialRuns, EachFrameOnce

(* For any scan, any unreadable files and any number of threads, both      *)
(* programs implement Reconstruction (reconstruct_serial.cpp:498-589,      *)
(* main.cpp:192-245).                                                      *)
THEOREM SerialImplements == SSpec => ImplementsReconstruction
  BY SerialRuns, PipelineImplements

-----------------------------------------------------------------------------
(* The rows of spot_signals.csv are those of the frames in the image, each *)
(* once, and the producer that has left its loop has read every position.  *)
Rows ==
    /\ allSignals \in Seq(Frames) /\ Distinct(allSignals)
    /\ \A f \in Frames : Member(allSignals, f) <=> accumulated[f] = 1

Kept ==
    program = "serial" =>
        /\ undecodable = {}
        /\ Rows
        /\ producerPc \notin {"receive", "push", "notify"} => received = MaxFrames

LEMMA InitKept == SInit => Kept
<1> SUFFICES ASSUME SInit PROVE Kept
  OBVIOUS
<1>1. allSignals = <<>> /\ <<>> \in Seq(Frames) /\ Len(<<>>) = 0
  BY DEF SInit
<1>2. Rows
  BY <1>1 DEF SInit, Init, Rows, Member, Distinct
<1> QED
  BY <1>2 DEF SInit, Init, Kept

LEMMA RowAdded ==
  ASSUME PipeInv, Rows, undecodable' = undecodable, AddAndKeep
  PROVE  Rows'
<1>1. /\ signals \in Frames \ undecodable /\ accumulated[signals] = 0
      /\ accumulated \in [Frames -> Nat]
  BY AddsPlaced DEF PipeInv, AddAndKeep, PartsOK, AccumulatorOK
<1>2. ~Member(allSignals, signals)
  BY <1>1 DEF Rows
<1>3. /\ Distinct(allSignals')
      /\ \A x : Member(allSignals', x) <=> Member(allSignals, x) \/ x = signals
  BY <1>1, <1>2, AppendMembers DEF Rows, AddAndKeep
<1>4. allSignals' \in Seq(Frames)
  BY <1>1 DEF Rows, AddAndKeep
<1>5. accumulated' = [accumulated EXCEPT ![signals] = 1]
  BY <1>1 DEF AddAndKeep, AccumulatorAdds
<1>6. ASSUME NEW f \in Frames
      PROVE  Member(allSignals', f) <=> accumulated'[f] = 1
  BY <1>1, <1>3, <1>5 DEF Rows
<1>7. \A f \in Frames : Member(allSignals, f)' <=> accumulated'[f] = 1
  BY <1>6 DEF Member
<1>8. Distinct(allSignals)'
  BY <1>3 DEF Distinct
<1> QED
  BY <1>4, <1>7, <1>8 DEF Rows

LEMMA NextKept == PipeInv /\ Kept /\ [SNext]_svars => Kept'
<1> SUFFICES ASSUME PipeInv, Kept, [SNext]_svars, program = "serial"
             PROVE  Kept'
  BY DEF Kept, SNext, svars
<1>0. /\ undecodable = {} /\ undecodable' = undecodable /\ Rows
      /\ producerPc \notin {"receive", "push", "notify"} => received = MaxFrames
  BY DEF Kept, SNext, SerialNext, svars
<1>1. ASSUME UNCHANGED <<allSignals, accumulated>> PROVE Rows'
  BY <1>0, <1>1 DEF Rows, Member, Distinct, Frames
<1>2. CASE UNCHANGED svars
  BY <1>0, <1>1, <1>2
  DEF svars, serialVars, vars, accumulatorVars, producerVars, Kept
<1>3. CASE ReadFrame
  BY <1>0, <1>1, <1>3
  DEF ReadFrame, ProducerReceives, serialVars, accumulatorVars, Kept
<1>4. CASE ReadThrows
  BY <1>0, <1>1, <1>4
  DEF ReadThrows, vars, accumulatorVars, producerVars, Kept
<1>5. CASE PositionsEnd
  BY <1>0, <1>1, <1>5
  DEF PositionsEnd, StreamEnds, serialVars, accumulatorVars, Kept
<1>6. CASE AddAndKeep
  BY <1>0, <1>6, RowAdded DEF AddAndKeep, AccumulatorAdds, producerVars, Kept
<1>7. CASE OtherSteps
  <2>1. UNCHANGED <<allSignals, accumulated, received>>
    BY <1>7
    DEF OtherSteps, serialVars, accumulatorVars, producerVars,
        ProducerPushes, ProducerNotifies, ProducerFinishes,
        AccumulatorPops, AccumulatorSleeps, AccumulatorNotifies,
        MainStep, JoinProducer, JoinWorkers, CloseSignals, JoinAccumulator,
        WorkerStep, WorkerPops, WorkerSleeps, WorkerNotifiesRaw, WorkerDecodes,
        WorkerPushes, WorkerNotifiesSignal
  <2>2. producerPc \in {"receive", "push", "notify"}
           => producerPc' \in {"receive", "push", "notify"}
    BY <1>7
    DEF OtherSteps, accumulatorVars, producerVars,
        ProducerPushes, ProducerNotifies, ProducerFinishes,
        AccumulatorPops, AccumulatorSleeps, AccumulatorNotifies,
        MainStep, JoinProducer, JoinWorkers, CloseSignals, JoinAccumulator,
        WorkerStep, WorkerPops, WorkerSleeps, WorkerNotifiesRaw, WorkerDecodes,
        WorkerPushes, WorkerNotifiesSignal
  <2> QED
    BY <1>0, <1>1, <2>1, <2>2 DEF Kept
<1> QED
  BY <1>2, <1>3, <1>4, <1>5, <1>6, <1>7 DEF SNext, SerialNext

(* A file with one row for each frame and no other has as many as frames.  *)
LEMMA OneRowEach ==
  ASSUME NEW s \in Seq(Frames), Distinct(s), \A f \in Frames : Member(s, f)
  PROVE  Len(s) = MaxFrames /\ {s[i] : i \in 1 .. Len(s)} = Frames
<1>1. s \in [1 .. Len(s) -> Frames] /\ Len(s) \in Nat /\ MaxFrames \in Nat
  BY PipelineAssumption
<1>2. {s[i] : i \in 1 .. Len(s)} = Frames
  BY <1>1 DEF Member
<1>3. s \in Bijection(1 .. Len(s), Frames)
  BY <1>1 DEF Bijection, Injection, Surjection, IsInjective, Member, Distinct
<1>4. ASSUME NEW n \in Nat
      PROVE  IsFiniteSet(1 .. n) /\ Cardinality(1 .. n) = n
  <2>1. 1 \in Int /\ n \in Int
    OBVIOUS
  <2>2. IsFiniteSet(1 .. n) /\ Cardinality(1 .. n) = IF 1 > n THEN 0 ELSE n - 1 + 1
    BY <2>1, FS_Interval
  <2> QED
    BY <2>2
<1>5. Cardinality(Frames) = Cardinality(1 .. Len(s))
  BY <1>1, <1>3, <1>4, FS_Bijection DEF ExistsBijection
<1> QED
  BY <1>1, <1>2, <1>4, <1>5 DEF Frames

(* The serial program gets past the joins only with every position of the  *)
(* scan in the image and one row for each in spot_signals.csv, for any     *)
(* number of positions and threads (reconstruct_serial.cpp:500-589).       *)
THEOREM ScanIsWhole == SSpec => []WholeScanOrNothing
<1>1. ASSUME PipeInv, Kept, program = "serial", mainPc = "done"
      PROVE  /\ Len(allSignals) = MaxFrames
             /\ {allSignals[i] : i \in 1 .. Len(allSignals)} = Frames
             /\ \A f \in Frames : accumulated[f] = 1
  <2>1. undecodable = {} /\ Rows
    BY <1>1 DEF Kept
  <2>2. producerPc = "exit" /\ accumulatorPc = "exit"
    BY <1>1 DEF PipeInv, Ends
  <2>3. (1 .. received) \ undecodable = Frames
    BY <1>1, <2>1, <2>2 DEF Kept, Frames
  <2>4. \A f \in Frames : accumulated[f] = 1
    BY <1>1, <2>2, <2>3, DoneMeansAll
  <2> QED
    BY <2>1, <2>4, OneRowEach DEF Rows
<1>2. PipeInv /\ Kept => WholeScanOrNothing
  BY <1>1 DEF WholeScanOrNothing
<1> QED
  BY <1>2, InitKept, NextKept, SerialRuns, PipeInvHolds, PTL DEF SSpec
=============================================================================
