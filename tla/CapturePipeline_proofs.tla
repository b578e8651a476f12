------------------------ MODULE CapturePipeline_proofs ------------------------
(***************************************************************************)
(* Theorems about CapturePipeline for any queue, any pool with two spare   *)
(* buffers, any number of frames and any order of start() and stop().      *)
(***************************************************************************)
EXTENDS CapturePipeline, FiniteSetTheorems, SequenceTheorems, TLAPS

-----------------------------------------------------------------------------
(* Which thread is where while the caller is in start(), stop() or the     *)
(* destructor.                                                             *)
Working == capturePc \notin {"none", "exited"}
Stopped == control = "idle" /\ ~appRunning

Threads ==
    /\ camRunning => Working
    /\ Working => camRunning \/ control = "joinCapture"
    /\ capturePc = "exited" => openFailed \/ control = "joinCapture"
    /\ Stopped \/ control \in {"stopQueue", "joinSender", "startCamera",
                               "aborted", "poolGone", "gone"} => ~Working
    /\ Stopped \/ control \in {"startCamera", "startSender", "aborted",
                               "poolGone", "gone"} => senderPc = "none"
    /\ control \in {"startCamera", "startSender"} => appRunning
    /\ Stopped => ~connected
    /\ control = "aborted" => openFailed

LEMMA InitThreads == Init => Threads
  BY DEF Init, Threads, Working, Stopped

LEMMA NextThreads == Threads /\ [Next]_vars => Threads'
<1> SUFFICES ASSUME Threads, [Next]_vars PROVE Threads'
  OBVIOUS
<1> USE DEF Threads, Working, Stopped, vars, controlVars, captureVars,
            senderVars
<1>1. CASE CallStart \/ StartCamera \/ StartSender
  BY <1>1 DEF CallStart, StartCamera, StartSender
<1>2. CASE CallStop \/ StopCamera \/ JoinCapture
  BY <1>2 DEF CallStop, StopCamera, JoinCapture
<1>3. CASE StopQueue \/ JoinSender \/ DestroyPool \/ DestroyQueue
  BY <1>3 DEF StopQueue, JoinSender, DestroyPool, DestroyQueue
<1>4. CASE Alive /\ Capture
  BY <1>4 DEF Alive, Capture, CameraOpens, CameraOpenFails, CaptureReads,
     CaptureExits, CaptureAcquires, CapturePushes, CaptureReleases
<1>5. CASE Alive /\ Sender
  BY <1>5 DEF Alive, Sender, SenderChecks, SenderPops, SendSucceeds, SendFails
<1>6. CASE UNCHANGED vars
  BY <1>6
<1> QED
  BY <1>1, <1>2, <1>3, <1>4, <1>5, <1>6 DEF Next, ControlGoesOn

-----------------------------------------------------------------------------
(* The queue.                                                              *)
Ordered(q) == \A i, j \in 1 .. Len(q) : i < j => q[i].id < q[j].id

LEMMA TailOfQueue ==
  ASSUME NEW q \in Seq(Frames), q # <<>>
  PROVE  /\ Tail(q) \in Seq(Frames) /\ Len(Tail(q)) = Len(q) - 1
         /\ Head(q) \in Frames
         /\ InQueue(q) = InQueue(Tail(q)) \cup {Head(q)}
         /\ Ordered(q) => /\ Ordered(Tail(q))
                          /\ \A f \in InQueue(Tail(q)) : Head(q).id < f.id
<1>1. /\ Tail(q) \in Seq(Frames) /\ Len(Tail(q)) = Len(q) - 1
      /\ Len(q) \in Nat /\ Len(q) >= 1 /\ Head(q) = q[1] /\ q[1] \in Frames
      /\ \A i \in 1 .. Len(q) - 1 : Tail(q)[i] = q[i + 1]
  OBVIOUS
<1>2. InQueue(q) = InQueue(Tail(q)) \cup {Head(q)}
  <2>1. ASSUME NEW i \in 1 .. Len(q)
        PROVE  q[i] \in InQueue(Tail(q)) \cup {Head(q)}
    <3>1. CASE i = 1
      BY <1>1, <3>1
    <3>2. CASE i # 1
      <4>1. i - 1 \in 1 .. Len(Tail(q)) /\ Tail(q)[i - 1] = q[i]
        BY <1>1, <3>2
      <4> QED
        BY <4>1 DEF InQueue
    <3> QED
      BY <3>1, <3>2
  <2>2. ASSUME NEW i \in 1 .. Len(Tail(q)) PROVE Tail(q)[i] \in InQueue(q)
    <3>1. i + 1 \in 1 .. Len(q) /\ Tail(q)[i] = q[i + 1]
      BY <1>1
    <3> QED
      BY <3>1 DEF InQueue
  <2>3. Head(q) \in InQueue(q)
    BY <1>1 DEF InQueue
  <2> QED
    BY <2>1, <2>2, <2>3 DEF InQueue
<1>3. ASSUME Ordered(q)
      PROVE  Ordered(Tail(q)) /\ \A f \in InQueue(Tail(q)) : Head(q).id < f.id
  BY <1>1, <1>3 DEF Ordered, InQueue
<1> QED
  BY <1>1, <1>2, <1>3

LEMMA AppendToQueue ==
  ASSUME NEW q \in Seq(Frames), NEW f \in Frames
  PROVE  /\ Append(q, f) \in Seq(Frames) /\ Len(Append(q, f)) = Len(q) + 1
         /\ InQueue(Append(q, f)) = InQueue(q) \cup {f}
         /\ Ordered(q) /\ (\A g \in InQueue(q) : g.id < f.id)
               => Ordered(Append(q, f))
<1>1. /\ Append(q, f) \in Seq(Frames) /\ Len(Append(q, f)) = Len(q) + 1
      /\ Len(q) \in Nat /\ Append(q, f)[Len(q) + 1] = f
      /\ \A i \in 1 .. Len(q) : Append(q, f)[i] = q[i]
  OBVIOUS
<1>2. 1 .. Len(q) + 1 = (1 .. Len(q)) \cup {Len(q) + 1}
  BY <1>1
<1>3. InQueue(Append(q, f)) = InQueue(q) \cup {f}
  BY <1>1, <1>2 DEF InQueue
<1>4. ASSUME Ordered(q), \A g \in InQueue(q) : g.id < f.id
      PROVE  Ordered(Append(q, f))
  BY <1>1, <1>2, <1>4 DEF Ordered, InQueue
<1> QED
  BY <1>1, <1>3, <1>4

(* push(): the frame is last, and a full queue loses its first.            *)
LEMMA PushToQueue ==
  ASSUME queue \in Seq(Frames), Len(queue) <= QueueCapacity, NEW f \in Frames
  PROVE  /\ DropOldest(f) \in Seq(Frames)
         /\ Len(DropOldest(f)) <= QueueCapacity
         /\ InQueue(DropOldest(f)) \subseteq InQueue(queue) \cup {f}
         /\ Ordered(queue) /\ (\A g \in InQueue(queue) : g.id < f.id)
               => Ordered(DropOldest(f))
<1> DEFINE q == IF Len(queue) >= QueueCapacity THEN Tail(queue) ELSE queue
<1>1. Len(queue) \in Nat /\ QueueCapacity \in Nat \ {0}
  BY CaptureAssumption
<1>2. /\ q \in Seq(Frames) /\ Len(q) < QueueCapacity
      /\ InQueue(q) \subseteq InQueue(queue)
      /\ Ordered(queue) => Ordered(q)
  <2>1. CASE Len(queue) >= QueueCapacity
    <3>1. queue # <<>>
      BY <1>1, <2>1
    <3> QED
      BY <1>1, <2>1, <3>1, TailOfQueue
  <2>2. CASE ~(Len(queue) >= QueueCapacity)
    BY <1>1, <2>2
  <2> QED
    BY <2>1, <2>2
<1>3. DropOldest(f) = Append(q, f)
  BY DEF DropOldest
<1>4. Len(q) \in Nat
  BY <1>2
<1> HIDE DEF q
<1> QED
  BY <1>1, <1>2, <1>3, <1>4, AppendToQueue

-----------------------------------------------------------------------------
(* Who refers to a buffer.  The first part is TypeOK, the second says that *)
(* a thread has one frame exactly where it needs one, and that a buffer is *)
(* free when nobody refers to it; the third is ImagesIntact.               *)
AtMostOne(S) == \A x, y \in S : x = y

Held ==
    /\ capturePc \in {"push", "release"} <=> captured # {}
    /\ senderPc = "send" <=> sending # {}
    /\ AtMostOne(captured) /\ AtMostOne(sending)
    /\ capturePc = "acquire" => frameId < MaxFrames
    /\ free = Buffers \ Referred(captured, queue, sending)

(* Frames are sent in the order of their numbers.                          *)
Numbered ==
    /\ Ordered(queue)
    /\ \A f \in captured \cup InQueue(queue) \cup sending : f.id <= frameId
    /\ lastSent <= frameId
    /\ \A f \in sending : lastSent < f.id
    /\ \A f \in InQueue(queue) : lastSent < f.id
    /\ \A f \in sending, g \in InQueue(queue) : f.id < g.id
    /\ capturePc = "push"
          => \A f \in captured :
                /\ f.id > lastSent
                /\ \A g \in InQueue(queue) \cup sending : g.id < f.id

PoolInv == TypeOK /\ Held /\ ImagesIntact /\ Numbered

LEMMA InitPoolInv == Init => PoolInv
<1> SUFFICES ASSUME Init PROVE PoolInv
  OBVIOUS
<1>1. /\ queue = <<>> /\ <<>> \in Seq(Frames) /\ Len(<<>>) = 0
      /\ InQueue(queue) = {} /\ Referred(captured, queue, sending) = {}
  <2>1. queue = <<>> /\ captured = {} /\ sending = {}
    BY DEF Init
  <2>2. <<>> \in Seq(Frames) /\ Len(<<>>) = 0
    OBVIOUS
  <2>3. InQueue(queue) = {}
    BY <2>1, <2>2 DEF InQueue
  <2> QED
    BY <2>1, <2>2, <2>3 DEF Referred
<1>2. TypeOK
  <2>1. 0 \in 0 .. MaxFrames /\ 0 <= QueueCapacity
    BY CaptureAssumption
  <2>2. content \in [Buffers -> 0 .. MaxFrames]
    BY <2>1 DEF Init
  <2>3. queue \in Seq(Frames) /\ Len(queue) <= QueueCapacity
    BY <1>1, <2>1
  <2>4. captured \in SUBSET Frames /\ sending \in SUBSET Frames
    BY DEF Init
  <2>5. free \in SUBSET Buffers
    BY DEF Init
  <2> QED
    BY <2>1, <2>2, <2>3, <2>4, <2>5 DEF Init, TypeOK
<1>3. Held
  BY <1>1 DEF Init, Held, AtMostOne
<1>4. ImagesIntact /\ Numbered
  <2>1. captured = {} /\ sending = {} /\ Len(queue) = 0
    BY <1>1 DEF Init
  <2>2. Ordered(queue)
    BY <2>1 DEF Ordered
  <2>3. captured \cup InQueue(queue) \cup sending = {}
    BY <1>1, <2>1
  <2> QED
    BY <1>1, <2>1, <2>2, <2>3 DEF Init, ImagesIntact, Numbered
<1> QED
  BY <1>2, <1>3, <1>4 DEF PoolInv

(* A step that leaves the frames and their buffers where they are.         *)
Quiet ==
    /\ UNCHANGED <<captured, queue, sending, free, content, frameId, lastSent>>
    /\ capturePc' \in {"push", "release"} <=> capturePc \in {"push", "release"}
    /\ capturePc' = "push" => capturePc = "push"
    /\ capturePc' = "acquire" => frameId < MaxFrames
    /\ senderPc' = "send" <=> senderPc = "send"

LEMMA PoolQuiet ==
  ASSUME PoolInv, Quiet, TypeOK'
  PROVE  PoolInv'
<1>1. /\ captured' = captured /\ queue' = queue /\ sending' = sending
      /\ free' = free /\ content' = content /\ frameId' = frameId
      /\ lastSent' = lastSent
  BY DEF Quiet
<1>2. /\ InQueue(queue)' = InQueue(queue)
      /\ Referred(captured, queue, sending)' = Referred(captured, queue, sending)
      /\ Ordered(queue)' = Ordered(queue)
  BY <1>1 DEF InQueue, Referred, Ordered
<1>3. Held'
  BY <1>1, <1>2 DEF PoolInv, Quiet, Held, AtMostOne
<1>4. ImagesIntact'
  BY <1>1, <1>2 DEF PoolInv, ImagesIntact
<1>5. Numbered'
  BY <1>1, <1>2 DEF PoolInv, Quiet, Numbered
<1> QED
  BY <1>3, <1>4, <1>5 DEF PoolInv

(* A step after which fewer frames are referred to, and that gives back    *)
(* the buffers of those that are not.                                      *)
LEMMA PoolReleases ==
  ASSUME PoolInv, ReleaseUnreferred, UNCHANGED <<content, frameId>>,
         captured' \cup InQueue(queue') \cup sending'
            \subseteq captured \cup InQueue(queue) \cup sending
  PROVE  /\ free' = Buffers \ Referred(captured', queue', sending')
         /\ ImagesIntact'
         /\ \A f \in captured' \cup InQueue(queue') \cup sending' :
               f.id <= frameId'
<1>1. \A f \in captured \cup InQueue(queue) \cup sending : f \in Frames
  BY DEF PoolInv, TypeOK, InQueue
<1>2. /\ Referred(captured', queue', sending')
            \subseteq Referred(captured, queue, sending)
      /\ Referred(captured, queue, sending) \subseteq Buffers
  BY <1>1 DEF Referred, Frames
<1>3. free' = Buffers \ Referred(captured', queue', sending')
  BY <1>2 DEF ReleaseUnreferred, PoolInv, Held
<1>4. ImagesIntact'
  BY DEF PoolInv, ImagesIntact
<1> QED
  BY <1>3, <1>4 DEF PoolInv, Numbered

LEMMA NextPoolInv == PoolInv /\ Threads /\ [Next]_vars => PoolInv'
<1> SUFFICES ASSUME PoolInv, Threads, [Next]_vars PROVE PoolInv'
  OBVIOUS
<1> USE DEF vars, controlVars, captureVars, senderVars, queueVars, poolVars
<1>0. TypeOK /\ Held /\ ImagesIntact /\ Numbered
  BY DEF PoolInv
<1>f. /\ MaxFrames \in Nat /\ frameId \in 0 .. MaxFrames
      /\ lastSent \in 0 .. MaxFrames /\ queue \in Seq(Frames)
      /\ \A f \in Frames : f.id \in 1 .. MaxFrames /\ f.buffer \in Buffers
  BY <1>0, CaptureAssumption DEF TypeOK, Frames
<1>1. CASE CallStart \/ StartCamera \/ StartSender
  <2>1. CASE CallStart
    <3>1. TypeOK'
      BY <1>0, <2>1 DEF TypeOK, CallStart
    <3>2. Quiet
      BY <1>0, <2>1 DEF Quiet, CallStart, Held, Threads, Working, Stopped
    <3> QED
      BY <3>1, <3>2, PoolQuiet
  <2>2. CASE StartCamera
    <3>1. TypeOK'
      BY <1>0, <2>2 DEF TypeOK, StartCamera
    <3>2. Quiet
      BY <1>0, <2>2 DEF Quiet, StartCamera, Held, Threads, Working, Stopped
    <3> QED
      BY <3>1, <3>2, PoolQuiet
  <2>3. CASE StartSender
    <3>1. TypeOK'
      BY <1>0, <2>3 DEF TypeOK, StartSender
    <3>2. Quiet
      BY <1>0, <2>3 DEF Quiet, StartSender, Held, Threads, Working, Stopped
    <3> QED
      BY <3>1, <3>2, PoolQuiet
  <2> QED
    BY <1>1, <2>1, <2>2, <2>3
<1>2. CASE CallStop \/ StopCamera \/ JoinCapture
  <2>1. CASE CallStop
    <3>1. TypeOK'
      BY <1>0, <2>1 DEF TypeOK, CallStop
    <3>2. Quiet
      BY <1>0, <2>1 DEF Quiet, CallStop, Held
    <3> QED
      BY <3>1, <3>2, PoolQuiet
  <2>2. CASE StopCamera
    <3>1. TypeOK'
      BY <1>0, <2>2 DEF TypeOK, StopCamera
    <3>2. Quiet
      BY <1>0, <2>2 DEF Quiet, StopCamera, Held
    <3> QED
      BY <3>1, <3>2, PoolQuiet
  <2>3. CASE JoinCapture
    <3>1. TypeOK'
      BY <1>0, <2>3 DEF TypeOK, JoinCapture
    <3>2. Quiet
      BY <1>0, <2>3 DEF Quiet, JoinCapture, Held
    <3> QED
      BY <3>1, <3>2, PoolQuiet
  <2> QED
    BY <1>2, <2>1, <2>2, <2>3
<1>3. CASE StopQueue \/ JoinSender \/ DestroyPool
  <2>1. CASE StopQueue
    <3>1. TypeOK'
      BY <1>0, <2>1 DEF TypeOK, StopQueue
    <3>2. Quiet
      BY <1>0, <2>1 DEF Quiet, StopQueue, Held
    <3> QED
      BY <3>1, <3>2, PoolQuiet
  <2>2. CASE JoinSender
    <3>1. TypeOK'
      BY <1>0, <2>2 DEF TypeOK, JoinSender
    <3>2. Quiet
      BY <1>0, <2>2 DEF Quiet, JoinSender, Held
    <3> QED
      BY <3>1, <3>2, PoolQuiet
  <2>3. CASE DestroyPool
    <3>1. TypeOK'
      BY <1>0, <2>3 DEF TypeOK, DestroyPool
    <3>2. Quiet
      BY <1>0, <2>3 DEF Quiet, DestroyPool, Held
    <3> QED
      BY <3>1, <3>2, PoolQuiet
  <2> QED
    BY <1>3, <2>1, <2>2, <2>3
<1>4. CASE CameraOpens \/ CameraOpenFails \/ CaptureReads \/ CaptureExits
           \/ SenderChecks
  <2>1. CASE CameraOpens
    <3>1. TypeOK'
      BY <1>0, <2>1 DEF TypeOK, CameraOpens
    <3>2. Quiet
      BY <1>0, <2>1 DEF Quiet, CameraOpens, Held
    <3> QED
      BY <3>1, <3>2, PoolQuiet
  <2>2. CASE CameraOpenFails
    <3>1. TypeOK'
      BY <1>0, <2>2 DEF TypeOK, CameraOpenFails
    <3>2. Quiet
      BY <1>0, <2>2 DEF Quiet, CameraOpenFails, Held
    <3> QED
      BY <3>1, <3>2, PoolQuiet
  <2>3. CASE CaptureReads
    <3>1. TypeOK'
      BY <1>0, <2>3 DEF TypeOK, CaptureReads
    <3>2. Quiet
      BY <1>0, <2>3 DEF Quiet, CaptureReads, Held
    <3> QED
      BY <3>1, <3>2, PoolQuiet
  <2>4. CASE CaptureExits
    <3>1. TypeOK'
      BY <1>0, <2>4 DEF TypeOK, CaptureExits
    <3>2. Quiet
      BY <1>0, <2>4 DEF Quiet, CaptureExits, Held
    <3> QED
      BY <3>1, <3>2, PoolQuiet
  <2>5. CASE SenderChecks
    <3>1. TypeOK'
      BY <1>0, <2>5 DEF TypeOK, SenderChecks
    <3>2. Quiet
      BY <1>0, <2>5 DEF Quiet, SenderChecks, Held
    <3> QED
      BY <3>1, <3>2, PoolQuiet
  <2> QED
    BY <1>4, <2>1, <2>2, <2>3, <2>4, <2>5
<1>5. CASE DestroyQueue
  <2>1. queue' = <<>> /\ <<>> \in Seq(Frames) /\ Len(<<>>) = 0
    BY <1>5 DEF DestroyQueue
  <2>2. InQueue(queue') = {} /\ Ordered(queue')
    BY <2>1 DEF InQueue, Ordered
  <2>3. /\ ReleaseUnreferred
        /\ UNCHANGED <<content, frameId, captured, sending, lastSent>>
        /\ UNCHANGED <<capturePc, senderPc>>
    BY <1>5 DEF DestroyQueue
  <2>4. /\ free' = Buffers \ Referred(captured', queue', sending')
        /\ ImagesIntact'
        /\ \A f \in captured' \cup InQueue(queue') \cup sending' :
              f.id <= frameId'
    BY <2>2, <2>3, PoolReleases
  <2>5. TypeOK'
    BY <1>0, <1>5, <2>1, <2>4, CaptureAssumption DEF TypeOK, DestroyQueue
  <2>6. Held'
    BY <1>0, <2>3, <2>4 DEF Held, AtMostOne
  <2>7. Numbered'
    BY <1>0, <2>2, <2>3, <2>4 DEF Numbered, Ordered
  <2> QED
    BY <2>4, <2>5, <2>6, <2>7 DEF PoolInv
<1>6. CASE CaptureAcquires
  <2> PICK b \in free :
             /\ free' = free \ {b}
             /\ content' = [content EXCEPT ![b] = frameId + 1]
             /\ captured' = {[id |-> frameId + 1, buffer |-> b]}
    BY <1>6 DEF CaptureAcquires
  <2>1. /\ capturePc = "acquire" /\ capturePc' = "push" /\ frameId' = frameId + 1
        /\ UNCHANGED <<queue, sending, senderPc, lastSent>>
        /\ captured = {} /\ frameId < MaxFrames
    BY <1>0, <1>6 DEF CaptureAcquires, Held
  <2> DEFINE new == [id |-> frameId + 1, buffer |-> b]
  <2>2. /\ b \in Buffers /\ new \in Frames /\ frameId + 1 \in 1 .. MaxFrames
        /\ new.id = frameId + 1 /\ new.buffer = b
    BY <1>0, <1>f, <2>1 DEF TypeOK, Frames
  <2>3. TypeOK'
    BY <1>0, <1>6, <2>1, <2>2 DEF TypeOK, CaptureAcquires
  <2>4. b \notin Referred(captured, queue, sending)
    BY <1>0 DEF Held
  <2>5. Referred(captured', queue', sending')
           = Referred(captured, queue, sending) \cup {b}
    BY <2>1, <2>2 DEF Referred
  <2>6. Held'
    BY <1>0, <2>1, <2>5 DEF Held, AtMostOne
  <2>7. ASSUME NEW f \in InQueue(queue) \cup sending
        PROVE  content'[f.buffer] = f.id /\ f.id < new.id /\ f \in Frames
    <3>1. f \in Frames /\ f.buffer # b
      BY <1>0, <2>1, <2>4 DEF TypeOK, InQueue, Referred
    <3>2. content[f.buffer] = f.id /\ f.id <= frameId
      BY <1>0 DEF ImagesIntact, Numbered
    <3> QED
      BY <1>0, <1>f, <2>2, <3>1, <3>2 DEF TypeOK
  <2>8. ImagesIntact'
    <3>1. content'[new.buffer] = new.id
      BY <1>0, <2>2 DEF TypeOK
    <3> QED
      BY <2>1, <2>7, <3>1 DEF ImagesIntact
  <2>9. Numbered'
    <3>1. \A f \in captured' \cup InQueue(queue') \cup sending' : f.id <= frameId'
      BY <1>f, <2>1, <2>2, <2>7
    <3>2. lastSent' < frameId' /\ new.id > lastSent
      BY <1>0, <1>f, <2>1, <2>2 DEF Numbered
    <3> QED
      BY <1>0, <1>f, <2>1, <2>2, <2>7, <3>1, <3>2 DEF Numbered, Ordered
  <2> QED
    BY <2>3, <2>6, <2>8, <2>9 DEF PoolInv
<1>7. CASE CapturePushes
  <2> PICK f \in captured : queue' = IF stopped THEN queue ELSE DropOldest(f)
    BY <1>7 DEF CapturePushes
  <2>1. /\ capturePc = "push" /\ capturePc' = "release" /\ captured = {f}
        /\ UNCHANGED <<captured, sending, senderPc, lastSent, frameId, content>>
        /\ ReleaseUnreferred /\ f \in Frames
    BY <1>0, <1>7 DEF CapturePushes, Held, AtMostOne, TypeOK
  <2>2. \A g \in InQueue(queue) : g.id < f.id
    BY <1>0, <2>1 DEF Numbered
  <2>3. /\ queue' \in Seq(Frames) /\ Len(queue') <= QueueCapacity
        /\ InQueue(queue') \subseteq InQueue(queue) \cup {f}
        /\ Ordered(queue')
    BY <1>0, <2>2, <2>1, PushToQueue DEF TypeOK, Numbered
  <2>4. /\ free' = Buffers \ Referred(captured', queue', sending')
        /\ ImagesIntact'
        /\ \A g \in captured' \cup InQueue(queue') \cup sending' :
              g.id <= frameId'
    BY <2>1, <2>3, PoolReleases
  <2>5. TypeOK'
    BY <1>0, <1>7, <2>1, <2>3, <2>4 DEF TypeOK, CapturePushes
  <2>6. Held'
    BY <1>0, <2>1, <2>4 DEF Held, AtMostOne
  <2>7. Numbered'
    BY <1>0, <2>1, <2>3, <2>4 DEF Numbered, Ordered
  <2> QED
    BY <2>4, <2>5, <2>6, <2>7 DEF PoolInv
<1>8. CASE CaptureReleases
  <2>1. /\ capturePc = "release" /\ capturePc' = "check" /\ captured' = {}
        /\ UNCHANGED <<queue, sending, senderPc, lastSent, frameId, content>>
        /\ ReleaseUnreferred
    BY <1>8 DEF CaptureReleases
  <2>2. /\ free' = Buffers \ Referred(captured', queue', sending')
        /\ ImagesIntact'
        /\ \A f \in captured' \cup InQueue(queue') \cup sending' :
              f.id <= frameId'
    BY <2>1, PoolReleases
  <2>3. TypeOK'
    BY <1>0, <1>8, <2>1, <2>2 DEF TypeOK, CaptureReleases
  <2>4. Held'
    BY <1>0, <2>1, <2>2 DEF Held, AtMostOne
  <2>5. Numbered'
    BY <1>0, <2>1, <2>2 DEF Numbered, Ordered
  <2> QED
    BY <2>2, <2>3, <2>4, <2>5 DEF PoolInv
<1>9. CASE SenderPops
  <2>1. CASE queue = <<>>
    <3>1. TypeOK'
      BY <1>0, <1>9, <2>1 DEF TypeOK, SenderPops
    <3>2. Quiet
      BY <1>0, <1>9, <2>1 DEF Quiet, SenderPops, Held
    <3> QED
      BY <3>1, <3>2, PoolQuiet
  <2>2. CASE queue # <<>>
    <3> DEFINE f == Head(queue)
    <3>1. /\ senderPc = "pop" /\ senderPc' = "send"
          /\ sending = {} /\ sending' = {f} /\ queue' = Tail(queue)
          /\ UNCHANGED <<captured, capturePc, lastSent, frameId, content, free>>
      BY <1>0, <1>9, <2>2 DEF SenderPops, Held
    <3>2. /\ queue' \in Seq(Frames) /\ Len(queue') = Len(queue) - 1
          /\ f \in Frames
          /\ InQueue(queue) = InQueue(queue') \cup {f}
          /\ Ordered(queue') /\ \A g \in InQueue(queue') : f.id < g.id
      BY <1>0, <1>f, <2>2, <3>1, TailOfQueue DEF Numbered
    <3>3. Len(queue) \in Nat /\ QueueCapacity \in Nat
      BY <1>f, CaptureAssumption
    <3>4. TypeOK'
      BY <1>0, <1>9, <3>1, <3>2, <3>3 DEF TypeOK, SenderPops
    <3>5. captured' \cup InQueue(queue') \cup sending'
             = captured \cup InQueue(queue) \cup sending
      BY <3>1, <3>2
    <3>6. Referred(captured', queue', sending')
             = Referred(captured, queue, sending)
      BY <3>5 DEF Referred
    <3>7. Held' /\ ImagesIntact'
      BY <1>0, <3>1, <3>5, <3>6 DEF Held, AtMostOne, ImagesIntact
    <3>8. Numbered'
      BY <1>0, <3>1, <3>2, <3>5 DEF Numbered, Ordered
    <3> QED
      BY <3>4, <3>7, <3>8 DEF PoolInv
  <2> QED
    BY <2>1, <2>2
<1>10. CASE SendSucceeds \/ SendFails
  <2>1. /\ senderPc = "send" /\ senderPc' # "send" /\ sending' = {}
        /\ UNCHANGED <<captured, queue, capturePc, frameId, content>>
        /\ ReleaseUnreferred
    BY <1>10 DEF SendSucceeds, SendFails
  <2>2. /\ free' = Buffers \ Referred(captured', queue', sending')
        /\ ImagesIntact'
        /\ \A f \in captured' \cup InQueue(queue') \cup sending' :
              f.id <= frameId'
    BY <2>1, PoolReleases
  <2>3. PICK f \in sending : lastSent' \in {lastSent, f.id}
    BY <1>0, <1>10 DEF SendSucceeds, SendFails, Held
  <2>4. f \in Frames /\ f.id <= frameId
    BY <1>0 DEF TypeOK, Numbered
  <2>5. TypeOK'
    <3>1. lastSent' \in 0 .. MaxFrames
      BY <1>f, <2>3, <2>4
    <3>2. /\ senderPc' \in {"check", "exited"} /\ connected' \in BOOLEAN
          /\ UNCHANGED <<control, appRunning, camRunning, stopped, openFailed>>
      BY <1>0, <1>10 DEF SendSucceeds, SendFails, TypeOK
    <3>3. free' \in SUBSET Buffers
      BY <2>2
    <3> QED
      BY <1>0, <2>1, <3>1, <3>2, <3>3 DEF TypeOK
  <2>6. Held'
    BY <1>0, <2>1, <2>2 DEF Held, AtMostOne
  <2>7. Numbered'
    BY <1>0, <2>1, <2>2, <2>3, <2>4 DEF Numbered, Ordered
  <2> QED
    BY <2>2, <2>5, <2>6, <2>7 DEF PoolInv
<1>11. CASE UNCHANGED vars
  <2>1. TypeOK'
    BY <1>0, <1>11 DEF TypeOK
  <2>2. Quiet
    BY <1>0, <1>11 DEF Quiet, Held
  <2> QED
    BY <2>1, <2>2, PoolQuiet
<1> QED
  BY <1>1, <1>2, <1>3, <1>4, <1>5, <1>6, <1>7, <1>8, <1>9, <1>10, <1>11
  DEF Next, ControlGoesOn, Capture, Sender

LEMMA PoolInvHolds == Spec => [](PoolInv /\ Threads)
  BY InitThreads, NextThreads, InitPoolInv, NextPoolInv, PTL DEF Spec

(* No buffer is overwritten while a frame in it is queued or being sent.   *)
THEOREM ImagesStayIntact == Spec => []ImagesIntact
<1>1. PoolInv => ImagesIntact
  BY DEF PoolInv
<1> QED
  BY <1>1, PoolInvHolds, PTL

(* A queue of n frames refers to n buffers at most.                        *)
LEMMA QueueRefers ==
  ASSUME queue \in Seq(Frames)
  PROVE  LET Q == {f.buffer : f \in InQueue(queue)}
         IN  IsFiniteSet(Q) /\ Cardinality(Q) <= Len(queue)
<1> DEFINE Q == {f.buffer : f \in InQueue(queue)}
           at == [i \in 1 .. Len(queue) |-> queue[i].buffer]
<1>1. Len(queue) \in Nat
  OBVIOUS
<1>2. at \in Surjection(1 .. Len(queue), Q)
  BY DEF Surjection, InQueue
<1>3. /\ IsFiniteSet(1 .. Len(queue))
      /\ Cardinality(1 .. Len(queue)) = Len(queue)
  BY <1>1, FS_Interval
<1> HIDE DEF Q, at
<1>4. IsFiniteSet(Q) /\ Cardinality(Q) <= Cardinality(1 .. Len(queue))
  BY <1>2, <1>3, FS_Surjection
<1> QED
  BY <1>3, <1>4 DEF Q

(* acquire() always finds a free buffer: the queue and the sender leave at *)
(* least one of the two that the pool has more than the queue has places.  *)
THEOREM PoolSuffices == Spec => []PoolNeverDry
<1>1. ASSUME PoolInv, capturePc = "acquire", free = {} PROVE FALSE
  <2> DEFINE Q == {f.buffer : f \in InQueue(queue)}
             S == {f.buffer : f \in sending}
  <2>1. /\ queue \in Seq(Frames) /\ Len(queue) <= QueueCapacity
        /\ captured = {} /\ AtMostOne(sending)
        /\ Buffers \subseteq Referred(captured, queue, sending)
    BY <1>1 DEF PoolInv, TypeOK, Held
  <2>2. Buffers \subseteq Q \cup S
    BY <2>1 DEF Referred
  <2>3. IsFiniteSet(Q) /\ Cardinality(Q) <= Len(queue)
    BY <2>1, QueueRefers
  <2>4. IsFiniteSet(S) /\ Cardinality(S) <= 1
    <3>1. CASE sending = {}
      <4>1. S = {}
        BY <3>1
      <4> QED
        BY <4>1, FS_EmptySet
    <3>2. CASE sending # {}
      <4>1. PICK f \in sending : TRUE
        BY <3>2
      <4>2. S = {f.buffer}
        BY <2>1, <4>1 DEF AtMostOne
      <4>3. IsFiniteSet({f.buffer}) /\ Cardinality({f.buffer}) = 1
        BY FS_Singleton
      <4> HIDE DEF S
      <4> QED
        BY <4>2, <4>3
    <3> QED
      BY <3>1, <3>2
  <2> HIDE DEF Q, S
  <2>5. /\ IsFiniteSet(Q \cup S) /\ IsFiniteSet(Q \cap S)
        /\ Cardinality(Q \cup S)
             = Cardinality(Q) + Cardinality(S) - Cardinality(Q \cap S)
    <3>1. Q \cap S \in SUBSET Q
      OBVIOUS
    <3> QED
      BY <2>3, <2>4, <3>1, FS_Union, FS_Subset
  <2>6. Cardinality(Buffers) <= Cardinality(Q \cup S)
    BY <2>2, <2>5, FS_Subset
  <2>7. /\ Cardinality(Q) \in Nat /\ Cardinality(S) \in Nat
        /\ Cardinality(Q \cap S) \in Nat /\ Cardinality(Buffers) \in Nat
        /\ Len(queue) \in Nat /\ QueueCapacity \in Nat
    BY <2>1, <2>3, <2>4, <2>5, FS_CardinalityType, CaptureAssumption
  <2> QED
    BY <2>1, <2>3, <2>4, <2>5, <2>6, <2>7, CaptureAssumption
<1>2. PoolInv => PoolNeverDry
  BY <1>1 DEF PoolInv, PoolNeverDry, AcquireNeverWaits
<1> QED
  BY <1>2, PoolInvHolds, PTL

(* When stop() has returned, no thread is at work, the connection is closed*)
(* and only the queue holds buffers; and only a camera that could not be   *)
(* opened leaves a thread behind that makes a later call abort.            *)
THEOREM StopLeavesNothing == Spec => []StopIsClean
<1>1. ASSUME PoolInv, Threads PROVE StopIsClean
  <2>1. ASSUME Stopped
        PROVE  Buffers \ free = {f.buffer : f \in InQueue(queue)}
    <3>1. captured = {} /\ sending = {}
      BY <1>1, <2>1 DEF PoolInv, Held, Threads, Working, TypeOK
    <3>2. {f.buffer : f \in InQueue(queue)} \subseteq Buffers
      <4>1. InQueue(queue) \subseteq Frames
        BY <1>1 DEF PoolInv, TypeOK, InQueue
      <4> QED
        BY <4>1 DEF Frames
    <3> QED
      BY <1>1, <3>1, <3>2 DEF PoolInv, Held, Referred
  <2> QED
    BY <1>1, <2>1
    DEF StopIsClean, StopQuiesces, AbortOnlyAfterOpenFailure, Threads,
        Working, Stopped
<1> QED
  BY <1>1, PoolInvHolds, PTL

(* Frames are sent in the order of capture and each at most once, over     *)
(* dropped frames, failures and restarts.                                  *)
THEOREM FramesSentInOrder == Spec => SentInOrder
<1>1. ASSUME PoolInv, [Next]_vars
      PROVE  /\ lastSent' >= lastSent
             /\ sending # {} /\ sending' = {} /\ connected'
                   => lastSent' > lastSent
  <2> USE DEF vars, controlVars, captureVars, senderVars, queueVars, poolVars
  <2>1. lastSent \in Nat
    BY <1>1 DEF PoolInv, TypeOK
  <2>2. CASE SendSucceeds
    <3>1. PICK f \in sending : lastSent' = f.id
      BY <2>2 DEF SendSucceeds
    <3>2. lastSent < f.id /\ f.id \in Nat
      BY <1>1 DEF PoolInv, Numbered, TypeOK, Frames
    <3> QED
      BY <2>1, <3>1, <3>2
  <2>3. CASE SendFails
    BY <2>1, <2>3 DEF SendFails
  <2>4. CASE SenderPops
    BY <2>1, <2>4 DEF SenderPops
  <2>5. CASE UNCHANGED <<lastSent, sending>>
    BY <2>1, <2>5
  <2> QED
    BY <1>1, <2>2, <2>3, <2>4, <2>5
    DEF Next, ControlGoesOn, Capture, Sender, CallStart, StartCamera,
        StartSender, CallStop, StopCamera, JoinCapture, StopQueue, JoinSender,
        DestroyPool, DestroyQueue, CameraOpens, CameraOpenFails, CaptureReads,
        CaptureExits, CaptureAcquires, CapturePushes, CaptureReleases,
        SenderChecks
<1>2. PoolInv /\ [Next]_vars
         => [lastSent' >= lastSent
             /\ (sending # {} /\ sending' = {} /\ connected'
                    => lastSent' > lastSent)]_vars
  BY <1>1
<1> QED
  BY <1>2, PoolInvHolds, PTL DEF Spec, SentInOrder

=============================================================================
