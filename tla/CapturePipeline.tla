--------------------------- MODULE CapturePipeline ---------------------------
(***************************************************************************)
(* CameraNetworkSender (capture_and_network/src/app) with its camera, its  *)
(* queue of captured frames, its pool of image buffers and its connection. *)
(* Three threads: the caller of start(), stop() and the destructor, the    *)
(* capture thread and the sender thread.                                   *)
(*                                                                         *)
(* The mutexes of the queue and of the pool make each of their operations  *)
(* one step; BlockingQueue notifies with the mutex held and only one       *)
(* thread waits on each condition, so a wait is a guard.  What is between  *)
(* two operations (memcpy, the socket, the atomic flags) is not locked.    *)
(***************************************************************************)
EXTENDS Naturals, Sequences, FiniteSets

CONSTANTS Buffers,        \* the buffers of the pool, 16 in the code
          QueueCapacity,  \* maxSize_, 10 in the code
          MaxFrames       \* bound on the frames the camera captures

ASSUME CaptureAssumption ==
    /\ QueueCapacity \in Nat \ {0} /\ MaxFrames \in Nat
    /\ IsFiniteSet(Buffers) /\ Cardinality(Buffers) >= QueueCapacity + 2

VARIABLES
    control,      \* next step of the caller
    appRunning,   \* CameraNetworkSender::running_
    camRunning,   \* CameraCapture::running_
    capturePc,    \* "none": not started or joined; "exited": still joinable
    captured,     \* the frame the capture thread refers to: at most one
    senderPc, sending,
    queue, stopped,
    free,         \* freeBuffers_
    content,      \* the frame whose image is in a buffer, 0 for none
    frameId,      \* frameId_
    connected,
    openFailed,   \* history: the camera could not be opened
    lastSent      \* history: the last frame sent

controlVars == <<control, appRunning>>
captureVars == <<camRunning, capturePc, captured, frameId, openFailed>>
senderVars  == <<senderPc, sending, connected, lastSent>>
queueVars   == <<queue, stopped>>
poolVars    == <<free, content>>
vars == <<controlVars, captureVars, senderVars, queueVars, poolVars>>

Frames == [id : 1 .. MaxFrames, buffer : Buffers]

Init ==
    /\ control = "idle" /\ appRunning = FALSE /\ camRunning = FALSE
    /\ capturePc = "none" /\ captured = {} /\ frameId = 0
    /\ openFailed = FALSE
    /\ senderPc = "none" /\ sending = {} /\ connected = FALSE /\ lastSent = 0
    /\ queue = <<>> /\ stopped = FALSE
    /\ free = Buffers /\ content = [b \in Buffers |-> 0]

InQueue(q) == {q[i] : i \in 1 .. Len(q)}
Referred(c, q, s) == {f.buffer : f \in c \cup InQueue(q) \cup s}

(* Mutant: the queue does not count as an owner.                           *)
ReleaseQueued ==
    free' = free \cup (Referred(captured, queue, sending)
                         \ Referred(captured', <<>>, sending'))

(* The shared_ptr that refers to a buffer last gives it back to the pool.  *)
ReleaseUnreferred ==
    free' = free \cup (Referred(captured, queue, sending)
                         \ Referred(captured', queue', sending'))

-----------------------------------------------------------------------------
(* start(), stop() and the destructor.                                     *)

(* start(): connectToServer(), which may fail and leaves all as it was.    *)
CallStart ==
    /\ control = "idle" /\ ~appRunning
    /\ connected' = TRUE /\ appRunning' = TRUE /\ control' = "startCamera"
    /\ UNCHANGED <<captureVars, senderPc, sending, lastSent, queueVars, poolVars>>

(* CameraCapture::start() assigns to worker_: std::terminate() when that   *)
(* is a thread nobody has joined.                                          *)
StartCamera ==
    /\ control = "startCamera"
    /\ \/ capturePc = "exited" /\ control' = "aborted"
          /\ UNCHANGED <<camRunning, capturePc>>
       \/ capturePc = "none" /\ control' = "startSender"
          /\ camRunning' = TRUE /\ capturePc' = "open"
    /\ UNCHANGED <<appRunning, captured, frameId, openFailed, senderVars,
                   queueVars, poolVars>>

StartSender ==
    /\ control = "startSender"
    /\ senderPc' = "check" /\ control' = "idle"
    /\ UNCHANGED <<appRunning, captureVars, sending, connected, lastSent,
                   queueVars, poolVars>>

(* stop(), called or at the head of the destructor.                        *)
CallStop ==
    /\ control = "idle" /\ appRunning
    /\ appRunning' = FALSE /\ control' = "stopCamera"
    /\ UNCHANGED <<captureVars, senderVars, queueVars, poolVars>>

(* CameraCapture::stop() returns early, and joins nothing, when the        *)
(* capture thread has cleared running_ itself.                             *)
StopCamera ==
    /\ control = "stopCamera"
    /\ camRunning' = FALSE
    /\ control' = IF camRunning THEN "joinCapture" ELSE "stopQueue"
    /\ UNCHANGED <<appRunning, capturePc, captured, frameId, openFailed,
                   senderVars, queueVars, poolVars>>

(* Mutant: stop() does not wait for the capture thread.                    *)
DetachCapture ==
    /\ control = "joinCapture"
    /\ control' = "stopQueue"
    /\ UNCHANGED <<appRunning, captureVars, senderVars, queueVars, poolVars>>

JoinCapture ==
    /\ control = "joinCapture" /\ capturePc = "exited"
    /\ capturePc' = "none" /\ control' = "stopQueue"
    /\ UNCHANGED <<appRunning, camRunning, captured, frameId, openFailed,
                   senderVars, queueVars, poolVars>>

(* Mutant: the sender is joined before the queue is stopped.               *)
StopQueueAfterJoin ==
    /\ control = "stopQueue" /\ senderPc = "exited"
    /\ stopped' = TRUE /\ control' = "joinSender"
    /\ UNCHANGED <<appRunning, captureVars, senderVars, queue, poolVars>>

StopQueue ==
    /\ control = "stopQueue"
    /\ stopped' = TRUE /\ control' = "joinSender"
    /\ UNCHANGED <<appRunning, captureVars, senderVars, queue, poolVars>>

(* Mutant: the sender is not joined.                                       *)
LeaveSender ==
    /\ control = "joinSender"
    /\ connected' = FALSE /\ control' = "idle"
    /\ UNCHANGED <<appRunning, captureVars, senderPc, sending, lastSent,
                   queueVars, poolVars>>

(* The sender is joined and the connection closed.                         *)
JoinSender ==
    /\ control = "joinSender" /\ senderPc = "exited"
    /\ senderPc' = "none" /\ connected' = FALSE /\ control' = "idle"
    /\ UNCHANGED <<appRunning, captureVars, sending, lastSent, queueVars,
                   poolVars>>

(* The destructor after its stop(): camera_ goes first, and terminates the *)
(* process if its thread is still joinable; then bufferPool_ goes ...      *)
DestroyPool ==
    /\ control = "idle" /\ ~appRunning
    /\ control' = IF capturePc = "exited" THEN "aborted" ELSE "poolGone"
    /\ UNCHANGED <<appRunning, captureVars, senderVars, queueVars, poolVars>>

(* ... and queue_, declared before it, last, with the frames it holds,     *)
(* whose deleters call the pool.                                           *)
DestroyQueue ==
    /\ control = "poolGone"
    /\ control' = "gone" /\ queue' = <<>>
    /\ UNCHANGED <<appRunning, captured, sending, stopped>>
    /\ ReleaseUnreferred
    /\ UNCHANGED <<camRunning, capturePc, frameId, openFailed, senderPc,
                   connected, lastSent, content>>

-----------------------------------------------------------------------------
(* The capture thread.                                                     *)

CameraOpens ==
    /\ capturePc = "open"
    /\ capturePc' = "check"
    /\ UNCHANGED <<controlVars, camRunning, captured, frameId, openFailed,
                   senderVars, queueVars, poolVars>>

CameraOpenFails ==
    /\ capturePc = "open"
    /\ camRunning' = FALSE /\ capturePc' = "exited" /\ openFailed' = TRUE
    /\ UNCHANGED <<controlVars, captured, frameId, senderVars, queueVars,
                   poolVars>>

(* A frame that is read and fits a buffer; the others are skipped.         *)
CaptureReads ==
    /\ capturePc = "check" /\ camRunning /\ frameId < MaxFrames
    /\ capturePc' = "acquire"
    /\ UNCHANGED <<controlVars, camRunning, captured, frameId, openFailed,
                   senderVars, queueVars, poolVars>>

CaptureExits ==
    /\ capturePc = "check" /\ ~camRunning
    /\ capturePc' = "exited"
    /\ UNCHANGED <<controlVars, camRunning, captured, frameId, openFailed,
                   senderVars, queueVars, poolVars>>

(* acquire() waits for a free buffer, whatever becomes of running_; then   *)
(* the image is copied into it.                                            *)
CaptureAcquires ==
    /\ capturePc = "acquire"
    /\ \E b \in free :
          /\ free' = free \ {b}
          /\ content' = [content EXCEPT ![b] = frameId + 1]
          /\ captured' = {[id |-> frameId + 1, buffer |-> b]}
    /\ frameId' = frameId + 1 /\ capturePc' = "push"
    /\ UNCHANGED <<controlVars, camRunning, openFailed, senderVars, queueVars>>

(* Mutant: a stack in place of the queue.                                  *)
PushFront(f) == <<f>> \o (IF Len(queue) >= QueueCapacity THEN Tail(queue)
                                                         ELSE queue)

(* Mutant: the oldest frame is never dropped.                              *)
DropNothing(f) == Append(queue, f)

(* Mutant: it is dropped one push too late.                                *)
DropOldestLate(f) == Append(IF Len(queue) > QueueCapacity THEN Tail(queue)
                                                          ELSE queue, f)

(* push(): the oldest frame leaves a full queue.                           *)
DropOldest(f) == Append(IF Len(queue) >= QueueCapacity THEN Tail(queue)
                                                       ELSE queue, f)

(* After stop() of the queue push() does nothing.                          *)
CapturePushes ==
    /\ capturePc = "push"
    /\ \E f \in captured :
          queue' = IF stopped THEN queue ELSE DropOldest(f)
    /\ capturePc' = "release"
    /\ UNCHANGED <<captured, sending, stopped>>
    /\ ReleaseUnreferred
    /\ UNCHANGED <<controlVars, camRunning, frameId, openFailed, senderPc,
                   connected, lastSent, content>>

(* The loop's own references end with the iteration.                       *)
CaptureReleases ==
    /\ capturePc = "release"
    /\ captured' = {} /\ capturePc' = "check"
    /\ UNCHANGED <<queue, sending, stopped>>
    /\ ReleaseUnreferred
    /\ UNCHANGED <<controlVars, camRunning, frameId, openFailed, senderPc,
                   connected, lastSent, content>>

Capture == CameraOpens \/ CameraOpenFails \/ CaptureReads \/ CaptureExits
           \/ CaptureAcquires \/ CapturePushes \/ CaptureReleases

-----------------------------------------------------------------------------
(* The sender thread.  isConnected() holds when it is asked: only a send   *)
(* that failed has closed the connection, and has ended the loop.          *)

SenderChecks ==
    /\ senderPc = "check"
    /\ senderPc' = IF appRunning THEN "pop" ELSE "exited"
    /\ UNCHANGED <<controlVars, captureVars, sending, connected, lastSent,
                   queueVars, poolVars>>

SenderPops ==
    /\ senderPc = "pop"
    /\ \/ /\ queue # <<>>
          /\ sending' = {Head(queue)} /\ queue' = Tail(queue)
          /\ senderPc' = "send"
       \/ /\ queue = <<>> /\ stopped
          /\ senderPc' = "exited" /\ UNCHANGED <<sending, queue>>
    /\ UNCHANGED <<controlVars, captureVars, connected, lastSent, stopped,
                   poolVars>>

(* The frame is sent; its reference ends with the iteration.               *)
SendSucceeds ==
    /\ senderPc = "send"
    /\ \E f \in sending : lastSent' = f.id
    /\ sending' = {} /\ senderPc' = "check"
    /\ UNCHANGED <<captured, queue, stopped>>
    /\ ReleaseUnreferred
    /\ UNCHANGED <<controlVars, camRunning, capturePc, frameId, openFailed,
                   connected, content>>

(* sendAll() fails and closes the connection; the thread ends, the capture *)
(* thread does not notice.                                                 *)
SendFails ==
    /\ senderPc = "send"
    /\ connected' = FALSE
    /\ sending' = {} /\ senderPc' = "exited"
    /\ UNCHANGED <<captured, queue, stopped>>
    /\ ReleaseUnreferred
    /\ UNCHANGED <<controlVars, camRunning, capturePc, frameId, openFailed,
                   lastSent, content>>

Sender == SenderChecks \/ SenderPops \/ SendSucceeds \/ SendFails

-----------------------------------------------------------------------------
Alive == control \notin {"aborted", "poolGone", "gone"}

ControlGoesOn == StartCamera \/ StartSender \/ StopCamera \/ JoinCapture
                 \/ StopQueue \/ JoinSender \/ DestroyQueue

Next ==
    \/ CallStart \/ CallStop \/ DestroyPool \/ ControlGoesOn
    \/ Alive /\ Capture
    \/ Alive /\ Sender

Spec == Init /\ [][Next]_vars

(* The threads run: the camera delivers or fails, and a send ends with the *)
(* socket's 10 s timeout at the latest.                                    *)
FairSpec ==
    /\ Spec
    /\ WF_vars(ControlGoesOn) /\ WF_vars(Alive /\ Capture)
    /\ WF_vars(Alive /\ Sender)

-----------------------------------------------------------------------------
TypeOK ==
    /\ control \in {"idle", "startCamera", "startSender", "stopCamera",
                    "joinCapture", "stopQueue", "joinSender", "aborted",
                    "poolGone", "gone"}
    /\ appRunning \in BOOLEAN /\ camRunning \in BOOLEAN
    /\ capturePc \in {"none", "open", "check", "acquire", "push", "release",
                      "exited"}
    /\ captured \in SUBSET Frames /\ sending \in SUBSET Frames
    /\ senderPc \in {"none", "check", "pop", "send", "exited"}
    /\ queue \in Seq(Frames) /\ Len(queue) <= QueueCapacity
    /\ stopped \in BOOLEAN /\ connected \in BOOLEAN /\ openFailed \in BOOLEAN
    /\ free \in SUBSET Buffers /\ content \in [Buffers -> 0 .. MaxFrames]
    /\ frameId \in 0 .. MaxFrames /\ lastSent \in 0 .. MaxFrames

(* No buffer is overwritten while a frame that was captured in it waits in *)
(* the queue or is being sent: each frame still has its own image.         *)
ImagesIntact ==
    \A f \in captured \cup InQueue(queue) \cup sending : content[f.buffer] = f.id

(* acquire() finds a free buffer whatever the other thread holds, so that  *)
(* the capture thread never waits where stop() cannot reach it: 16 buffers *)
(* are enough for a queue of 10.                                           *)
AcquireNeverWaits == capturePc = "acquire" => free # {}

(* Frames are sent in the order of capture, each at most once, over        *)
(* dropped frames, failures and restarts.                                  *)
SentInOrder == [][lastSent' >= lastSent
                  /\ (sending # {} /\ sending' = {} /\ connected'
                         => lastSent' > lastSent)]_vars

(* When stop() has returned, no thread of the sender is at work, the       *)
(* connection is closed, and no buffer is held outside the queue.          *)
StopQuiesces ==
    control = "idle" /\ ~appRunning
        => /\ capturePc \in {"none", "exited"} /\ senderPc = "none"
           /\ ~connected
           /\ Buffers \ free = {f.buffer : f \in InQueue(queue)}

(* The process is terminated by a joinable thread only after the camera    *)
(* could not be opened: every other order of the threads' steps leaves     *)
(* nothing joinable behind.                                                *)
AbortOnlyAfterOpenFailure == control = "aborted" => openFailed

(* stop() returns, wherever the two threads are when it is called.         *)
StopReturns == control = "stopCamera" ~> control = "idle"

(* The design notes: the life of a buffer is managed by shared_ptr and a   *)
(* deleter, which gives it back to the pool.  So all are back when the     *)
(* pool goes.                                                              *)
BuffersReturnToPool == control = "poolGone" => free = Buffers

(* stop() leaves nothing running, and only a camera that could not be opened*)
(* makes a later call abort (CameraCapture.cpp:42-63).                    *)
StopIsClean == StopQuiesces /\ AbortOnlyAfterOpenFailure

(* The pool has a buffer for whoever comes: its buffers are with the threads*)
(* and in the queue, and these never hold them all (FrameBufferPool.h:27).*)
PoolNeverDry == TypeOK /\ AcquireNeverWaits
=============================================================================
