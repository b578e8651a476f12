-------------------------- MODULE ProcessController --------------------------
(***************************************************************************)
(* The process controller of fsm_demo.cpp: a thread that runs the state    *)
(* machine of a scan, three worker threads that drive the platform, the    *)
(* shutter and the camera, a command queue for each of them and one event  *)
(* queue back.  Segment i of segments_ has id i, as in main().             *)
(*                                                                         *)
(* One step of the machine is one turn of its switch; the pushes of a turn *)
(* go to different queues and are one step.  The queues' stopped_ flags    *)
(* are left out: each worker meets the Stop command first and ends, so     *)
(* that no wait_and_pop() throws and no worker reports a failure.          *)
(***************************************************************************)
EXTENDS Integers, Sequences

CONSTANT Segments       \* segments_.size()

ControllerAssumption == Segments \in Nat

VARIABLES
    state,         \* state_
    current,       \* current_index_ + 1
    running,       \* running_
    shutterOpened, \* shutter_opened and capture_done, the locals of
    captureDone,   \*   WaitCaptureDone
    commands,      \* the command queue of each worker
    events,        \* event_q_
    doing,         \* the command each worker has taken
    at,            \* the segment at which the platform stands, 0 for none
    shutterOpen,   \* the shutter itself
    shots,         \* history: the segments captured, in order
    joined         \* main() has joined all the threads

fsmVars    == <<state, current, running, shutterOpened, captureDone>>
queueVars  == <<commands, events>>
deviceVars == <<at, shutterOpen, shots>>
vars == <<fsmVars, queueVars, doing, deviceVars, joined>>

Workers == {"platform", "shutter", "camera"}
States  == {"TaskLoaded", "MoveToPoint", "WaitPlatformArrived",
            "OpenShutterAndCapture", "WaitCaptureDone", "CloseShutter",
            "SegmentFinished", "TaskFinished", "Error"}
CommandTypes == {"none", "MovePlatform", "OpenShutter", "CloseShutter",
                 "CaptureImage", "Stop"}
EventTypes   == {"PlatformArrived", "ShutterOpened", "ShutterClosed",
                 "CaptureDone", "Stopped"}

Command(c, i) == [type |-> c, segment |-> i]
Event(e, i)   == [type |-> e, segment |-> i]
Nothing == Command("none", -1)

Init ==
    /\ state = "TaskLoaded" /\ current = 1 /\ running = TRUE
    /\ shutterOpened = FALSE /\ captureDone = FALSE
    /\ commands = [w \in Workers |-> <<>>] /\ events = <<>>
    /\ doing = [w \in Workers |-> Nothing]
    /\ at = 0 /\ shutterOpen = FALSE /\ shots = <<>> /\ joined = FALSE

-----------------------------------------------------------------------------
(* The state machine.                                                      *)

In(s) == running /\ state = s
Send(w, c) == commands' = [commands EXCEPT ![w] = Append(@, Command(c, current))]

TaskLoaded ==
    /\ In("TaskLoaded")
    /\ state' = IF Segments = 0 THEN "TaskFinished" ELSE "MoveToPoint"
    /\ UNCHANGED <<current, running, shutterOpened, captureDone, queueVars,
                   doing, deviceVars, joined>>

MoveToPoint ==
    /\ In("MoveToPoint")
    /\ Send("platform", "MovePlatform")
    /\ state' = "WaitPlatformArrived"
    /\ UNCHANGED <<current, running, shutterOpened, captureDone, events, doing,
                   deviceVars, joined>>

(* The next event, when it is the one a state waits for, takes the machine *)
(* to the next state; an event of another segment is dropped, any other    *)
(* one is an error.                                                        *)
Await(s, e, next) ==
    /\ In(s) /\ events # <<>>
    /\ events' = Tail(events)
    /\ state' = IF Head(events).segment # current THEN state
                ELSE IF Head(events).type = e THEN next ELSE "Error"
    /\ UNCHANGED <<running, shutterOpened, captureDone, commands, doing,
                   deviceVars, joined>>

WaitPlatformArrived ==
    /\ Await("WaitPlatformArrived", "PlatformArrived", "OpenShutterAndCapture")
    /\ UNCHANGED current

OpenShutterAndCapture ==
    /\ In("OpenShutterAndCapture")
    /\ commands' = [commands EXCEPT
                      !["shutter"] = Append(@, Command("OpenShutter", current)),
                      !["camera"] = Append(@, Command("CaptureImage", current))]
    /\ state' = "WaitCaptureDone"
    /\ shutterOpened' = FALSE /\ captureDone' = FALSE
    /\ UNCHANGED <<current, running, events, doing, deviceVars, joined>>

(* Mutant: one of the two is enough.                                       *)
EitherArrived == shutterOpened' \/ captureDone'

BothArrived == shutterOpened' /\ captureDone'

(* One turn of the loop of WaitCaptureDone.                                *)
WaitCaptureDone ==
    /\ In("WaitCaptureDone") /\ events # <<>>
    /\ events' = Tail(events)
    /\ LET e == Head(events)
           mine == e.segment = current
       IN /\ shutterOpened' = (shutterOpened \/ (mine /\ e.type = "ShutterOpened"))
          /\ captureDone' = (captureDone \/ (mine /\ e.type = "CaptureDone"))
    /\ state' = IF BothArrived THEN "CloseShutter" ELSE state
    /\ UNCHANGED <<current, running, commands, doing, deviceVars, joined>>

(* Mutant: the machine does not wait for the shutter.                      *)
CloseShutterAndGoOn ==
    /\ In("CloseShutter")
    /\ Send("shutter", "CloseShutter")
    /\ state' = IF current = Segments THEN "TaskFinished" ELSE "MoveToPoint"
    /\ current' = IF current = Segments THEN current ELSE current + 1
    /\ UNCHANGED <<running, shutterOpened, captureDone, events, doing,
                   deviceVars, joined>>

CloseShutter ==
    /\ In("CloseShutter")
    /\ Send("shutter", "CloseShutter")
    /\ state' = "SegmentFinished"
    /\ UNCHANGED <<current, running, shutterOpened, captureDone, events, doing,
                   deviceVars, joined>>

LastSegment == current = Segments

SegmentFinished ==
    /\ Await("SegmentFinished", "ShutterClosed",
             IF LastSegment THEN "TaskFinished" ELSE "MoveToPoint")
    /\ current' = IF state' = "MoveToPoint" THEN current + 1 ELSE current

(* Mutant: a timeout in WaitPlatformArrived sends the command again.       *)
TimeoutRetries ==
    /\ \/ In("WaitPlatformArrived") /\ events = <<>> /\ state' = "MoveToPoint"
       \/ In("SegmentFinished") /\ events = <<>> /\ state' = "Error"
       \/ In("WaitCaptureDone") /\ state' = "Error"
    /\ UNCHANGED <<current, running, shutterOpened, captureDone, queueVars,
                   doing, deviceVars, joined>>

(* No event for a second; in WaitCaptureDone, the deadline has passed, be  *)
(* there events or not.                                                    *)
Timeout ==
    /\ \/ In("WaitPlatformArrived") /\ events = <<>>
       \/ In("SegmentFinished") /\ events = <<>>
       \/ In("WaitCaptureDone")
    /\ state' = "Error"
    /\ UNCHANGED <<current, running, shutterOpened, captureDone, queueVars,
                   doing, deviceVars, joined>>

(* Mutant: the camera is forgotten.                                        *)
StopTwoWorkers ==
    /\ In("TaskFinished") \/ In("Error")
    /\ commands' = [w \in Workers |->
                      IF w = "camera" THEN commands[w]
                      ELSE Append(commands[w], Command("Stop", -1))]
    /\ running' = FALSE
    /\ UNCHANGED <<state, current, shutterOpened, captureDone, events, doing,
                   deviceVars, joined>>

(* TaskFinished and Error: stopAllWorkers(), and the loop ends.            *)
StopAllWorkers ==
    /\ In("TaskFinished") \/ In("Error")
    /\ commands' = [w \in Workers |-> Append(commands[w], Command("Stop", -1))]
    /\ running' = FALSE
    /\ UNCHANGED <<state, current, shutterOpened, captureDone, events, doing,
                   deviceVars, joined>>

Fsm == TaskLoaded \/ MoveToPoint \/ WaitPlatformArrived
       \/ OpenShutterAndCapture \/ WaitCaptureDone \/ CloseShutter
       \/ SegmentFinished \/ Timeout \/ StopAllWorkers

-----------------------------------------------------------------------------
(* The workers: a command is taken, and some time later its event pushed.  *)

Take(w) ==
    /\ doing[w] = Nothing /\ commands[w] # <<>>
    /\ doing' = [doing EXCEPT ![w] = Head(commands[w])]
    /\ commands' = [commands EXCEPT ![w] = Tail(@)]
    /\ events' = IF Head(commands[w]).type = "Stop"
                 THEN Append(events, Event("Stopped", -1)) ELSE events
    /\ UNCHANGED <<fsmVars, deviceVars, joined>>

Done(w, c, e) ==
    /\ doing[w].type = c
    /\ doing' = [doing EXCEPT ![w] = Nothing]
    /\ events' = Append(events, Event(e, doing[w].segment))
    /\ UNCHANGED <<fsmVars, commands, joined>>

PlatformArrives ==
    /\ Done("platform", "MovePlatform", "PlatformArrived")
    /\ at' = doing["platform"].segment
    /\ UNCHANGED <<shutterOpen, shots>>

ShutterOpens ==
    /\ Done("shutter", "OpenShutter", "ShutterOpened")
    /\ shutterOpen' = TRUE
    /\ UNCHANGED <<at, shots>>

ShutterCloses ==
    /\ Done("shutter", "CloseShutter", "ShutterClosed")
    /\ shutterOpen' = FALSE
    /\ UNCHANGED <<at, shots>>

CameraCaptures ==
    /\ Done("camera", "CaptureImage", "CaptureDone")
    /\ shots' = Append(shots, doing["camera"].segment)
    /\ UNCHANGED <<at, shutterOpen>>

Platform == Take("platform") \/ PlatformArrives
Shutter  == Take("shutter") \/ ShutterOpens \/ ShutterCloses
Camera   == Take("camera") \/ CameraCaptures

Ended(w) == doing[w].type = "Stop"

(* main(): join() of the machine and of the workers.                       *)
Join ==
    /\ ~joined /\ ~running /\ \A w \in Workers : Ended(w)
    /\ joined' = TRUE
    /\ UNCHANGED <<fsmVars, queueVars, doing, deviceVars>>

Next == Fsm \/ Platform \/ Shutter \/ Camera \/ Join

Spec == Init /\ [][Next]_vars

(* The threads run, and the devices answer, however late.                  *)
FairSpec == /\ Spec
            /\ WF_vars(Fsm) /\ WF_vars(Platform) /\ WF_vars(Shutter)
            /\ WF_vars(Camera) /\ WF_vars(Join)

-----------------------------------------------------------------------------
CommandRecords == [type : CommandTypes, segment : {-1} \cup 1 .. Segments]
EventRecords   == [type : EventTypes, segment : {-1} \cup 1 .. Segments]

TypeOK ==
    /\ state \in States /\ current \in 1 .. (IF Segments = 0 THEN 1 ELSE Segments)
    /\ running \in BOOLEAN /\ shutterOpened \in BOOLEAN
    /\ captureDone \in BOOLEAN /\ shutterOpen \in BOOLEAN /\ joined \in BOOLEAN
    /\ commands \in [Workers -> Seq(CommandRecords)]
    /\ events \in Seq(EventRecords)
    /\ doing \in [Workers -> CommandRecords]
    /\ at \in 0 .. Segments /\ shots \in Seq(1 .. Segments)

(* What worker w has still to do of the commands of type c.                *)
Outstanding(w, c) ==
    doing[w].type = c
    \/ \E i \in 1 .. Len(commands[w]) : commands[w][i].type = c

(* While an image is being captured, or about to be, the platform stands   *)
(* at its segment and is not told to move, and the shutter is not told to  *)
(* close: the shutter is closed after the capture.                         *)
ExposureUndisturbed ==
    Outstanding("camera", "CaptureImage")
        => /\ at = current
           /\ ~Outstanding("platform", "MovePlatform")
           /\ ~Outstanding("shutter", "CloseShutter")

(* The platform does not move with the shutter open, or about to open.     *)
NoMotionWithOpenShutter ==
    Outstanding("platform", "MovePlatform")
        => ~shutterOpen /\ ~Outstanding("shutter", "OpenShutter")

(* The events the machine finds are of the segment it is at, and of a kind *)
(* that its state waits for: nothing late or repeated ever reaches         *)
(* handleUnexpectedEvent() or an "unexpected event" error.                 *)
Expected == [s \in States |->
    CASE s = "WaitPlatformArrived" -> {"PlatformArrived"}
      [] s = "WaitCaptureDone"     -> {"ShutterOpened", "CaptureDone"}
      [] s = "SegmentFinished"     -> {"ShutterClosed"}
      [] OTHER -> {}]
EventsMatchState ==
    running /\ state # "Error"
        => \A i \in 1 .. Len(events) :
              events[i].segment = current /\ events[i].type \in Expected[state]

(* A task that is reported finished has captured every segment, once and   *)
(* in order, and has left the shutter closed.                              *)
FinishedMeansCaptured ==
    state = "TaskFinished"
        => shots = [i \in 1 .. Segments |-> i] /\ ~shutterOpen

(* The process ends: after a timeout as well, all the threads are joined.  *)
ProcessEnds == <>joined

(* The comment on WaitCaptureDone: what finally counts is the rule that    *)
(* the shutter is closed after the capture.                                *)
ShutterClosedAfterCapture == joined /\ shots # <<>> => ~shutterOpen

(* No image is spoilt: an exposure is not disturbed, and the platform stands*)
(* while the shutter is open (fsm_demo.cpp:353-426).                      *)
ImagesSharp == TypeOK /\ ExposureUndisturbed /\ NoMotionWithOpenShutter

(* A scan goes by its segments: a state gets the events it waits for, and *)
(* a finished task has captured all of them (fsm_demo.cpp:339, 391, 436). *)
SegmentsInOrder == EventsMatchState /\ FinishedMeansCaptured
=============================================================================
