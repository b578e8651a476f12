----------------------- MODULE ProcessController_proofs -----------------------
(***************************************************************************)
(* Theorems about ProcessController for every number of segments: with a   *)
(* timeout at any wait and devices as slow as they like, no exposure is    *)
(* disturbed and the machine goes by its segments.                         *)
(***************************************************************************)
EXTENDS ProcessController, SequenceTheorems, TLAPS

-----------------------------------------------------------------------------
(* What a worker has to do: nothing, or the one command of type c of the   *)
(* current segment; and then to stop, once the machine has told it to.     *)
StopCommand == Command("Stop", -1)

Idle(w) ==
    \/ doing[w] = Nothing /\ running /\ commands[w] = <<>>
    \/ doing[w] = Nothing /\ ~running /\ commands[w] = <<StopCommand>>
    \/ doing[w] = StopCommand /\ ~running /\ commands[w] = <<>>

Busy(w, c) ==
    \/ doing[w] = Command(c, current)
       /\ commands[w] = IF running THEN <<>> ELSE <<StopCommand>>
    \/ doing[w] = Nothing
       /\ commands[w] = IF running THEN <<Command(c, current)>>
                        ELSE <<Command(c, current), StopCommand>>

AllIdle == Idle("platform") /\ Idle("shutter") /\ Idle("camera")

Upto(n) == [i \in 1 .. n |-> i]

-----------------------------------------------------------------------------
(* What each state of the machine knows of the devices and the events.     *)
Resting == running /\ AllIdle /\ events = <<>>

BeforeMove ==
    Resting /\ ~shutterOpen /\ shots = Upto(current - 1)

Moving ==
    /\ running /\ ~shutterOpen /\ shots = Upto(current - 1)
    /\ Idle("shutter") /\ Idle("camera")
    /\ \/ Busy("platform", "MovePlatform") /\ events = <<>>
       \/ /\ Idle("platform") /\ at = current
          /\ events = <<Event("PlatformArrived", current)>>

BeforeExposure == BeforeMove /\ at = current

Opened   == Event("ShutterOpened", current)
Captured == Event("CaptureDone", current)
Has(e)   == \E i \in 1 .. Len(events) : events[i] = e

Exposing ==
    /\ running /\ Idle("platform") /\ at = current
    /\ \A i \in 1 .. Len(events) : events[i] \in {Opened, Captured}
    /\ \A i, j \in 1 .. Len(events) : events[i] = events[j] => i = j
    /\ \/ Busy("shutter", "OpenShutter") /\ ~shutterOpened /\ ~Has(Opened)
       \/ Idle("shutter") /\ (Has(Opened) <=> ~shutterOpened)
    /\ \/ /\ Busy("camera", "CaptureImage") /\ ~captureDone /\ ~Has(Captured)
          /\ shots = Upto(current - 1)
       \/ /\ Idle("camera") /\ (Has(Captured) <=> ~captureDone)
          /\ shots = Upto(current)

BeforeClose == Resting /\ shots = Upto(current)

Closing ==
    /\ running /\ shots = Upto(current)
    /\ Idle("platform") /\ Idle("camera")
    /\ \/ Busy("shutter", "CloseShutter") /\ events = <<>>
       \/ /\ Idle("shutter") /\ ~shutterOpen
          /\ events = <<Event("ShutterClosed", current)>>

Finished ==
    /\ AllIdle /\ ~shutterOpen /\ shots = Upto(Segments)
    /\ running => events = <<>>

(* After an error the devices end what they are at, whichever wait the     *)
(* machine left.                                                           *)
Failed ==
    \/ /\ ~shutterOpen /\ Idle("shutter") /\ Idle("camera")
       /\ Busy("platform", "MovePlatform") \/ Idle("platform")
    \/ /\ at = current /\ Idle("platform")
       /\ Busy("shutter", "OpenShutter") \/ Idle("shutter")
       /\ Busy("camera", "CaptureImage") \/ Idle("camera")
    \/ /\ Idle("platform") /\ Idle("camera")
       /\ Busy("shutter", "CloseShutter") \/ Idle("shutter")

AtState ==
    /\ state = "TaskLoaded" => BeforeMove /\ current = 1
    /\ state = "MoveToPoint" => BeforeMove
    /\ state = "WaitPlatformArrived" => Moving
    /\ state = "OpenShutterAndCapture" => BeforeExposure
    /\ state = "WaitCaptureDone" => Exposing
    /\ state = "CloseShutter" => BeforeClose
    /\ state = "SegmentFinished" => Closing
    /\ state = "TaskFinished" => Finished
    /\ state = "Error" => Failed

HasSegment == state \notin {"TaskLoaded", "TaskFinished"} => Segments >= 1

ControllerInv == TypeOK /\ HasSegment /\ AtState

-----------------------------------------------------------------------------
(* Short sequences.                                                        *)
LEMMA ShortSequences ==
  ASSUME NEW x, NEW y
  PROVE  /\ Append(<<>>, x) = <<x>> /\ Append(<<x>>, y) = <<x, y>>
         /\ Head(<<x>>) = x /\ Tail(<<x>>) = <<>>
         /\ Head(<<x, y>>) = x /\ Tail(<<x, y>>) = <<y>>
         /\ <<x>> # <<>> /\ <<x, y>> # <<>>
<1>1. Append(<<>>, x) = <<x>>
  <2> DEFINE s == Append(<<>>, x)
             t == <<x>>
  <2>1. <<>> \in Seq({x}) /\ Len(<<>>) = 0
    OBVIOUS
  <2>2. s \in Seq({x}) /\ Len(s) = 1 /\ s[1] = x
    BY <2>1
  <2>3. t \in Seq({x}) /\ Len(t) = 1 /\ t[1] = x
    OBVIOUS
  <2> HIDE DEF s, t
  <2>4. \A i \in 1 .. Len(s) : s[i] = t[i]
    BY <2>2, <2>3
  <2>5. s = t
    BY <2>2, <2>3, <2>4, SeqEqual
  <2> QED
    BY <2>5 DEF s, t
<1>2. Append(<<x>>, y) = <<x, y>>
  <2> DEFINE s == Append(<<x>>, y)
             t == <<x, y>>
  <2>1. <<x>> \in Seq({x, y}) /\ Len(<<x>>) = 1 /\ <<x>>[1] = x
    OBVIOUS
  <2>2. s \in Seq({x, y}) /\ Len(s) = 2 /\ s[1] = x /\ s[2] = y
    BY <2>1
  <2>3. t \in Seq({x, y}) /\ Len(t) = 2 /\ t[1] = x /\ t[2] = y
    OBVIOUS
  <2> HIDE DEF s, t
  <2>4. \A i \in 1 .. Len(s) : s[i] = t[i]
    BY <2>2, <2>3
  <2>5. s = t
    BY <2>2, <2>3, <2>4, SeqEqual
  <2> QED
    BY <2>5 DEF s, t
<1>3. Head(<<x>>) = x
  OBVIOUS
<1>4. Tail(<<x>>) = <<>>
  OBVIOUS
<1>5. Head(<<x, y>>) = x
  OBVIOUS
<1>6. Tail(<<x, y>>) = <<y>>
  OBVIOUS
<1>7. <<x>> # <<>> /\ <<x, y>> # <<>>
  OBVIOUS
<1> QED
  BY <1>1, <1>2, <1>3, <1>4, <1>5, <1>6, <1>7

(* One more segment captured.                                              *)
LEMMA NextShot ==
  ASSUME NEW n \in Nat \ {0} PROVE Append(Upto(n - 1), n) = Upto(n)
<1>1. Upto(n - 1) \in Seq(Nat) /\ Len(Upto(n - 1)) = n - 1
  BY DEF Upto
<1>2. /\ Append(Upto(n - 1), n) \in Seq(Nat)
      /\ Len(Append(Upto(n - 1), n)) = n
  BY <1>1
<1>3. Upto(n) \in Seq(Nat) /\ Len(Upto(n)) = n
  BY DEF Upto
<1>4. ASSUME NEW i \in 1 .. n PROVE Append(Upto(n - 1), n)[i] = Upto(n)[i]
  BY <1>1 DEF Upto
<1> QED
  BY <1>2, <1>3, <1>4

-----------------------------------------------------------------------------
(* Workers.                                                                *)
Orders == {"MovePlatform", "OpenShutter", "CloseShutter", "CaptureImage"}

(* Each worker has nothing to do or one thing.                             *)
LEMMA OneOrder ==
  ASSUME ControllerInv, NEW w \in Workers
  PROVE  Idle(w) \/ \E c \in Orders : Busy(w, c)
<1>1. /\ state \in {"TaskLoaded", "MoveToPoint"} => BeforeMove
      /\ state = "WaitPlatformArrived" => Moving
      /\ state = "OpenShutterAndCapture" => BeforeExposure
      /\ state = "WaitCaptureDone" => Exposing
      /\ state = "CloseShutter" => BeforeClose
      /\ state = "SegmentFinished" => Closing
      /\ state = "TaskFinished" => Finished
      /\ state = "Error" => Failed
  BY DEF ControllerInv, AtState
<1>2. state \in States
  BY DEF ControllerInv, TypeOK
<1> QED
  BY <1>1, <1>2 DEF States, Workers, Orders, BeforeMove, Resting, AllIdle,
     Moving, BeforeExposure, Exposing, BeforeClose, Closing, Finished, Failed

(* A worker that nothing is done to keeps its order.                       *)
LEMMA Untouched ==
  ASSUME NEW w, doing'[w] = doing[w], commands'[w] = commands[w],
         running' = running
  PROVE  /\ Idle(w) => Idle(w)'
         /\ current' = current => \A c \in Orders : Busy(w, c) => Busy(w, c)'
  BY DEF Idle, Busy

(* Taking a command from the queue changes nothing of that.                *)
LEMMA TakeKeeps ==
  ASSUME TypeOK, NEW w \in Workers, Take(w)
  PROVE  /\ \A v \in Workers : Idle(v) => Idle(v)'
         /\ \A v \in Workers, c \in Orders : Busy(v, c) => Busy(v, c)'
         /\ running /\ (Idle(w) \/ \E c \in Orders : Busy(w, c))
                => events' = events
<1> USE DEF TypeOK
<1>1. /\ doing[w] = Nothing /\ commands[w] # <<>>
      /\ doing'[w] = Head(commands[w]) /\ commands'[w] = Tail(commands[w])
      /\ \A v \in Workers \ {w} :
            doing'[v] = doing[v] /\ commands'[v] = commands[v]
      /\ running' = running /\ current' = current
  BY DEF Take, fsmVars
<1>2. ASSUME NEW v \in Workers, v # w
      PROVE  /\ Idle(v) => Idle(v)'
             /\ \A c \in Orders : Busy(v, c) => Busy(v, c)'
  BY <1>1, <1>2, Untouched
<1>3. Nothing # StopCommand
  BY DEF Nothing, StopCommand, Command
<1>4. ASSUME Idle(w) PROVE Idle(w)' /\ ~running
  BY <1>1, <1>3, <1>4, ShortSequences DEF Idle
<1>5. ASSUME NEW c \in Orders, Busy(w, c)
      PROVE  Busy(w, c)' /\ Head(commands[w]) = Command(c, current)
  <2>1. Nothing # Command(c, current)
    BY DEF Nothing, Command, Orders
  <2>2. commands[w] = IF running THEN <<Command(c, current)>>
                      ELSE <<Command(c, current), StopCommand>>
    BY <1>1, <1>5, <2>1 DEF Busy
  <2>3. /\ Head(commands[w]) = Command(c, current)
        /\ Tail(commands[w]) = IF running THEN <<>> ELSE <<StopCommand>>
    BY <2>2, ShortSequences
  <2> QED
    BY <1>1, <2>3 DEF Busy
<1>6. ASSUME NEW c \in Orders, Busy(w, c) PROVE events' = events
  BY <1>5, <1>6 DEF Take, Command, Orders
<1> QED
  BY <1>2, <1>4, <1>5, <1>6

(* A worker that is done has nothing left to do, and was at its command.   *)
LEMMA DoneIdles ==
  ASSUME TypeOK, NEW w \in Workers, NEW c \in Orders, NEW e, Done(w, c, e)
  PROVE  /\ ~Idle(w) /\ \A d \in Orders : Busy(w, d) => d = c
         /\ Busy(w, c) => /\ Idle(w)' /\ doing[w].segment = current
                          /\ events' = Append(events, Event(e, current))
         /\ \A v \in Workers \ {w} :
               /\ Idle(v) => Idle(v)'
               /\ \A d \in Orders : Busy(v, d) => Busy(v, d)'
<1> USE DEF TypeOK
<1>1. /\ doing[w].type = c /\ doing'[w] = Nothing
      /\ \A v \in Workers \ {w} : doing'[v] = doing[v]
      /\ commands' = commands /\ running' = running /\ current' = current
      /\ events' = Append(events, Event(e, doing[w].segment))
  BY DEF Done, fsmVars
<1>2. ~Idle(w)
  BY <1>1 DEF Idle, Nothing, StopCommand, Command, Orders
<1>3. ASSUME NEW d \in Orders, Busy(w, d)
      PROVE  d = c /\ doing[w] = Command(d, current)
  BY <1>1, <1>3 DEF Busy, Nothing, Command, Orders
<1>4. ASSUME Busy(w, c)
      PROVE  /\ Idle(w)' /\ doing[w].segment = current
             /\ events' = Append(events, Event(e, current))
  <2>1. doing[w] = Command(c, current) /\ Command(c, current) # Nothing
    BY <1>3, <1>4 DEF Command, Nothing, Orders
  <2>2. commands[w] = IF running THEN <<>> ELSE <<StopCommand>>
    BY <1>4, <2>1 DEF Busy
  <2>3. Idle(w)'
    BY <1>1, <2>2 DEF Idle
  <2> QED
    BY <1>1, <2>1, <2>3 DEF Command
<1>5. ASSUME NEW v \in Workers \ {w}
      PROVE  /\ Idle(v) => Idle(v)'
             /\ \A d \in Orders : Busy(v, d) => Busy(v, d)'
  BY <1>1, Untouched
<1> QED
  BY <1>2, <1>3, <1>4, <1>5

(* A worker that is done was at the current segment, which is a segment.   *)
LEMMA DoneAtCurrent ==
  ASSUME ControllerInv, ControllerAssumption,
         NEW w \in Workers, NEW c \in Orders, NEW e, Done(w, c, e)
  PROVE  Busy(w, c) /\ current \in 1 .. Segments
<1>1. TypeOK
  BY DEF ControllerInv
<1>2. Busy(w, c)
  BY <1>1, OneOrder, DoneIdles
<1>3. ~Idle(w)
  BY <1>1, DoneIdles
<1>4. state \notin {"TaskLoaded", "TaskFinished"}
  BY <1>3 DEF ControllerInv, AtState, BeforeMove, Resting, Finished, AllIdle,
     Workers
<1> QED
  BY <1>2, <1>4 DEF ControllerInv, TypeOK, HasSegment, ControllerAssumption

-----------------------------------------------------------------------------
(* Types.                                                                  *)
LEMMA TypeNext ==
  ASSUME ControllerAssumption, ControllerInv, [Next]_vars
  PROVE  TypeOK' /\ HasSegment'
<1> USE DEF ControllerAssumption, ControllerInv
<1>1. current \in 1 .. Segments \/ state \in {"TaskLoaded", "TaskFinished"}
  BY DEF TypeOK, HasSegment
<1>2. ASSUME NEW w \in Workers, NEW c \in CommandTypes, Send(w, c),
             current \in 1 .. Segments
      PROVE  commands' \in [Workers -> Seq(CommandRecords)]
  <2>1. Command(c, current) \in CommandRecords
    BY <1>2 DEF Command, CommandRecords
  <2> QED
    BY <1>2, <2>1 DEF Send, TypeOK
<1>3. ASSUME NEW s, NEW e, NEW next \in States, Await(s, e, next)
      PROVE  /\ events' \in Seq(EventRecords)
             /\ state' \in {state, next, "Error"}
  BY <1>3 DEF Await, TypeOK
<1>4. CASE TaskLoaded
  BY <1>4 DEF TaskLoaded, In, TypeOK, HasSegment, States, queueVars, deviceVars
<1>5. CASE MoveToPoint
  <2>1. commands' \in [Workers -> Seq(CommandRecords)]
    BY <1>1, <1>2, <1>5 DEF MoveToPoint, In, Workers, CommandTypes
  <2> QED
    BY <1>5, <2>1
    DEF MoveToPoint, In, TypeOK, HasSegment, States, deviceVars
<1>6. CASE WaitPlatformArrived
  BY <1>3, <1>6 DEF WaitPlatformArrived, Await, In, TypeOK, HasSegment, States,
     deviceVars
<1>7. CASE OpenShutterAndCapture
  <2>1. /\ Command("OpenShutter", current) \in CommandRecords
        /\ Command("CaptureImage", current) \in CommandRecords
    BY <1>1, <1>7
    DEF OpenShutterAndCapture, In, Command, CommandRecords, CommandTypes
  <2>2. /\ Append(commands["shutter"], Command("OpenShutter", current))
             \in Seq(CommandRecords)
        /\ Append(commands["camera"], Command("CaptureImage", current))
             \in Seq(CommandRecords)
    BY <2>1 DEF TypeOK, Workers
  <2>3. commands' \in [Workers -> Seq(CommandRecords)]
    BY <1>7, <2>2 DEF OpenShutterAndCapture, TypeOK
  <2> QED
    BY <1>7, <2>3
    DEF OpenShutterAndCapture, In, TypeOK, HasSegment, States, deviceVars
<1>8. CASE WaitCaptureDone
  BY <1>8 DEF WaitCaptureDone, BothArrived, In, TypeOK, HasSegment, States,
     deviceVars
<1>9. CASE CloseShutter
  <2>1. commands' \in [Workers -> Seq(CommandRecords)]
    BY <1>1, <1>2, <1>9 DEF CloseShutter, In, Workers, CommandTypes
  <2> QED
    BY <1>9, <2>1
    DEF CloseShutter, In, TypeOK, HasSegment, States, deviceVars
<1>10. CASE SegmentFinished
  BY <1>1, <1>3, <1>10 DEF SegmentFinished, LastSegment, Await, In, TypeOK,
     HasSegment, States, deviceVars
<1>11. CASE Timeout
  BY <1>11 DEF Timeout, In, TypeOK, HasSegment, States, queueVars, deviceVars
<1>12. CASE StopAllWorkers
  <2>1. Command("Stop", -1) \in CommandRecords
    BY DEF Command, CommandRecords, CommandTypes
  <2>2. commands' \in [Workers -> Seq(CommandRecords)]
    BY <1>12, <2>1 DEF StopAllWorkers, TypeOK
  <2> QED
    BY <1>12, <2>2 DEF StopAllWorkers, TypeOK, HasSegment, deviceVars
<1>13. ASSUME NEW w \in Workers, Take(w) PROVE TypeOK' /\ HasSegment'
  <2>1. /\ Head(commands[w]) \in CommandRecords
        /\ Tail(commands[w]) \in Seq(CommandRecords)
    BY <1>13 DEF Take, TypeOK
  <2>2. Event("Stopped", -1) \in EventRecords
    BY DEF Event, EventRecords, EventTypes
  <2> QED
    BY <1>13, <2>1, <2>2 DEF Take, TypeOK, HasSegment, fsmVars, deviceVars
<1>14. ASSUME NEW w \in Workers, NEW c \in Orders, NEW e \in EventTypes,
              Done(w, c, e)
       PROVE  /\ doing' \in [Workers -> CommandRecords]
              /\ events' \in Seq(EventRecords) /\ HasSegment'
              /\ doing[w].segment \in 1 .. Segments
  <2>1. Nothing \in CommandRecords
    BY DEF Nothing, Command, CommandRecords, CommandTypes
  <2>2. doing[w].segment \in 1 .. Segments
    BY <1>14, DoneAtCurrent, DoneIdles
  <2>3. Event(e, doing[w].segment) \in EventRecords
    BY <2>2 DEF Event, EventRecords
  <2> QED
    BY <1>14, <2>1, <2>2, <2>3 DEF Done, TypeOK, HasSegment, fsmVars
<1>15. CASE PlatformArrives
  BY <1>14, <1>15
  DEF PlatformArrives, Done, TypeOK, Orders, EventTypes, Workers, fsmVars
<1>16. CASE ShutterOpens
  BY <1>14, <1>16
  DEF ShutterOpens, Done, TypeOK, Orders, EventTypes, Workers, fsmVars
<1>17. CASE ShutterCloses
  BY <1>14, <1>17
  DEF ShutterCloses, Done, TypeOK, Orders, EventTypes, Workers, fsmVars
<1>18. CASE CameraCaptures
  <2>1. doing["camera"].segment \in 1 .. Segments
    BY <1>14, <1>18 DEF CameraCaptures, Orders, EventTypes, Workers
  <2> QED
    BY <1>14, <1>18, <2>1
    DEF CameraCaptures, Done, TypeOK, Orders, EventTypes, Workers, fsmVars
<1>19. CASE Join
  BY <1>19 DEF Join, TypeOK, HasSegment, fsmVars, queueVars, deviceVars
<1>20. CASE UNCHANGED vars
  BY <1>20 DEF vars, TypeOK, HasSegment, fsmVars, queueVars, deviceVars
<1> QED
  BY <1>4, <1>5, <1>6, <1>7, <1>8, <1>9, <1>10, <1>11, <1>12, <1>13, <1>15,
     <1>16, <1>17, <1>18, <1>19, <1>20
  DEF Next, Fsm, Platform, Shutter, Camera, Workers

-----------------------------------------------------------------------------
(* The machine.                                                            *)

(* A worker that is sent a command has it to do, the others what they had. *)
LEMMA SendGivesOrder ==
  ASSUME TypeOK, running, running' = running, doing' = doing,
         current' = current, NEW w \in Workers, NEW c \in Orders, Send(w, c)
  PROVE  /\ Idle(w) => Busy(w, c)'
         /\ \A v \in Workers \ {w} : Idle(v) => Idle(v)'
<1>1. /\ commands'[w] = Append(commands[w], Command(c, current))
      /\ \A v \in Workers \ {w} : commands'[v] = commands[v]
  BY DEF Send, TypeOK
<1>2. ASSUME Idle(w) PROVE Busy(w, c)'
  BY <1>1, <1>2, ShortSequences DEF Idle, Busy
<1>3. ASSUME NEW v \in Workers \ {w} PROVE Idle(v) => Idle(v)'
  BY <1>1, Untouched
<1> QED
  BY <1>2, <1>3

(* The wait for an event ends with that event, or not at all.              *)
LEMMA AwaitedEvent ==
  ASSUME NEW s, NEW e, NEW next, Await(s, e, next), current \in Nat,
         events = <<Event(e, current)>>
  PROVE  events' = <<>> /\ state' = next
<1>1. Head(events) = Event(e, current) /\ Tail(events) = <<>>
  BY ShortSequences
<1> QED
  BY <1>1 DEF Await, Event

LEMMA WaitCaptureDoneInv ==
  ASSUME ControllerInv, WaitCaptureDone PROVE AtState'
<1> USE DEF ControllerInv, TypeOK
<1>1. state = "WaitCaptureDone" /\ Exposing /\ events # <<>>
  BY DEF WaitCaptureDone, In, AtState
<1>2. Opened # Captured
  BY DEF Opened, Captured, Event
<1>3. /\ Head(events) \in {Opened, Captured}
      /\ Opened' = Opened /\ Captured' = Captured
      /\ shutterOpened' = (shutterOpened \/ Head(events) = Opened)
      /\ captureDone' = (captureDone \/ Head(events) = Captured)
  <2>1. Head(events) \in {Opened, Captured}
    BY <1>1 DEF Exposing
  <2>2. current' = current
    BY DEF WaitCaptureDone
  <2>3. /\ Head(events).segment = current
        /\ Head(events).type = "ShutterOpened" <=> Head(events) = Opened
        /\ Head(events).type = "CaptureDone" <=> Head(events) = Captured
    BY <2>1 DEF Opened, Captured, Event
  <2> QED
    BY <2>1, <2>2, <2>3 DEF WaitCaptureDone, Opened, Captured
<1>4. /\ Len(events') = Len(events) - 1
      /\ \A i \in 1 .. Len(events') : events'[i] = events[i + 1]
      /\ Head(events) = events[1] /\ Len(events) >= 1
  BY <1>1 DEF WaitCaptureDone
<1>5. ASSUME NEW e
      PROVE  (\E i \in 1 .. Len(events') : events'[i] = e)
                <=> Has(e) /\ e # Head(events)
  <2>1. ASSUME Has(e), e # Head(events)
        PROVE  \E i \in 1 .. Len(events') : events'[i] = e
    <3>1. PICK i \in 1 .. Len(events) : events[i] = e
      BY <2>1 DEF Has
    <3>2. i # 1
      BY <1>4, <2>1, <3>1
    <3>3. i - 1 \in 1 .. Len(events') /\ events'[i - 1] = e
      BY <1>4, <3>1, <3>2
    <3> QED
      BY <3>3
  <2>2. ASSUME \E i \in 1 .. Len(events') : events'[i] = e
        PROVE  Has(e) /\ e # Head(events)
    <3>1. PICK i \in 1 .. Len(events') : events'[i] = e
      BY <2>2
    <3>2. i + 1 \in 1 .. Len(events) /\ events[i + 1] = e /\ i + 1 # 1
      BY <1>4, <3>1
    <3>3. 1 \in 1 .. Len(events) /\ events[1] # e
      BY <1>1, <1>4, <3>2 DEF Exposing
    <3> QED
      BY <1>4, <3>2, <3>3 DEF Has
  <2> QED
    BY <2>1, <2>2
<1>6. /\ Has(Opened)' <=> Has(Opened) /\ Opened # Head(events)
      /\ Has(Captured)' <=> Has(Captured) /\ Captured # Head(events)
      /\ Has(Head(events))
  <2>1. Has(Opened)' <=> \E i \in 1 .. Len(events') : events'[i] = Opened
    BY <1>3 DEF Has
  <2>2. Has(Captured)' <=> \E i \in 1 .. Len(events') : events'[i] = Captured
    BY <1>3 DEF Has
  <2>3. Has(Head(events))
    BY <1>4 DEF Has
  <2> QED
    BY <1>5, <2>1, <2>2, <2>3
<1>7. /\ \A v \in Workers : Idle(v) => Idle(v)'
      /\ \A v \in Workers, c \in Orders : Busy(v, c) => Busy(v, c)'
  BY Untouched DEF WaitCaptureDone
<1>8. Exposing'
  <2>1. /\ running' /\ Idle("platform")' /\ at' = current' /\ shots' = shots
        /\ current' = current
    BY <1>1, <1>7 DEF Exposing, WaitCaptureDone, Workers, deviceVars
  <2>2. \A i \in 1 .. Len(events') : events'[i] \in {Opened', Captured'}
    BY <1>1, <1>3, <1>4 DEF Exposing
  <2>3. \A i, j \in 1 .. Len(events') : events'[i] = events'[j] => i = j
    BY <1>1, <1>4 DEF Exposing
  <2>4. \/ Busy("shutter", "OpenShutter")' /\ ~shutterOpened' /\ ~Has(Opened)'
        \/ Idle("shutter")' /\ (Has(Opened)' <=> ~shutterOpened')
    <3>1. CASE Busy("shutter", "OpenShutter") /\ ~shutterOpened /\ ~Has(Opened)
      BY <1>3, <1>6, <1>7, <3>1 DEF Workers, Orders
    <3>2. CASE Idle("shutter") /\ (Has(Opened) <=> ~shutterOpened)
      BY <1>3, <1>6, <1>7, <3>2 DEF Workers
    <3> QED
      BY <1>1, <3>1, <3>2 DEF Exposing
  <2>5. \/ /\ Busy("camera", "CaptureImage")' /\ ~captureDone' /\ ~Has(Captured)'
           /\ shots' = Upto(current' - 1)
        \/ /\ Idle("camera")' /\ (Has(Captured)' <=> ~captureDone')
           /\ shots' = Upto(current')
    <3>1. CASE /\ Busy("camera", "CaptureImage") /\ ~captureDone
               /\ ~Has(Captured) /\ shots = Upto(current - 1)
      BY <1>3, <1>6, <1>7, <2>1, <3>1 DEF Workers, Orders
    <3>2. CASE /\ Idle("camera") /\ (Has(Captured) <=> ~captureDone)
               /\ shots = Upto(current)
      BY <1>3, <1>6, <1>7, <2>1, <3>2 DEF Workers
    <3> QED
      BY <1>1, <3>1, <3>2 DEF Exposing
  <2> QED
    BY <2>1, <2>2, <2>3, <2>4, <2>5 DEF Exposing
<1>9. CASE shutterOpened' /\ captureDone'
  <2>1. ~Has(Opened)' /\ ~Has(Captured)'
    BY <1>8, <1>9 DEF Exposing
  <2>2. ~(1 \in 1 .. Len(events'))
    BY <1>8, <2>1 DEF Exposing, Has
  <2>3. events' = <<>>
    BY <1>4, <2>2, EmptySeq DEF WaitCaptureDone
  <2>4. BeforeClose'
    BY <1>8, <1>9, <2>3 DEF Exposing, BeforeClose, Resting, AllIdle
  <2> QED
    BY <1>9, <2>4 DEF AtState, WaitCaptureDone, BothArrived
<1>10. CASE ~(shutterOpened' /\ captureDone')
  BY <1>1, <1>8, <1>10 DEF AtState, WaitCaptureDone, BothArrived
<1> QED
  BY <1>9, <1>10

(* The machine takes each state to the next one.                           *)
LEMMA FsmInv ==
  ASSUME ControllerAssumption, ControllerInv, Fsm PROVE AtState'
<1> USE DEF ControllerInv
<1>1. TypeOK /\ AtState
  OBVIOUS
<1>2. doing' = doing /\ UNCHANGED <<at, shutterOpen, shots>>
  BY DEF Fsm, TaskLoaded, MoveToPoint, WaitPlatformArrived,
     OpenShutterAndCapture, WaitCaptureDone, CloseShutter, SegmentFinished,
     Timeout, StopAllWorkers, Await, deviceVars
<1>3. ASSUME commands' = commands, running' = running
      PROVE  /\ \A w \in Workers : Idle(w) => Idle(w)'
             /\ current' = current
                  => \A w \in Workers, c \in Orders : Busy(w, c) => Busy(w, c)'
  BY <1>2, <1>3, Untouched
<1>4. current \in Nat /\ Segments \in Nat
  BY DEF TypeOK, ControllerAssumption
<1>5. CASE TaskLoaded
  <2>1. BeforeMove /\ current = 1 /\ running'
    BY <1>5 DEF TaskLoaded, In, AtState
  <2>2. BeforeMove'
    BY <1>2, <1>3, <1>5, <2>1 DEF TaskLoaded, BeforeMove, Resting, AllIdle,
       Workers, queueVars
  <2>3. Segments = 0 => Finished'
    BY <1>4, <2>1, <2>2, <1>5
    DEF TaskLoaded, Finished, BeforeMove, Resting, Upto
  <2> QED
    BY <1>5, <2>2, <2>3 DEF TaskLoaded, AtState
<1>6. CASE MoveToPoint
  <2>1. BeforeMove /\ running /\ running' = running /\ current' = current
        /\ events' = events /\ Send("platform", "MovePlatform")
    BY <1>6 DEF MoveToPoint, In, AtState
  <2>2. /\ Busy("platform", "MovePlatform")'
        /\ Idle("shutter")' /\ Idle("camera")'
    BY <1>1, <1>2, <2>1, SendGivesOrder
    DEF BeforeMove, Resting, AllIdle, Workers, Orders
  <2>3. Moving'
    BY <1>2, <2>1, <2>2 DEF Moving, BeforeMove, Resting
  <2> QED
    BY <1>6, <2>3 DEF MoveToPoint, AtState
<1>7. CASE WaitPlatformArrived
  <2>1. Moving /\ events # <<>> /\ current' = current /\ running' = running
        /\ commands' = commands
    BY <1>7 DEF WaitPlatformArrived, Await, In, AtState
  <2>2. Idle("platform") /\ at = current
        /\ events = <<Event("PlatformArrived", current)>>
    BY <2>1 DEF Moving
  <2>3. events' = <<>> /\ state' = "OpenShutterAndCapture"
    BY <1>4, <1>7, <2>2, AwaitedEvent DEF WaitPlatformArrived
  <2>4. BeforeExposure'
    BY <1>2, <1>3, <2>1, <2>2, <2>3
    DEF BeforeExposure, BeforeMove, Resting, AllIdle, Moving, Workers
  <2> QED
    BY <2>3, <2>4 DEF AtState
<1>8. CASE OpenShutterAndCapture
  <2>1. BeforeExposure /\ running /\ running' = running /\ current' = current
        /\ events' = events /\ shutterOpened' = FALSE /\ captureDone' = FALSE
    BY <1>8 DEF OpenShutterAndCapture, In, AtState
  <2>2. /\ commands'["platform"] = commands["platform"]
        /\ commands'["shutter"] =
              Append(commands["shutter"], Command("OpenShutter", current))
        /\ commands'["camera"] =
              Append(commands["camera"], Command("CaptureImage", current))
    BY <1>1, <1>8 DEF OpenShutterAndCapture, TypeOK, Workers
  <2>3. AllIdle
    BY <2>1 DEF BeforeExposure, BeforeMove, Resting
  <2>4. Idle("platform")'
    BY <1>2, <2>1, <2>2, <2>3, Untouched DEF AllIdle
  <2>5. Busy("shutter", "OpenShutter")' /\ Busy("camera", "CaptureImage")'
    BY <1>2, <2>1, <2>2, <2>3, ShortSequences DEF AllIdle, Idle, Busy
  <2>6. Exposing'
    BY <1>2, <2>1, <2>4, <2>5
    DEF Exposing, BeforeExposure, BeforeMove, Resting, Has
  <2> QED
    BY <1>8, <2>6 DEF OpenShutterAndCapture, AtState
<1>9. CASE WaitCaptureDone
  BY <1>9, WaitCaptureDoneInv
<1>10. CASE CloseShutter
  <2>1. BeforeClose /\ running /\ running' = running /\ current' = current
        /\ events' = events /\ Send("shutter", "CloseShutter")
    BY <1>10 DEF CloseShutter, In, AtState
  <2>2. /\ Busy("shutter", "CloseShutter")'
        /\ Idle("platform")' /\ Idle("camera")'
    BY <1>1, <1>2, <2>1, SendGivesOrder
    DEF BeforeClose, Resting, AllIdle, Workers, Orders
  <2>3. Closing'
    BY <1>2, <2>1, <2>2 DEF Closing, BeforeClose, Resting
  <2> QED
    BY <1>10, <2>3 DEF CloseShutter, AtState
<1>11. CASE SegmentFinished
  <2>1. Closing /\ events # <<>> /\ running' = running /\ commands' = commands
    BY <1>11 DEF SegmentFinished, Await, In, AtState
  <2>2. Idle("shutter") /\ ~shutterOpen
        /\ events = <<Event("ShutterClosed", current)>>
    BY <2>1 DEF Closing
  <2>3. /\ events' = <<>>
        /\ state' = IF LastSegment THEN "TaskFinished" ELSE "MoveToPoint"
    BY <1>4, <1>11, <2>2, AwaitedEvent DEF SegmentFinished
  <2>4. AllIdle' /\ running' /\ ~shutterOpen' /\ shots' = Upto(current)
    BY <1>2, <1>3, <2>1, <2>2 DEF Closing, AllIdle, Workers
  <2>5. CASE LastSegment
    BY <2>3, <2>4, <2>5 DEF AtState, Finished, LastSegment
  <2>6. CASE ~LastSegment
    <3>1. current' - 1 = current
      BY <1>4, <1>11, <2>3, <2>6 DEF SegmentFinished
    <3> QED
      BY <2>3, <2>4, <2>6, <3>1 DEF AtState, BeforeMove, Resting
  <2> QED
    BY <2>5, <2>6
<1>12. CASE Timeout
  <2>1. /\ Moving \/ Exposing \/ Closing
        /\ state' = "Error" /\ commands' = commands /\ running' = running
        /\ current' = current
    BY <1>12 DEF Timeout, In, AtState, queueVars
  <2>2. Failed
    BY <2>1 DEF Moving, Exposing, Closing, Failed
  <2>3. Failed'
    BY <1>2, <1>3, <2>1, <2>2 DEF Failed, Workers, Orders
  <2> QED
    BY <2>1, <2>3 DEF AtState
<1>13. CASE StopAllWorkers
  <2>1. /\ running /\ ~running' /\ current' = current /\ state' = state
        /\ \A w \in Workers : commands'[w] = Append(commands[w], StopCommand)
    BY <1>13 DEF StopAllWorkers, In, StopCommand
  <2>2. ASSUME NEW w \in Workers
        PROVE  /\ Idle(w) => Idle(w)'
               /\ \A c \in Orders : Busy(w, c) => Busy(w, c)'
    <3>1. /\ commands'[w] = Append(commands[w], StopCommand)
          /\ doing'[w] = doing[w]
      BY <1>2, <2>1
    <3>2. ASSUME Idle(w) PROVE Idle(w)'
      BY <2>1, <3>1, <3>2, ShortSequences DEF Idle
    <3>3. ASSUME NEW c \in Orders, Busy(w, c) PROVE Busy(w, c)'
      BY <2>1, <3>1, <3>3, ShortSequences DEF Busy
    <3> QED
      BY <3>2, <3>3
  <2>3. CASE state = "TaskFinished"
    BY <1>2, <2>1, <2>2, <2>3 DEF AtState, Finished, AllIdle, Workers
  <2>4. CASE state = "Error"
    <3>1. Failed'
      BY <1>2, <2>1, <2>2, <2>4 DEF AtState, Failed, Workers, Orders
    <3> QED
      BY <2>1, <2>4, <3>1 DEF AtState
  <2> QED
    BY <1>13, <2>3, <2>4 DEF StopAllWorkers, In
<1> QED
  BY <1>5, <1>6, <1>7, <1>8, <1>9, <1>10, <1>11, <1>12, <1>13 DEF Fsm

-----------------------------------------------------------------------------
(* The workers.                                                            *)
LEMMA TakeInv ==
  ASSUME ControllerInv, NEW w \in Workers, Take(w) PROVE AtState'
<1> USE DEF ControllerInv
<1>1. TypeOK /\ AtState /\ UNCHANGED <<fsmVars, deviceVars>>
  BY DEF Take
<1>2. /\ \A v \in Workers : Idle(v) => Idle(v)'
      /\ \A v \in Workers, c \in Orders : Busy(v, c) => Busy(v, c)'
      /\ running => events' = events
  BY <1>1, TakeKeeps, OneOrder
<1> USE <1>2 DEF fsmVars, deviceVars, Workers, Orders
<1>3. ASSUME Resting PROVE Resting'
  BY <1>1, <1>3 DEF Resting, AllIdle
<1>4. ASSUME BeforeMove PROVE BeforeMove'
  BY <1>1, <1>3, <1>4 DEF BeforeMove
<1>5. ASSUME Moving PROVE Moving'
  BY <1>1, <1>5 DEF Moving
<1>6. ASSUME BeforeExposure PROVE BeforeExposure'
  BY <1>1, <1>4, <1>6 DEF BeforeExposure
<1>7. ASSUME Exposing PROVE Exposing'
  BY <1>1, <1>7 DEF Exposing, Has, Opened, Captured
<1>8. ASSUME BeforeClose PROVE BeforeClose'
  BY <1>1, <1>3, <1>8 DEF BeforeClose
<1>9. ASSUME Closing PROVE Closing'
  BY <1>1, <1>9 DEF Closing
<1>10. ASSUME Finished PROVE Finished'
  BY <1>1, <1>10 DEF Finished, AllIdle
<1>11. ASSUME Failed PROVE Failed'
  BY <1>1, <1>11 DEF Failed
<1> QED
  BY <1>1, <1>4, <1>5, <1>6, <1>7, <1>8, <1>9, <1>10, <1>11 DEF AtState

(* Which state the machine can be in while a worker is at a command.       *)
LEMMA BusyStates ==
  ASSUME ControllerInv
  PROVE  /\ ~Idle("platform") => state = "WaitPlatformArrived" \/ state = "Error"
         /\ ~Idle("camera") => state = "WaitCaptureDone" \/ state = "Error"
         /\ ~Idle("shutter") => state \in {"WaitCaptureDone", "SegmentFinished", "Error"}
  BY DEF ControllerInv, TypeOK, States, AtState, BeforeMove, Resting, AllIdle,
     Moving, BeforeExposure, Exposing, BeforeClose, Closing, Finished

LEMMA PlatformArrivesInv ==
  ASSUME ControllerInv, PlatformArrives PROVE AtState'
<1> USE DEF ControllerInv, Workers, Orders
<1>1. /\ TypeOK /\ AtState /\ Done("platform", "MovePlatform", "PlatformArrived")
      /\ at' = doing["platform"].segment
      /\ UNCHANGED <<fsmVars, shutterOpen, shots>>
  BY DEF PlatformArrives, Done
<1>2. /\ ~Idle("platform")
      /\ \A d \in Orders : Busy("platform", d) => d = "MovePlatform"
      /\ Busy("platform", "MovePlatform")
            => /\ Idle("platform")' /\ doing["platform"].segment = current
               /\ events' = Append(events, Event("PlatformArrived", current))
      /\ \A v \in Workers \ {"platform"} : Idle(v) => Idle(v)'
  BY <1>1, DoneIdles
<1>3. CASE state = "WaitPlatformArrived"
  <2>1. Moving /\ Busy("platform", "MovePlatform") /\ events = <<>>
    BY <1>1, <1>2, <1>3 DEF AtState, Moving
  <2>2. events' = <<Event("PlatformArrived", current)>>
    BY <1>2, <2>1, ShortSequences
  <2>3. Moving'
    BY <1>1, <1>2, <2>1, <2>2 DEF Moving, fsmVars
  <2> QED
    BY <1>1, <1>3, <2>3 DEF AtState, fsmVars
<1>4. CASE state = "Error"
  <2>1. /\ Busy("platform", "MovePlatform") /\ ~shutterOpen
        /\ Idle("shutter") /\ Idle("camera")
    BY <1>1, <1>2, <1>4 DEF AtState, Failed
  <2>2. Failed'
    BY <1>1, <1>2, <2>1 DEF Failed
  <2> QED
    BY <1>1, <1>4, <2>2 DEF AtState, fsmVars
<1> QED
  BY <1>2, <1>3, <1>4, BusyStates

(* One more event, of a kind that was not waiting.                         *)
LEMMA NewEvent ==
  ASSUME ControllerInv, Exposing, current' = current,
         NEW e \in {Opened, Captured}, ~Has(e), events' = Append(events, e)
  PROVE  /\ \A i \in 1 .. Len(events') : events'[i] \in {Opened, Captured}'
         /\ \A i, j \in 1 .. Len(events') : events'[i] = events'[j] => i = j
         /\ Has(Opened)' <=> Has(Opened) \/ Opened = e
         /\ Has(Captured)' <=> Has(Captured) \/ Captured = e
<1>1. events \in Seq(EventRecords)
  BY DEF ControllerInv, TypeOK
<1>2. /\ Len(events') = Len(events) + 1 /\ events'[Len(events) + 1] = e
      /\ \A i \in 1 .. Len(events) : events'[i] = events[i]
      /\ Len(events) \in Nat
  BY <1>1
<1>3. Opened' = Opened /\ Captured' = Captured
  BY DEF Opened, Captured
<1>4. ASSUME NEW x
      PROVE  (\E i \in 1 .. Len(events') : events'[i] = x) <=> Has(x) \/ x = e
  BY <1>2 DEF Has
<1>5. /\ Has(Opened)' <=> \E i \in 1 .. Len(events') : events'[i] = Opened
      /\ Has(Captured)' <=> \E i \in 1 .. Len(events') : events'[i] = Captured
  BY <1>3 DEF Has
<1>6. \A i \in 1 .. Len(events') : events'[i] \in {Opened, Captured}'
  BY <1>2, <1>3 DEF Exposing
<1>7. \A i, j \in 1 .. Len(events') : events'[i] = events'[j] => i = j
  BY <1>2 DEF Exposing, Has
<1> QED
  BY <1>4, <1>5, <1>6, <1>7

LEMMA ShutterOpensInv ==
  ASSUME ControllerInv, ShutterOpens PROVE AtState'
<1> USE DEF ControllerInv, Workers, Orders
<1>1. /\ TypeOK /\ AtState /\ Done("shutter", "OpenShutter", "ShutterOpened")
      /\ UNCHANGED <<fsmVars, at, shots>>
  BY DEF ShutterOpens, Done
<1>2. /\ ~Idle("shutter")
      /\ \A d \in Orders : Busy("shutter", d) => d = "OpenShutter"
      /\ Busy("shutter", "OpenShutter")
            => Idle("shutter")' /\ events' = Append(events, Opened)
      /\ Idle("platform") => Idle("platform")'
      /\ Idle("camera") => Idle("camera")'
      /\ Busy("camera", "CaptureImage") => Busy("camera", "CaptureImage")'
  BY <1>1, DoneIdles DEF Opened
<1>3. CASE state = "WaitCaptureDone"
  <2>1. /\ Exposing /\ Busy("shutter", "OpenShutter")
        /\ ~shutterOpened /\ ~Has(Opened)
    BY <1>1, <1>2, <1>3 DEF AtState, Exposing
  <2>2. current' = current /\ events' = Append(events, Opened)
    BY <1>1, <1>2, <2>1 DEF fsmVars
  <2>3. Opened # Captured
    BY DEF Opened, Captured, Event
  <2>4. /\ \A i \in 1 .. Len(events') : events'[i] \in {Opened, Captured}'
        /\ \A i, j \in 1 .. Len(events') : events'[i] = events'[j] => i = j
        /\ Has(Opened)' /\ (Has(Captured)' <=> Has(Captured))
    BY <2>1, <2>2, <2>3, NewEvent
  <2>5. Exposing'
    BY <1>1, <1>2, <2>1, <2>4 DEF Exposing, fsmVars
  <2> QED
    BY <1>1, <1>3, <2>5 DEF AtState, fsmVars
<1>4. CASE state = "SegmentFinished"
  BY <1>1, <1>2, <1>4 DEF AtState, Closing
<1>5. CASE state = "Error"
  <2>1. /\ Busy("shutter", "OpenShutter") /\ at = current /\ Idle("platform")
        /\ Busy("camera", "CaptureImage") \/ Idle("camera")
    BY <1>1, <1>2, <1>5 DEF AtState, Failed
  <2>2. Failed'
    BY <1>1, <1>2, <2>1 DEF Failed, fsmVars
  <2> QED
    BY <1>1, <1>5, <2>2 DEF AtState, fsmVars
<1> QED
  BY <1>2, <1>3, <1>4, <1>5, BusyStates

LEMMA CameraCapturesInv ==
  ASSUME ControllerAssumption, ControllerInv, CameraCaptures PROVE AtState'
<1> USE DEF ControllerInv, Workers, Orders
<1>1. /\ TypeOK /\ AtState /\ Done("camera", "CaptureImage", "CaptureDone")
      /\ shots' = Append(shots, doing["camera"].segment)
      /\ UNCHANGED <<fsmVars, at, shutterOpen>>
  BY DEF CameraCaptures, Done
<1>2. /\ ~Idle("camera")
      /\ \A d \in Orders : Busy("camera", d) => d = "CaptureImage"
      /\ Busy("camera", "CaptureImage")
            => /\ Idle("camera")' /\ doing["camera"].segment = current
               /\ events' = Append(events, Captured)
      /\ Idle("platform") => Idle("platform")'
      /\ Idle("shutter") => Idle("shutter")'
      /\ Busy("shutter", "OpenShutter") => Busy("shutter", "OpenShutter")'
  BY <1>1, DoneIdles DEF Captured
<1>3. CASE state = "WaitCaptureDone"
  <2>1. /\ Exposing /\ Busy("camera", "CaptureImage")
        /\ ~captureDone /\ ~Has(Captured) /\ shots = Upto(current - 1)
    BY <1>1, <1>2, <1>3 DEF AtState, Exposing
  <2>2. current' = current /\ events' = Append(events, Captured)
    BY <1>1, <1>2, <2>1 DEF fsmVars
  <2>3. Opened # Captured
    BY DEF Opened, Captured, Event
  <2>4. /\ \A i \in 1 .. Len(events') : events'[i] \in {Opened, Captured}'
        /\ \A i, j \in 1 .. Len(events') : events'[i] = events'[j] => i = j
        /\ Has(Captured)' /\ (Has(Opened)' <=> Has(Opened))
    BY <2>1, <2>2, <2>3, NewEvent
  <2>5. current \in Nat \ {0}
    BY DEF TypeOK, ControllerAssumption
  <2>6. shots' = Upto(current)
    BY <1>1, <1>2, <2>1, <2>5, NextShot
  <2>7. Exposing'
    BY <1>1, <1>2, <2>1, <2>4, <2>6 DEF Exposing, fsmVars
  <2> QED
    BY <1>1, <1>3, <2>7 DEF AtState, fsmVars
<1>4. CASE state = "Error"
  <2>1. /\ at = current /\ Idle("platform")
        /\ Busy("shutter", "OpenShutter") \/ Idle("shutter")
        /\ Busy("camera", "CaptureImage")
    BY <1>1, <1>2, <1>4 DEF AtState, Failed
  <2>2. Failed'
    BY <1>1, <1>2, <2>1 DEF Failed, fsmVars
  <2> QED
    BY <1>1, <1>4, <2>2 DEF AtState, fsmVars
<1> QED
  BY <1>2, <1>3, <1>4, BusyStates

LEMMA ShutterClosesInv ==
  ASSUME ControllerInv, ShutterCloses PROVE AtState'
<1> USE DEF ControllerInv, Workers, Orders
<1>1. /\ TypeOK /\ AtState /\ Done("shutter", "CloseShutter", "ShutterClosed")
      /\ ~shutterOpen' /\ UNCHANGED <<fsmVars, at, shots>>
  BY DEF ShutterCloses, Done
<1>2. /\ ~Idle("shutter")
      /\ \A d \in Orders : Busy("shutter", d) => d = "CloseShutter"
      /\ Busy("shutter", "CloseShutter")
            => /\ Idle("shutter")'
               /\ events' = Append(events, Event("ShutterClosed", current))
      /\ Idle("platform") => Idle("platform")'
      /\ Idle("camera") => Idle("camera")'
  BY <1>1, DoneIdles
<1>3. CASE state = "WaitCaptureDone"
  BY <1>1, <1>2, <1>3 DEF AtState, Exposing
<1>4. CASE state = "SegmentFinished"
  <2>1. Closing /\ Busy("shutter", "CloseShutter") /\ events = <<>>
    BY <1>1, <1>2, <1>4 DEF AtState, Closing
  <2>2. events' = <<Event("ShutterClosed", current)>>
    BY <1>2, <2>1, ShortSequences
  <2>3. Closing'
    BY <1>1, <1>2, <2>1, <2>2 DEF Closing, fsmVars
  <2> QED
    BY <1>1, <1>4, <2>3 DEF AtState, fsmVars
<1>5. CASE state = "Error"
  <2>1. /\ Busy("shutter", "CloseShutter")
        /\ Idle("platform") /\ Idle("camera")
    BY <1>1, <1>2, <1>5 DEF AtState, Failed
  <2>2. Failed'
    BY <1>2, <2>1 DEF Failed
  <2> QED
    BY <1>1, <1>5, <2>2 DEF AtState, fsmVars
<1> QED
  BY <1>2, <1>3, <1>4, <1>5, BusyStates

-----------------------------------------------------------------------------
LEMMA InitControllerInv == ControllerAssumption /\ Init => ControllerInv
<1> SUFFICES ASSUME ControllerAssumption, Init PROVE ControllerInv
  OBVIOUS
<1> USE DEF Init, ControllerAssumption
<1>1. Nothing \in CommandRecords
  BY DEF Nothing, Command, CommandRecords, CommandTypes
<1>2. TypeOK
  <2>1. commands \in [Workers -> Seq(CommandRecords)]
    OBVIOUS
  <2>2. events \in Seq(EventRecords) /\ shots \in Seq(1 .. Segments)
    OBVIOUS
  <2>3. doing \in [Workers -> CommandRecords]
    BY <1>1
  <2>4. /\ current \in 1 .. (IF Segments = 0 THEN 1 ELSE Segments)
        /\ at \in 0 .. Segments
    OBVIOUS
  <2> QED
    BY <2>1, <2>2, <2>3, <2>4 DEF TypeOK, States
<1>3. shots = Upto(current - 1)
  BY DEF Upto
<1>4. BeforeMove
  BY <1>3 DEF BeforeMove, Resting, AllIdle, Idle, Workers
<1> QED
  BY <1>2, <1>4 DEF ControllerInv, HasSegment, AtState

LEMMA NextControllerInv ==
  ControllerAssumption /\ ControllerInv /\ [Next]_vars => ControllerInv'
<1> SUFFICES ASSUME ControllerAssumption, ControllerInv, [Next]_vars
             PROVE  ControllerInv'
  OBVIOUS
<1>1. TypeOK' /\ HasSegment'
  BY TypeNext
<1>2. ASSUME UNCHANGED <<fsmVars, queueVars, doing, deviceVars>> PROVE AtState'
  BY <1>2 DEF ControllerInv, AtState, BeforeMove, Resting, AllIdle, Moving,
     BeforeExposure, Exposing, Has, Opened, Captured, BeforeClose, Closing,
     Finished, Failed, Idle, Busy, fsmVars, queueVars, deviceVars
<1>3. AtState'
  BY <1>2, FsmInv, TakeInv, PlatformArrivesInv, ShutterOpensInv,
     ShutterClosesInv, CameraCapturesInv
  DEF Next, vars, Platform, Shutter, Camera, Join, Workers
<1> QED
  BY <1>1, <1>3 DEF ControllerInv

LEMMA ControllerInvHolds ==
  ASSUME ControllerAssumption PROVE Spec => []ControllerInv
<1> QED
  BY InitControllerInv, NextControllerInv, PTL DEF Spec

-----------------------------------------------------------------------------
(* What is outstanding is the one order a worker has.                      *)
LEMMA OutstandingOrders ==
  ASSUME NEW w
  PROVE  /\ Idle(w) => \A c \in Orders : ~Outstanding(w, c)
         /\ \A d \in Orders : Busy(w, d)
               => \A c \in Orders : Outstanding(w, c) => c = d
<1> USE DEF Outstanding, Command, StopCommand, Nothing, Orders
<1>1. ASSUME Idle(w), NEW c \in Orders PROVE ~Outstanding(w, c)
  BY <1>1 DEF Idle
<1>2. ASSUME NEW d \in Orders, Busy(w, d), NEW c \in Orders, Outstanding(w, c)
      PROVE  c = d
  BY <1>2 DEF Busy
<1> QED
  BY <1>1, <1>2

(* The devices are in one of the three situations of Failed, whatever the  *)
(* state; only in the first can the platform move.                         *)
LEMMA DevicesApart ==
  ASSUME ControllerInv
  PROVE  ExposureUndisturbed /\ NoMotionWithOpenShutter
<1> USE DEF Workers, Orders
<1>1. \/ /\ ~shutterOpen /\ Idle("shutter") /\ Idle("camera")
         /\ Busy("platform", "MovePlatform") \/ Idle("platform")
      \/ /\ at = current /\ Idle("platform")
         /\ Busy("shutter", "OpenShutter") \/ Idle("shutter")
         /\ Busy("camera", "CaptureImage") \/ Idle("camera")
      \/ /\ Idle("platform") /\ Idle("camera")
         /\ Busy("shutter", "CloseShutter") \/ Idle("shutter")
  BY DEF ControllerInv, TypeOK, States, AtState, BeforeMove, Resting, AllIdle,
     Moving, BeforeExposure, Exposing, BeforeClose, Closing, Finished, Failed
<1> QED
  BY <1>1, OutstandingOrders DEF ExposureUndisturbed, NoMotionWithOpenShutter

(* The events of each state.                                               *)
LEMMA EventsExpected == ASSUME ControllerInv PROVE EventsMatchState
<1> SUFFICES ASSUME running, state # "Error", NEW i \in 1 .. Len(events)
             PROVE  /\ events[i].segment = current
                    /\ events[i].type \in Expected[state]
  BY DEF EventsMatchState
<1>1. state \in States
  BY DEF ControllerInv, TypeOK
<1>2. events # <<>>
  OBVIOUS
<1>3. CASE state = "WaitPlatformArrived"
  BY <1>2, <1>3 DEF ControllerInv, AtState, Moving, Expected, States, Event
<1>4. CASE state = "WaitCaptureDone"
  BY <1>4 DEF ControllerInv, AtState, Exposing, Opened, Captured, Expected,
     States, Event
<1>5. CASE state = "SegmentFinished"
  BY <1>2, <1>5 DEF ControllerInv, AtState, Closing, Expected, States, Event
<1>6. CASE state \notin {"WaitPlatformArrived", "WaitCaptureDone",
                         "SegmentFinished"}
  BY <1>1, <1>2, <1>6 DEF ControllerInv, AtState, BeforeMove, Resting,
     BeforeExposure, BeforeClose, Finished, States
<1> QED
  BY <1>3, <1>4, <1>5, <1>6

(* For any number of segments, with a timeout at any wait and devices as   *)
(* slow as they like, no image is spoilt: the platform stands and the      *)
(* shutter stays open while the camera captures (fsm_demo.cpp:353-426).    *)
THEOREM NoImageSpoilt ==
  ASSUME ControllerAssumption PROVE Spec => []ImagesSharp
<1>1. ControllerInv => ImagesSharp
  BY DevicesApart DEF ControllerInv, ImagesSharp
<1> QED
  BY <1>1, ControllerInvHolds, PTL

(* For any number of segments each state gets only the events it waits     *)
(* for, and a task that is finished has captured every segment, once and   *)
(* in order (fsm_demo.cpp:339, 391, 436, 449).                             *)
THEOREM SegmentsOneByOne ==
  ASSUME ControllerAssumption PROVE Spec => []SegmentsInOrder
<1>1. ControllerInv => FinishedMeansCaptured
  BY DEF ControllerInv, AtState, Finished, FinishedMeansCaptured, Upto
<1>2. ControllerInv => SegmentsInOrder
  BY <1>1, EventsExpected DEF SegmentsInOrder
<1> QED
  BY <1>2, ControllerInvHolds, PTL
=============================================================================
