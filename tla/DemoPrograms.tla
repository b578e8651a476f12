---------------------------- MODULE DemoPrograms ----------------------------
(***************************************************************************)
(* The three small concurrent programs of src/, side by side: the process  *)
(* controller (fsm_demo.cpp), threads that use one memory pool in any way  *)
(* its interface allows (mem_pool_demo.cpp) and the producer and consumer  *)
(* of mem_pool_main_demo.cpp.  A behaviour is one of one program: they     *)
(* share nothing, so that their interleavings would show nothing more.     *)
(* The two uses of the pool have the variables of MemoryPool in common.    *)
(***************************************************************************)
EXTENDS Naturals

CONSTANTS Segments,
          Threads, ClientBuffers, MaxFails,
          Producer, DemoBuffers, NoBuffer, MaxFrames

VARIABLES program   \* the one that is run

VARIABLES state, current, fsmRunning, shutterOpened, captureDone, commands,
          events, doing, at, shutterOpen, shots, joined

VARIABLES freeList, stop, asleep, woken, inUse, highWater, acquireFails

VARIABLES pc, held

VARIABLES frameQueue, queueStop, consumerAsleep, content, producerPc,
          producerBuf, frameNo, consumerPc, consumerBuf, sent, running, mainPc

Controller == INSTANCE ProcessController WITH running <- fsmRunning
Clients    == INSTANCE MemoryPoolClients WITH Buffers <- ClientBuffers
Demo       == INSTANCE MemoryPoolDemo WITH Buffers <- DemoBuffers

controllerVars == <<state, current, fsmRunning, shutterOpened, captureDone,
                    commands, events, doing, at, shutterOpen, shots, joined>>
poolVars == <<freeList, stop, asleep, woken, inUse, highWater, acquireFails>>
clientVars == <<pc, held>>
demoVars == <<frameQueue, queueStop, consumerAsleep, content, producerPc,
              producerBuf, frameNo, consumerPc, consumerBuf, sent, running,
              mainPc>>
vars == <<program, controllerVars, poolVars, clientVars, demoVars>>

ASSUME DemoConstants ==
    /\ Controller!ControllerAssumption
    /\ Clients!ClientAssumption
    /\ Demo!DemoAssumption

Init ==
    /\ Controller!Init
    /\ \/ program \in {"controller", "clients"} /\ Clients!Init /\ Demo!DemoInit
       \/ program = "demo" /\ Demo!Init /\ Clients!ClientInit

Controls ==
    program = "controller" /\ UNCHANGED <<program, poolVars, clientVars, demoVars>>
Uses  == program = "clients" /\ UNCHANGED <<program, controllerVars, demoVars>>
Demos == program = "demo" /\ UNCHANGED <<program, controllerVars, clientVars>>

Next == \/ Controls /\ Controller!Next
        \/ Uses /\ Clients!Next
        \/ Demos /\ Demo!Next

Spec == Init /\ [][Next]_vars

(* The threads of the program run, and the devices answer, however late.   *)
FairSpec ==
    /\ Spec
    /\ WF_vars(Controls /\ Controller!Fsm)
    /\ WF_vars(Controls /\ Controller!Platform)
    /\ WF_vars(Controls /\ Controller!Shutter)
    /\ WF_vars(Controls /\ Controller!Camera)
    /\ WF_vars(Controls /\ Controller!Join)
    /\ \A t \in Threads : WF_vars(Uses /\ Clients!Continue(t))
    /\ WF_vars(Demos /\ Demo!ProducerSteps)
    /\ WF_vars(Demos /\ Demo!ConsumerSteps)
    /\ WF_vars(Demos /\ Demo!MainSteps)

-----------------------------------------------------------------------------
(* The process controller (fsm_demo.cpp): no image is spoilt,             *)
ImagesSharp == Controller!ImagesSharp

(* and every segment is captured in its turn.                             *)
SegmentsInOrder == Controller!SegmentsInOrder

(* The memory pool (mem_pool_demo.cpp): no buffer has two owners and the  *)
(* statistics count the buffers that are out,                             *)
PoolConsistent == program = "clients" => Clients!PoolConsistent

(* and no thread sleeps while a buffer is free that nobody comes for.     *)
NoLostWakeup == program = "clients" => Clients!NoLostWakeup

(* Producer and consumer (mem_pool_main_demo.cpp): frames are sent once,  *)
(* unaltered and in order, and at the report nothing is left.             *)
DemoDelivers == program = "demo" => Demo!DemoDelivers

(* Each program ends: the controller after a timeout as well, every acquire()*)
(* after a shutdown(), and main() of the demo with its report.            *)
ProgramsEnd ==
    /\ program = "controller" => Controller!ProcessEnds
    /\ program = "demo" => Demo!DemoEnds
    /\ Clients!ShutdownEndsAcquire
=============================================================================
