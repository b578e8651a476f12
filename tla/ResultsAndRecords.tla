-------------------------- MODULE ResultsAndRecords --------------------------
(***************************************************************************)
(* What the programs compute and what they keep a record of, side by side: *)
(* the signals of the spots (SpotSignals), the picture that is accumulated *)
(* from them (SampleAccumulation), the path of the laser (ScanPath), the   *)
(* times of the stages (StageTimes) and the progress of a scan line        *)
(* (ProcessingStateMachine).  A behaviour is one of one of them: they      *)
(* share nothing, so that their interleavings would show nothing more.     *)
(* None promises that it comes to an end.                                  *)
(***************************************************************************)
EXTENDS Naturals

CONSTANTS FrameWidth, FrameHeight, BlockSize, BorderWidth, Radius, SpotCentres,
          MaxValue, SpotFrames,
          Samples, Intensities, Unit, PictureWidth, PictureHeight,
          ImageWidth, ImageHeight, MinArea,
          Workers, ScanPositions, MaxClock,
          Attempts, NoAttempt, MaxSeq, MaxFrameIndex, MaxCrash

VARIABLES part   \* the one whose behaviour it is

VARIABLES frame, number, bg, input, temp, output, spotPc, blocks, spotSignals

VARIABLES sample, added, accum, weight, recon, holes

VARIABLES image, regions, ordered, fullPath, scanned, pathPc

VARIABLES clock, lastWall, stageTimes, logged, summary, at, inside, timerStart,
          total, raw, signals, producer, accumulator, accumTime, worker

VARIABLES mem, file, stored, pc, call, active, newest, begun, resumed, crashes

(* The frames have the size of the output, as main.cpp:139 takes for       *)
(* granted.                                                                *)
Spots == INSTANCE SpotSignals WITH
    Width <- FrameWidth, Height <- FrameHeight, Spots <- SpotCentres,
    Frames <- SpotFrames, pc <- spotPc, signals <- spotSignals

Picture == INSTANCE SampleAccumulation WITH
    Width <- PictureWidth, Height <- PictureHeight, Values <- Intensities

Path == INSTANCE ScanPath WITH
    Width <- ImageWidth, Height <- ImageHeight, pc <- pathPc

Times == INSTANCE StageTimes WITH Frames <- ScanPositions

Progress == INSTANCE ProcessingStateMachine WITH MaxFrames <- MaxFrameIndex

ASSUME ResultConstants ==
    /\ Spots!FrameAssumption
    /\ Picture!AccumulationAssumption
    /\ Path!ScanAssumption
    /\ Times!TimesAssumption
    /\ Progress!ProcessingAssumption

spotVars     == <<frame, number, bg, input, temp, output, spotPc, blocks,
                  spotSignals>>
pictureVars  == <<sample, added, accum, weight, recon, holes>>
pathVars     == <<image, regions, ordered, fullPath, scanned, pathPc>>
timeVars     == <<clock, lastWall, stageTimes, logged, summary, at, inside,
                  timerStart, total, raw, signals, producer, accumulator,
                  accumTime, worker>>
progressVars == <<mem, file, stored, pc, call, active, newest, begun, resumed,
                  crashes>>
vars == <<part, spotVars, pictureVars, pathVars, timeVars, progressVars>>

(* For the model checker: a spot at the corner, one in the middle.         *)
CornerAndMiddle == {<<0, 0>>, <<1, 1>>}

BlackFrame == [p \in Spots!FramePixels |-> 0]
NoSamples  == [i \in Samples |-> [x |-> 0, y |-> 0, value |-> 0]]

Init ==
    /\ \/ part = "spots" /\ Spots!Init /\ Picture!InitWith(NoSamples)
          /\ Path!InitWith({})
       \/ part = "picture" /\ Picture!Init /\ Spots!InitWith(BlackFrame)
          /\ Path!InitWith({})
       \/ part = "path" /\ Path!Init /\ Spots!InitWith(BlackFrame)
          /\ Picture!InitWith(NoSamples)
       \/ part \in {"times", "progress"} /\ Spots!InitWith(BlackFrame)
          /\ Picture!InitWith(NoSamples) /\ Path!InitWith({})
    /\ Times!Init /\ Progress!Init

Next ==
    /\ UNCHANGED part
    /\ \/ part = "spots" /\ Spots!Next
          /\ UNCHANGED <<pictureVars, pathVars, timeVars, progressVars>>
       \/ part = "picture" /\ Picture!Next
          /\ UNCHANGED <<spotVars, pathVars, timeVars, progressVars>>
       \/ part = "path" /\ Path!Next
          /\ UNCHANGED <<spotVars, pictureVars, timeVars, progressVars>>
       \/ part = "times" /\ Times!Next
          /\ UNCHANGED <<spotVars, pictureVars, pathVars, progressVars>>
       \/ part = "progress" /\ Progress!Next
          /\ UNCHANGED <<spotVars, pictureVars, pathVars, timeVars>>

Spec == Init /\ [][Next]_vars

-----------------------------------------------------------------------------
(* The signals of the spots (cuda_kernels.cu, reconstruction_core.cpp): a *)
(* signal is that of its own frame, in whatever order the blocks run.     *)
SignalsCorrect == part = "spots" => Spots!SignalsCorrect

(* The picture (reconstruction_core.cpp): it is the sum of what each sample*)
(* gives by its distance, in whatever order they come.                    *)
PictureCorrect == part = "picture" => Picture!PictureCorrect

(* The path of the laser (opencv_demo.cc): what is kept is exposed, once, and*)
(* there is no light during a move.                                       *)
PathCorrect == part = "path" => Path!PathCorrect

(* The times (io_utils.h, reconstruct_serial.cpp): none is reported that was*)
(* not spent.                                                             *)
TimesCorrect == part = "times" => Times!TimesCorrect

(* The progress record (ProtocolV2.h): a resume finds the newest one,     *)
ResumesNewest == Progress!ResumesNewest

(* of the attempt last begun, and its phase and its flags tell one story. *)
ProgressConsistent == part = "progress" => Progress!ProgressConsistent
=============================================================================
