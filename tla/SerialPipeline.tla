---------------------------- MODULE SerialPipeline ----------------------------
(***************************************************************************)
(* The pipeline of reconstruct_serial.cpp beside that of main.cpp.  Queues,*)
(* workers, accumulator and shutdown are the same (ReconstructPipeline);   *)
(* the serial producer reads one file for each position of                 *)
(* scan_positions.csv.  A file that cannot be read throws in the producer  *)
(* thread, where nothing catches: std::terminate() ends the process, and   *)
(* the catch of main() is not reached.  A frame that was read needs no     *)
(* decoding.  The accumulator also keeps the signals for spot_signals.csv. *)
(***************************************************************************)
EXTENDS ReconstructPipeline

VARIABLES program,      \* which of the two is run: "main" or "serial"
          unreadable,   \* positions whose file cv::imread() cannot read
          aborted,      \* std::terminate()
          allSignals    \* the rows of spot_signals.csv, by frame

serialVars == <<unreadable, aborted, allSignals>>
svars == <<vars, undecodable, program, serialVars>>

SInit ==
    /\ Init /\ aborted = FALSE /\ allSignals = <<>>
    /\ \/ program = "main" /\ unreadable = {}
       \/ program = "serial" /\ undecodable = {} /\ unreadable \in SUBSET Frames

NextPosition == received + 1

(* readFrameAsFloat() of the next position.                                *)
ReadFrame ==
    /\ NextPosition \notin unreadable /\ ProducerReceives
    /\ UNCHANGED serialVars

(* Mutant: the producer leaves its loop and closes the queue.              *)
ReadEnds ==
    /\ NextPosition \in unreadable /\ StreamEnds
    /\ UNCHANGED serialVars

ReadThrows ==
    /\ producerPc = "receive" /\ NextPosition \in unreadable
    /\ aborted' = TRUE
    /\ UNCHANGED <<vars, unreadable, allSignals>>

PositionsEnd ==
    /\ received = MaxFrames /\ StreamEnds
    /\ UNCHANGED serialVars

(* The two statements touch what only this thread uses until it is joined. *)
AddAndKeep ==
    /\ AccumulatorAdds /\ allSignals' = Append(allSignals, signals)
    /\ UNCHANGED <<unreadable, aborted>>

OtherSteps ==
    /\ \/ ProducerPushes \/ ProducerNotifies \/ ProducerFinishes
       \/ AccumulatorPops \/ AccumulatorSleeps \/ AccumulatorNotifies
       \/ MainStep
       \/ \E w \in Workers : WorkerStep(w)
    /\ UNCHANGED serialVars

SerialNext ==
    /\ ReadFrame \/ ReadThrows \/ PositionsEnd \/ AddAndKeep \/ OtherSteps
    /\ UNCHANGED undecodable

SNext ==
    /\ ~aborted /\ UNCHANGED program
    /\ \/ program = "main" /\ Next /\ UNCHANGED serialVars
       \/ program = "serial" /\ SerialNext

SSpec == SInit /\ [][SNext]_svars

(* The threads run, as long as the process does.                           *)
Lives(step) == ~aborted /\ step

SFairSpec ==
    /\ SSpec
    /\ WF_vars(Lives(ProducerPushes \/ ProducerNotifies \/ ProducerFinishes))
    /\ WF_vars(Lives(AccumulatorStep)) /\ WF_vars(Lives(MainStep))
    /\ \A w \in Workers : WF_vars(Lives(WorkerStep(w)))

-----------------------------------------------------------------------------
(* The serial program stores an image only of the whole scan: main() gets  *)
(* past the joins with every position of the file in the image and its     *)
(* signals once in spot_signals.csv, or not at all.                        *)
WholeScanOrNothing ==
    program = "serial" /\ mainPc = "done" =>
        /\ Len(allSignals) = MaxFrames
        /\ {allSignals[i] : i \in 1 .. Len(allSignals)} = Frames
        /\ \A f \in Frames : accumulated[f] = 1

(* Each usable frame that was received reaches the image, whichever thread *)
(* a notify_one() wakes and however full the queues are; unless, in the    *)
(* serial program, a later file cannot be read.                            *)
EveryFrameReachesImage ==
    \A f \in Frames :
        received = f ~> accumulated[f] = 1 \/ f \in undecodable \/ aborted
=============================================================================
