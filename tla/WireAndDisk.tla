----------------------------- MODULE WireAndDisk -----------------------------
(***************************************************************************)
(* Formats that one program writes and another reads, side by side: frames *)
(* in fragments (RawFrameTransfer), the messages of the protocol           *)
(* (MessageStream) and a scan on disk (ScanDataset).  A behaviour is one   *)
(* of one of them: they share nothing, so that their interleavings would   *)
(* show nothing more.                                                      *)
(***************************************************************************)
EXTENDS Naturals

CONSTANTS MaxFrame, Sizes, FragmentSize, CountMod, MaxBytes, WireCap,
          Base, Magic, Samples, MaxMessages, CutPoints,
          MaxFrames, QueueCapacity, MaxRuns, None

VARIABLES part   \* the one whose behaviour it is

VARIABLES frame, item, index, connected, offered, returned, wire, lost, serverPc,
          header, chunk, count, rawBuffer, saved

VARIABLES sent, bytes, cut, received, refused

VARIABLES file, failed, csvHeader, csv, written, genFrame, genPc, runs,
          positions, next, queue, missing, readerPc, sentFrames, senderPc

Transfer == INSTANCE RawFrameTransfer WITH part <- item
Messages == INSTANCE MessageStream
Dataset  == INSTANCE ScanDataset WITH
    header <- csvHeader, frame <- genFrame, sent <- sentFrames

ASSUME WireAndDiskConstants ==
    /\ Transfer!TransferAssumption
    /\ Messages!StreamAssumption
    /\ Dataset!DatasetAssumption

transferVars == <<frame, item, index, connected, offered, returned, wire, lost,
                  serverPc, header, chunk, count, rawBuffer, saved>>
messageVars  == <<sent, bytes, cut, received, refused>>
datasetVars  == <<file, failed, csvHeader, csv, written, genFrame, genPc,
                  runs, positions, next, queue, missing, readerPc, sentFrames,
                  senderPc>>
vars == <<part, transferVars, messageVars, datasetVars>>

Init ==
    /\ part \in {"transfer", "messages", "dataset"}
    /\ Transfer!Init /\ Messages!Init /\ Dataset!Init

Transfers ==
    part = "transfer" /\ UNCHANGED <<part, messageVars, datasetVars>>
Talks ==
    part = "messages" /\ UNCHANGED <<part, transferVars, datasetVars>>
Scans ==
    part = "dataset" /\ UNCHANGED <<part, transferVars, messageVars>>

Next == \/ Transfers /\ Transfer!Next
        \/ Talks /\ Messages!Next
        \/ Scans /\ Dataset!Next

(* For the model checker: numbers with all bytes at their limit, and with  *)
(* unequal bytes.                                                          *)
LimitsAndUnequal == [w \in {4, 8} |-> {Base^w - 1, Base^(w - 1) + 2}]

Spec == Init /\ [][Next]_vars

(* The test server reads; the threads of mock_sender.py run, and the       *)
(* server that it sends to reads.                                          *)
FairSpec ==
    /\ Spec
    /\ WF_vars(Transfers /\ Transfer!Server)
    /\ WF_vars(Scans /\ Dataset!Reader)
    /\ WF_vars(Scans /\ Dataset!MainThread)

-----------------------------------------------------------------------------
(* A frame in fragments (RawFrameSender.cpp, test_server.cpp): the server *)
(* never takes image bytes for a header and saves whole frames,           *)
ServerInStep == Transfer!ServerInStep

(* which arrive in order,                                                 *)
ImplementsStream == Transfer!ImplementsStream

(* and one for which sendFrame() returned true is saved.                  *)
ReturnedIsSaved == Transfer!ReturnedIsSaved

(* Messages (ProtocolV2.h): a parser accepts the message that it waits for,*)
(* whole, and nothing else.                                               *)
ParsersExact == Messages!ParsersExact

(* The scan on disk (multifocus_reconstruct_harder.cpp, mock_sender.py): rows*)
(* are behind the frames, whenever the generator dies, and two readers agree,*)
DatasetReadable == Dataset!DatasetReadable

(* what is sent is what is listed and there,                              *)
SendsWhatIsListed == Dataset!SendsWhatIsListed

(* and the sending comes to an end.                                       *)
SenderEnds == Dataset!SenderEnds
=============================================================================
