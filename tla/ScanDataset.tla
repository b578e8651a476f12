----------------------------- MODULE ScanDataset -----------------------------
(***************************************************************************)
(* A scan on disk and its use.  The generator (main() of                   *)
(* multifocus_reconstruct_harder.cpp) writes a file per frame and a row    *)
(* per frame to scan_positions.csv, through a stream that is flushed when  *)
(* its buffer is full; it may die at any point and be run again.           *)
(* mock_sender.py then reads the rows, and a thread of it reads the frames *)
(* into a bounded queue from which the main thread sends them.             *)
(*                                                                         *)
(* The text of a row comes to disk in Parts: frame id and x; the second    *)
(* comma; some digits of y; the rest.  A cut can be after any of them.     *)
(***************************************************************************)
EXTENDS Naturals, Sequences, SequencesExt

CONSTANTS MaxFrames,      \* frames of a scan, 14 400 in the code
          QueueCapacity,  \* 1000 in the code
          MaxRuns,        \* bound on the runs of the generator
          None            \* the end marker

DatasetAssumption ==
    /\ MaxFrames \in Nat \ {0} /\ QueueCapacity \in Nat \ {0}
    /\ MaxRuns \in Nat \ {0} /\ None \notin [frame : 1 .. MaxFrames, exact : BOOLEAN]

VARIABLES
    file,        \* each frame's file: "none", "torn" or "whole"
    failed,      \* frames for which cv::imwrite() returned false
    header, csv, \* what is on disk of the header and of the rows
    written,     \* rows put into the stream by this run
    frame, genPc, runs,
    positions,   \* the list that mock_sender.py has read
    next, queue, missing, readerPc,
    sent, senderPc

diskVars   == <<file, failed, header, csv>>
genVars    == <<written, frame, genPc, runs>>
readerVars == <<next, missing, readerPc>>
senderVars == <<positions, queue, readerVars, sent, senderPc>>
vars == <<diskVars, genVars, senderVars>>

Frames == 1 .. MaxFrames
Parts  == 4
Rows   == [frame : Frames, parts : 1 .. Parts]

Init ==
    /\ file = [f \in Frames |-> "none"] /\ failed = {}
    /\ header = FALSE /\ csv = <<>> /\ written = 0
    /\ frame = 1 /\ genPc = "frame" /\ runs = 1
    /\ positions = <<>> /\ queue = <<>>
    /\ next = 1 /\ missing = 0 /\ readerPc = "none"
    /\ sent = <<>> /\ senderPc = "none"

-----------------------------------------------------------------------------
(* The generator.  imwrite() replaces a file in place, and its result is   *)
(* not looked at.                                                          *)

BeginFrame ==
    /\ genPc = "frame" /\ frame <= MaxFrames
    /\ \/ /\ file' = [file EXCEPT ![frame] = "torn"]
          /\ genPc' = "imwrite" /\ UNCHANGED failed
       \/ /\ failed' = failed \cup {frame}
          /\ genPc' = "row" /\ UNCHANGED file
    /\ UNCHANGED <<header, csv, written, frame, runs, senderVars>>

EndFrame ==
    /\ genPc = "imwrite" /\ genPc' = "row"
    /\ \/ file' = [file EXCEPT ![frame] = "whole"] /\ failed' = failed \ {frame}
       \/ failed' = failed \cup {frame} /\ UNCHANGED file
    /\ UNCHANGED <<header, csv, written, frame, runs, senderVars>>

WriteRow ==
    /\ genPc = "row"
    /\ written' = written + 1 /\ frame' = frame + 1 /\ genPc' = "frame"
    /\ UNCHANGED <<diskVars, runs, senderVars>>

(* The buffer of the stream goes to disk, a part of the text after the     *)
(* other.                                                                  *)
Cut == csv # <<>> /\ Last(csv).parts < Parts

Flush ==
    /\ genPc \notin {"dead", "closed"}
    /\ IF ~header THEN header' = TRUE /\ UNCHANGED csv
       ELSE /\ UNCHANGED header
            /\ \/ Cut /\ csv' = [csv EXCEPT ![Len(csv)].parts = @ + 1]
               \/ /\ ~Cut /\ Len(csv) < written
                  /\ csv' = Append(csv, [frame |-> Len(csv) + 1, parts |-> 1])
    /\ UNCHANGED <<file, failed, genVars, senderVars>>

(* scanCsv.close(), once all of the text is on disk.                       *)
Close ==
    /\ genPc = "frame" /\ frame > MaxFrames
    /\ header /\ ~Cut /\ Len(csv) = written
    /\ genPc' = "closed"
    /\ UNCHANGED <<diskVars, written, frame, runs, senderVars>>

Die ==
    /\ genPc \notin {"dead", "closed"}
    /\ genPc' = "dead"
    /\ UNCHANGED <<diskVars, written, frame, runs, senderVars>>

(* Mutant: the next run appends to it.                                     *)
AppendToOld == UNCHANGED <<header, csv>>

(* The next run truncates scan_positions.csv; the frames stay.             *)
Truncate == header' = FALSE /\ csv' = <<>>

RunAgain ==
    /\ genPc \in {"dead", "closed"} /\ senderPc = "none" /\ runs < MaxRuns
    /\ runs' = runs + 1 /\ genPc' = "frame" /\ frame' = 1 /\ written' = 0
    /\ Truncate
    /\ UNCHANGED <<file, failed, senderVars>>

Generator == BeginFrame \/ EndFrame \/ WriteRow \/ Flush \/ Close

-----------------------------------------------------------------------------
(* The readers of scan_positions.csv: readScanPositions() skips a row of   *)
(* less than three tokens, and std::getline() finds no token after a last  *)
(* comma; csv.reader finds an empty field there, which float() refuses.    *)

Position(row) == [frame |-> row.frame, exact |-> row.parts = Parts]

(* What a loop over s has kept after each of its elements: those in T.     *)
Kept(s, T) ==
    LET kept[i \in 0 .. Len(s)] ==
            IF i = 0 THEN <<>>
            ELSE IF s[i] \in T THEN Append(kept[i - 1], s[i]) ELSE kept[i - 1]
    IN  kept

Listed(minParts) ==
    LET rows == Kept(csv, {row \in Rows : row.parts >= minParts})[Len(csv)]
    IN  [i \in DOMAIN rows |-> Position(rows[i])]

(* Mutant: the test is for less than two tokens.                           *)
ReadTwoTokens == Listed(1)

ReadScanPositions == Listed(3)

(* The rows that have three fields for csv.reader.                         *)
PythonRefuses == ~header \/ (Cut /\ Last(csv).parts = 2)
PythonReads   == Listed(2)

-----------------------------------------------------------------------------
(* mock_sender.py.                                                         *)

(* The list is read; next() of an empty file and float('') raise.          *)
StartSender ==
    /\ senderPc = "none" /\ genPc \in {"dead", "closed"}
    /\ IF PythonRefuses
       THEN senderPc' = "failed" /\ UNCHANGED positions
       ELSE senderPc' = "connect" /\ positions' = PythonReads
    /\ UNCHANGED <<diskVars, genVars, queue, readerVars, sent>>

ConnectAndStartReader ==
    /\ senderPc = "connect"
    /\ \/ senderPc' = "send" /\ readerPc' = "read"
       \/ senderPc' = "refused" /\ UNCHANGED readerPc
    /\ UNCHANGED <<diskVars, genVars, positions, queue, next, missing, sent>>

InReader == readerPc = "read" /\ senderPc = "send"

(* A file that is not there is skipped; any other is read as it is.        *)
SkipMissing ==
    /\ InReader /\ next <= Len(positions)
    /\ file[positions[next].frame] = "none"
    /\ next' = next + 1 /\ missing' = missing + 1
    /\ UNCHANGED <<diskVars, genVars, positions, queue, readerPc, sent, senderPc>>

(* Mutant: put_nowait(), with the exception of a full queue ignored.       *)
PutOrDrop(x) ==
    queue' = IF Len(queue) < QueueCapacity THEN Append(queue, x) ELSE queue

(* Mutant: one more than maxsize.                                          *)
PutOverfull(x) == Len(queue) <= QueueCapacity /\ queue' = Append(queue, x)

Put(x) == Len(queue) < QueueCapacity /\ queue' = Append(queue, x)

PutFrame ==
    /\ InReader /\ next <= Len(positions)
    /\ file[positions[next].frame] # "none"
    /\ Put(positions[next])
    /\ next' = next + 1
    /\ UNCHANGED <<diskVars, genVars, positions, missing, readerPc, sent, senderPc>>

(* Mutant: the thread ends without the marker.                             *)
EndSilently ==
    /\ InReader /\ next > Len(positions)
    /\ readerPc' = "ended"
    /\ UNCHANGED <<diskVars, genVars, positions, queue, next, missing, sent,
                   senderPc>>

PutEndMarker ==
    /\ InReader /\ next > Len(positions)
    /\ Put(None)
    /\ readerPc' = "ended"
    /\ UNCHANGED <<diskVars, genVars, positions, next, missing, sent, senderPc>>

Reader == SkipMissing \/ PutFrame \/ PutEndMarker

(* get() and sendall(); an error of sendall() ends the script, and the     *)
(* daemon thread with it.                                                  *)
SendFrame ==
    /\ senderPc = "send" /\ queue # <<>> /\ Head(queue) # None
    /\ queue' = Tail(queue)
    /\ \/ sent' = Append(sent, Head(queue)) /\ UNCHANGED senderPc
       \/ senderPc' = "failed" /\ UNCHANGED sent
    /\ UNCHANGED <<diskVars, genVars, positions, readerVars>>

(* The marker: close() and join().                                         *)
EndSending ==
    /\ senderPc = "send" /\ queue # <<>> /\ Head(queue) = None
    /\ readerPc = "ended"
    /\ queue' = Tail(queue) /\ senderPc' = "complete"
    /\ UNCHANGED <<diskVars, genVars, positions, readerVars, sent>>

MainThread == ConnectAndStartReader \/ SendFrame \/ EndSending

Next == Generator \/ Die \/ RunAgain \/ StartSender \/ Reader \/ MainThread

Spec == Init /\ [][Next]_vars

(* The threads of the script run, and the server goes on reading.          *)
FairSpec ==
    /\ Spec
    /\ WF_vars(Reader)
    /\ WF_vars(MainThread)

-----------------------------------------------------------------------------
Entries == [frame : Frames, exact : BOOLEAN]

TypeOK ==
    /\ file \in [Frames -> {"none", "torn", "whole"}] /\ failed \subseteq Frames
    /\ header \in BOOLEAN
    /\ csv \in Seq(Rows)
    /\ written \in 0 .. MaxFrames /\ frame \in 1 .. MaxFrames + 1
    /\ genPc \in {"frame", "imwrite", "row", "dead", "closed"}
    /\ runs \in 1 .. MaxRuns
    /\ positions \in Seq(Entries) /\ next \in 1 .. Len(positions) + 1
    /\ queue \in Seq(Entries \cup {None}) /\ Len(queue) <= QueueCapacity
    /\ missing \in 0 .. MaxFrames /\ readerPc \in {"none", "read", "ended"}
    /\ sent \in Seq(Entries)
    /\ senderPc \in {"none", "connect", "send", "complete", "refused", "failed"}

(* Whenever the generator dies, and however often it is run again, a row   *)
(* on disk is one of this run's frames, in order and only the last one     *)
(* cut; and the frame of each row is whole, unless imwrite() failed for it.*)
RowsFollowFrames ==
    /\ \A i \in 1 .. Len(csv) :
          csv[i].frame = i /\ (i < Len(csv) => csv[i].parts = Parts)
    /\ \A i \in 1 .. Len(csv) : file[i] = "whole" \/ i \in failed

(* A file that mock_sender.py accepts gives it the positions that          *)
(* readScanPositions() gives the reconstruction, cut rows included.        *)
ReadersAgree == PythonRefuses \/ PythonReads = ReadScanPositions

(* What has been sent are the listed frames that exist, in order and with  *)
(* nothing left out; a run that completes has sent or counted as missing   *)
(* every listed frame, and only the last of them may have a wrong y.       *)
Present  == {p \in Entries : file[p.frame] # "none"}
Expected == Kept(positions, Present)[Len(positions)]

SendsWhatIsListed ==
    /\ IsPrefix(sent, Expected)
    /\ senderPc = "complete" =>
          sent = Expected /\ Len(sent) + missing = Len(positions)
    /\ \A i \in 1 .. Len(positions) : positions[i].exact \/ i = Len(positions)

(* A script that has got its list comes to an end, however full the queue  *)
(* is when the last frame is read.                                         *)
SenderEnds == senderPc = "connect" ~> senderPc \in {"complete", "refused", "failed"}

(* What a generator leaves on disk, dead or not, can be read: rows have their*)
(* frames, and both readers find the same positions (io_utils.cpp:16-33,  *)
(* mock_sender.py:38-44).                                                 *)
DatasetReadable == TypeOK /\ RowsFollowFrames /\ ReadersAgree
=============================================================================
