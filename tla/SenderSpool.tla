----------------------------- MODULE SenderSpool -----------------------------
(***************************************************************************)
(* The on-disk spool of frames that the sender has not finished with       *)
(* (capture_and_network/src/storage/SenderSpool.cpp): one file per frame   *)
(* id, and the byte counter that enforces maxSpoolBytes.                   *)
(*                                                                         *)
(* persist() is not atomic: it opens the file with ios::trunc, writes and  *)
(* closes, and only then adds to bytesUsed_.  The module gives one action  *)
(* per point at which the process can die or the write can fail; the       *)
(* modules that use the spool put them in order.  All the frames of one    *)
(* camera have the same dimensions, hence the same file size.              *)
(***************************************************************************)
EXTENDS Integers, FiniteSets

CONSTANTS MaxFrame,       \* frame ids are 1 .. MaxFrame (the camera counts from 1)
          FrameBytes,     \* size of a complete spool file, header included
          TornBytes,      \* size of a file whose write was cut short
          MaxSpoolBytes,  \* maxSpoolBytes_, 0 for no limit
          SizeMod         \* 2^w for the width w of size_t

ASSUME SpoolAssumption ==
    /\ MaxFrame \in Nat \ {0}
    /\ FrameBytes \in Nat \ {0}
    /\ TornBytes \in 0 .. (FrameBytes - 1)
    /\ MaxSpoolBytes \in Nat
    /\ SizeMod \in Nat
    /\ SizeMod > MaxSpoolBytes + FrameBytes * (MaxFrame + 1)

VARIABLES file,       \* what the spool directory holds for each id
          bytesUsed   \* bytesUsed_

spoolVars == <<file, bytesUsed>>

Ids == 1 .. MaxFrame
FileStates == {"absent", "torn", "complete"}

(* What loadPendingFrames() returns: a torn file fails the header or the   *)
(* payload read and is skipped, and stays on disk.                         *)
Pending == {id \in Ids : file[id] = "complete"}
Torn    == {id \in Ids : file[id] = "torn"}

SizeOf(id) == IF file[id] = "complete" THEN FrameBytes ELSE TornBytes

(* The sum of the file sizes, as the constructor computes it.              *)
DiskBytes == FrameBytes * Cardinality(Pending) + TornBytes * Cardinality(Torn)

(* size_t arithmetic, for operands below SizeMod.                          *)
Plus(a, b)  == IF a + b < SizeMod THEN a + b ELSE a + b - SizeMod
Minus(a, b) == IF b <= a THEN a - b ELSE a - b + SizeMod

(* Mutant: the limit is compared with what is used, not with what will be. *)
CanPersistBefore == MaxSpoolBytes = 0 \/ bytesUsed <= MaxSpoolBytes

CanPersist == MaxSpoolBytes = 0 \/ Plus(bytesUsed, FrameBytes) <= MaxSpoolBytes

(* Mutant: the constructor starts from zero, whatever is on the disk.      *)
RecountNothing == bytesUsed' = 0

(* The constructor counts the files that a previous process left behind.   *)
RecountBytes == bytesUsed' = DiskBytes

SpoolInit == file = [id \in Ids |-> "absent"] /\ bytesUsed = 0

(* persist(): the file is created, or an older copy of it is truncated.    *)
OpenTruncated(id) ==
    /\ file' = [file EXCEPT ![id] = "torn"]
    /\ UNCHANGED bytesUsed

(* persist(): header and payload are written, the stream closed without an *)
(* error and the bytes added.                                              *)
FinishWrite(id) ==
    /\ file' = [file EXCEPT ![id] = "complete"]
    /\ bytesUsed' = Plus(bytesUsed, FrameBytes)

(* persist(): a write or the close fails (the disk is full, say).  What    *)
(* was written so far stays, and is not added to bytesUsed_.               *)
FailWrite(id) == UNCHANGED spoolVars

(* The process dies during the write, with all or part of it on the disk.  *)
KillDuringWrite(id) ==
    /\ \E s \in {"torn", "complete"} : file' = [file EXCEPT ![id] = s]
    /\ UNCHANGED bytesUsed

(* removeFrame(): max<size_t>(0, x) is x, so the subtraction may wrap.     *)
RemoveFrame(id) ==
    /\ file' = [file EXCEPT ![id] = "absent"]
    /\ bytesUsed' = IF file[id] = "absent" THEN bytesUsed
                                           ELSE Minus(bytesUsed, SizeOf(id))

SpoolTypeOK ==
    /\ file \in [Ids -> FileStates]
    /\ bytesUsed \in Nat

(* Removing a file never makes the counter grow: the subtraction that      *)
(* removeFrame() guards with max<size_t>(0, ...) does not wrap.            *)
RemovalFreesSpace ==
    [][\A id \in Ids : file[id] # "absent" /\ file'[id] = "absent"
                          => bytesUsed' <= bytesUsed]_spoolVars
=============================================================================
