----------------------- MODULE ProcessingStateMachine -----------------------
(***************************************************************************)
(* The progress of one scan line that survives the process:                *)
(* ProcessingStateMachine of capture_and_network/include/protocol/         *)
(* ProtocolV2.h, a record in memory and its copy in processing_state.txt.  *)
(*                                                                         *)
(* saveState() truncates the file, and the text reaches it only when the   *)
(* stream is destroyed, after the result has been computed.  The process   *)
(* may die in between, and the last write may fail unseen.  The task, line *)
(* and attempt ids, always compared together, are one key.  The caller     *)
(* does what the tests do: it goes on only after a beginLine() or a        *)
(* resumeFromDisk() that returned true.                                    *)
(***************************************************************************)
EXTENDS Naturals

CONSTANTS Attempts,    \* the (taskId, lineId, attemptId) that callers use
          NoAttempt,   \* (0, 0, 0), of a machine that has been constructed
          MaxSeq,      \* frame sequence numbers are 1 .. MaxSeq
          MaxFrames,   \* bound on frameIndex
          MaxCrash     \* bound on the number of times the process dies

ProcessingAssumption ==
    /\ NoAttempt \notin Attempts
    /\ MaxSeq \in Nat /\ MaxFrames \in Nat /\ MaxCrash \in Nat

VARIABLES
    mem,      \* state_
    file,     \* the file: "absent", "short" (whole lines are missing), "cut"
              \* (the last line ends at its "=") or "complete"
    stored,   \* what a complete file says
    pc,       \* "idle", "flush" (the file is truncated, not yet written),
              \* "down"
    call,     \* the call in progress: an operation and its attempt
    active,   \* the caller's last begin or resume returned true
    newest,   \* history: the last record whose save got to the file
    begun,    \* history: the attempt of the last beginLine() that was true,
              \* NoAttempt if a later one was cut short
    resumed,  \* history: the attempt that the last call resumed, if it did
    crashes

vars == <<mem, file, stored, pc, call, active, newest, begun, resumed, crashes>>

Phases  == {"Running", "Committed", "Aborted"}
Keys    == Attempts \cup {NoAttempt}
Records == [attempt : Keys, frameIndex : 0 .. MaxFrames,
            lastFrameSeq : 0 .. MaxSeq, lastAckedFrameSeq : 0 .. MaxSeq,
            phase : Phases, aborted : BOOLEAN, committed : BOOLEAN]
Calls   == [op : {"begin", "resume", "other"}, attempt : Keys]

BeginNew(k) == [attempt |-> k, frameIndex |-> 0, lastFrameSeq |-> 0,
                lastAckedFrameSeq |-> 0, phase |-> "Running",
                aborted |-> FALSE, committed |-> FALSE]

NoCall == [op |-> "other", attempt |-> NoAttempt]

Init ==
    /\ mem = BeginNew(NoAttempt) /\ pc = "idle"
    /\ file = "absent" /\ stored = BeginNew(NoAttempt)
    /\ call = NoCall /\ active = FALSE /\ newest = BeginNew(NoAttempt)
    /\ begun = NoAttempt /\ resumed = NoAttempt /\ crashes = 0

-----------------------------------------------------------------------------
(* What the caller learns: r is the result of the operation.               *)
Result(c, r) ==
    /\ active' = IF c.op = "other" THEN active ELSE r
    /\ begun' = IF c.op = "begin" /\ r THEN c.attempt ELSE begun
    /\ resumed' = IF c.op = "resume" /\ r THEN c.attempt ELSE NoAttempt

(* state_ becomes m and saveState() opens the file, truncating it, or      *)
(* cannot open it and returns false.                                       *)
SaveState(c, m) ==
    /\ mem' = m
    /\ \/ /\ pc' = "flush" /\ call' = c /\ file' = "short" /\ newest' = m
          /\ UNCHANGED <<active, begun>> /\ resumed' = NoAttempt
       \/ Result(c, FALSE) /\ UNCHANGED <<pc, call, file, newest>>
    /\ UNCHANGED <<stored, crashes>>

BeginLine(k) ==
    /\ pc = "idle"
    /\ SaveState([op |-> "begin", attempt |-> k], BeginNew(k))

Update(m) == pc = "idle" /\ active /\ SaveState(NoCall, m)

(* Mutant: progress is kept in memory until the next checkpoint.           *)
MarkInMemory(seq) ==
    /\ pc = "idle" /\ active /\ mem.frameIndex < MaxFrames
    /\ mem' = [mem EXCEPT !.frameIndex = @ + 1, !.lastFrameSeq = seq,
                          !.phase = "Running", !.aborted = FALSE]
    /\ newest' = mem' /\ resumed' = NoAttempt
    /\ UNCHANGED <<file, stored, pc, call, active, begun, crashes>>

MarkFrameSent(seq) ==
    /\ mem.frameIndex < MaxFrames
    /\ Update([mem EXCEPT !.frameIndex = @ + 1, !.lastFrameSeq = seq,
                          !.phase = "Running", !.aborted = FALSE])

(* Mutant: the frame to send next is stored for the last one.              *)
CheckpointNext(acked, seq, finalized) ==
    Update([mem EXCEPT !.lastAckedFrameSeq = acked, !.lastFrameSeq = seq + 1,
                       !.phase = IF finalized THEN "Committed" ELSE "Running",
                       !.committed = finalized, !.aborted = FALSE])

(* A lastFrameSeq of 0 leaves the one there is.                            *)
Checkpoint(acked, seq, finalized) ==
    Update([mem EXCEPT !.lastAckedFrameSeq = acked,
                       !.lastFrameSeq = IF seq = 0 THEN @ ELSE seq,
                       !.phase = IF finalized THEN "Committed" ELSE "Running",
                       !.committed = finalized, !.aborted = FALSE])

AbortCurrentAttempt ==
    Update([mem EXCEPT !.phase = "Aborted", !.aborted = TRUE,
                       !.committed = FALSE])

CommitCurrentAttempt ==
    Update([mem EXCEPT !.phase = "Committed", !.committed = TRUE,
                       !.aborted = FALSE])

(* Mutant: a resumed attempt keeps its aborted flag.                       *)
RevivePhaseOnly(m) == [m EXCEPT !.phase = "Running"]

(* A resumed attempt runs again, also one that was aborted or committed.   *)
Revive(m) == [m EXCEPT !.phase = "Running", !.aborted = FALSE]

(* Mutant: the attempt is not compared.                                    *)
AnyAttempt(k) == TRUE

Matches(k) == stored.attempt = k

(* resumeFromDisk() with a complete file: another attempt is refused, with *)
(* state_ overwritten all the same.                                        *)
ResumeLoaded(k) ==
    /\ pc = "idle" /\ file = "complete"
    /\ LET c == [op |-> "resume", attempt |-> k]
       IN \/ Matches(k) /\ SaveState(c, Revive(stored))
          \/ /\ ~Matches(k) /\ Result(c, FALSE)
             /\ mem' = stored
             /\ UNCHANGED <<file, stored, pc, call, newest, crashes>>

(* No file, or lines that are missing: refused.                            *)
ResumeIncomplete(k) ==
    /\ pc = "idle" /\ file \in {"absent", "short"}
    /\ Result([op |-> "resume", attempt |-> k], FALSE)
    /\ UNCHANGED <<mem, file, stored, pc, call, newest, crashes>>

(* stoull() of an empty value throws, and nobody catches it.               *)
ResumeThrows ==
    /\ pc = "idle" /\ file = "cut"
    /\ pc' = "down" /\ active' = FALSE /\ resumed' = NoAttempt
    /\ UNCHANGED <<mem, file, stored, call, newest, begun, crashes>>

(* The stream is flushed when it is destroyed.                             *)
FlushSucceeds ==
    /\ pc = "flush"
    /\ file' = "complete" /\ stored' = mem /\ pc' = "idle" /\ call' = NoCall
    /\ Result(call, TRUE)
    /\ UNCHANGED <<mem, newest, crashes>>

(* The flush fails, on a full disk say: saveState() has returned true.     *)
FlushFails ==
    /\ pc = "flush"
    /\ file' \in {"short", "cut"} /\ pc' = "idle" /\ call' = NoCall
    /\ Result(call, TRUE)
    /\ UNCHANGED <<mem, stored, newest, crashes>>

Crash ==
    /\ pc # "down" /\ crashes < MaxCrash
    /\ crashes' = crashes + 1
    /\ file' \in (IF pc = "flush" THEN {"short", "cut", "complete"} ELSE {file})
    /\ stored' = IF pc = "flush" THEN mem ELSE stored
    /\ pc' = "down" /\ call' = NoCall /\ active' = FALSE
    /\ resumed' = NoAttempt
    /\ begun' = IF pc = "flush" /\ call.op = "begin" THEN NoAttempt ELSE begun
    /\ UNCHANGED <<mem, newest>>

Restart ==
    /\ pc = "down"
    /\ mem' = BeginNew(NoAttempt) /\ pc' = "idle"
    /\ UNCHANGED <<file, stored, call, active, newest, begun, resumed, crashes>>

Next ==
    \/ \E k \in Attempts : BeginLine(k) \/ ResumeLoaded(k) \/ ResumeIncomplete(k)
    \/ \E s \in 1 .. MaxSeq : MarkFrameSent(s)
    \/ \E a \in 1 .. MaxSeq, s \in 0 .. MaxSeq, f \in BOOLEAN :
          Checkpoint(a, s, f)
    \/ AbortCurrentAttempt \/ CommitCurrentAttempt
    \/ ResumeThrows \/ FlushSucceeds \/ FlushFails \/ Crash \/ Restart

Spec == Init /\ [][Next]_vars

-----------------------------------------------------------------------------
TypeOK ==
    /\ mem \in Records /\ newest \in Records
    /\ file \in {"absent", "short", "cut", "complete"} /\ stored \in Records
    /\ pc \in {"idle", "flush", "down"} /\ call \in Calls
    /\ active \in BOOLEAN /\ begun \in Keys /\ resumed \in Keys
    /\ crashes \in 0 .. MaxCrash

(* A resume that succeeds has found the newest record that any call before *)
(* it began to save: no failed write, unseen or not, and no death of the   *)
(* process ever brings back an older progress as if it were the last.      *)
(* (The save of the resume itself has begun, hence Revive.)                *)
ResumesNewest ==
    [][pc = "idle" /\ call'.op = "resume" /\ pc' = "flush"
          => newest' = Revive(newest)]_vars

(* After a beginLine() that returned true, no other attempt is resumed     *)
(* until the next beginLine(): a stale attempt stays refused over crashes, *)
(* failed writes and refused resumes.                                      *)
StaleAttemptNeverResumes ==
    resumed # NoAttempt /\ begun # NoAttempt => resumed = begun

(* The phase and the flags tell the same story, in memory and on disk.  (A *)
(* resumed record may be Running and committed at once.)                   *)
Consistent(m) == /\ m.aborted <=> m.phase = "Aborted"
                 /\ m.phase = "Committed" => m.committed
FlagsAgree == Consistent(mem) /\ Consistent(stored)

(* The record tells one story, and it is that of the attempt last begun   *)
(* (ProtocolV2.h:166-216).                                                *)
ProgressConsistent == TypeOK /\ StaleAttemptNeverResumes /\ FlagsAgree
=============================================================================
