----------------------- MODULE ResultsAndRecords_proofs -----------------------
(***************************************************************************)
(* Theorems about what the programs compute and record, for any number of  *)
(* workers, frames and samples, pictures and images of any size and any    *)
(* number of deaths of the process.                                        *)
(***************************************************************************)
EXTENDS ResultsAndRecords, Integers, Functions, FiniteSetTheorems,
        SequenceTheorems, TLAPS


-----------------------------------------------------------------------------
(* The progress record.  The file, when it is complete, has the newest     *)
(* record, and that is one of the attempt last begun; so is the one in     *)
(* memory while the caller goes on with it.                                *)
InBegin  == pc = "flush" /\ call.op = "begin"
Pinned(m) == begun # NoAttempt => m.attempt = begun

RecordsKept ==
    /\ file = "complete" => stored = newest /\ Pinned(stored)
    /\ pc = "flush" => file = "short" /\ mem = newest /\ resumed = NoAttempt
    /\ pc = "flush" /\ call.op # "other" => call.attempt = mem.attempt
    /\ pc = "flush" /\ call.op = "begin" => mem.attempt # NoAttempt
    /\ pc = "flush" /\ call.op # "begin" => Pinned(mem)
    /\ active /\ ~InBegin => Pinned(mem)
    /\ pc = "down" => ~active
    /\ pc = "flush" /\ call.op = "other" => active
    /\ resumed # NoAttempt /\ begun # NoAttempt => resumed = begun

ProgressInv ==
    Progress!TypeOK /\ Progress!FlagsAgree /\ RecordsKept

LEMMA ProgressConstants ==
  /\ NoAttempt \notin Attempts /\ MaxSeq \in Nat /\ MaxFrameIndex \in Nat
  /\ MaxCrash \in Nat
  BY ResultConstants DEF Progress!ProcessingAssumption

LEMMA NewRecord ==
  ASSUME NEW k \in Progress!Keys
  PROVE  /\ Progress!BeginNew(k) \in Progress!Records
         /\ Progress!Consistent(Progress!BeginNew(k))
         /\ Progress!BeginNew(k).attempt = k
<1>1. 0 \in 0 .. MaxSeq /\ 0 \in 0 .. MaxFrameIndex
  BY ProgressConstants
<1>2. Progress!BeginNew(k) \in Progress!Records
  BY <1>1 DEF Progress!BeginNew, Progress!Records, Progress!Phases
<1>3. Progress!Consistent(Progress!BeginNew(k))
  BY DEF Progress!BeginNew, Progress!Consistent
<1>4. Progress!BeginNew(k).attempt = k
  BY DEF Progress!BeginNew
<1> QED
  BY <1>2, <1>3, <1>4

(* The fields of a record, of which the bounds are named.                   *)
Sequence == 0 .. MaxSeq
Indices  == 0 .. MaxFrameIndex

LEMMA RecordFields ==
  Progress!Records =
     [attempt : Progress!Keys, frameIndex : Indices, lastFrameSeq : Sequence,
      lastAckedFrameSeq : Sequence, phase : Progress!Phases,
      aborted : BOOLEAN, committed : BOOLEAN]
  BY DEF Progress!Records, Sequence, Indices

LEMMA InitProgressInv == Progress!Init => ProgressInv
<1> SUFFICES ASSUME Progress!Init PROVE ProgressInv
  OBVIOUS
<1> USE DEF Progress!Init
<1>1. NoAttempt \in Progress!Keys
  BY DEF Progress!Keys
<1>2. Progress!TypeOK
  <2>1. Progress!NoCall \in Progress!Calls
    BY <1>1 DEF Progress!NoCall, Progress!Calls
  <2>2. 0 \in 0 .. MaxCrash
    BY ProgressConstants
  <2> QED
    BY <1>1, <2>1, <2>2, NewRecord DEF Progress!TypeOK
<1>3. Progress!FlagsAgree
  BY <1>1, NewRecord DEF Progress!FlagsAgree
<1>4. RecordsKept
  BY DEF RecordsKept, InBegin
<1> QED
  BY <1>2, <1>3, <1>4 DEF ProgressInv

(* A call that changes the record and saves it.                            *)
LEMMA SaveKeepsInv ==
  ASSUME ProgressInv, pc = "idle",
         NEW c \in Progress!Calls, NEW m \in Progress!Records,
         Progress!Consistent(m), Progress!SaveState(c, m),
         c.op # "other" => c.attempt = m.attempt,
         c.op = "begin" => m.attempt # NoAttempt,
         c.op # "begin" => Pinned(m),
         c.op = "other" => active
  PROVE  ProgressInv'
<1> USE DEF Progress!SaveState
<1>0. /\ mem' = m /\ UNCHANGED <<stored, crashes>>
      /\ file = "complete" => stored = newest
  BY DEF ProgressInv, RecordsKept
<1>1. CASE /\ pc' = "flush" /\ call' = c /\ file' = "short" /\ newest' = m
           /\ UNCHANGED <<active, begun>> /\ resumed' = NoAttempt
  <2>1. Progress!TypeOK'
    BY <1>0, <1>1 DEF ProgressInv, Progress!TypeOK, Progress!Keys
  <2>2. Progress!FlagsAgree'
    BY <1>0 DEF ProgressInv, Progress!FlagsAgree, Progress!Consistent
  <2>3. RecordsKept'
    <3>1. /\ pc' = "flush" /\ call' = c /\ file' = "short" /\ newest' = mem'
          /\ active' = active /\ begun' = begun /\ resumed' = NoAttempt
      BY <1>0, <1>1
    <3>2. c.op # "begin" => Pinned(mem)'
      BY <1>0, <3>1 DEF Pinned
    <3> QED
      BY <1>0, <3>1, <3>2 DEF RecordsKept, InBegin
  <2> QED
    BY <2>1, <2>2, <2>3 DEF ProgressInv
<1>2. CASE Progress!Result(c, FALSE) /\ UNCHANGED <<pc, call, file, newest>>
  <2>1. /\ active' = IF c.op = "other" THEN active ELSE FALSE
        /\ begun' = begun /\ resumed' = NoAttempt
    BY <1>2 DEF Progress!Result
  <2>2. Progress!TypeOK'
    BY <1>0, <1>2, <2>1 DEF ProgressInv, Progress!TypeOK, Progress!Keys
  <2>3. Progress!FlagsAgree'
    BY <1>0 DEF ProgressInv, Progress!FlagsAgree, Progress!Consistent
  <2>4. RecordsKept'
    <3>1. /\ pc' = "idle" /\ file' = file /\ stored' = stored
          /\ newest' = newest
      BY <1>0, <1>2
    <3>2. file = "complete" => Pinned(stored) /\ stored = newest
      BY DEF ProgressInv, RecordsKept
    <3>3. Pinned(stored) => Pinned(stored)'
      BY <2>1, <3>1 DEF Pinned
    <3>4. active' => Pinned(mem)'
      BY <1>0, <2>1 DEF Pinned
    <3> QED
      BY <2>1, <3>1, <3>2, <3>3, <3>4 DEF RecordsKept, InBegin
  <2> QED
    BY <2>2, <2>3, <2>4 DEF ProgressInv
<1> QED
  BY <1>1, <1>2

LEMMA UpdateKeepsInv ==
  ASSUME ProgressInv, NEW m \in Progress!Records, Progress!Update(m),
         Progress!Consistent(m), m.attempt = mem.attempt
  PROVE  ProgressInv'
<1>1. /\ pc = "idle" /\ active /\ Progress!SaveState(Progress!NoCall, m)
  BY DEF Progress!Update
<1>2. /\ Progress!NoCall \in Progress!Calls /\ Progress!NoCall.op = "other"
  BY DEF Progress!NoCall, Progress!Calls, Progress!Keys
<1>3. Pinned(m)
  BY <1>1 DEF ProgressInv, RecordsKept, InBegin, Pinned
<1> QED
  BY <1>1, <1>2, <1>3, SaveKeepsInv

(* What the calls make of the record.                                      *)
LEMMA UpdatesKeepInv ==
  ASSUME ProgressInv,
         \/ \E s \in 1 .. MaxSeq : Progress!MarkFrameSent(s)
         \/ \E a \in 1 .. MaxSeq, s \in 0 .. MaxSeq, f \in BOOLEAN :
               Progress!Checkpoint(a, s, f)
         \/ Progress!AbortCurrentAttempt \/ Progress!CommitCurrentAttempt
  PROVE  ProgressInv'
<1> USE DEF Progress!Consistent
<1>0. mem \in Progress!Records /\ Progress!Consistent(mem)
  BY DEF ProgressInv, Progress!TypeOK, Progress!FlagsAgree
<1>1. ASSUME NEW s \in 1 .. MaxSeq, Progress!MarkFrameSent(s)
      PROVE  ProgressInv'
  <2> DEFINE m == [mem EXCEPT !.frameIndex = @ + 1, !.lastFrameSeq = s,
                              !.phase = "Running", !.aborted = FALSE]
  <2>1. Progress!Update(m) /\ mem.frameIndex < MaxFrameIndex
    BY <1>1 DEF Progress!MarkFrameSent
  <2>2. m \in Progress!Records /\ m.attempt = mem.attempt
    <3>1. /\ mem.frameIndex + 1 \in Indices /\ s \in Sequence
          /\ "Running" \in Progress!Phases
      BY <1>0, <2>1, ProgressConstants
      DEF Progress!Records, Indices, Sequence, Progress!Phases
    <3>2. mem \in Progress!Records
      BY <1>0
    <3> DEFINE n == mem.frameIndex + 1
               r == "Running"
    <3> HIDE DEF n, r
    <3>3. \A i \in Indices, p \in Progress!Phases :
             LET k == [mem EXCEPT !.frameIndex = i, !.lastFrameSeq = s,
                                  !.phase = p, !.aborted = FALSE]
             IN  k \in Progress!Records /\ k.attempt = mem.attempt
      BY <3>1, <3>2, RecordFields
    <3> QED
      BY <3>1, <3>3
  <2>3. Progress!Consistent(m)
    BY <1>0
  <2> HIDE DEF m
  <2> QED
    BY <2>1, <2>2, <2>3, UpdateKeepsInv
<1>2. ASSUME NEW a \in 1 .. MaxSeq, NEW s \in 0 .. MaxSeq, NEW f \in BOOLEAN,
             Progress!Checkpoint(a, s, f)
      PROVE  ProgressInv'
  <2> DEFINE m == [mem EXCEPT !.lastAckedFrameSeq = a,
                       !.lastFrameSeq = IF s = 0 THEN @ ELSE s,
                       !.phase = IF f THEN "Committed" ELSE "Running",
                       !.committed = f, !.aborted = FALSE]
  <2>1. Progress!Update(m)
    BY <1>2 DEF Progress!Checkpoint
  <2>2. m \in Progress!Records /\ m.attempt = mem.attempt
    <3> DEFINE n == IF s = 0 THEN mem.lastFrameSeq ELSE s
               p == IF f THEN "Committed" ELSE "Running"
               m1 == [mem EXCEPT !.lastAckedFrameSeq = a, !.lastFrameSeq = n]
               m2 == [m1 EXCEPT !.phase = p, !.committed = f, !.aborted = FALSE]
    <3>1. /\ a \in Sequence /\ n \in Sequence /\ p \in Progress!Phases
          /\ f \in BOOLEAN
      BY <1>0, ProgressConstants
      DEF Progress!Records, Sequence, Progress!Phases
    <3>2. m2 = m
      OBVIOUS
    <3> HIDE DEF n, p
    <3>3. m1 \in Progress!Records /\ m1.attempt = mem.attempt
      BY <1>0, <3>1, RecordFields
    <3> HIDE DEF m1
    <3>4. m2 \in Progress!Records /\ m2.attempt = m1.attempt
      BY <3>1, <3>3, RecordFields
    <3> HIDE DEF m, m2
    <3> QED
      BY <3>2, <3>3, <3>4
  <2>3. Progress!Consistent(m)
    BY <1>0
  <2> HIDE DEF m
  <2> QED
    BY <2>1, <2>2, <2>3, UpdateKeepsInv
<1>3. CASE Progress!AbortCurrentAttempt
  <2> DEFINE m == [mem EXCEPT !.phase = "Aborted", !.aborted = TRUE,
                              !.committed = FALSE]
  <2>1. Progress!Update(m)
    BY <1>3 DEF Progress!AbortCurrentAttempt
  <2>2. /\ m \in Progress!Records /\ m.attempt = mem.attempt
        /\ Progress!Consistent(m)
    BY <1>0 DEF Progress!Records, Progress!Phases
  <2> HIDE DEF m
  <2> QED
    BY <2>1, <2>2, UpdateKeepsInv
<1>4. CASE Progress!CommitCurrentAttempt
  <2> DEFINE m == [mem EXCEPT !.phase = "Committed", !.committed = TRUE,
                              !.aborted = FALSE]
  <2>1. Progress!Update(m)
    BY <1>4 DEF Progress!CommitCurrentAttempt
  <2>2. /\ m \in Progress!Records /\ m.attempt = mem.attempt
        /\ Progress!Consistent(m)
    BY <1>0 DEF Progress!Records, Progress!Phases
  <2> HIDE DEF m
  <2> QED
    BY <2>1, <2>2, UpdateKeepsInv
<1> QED
  BY <1>1, <1>2, <1>3, <1>4

LEMMA BeginKeepsInv ==
  ASSUME ProgressInv, NEW k \in Attempts, Progress!BeginLine(k)
  PROVE  ProgressInv'
<1> DEFINE c == [op |-> "begin", attempt |-> k]
<1>1. k \in Progress!Keys /\ k # NoAttempt
  BY ProgressConstants DEF Progress!Keys
<1>2. pc = "idle" /\ Progress!SaveState(c, Progress!BeginNew(k))
  BY DEF Progress!BeginLine
<1>3. c \in Progress!Calls /\ c.op = "begin" /\ c.attempt = k
  BY <1>1 DEF Progress!Calls
<1> HIDE DEF c
<1> QED
  BY <1>1, <1>2, <1>3, NewRecord, SaveKeepsInv

(* A resume that finds its attempt in a complete file saves it anew; one   *)
(* that does not takes it all the same, and is refused.                    *)
LEMMA ResumeKeepsInv ==
  ASSUME ProgressInv, NEW k \in Attempts,
         Progress!ResumeLoaded(k) \/ Progress!ResumeIncomplete(k)
  PROVE  ProgressInv'
<1> DEFINE c == [op |-> "resume", attempt |-> k]
<1>1. k \in Progress!Keys
  BY DEF Progress!Keys
<1>2. c \in Progress!Calls /\ c.op = "resume" /\ c.attempt = k
  BY <1>1 DEF Progress!Calls
<1>3. /\ stored \in Progress!Records /\ mem \in Progress!Records
      /\ Progress!Consistent(stored) /\ Progress!Consistent(mem)
  BY DEF ProgressInv, Progress!TypeOK, Progress!FlagsAgree
<1>4. CASE /\ pc = "idle" /\ file = "complete" /\ Progress!Matches(k)
           /\ Progress!SaveState(c, Progress!Revive(stored))
  <2> DEFINE m == Progress!Revive(stored)
  <2>1. /\ m \in Progress!Records /\ m.attempt = stored.attempt
        /\ Progress!Consistent(m)
    BY <1>3
    DEF Progress!Records, Progress!Phases, Progress!Revive, Progress!Consistent
  <2>2. stored.attempt = k
    BY <1>4 DEF Progress!Matches
  <2>3. Pinned(stored)
    BY <1>4 DEF ProgressInv, RecordsKept
  <2>4. Pinned(m)
    BY <2>1, <2>3 DEF Pinned
  <2>5. Progress!SaveState(c, m)
    BY <1>4
  <2> HIDE DEF m, c
  <2> QED
    BY <1>2, <1>4, <2>1, <2>2, <2>4, <2>5, SaveKeepsInv
<1>5. CASE /\ pc = "idle" /\ mem' \in {mem, stored}
           /\ Progress!Result(c, FALSE)
           /\ UNCHANGED <<file, stored, pc, call, newest, crashes>>
  <2>1. active' = FALSE /\ begun' = begun /\ resumed' = NoAttempt
    BY <1>2, <1>5 DEF Progress!Result
  <2>2. /\ UNCHANGED <<file, stored, pc, call, newest, crashes>>
        /\ pc = "idle" /\ mem' \in Progress!Records
        /\ Progress!Consistent(mem')
    BY <1>3, <1>5
  <2>3. Progress!TypeOK'
    BY <2>1, <2>2 DEF ProgressInv, Progress!TypeOK, Progress!Keys
  <2>4. Progress!FlagsAgree'
    BY <1>3, <2>2 DEF Progress!FlagsAgree, Progress!Consistent
  <2>5. Pinned(stored) => Pinned(stored)'
    BY <2>1, <2>2 DEF Pinned
  <2>6. file = "complete" => Pinned(stored) /\ stored = newest
    BY DEF ProgressInv, RecordsKept
  <2>7. RecordsKept'
    BY <2>1, <2>2, <2>5, <2>6 DEF RecordsKept, InBegin
  <2> QED
    BY <2>3, <2>4, <2>7 DEF ProgressInv
<1> QED
  BY <1>4, <1>5 DEF Progress!ResumeLoaded, Progress!ResumeIncomplete

LEMMA ThrowKeepsInv ==
  ASSUME ProgressInv, Progress!ResumeThrows
  PROVE  ProgressInv'
<1>1. /\ pc = "idle" /\ file = "cut" /\ pc' = "down" /\ active' = FALSE
      /\ resumed' = NoAttempt
      /\ UNCHANGED <<mem, file, stored, call, newest, begun, crashes>>
  BY DEF Progress!ResumeThrows
<1>2. Progress!TypeOK'
  BY <1>1 DEF ProgressInv, Progress!TypeOK, Progress!Keys
<1>3. Progress!FlagsAgree'
  BY <1>1 DEF ProgressInv, Progress!FlagsAgree, Progress!Consistent
<1>4. RecordsKept'
  BY <1>1 DEF RecordsKept, InBegin
<1> QED
  BY <1>2, <1>3, <1>4 DEF ProgressInv

(* The caller is told of a save, whether its text got to the file or not.  *)
LEMMA FlushKeepsInv ==
  ASSUME ProgressInv, Progress!FlushSucceeds \/ Progress!FlushFails
  PROVE  ProgressInv'
<1>1. /\ pc = "flush" /\ pc' = "idle" /\ call' = Progress!NoCall
      /\ UNCHANGED <<mem, newest, crashes>>
      /\ file' \in {"short", "cut", "complete"}
      /\ file' = "complete" => stored' = mem
      /\ stored' \in {stored, mem}
  BY DEF Progress!FlushSucceeds, Progress!FlushFails
<1>2. Progress!Result(call, TRUE)
  BY DEF Progress!FlushSucceeds, Progress!FlushFails
<1>3. /\ active' = IF call.op = "other" THEN active ELSE TRUE
      /\ begun' = IF call.op = "begin" THEN call.attempt ELSE begun
      /\ resumed' = IF call.op = "resume" THEN call.attempt ELSE NoAttempt
  BY <1>2 DEF Progress!Result
<1>4. /\ call.attempt \in Progress!Keys /\ NoAttempt \in Progress!Keys
      /\ Progress!NoCall \in Progress!Calls /\ Progress!NoCall.op = "other"
  BY DEF ProgressInv, Progress!TypeOK, Progress!Calls, Progress!NoCall,
         Progress!Keys
<1>5. Pinned(mem)'
  <2>1. CASE call.op = "begin"
    <3>1. call.attempt = mem.attempt
      BY <1>1, <2>1 DEF ProgressInv, RecordsKept
    <3> QED
      BY <1>1, <1>3, <2>1, <3>1 DEF Pinned
  <2>2. CASE call.op # "begin"
    <3>1. Pinned(mem)
      BY <1>1, <2>2 DEF ProgressInv, RecordsKept
    <3> QED
      BY <1>1, <1>3, <2>2, <3>1 DEF Pinned
  <2> QED
    BY <2>1, <2>2
<1>6. Progress!TypeOK'
  BY <1>1, <1>3, <1>4 DEF ProgressInv, Progress!TypeOK
<1>7. Progress!FlagsAgree'
  BY <1>1 DEF ProgressInv, Progress!FlagsAgree, Progress!Consistent
<1>8. resumed' # NoAttempt /\ begun' # NoAttempt => resumed' = begun'
  <2>1. call.op = "resume" => call.attempt = mem.attempt
    BY <1>1 DEF ProgressInv, RecordsKept
  <2>2. resumed' # NoAttempt => resumed' = mem'.attempt
    BY <1>1, <1>3, <2>1
  <2>3. begun' # NoAttempt => mem'.attempt = begun'
    BY <1>5 DEF Pinned
  <2> QED
    BY <2>2, <2>3
<1>9. RecordsKept'
  <2>1. file' = "complete" => stored' = newest' /\ Pinned(stored)'
    <3>1. mem = newest
      BY <1>1 DEF ProgressInv, RecordsKept
    <3> QED
      BY <1>1, <1>5, <3>1 DEF Pinned
  <2> QED
    BY <1>1, <1>5, <1>8, <2>1 DEF RecordsKept, InBegin
<1> QED
  BY <1>6, <1>7, <1>9 DEF ProgressInv

(* The process dies, in the middle of a save perhaps, and starts again.    *)
LEMMA CrashKeepsInv ==
  ASSUME ProgressInv, Progress!Crash
  PROVE  ProgressInv'
<1>1. /\ crashes' = crashes + 1 /\ crashes < MaxCrash /\ pc' = "down"
      /\ call' = Progress!NoCall /\ active' = FALSE /\ resumed' = NoAttempt
      /\ UNCHANGED <<mem, newest>>
      /\ begun' = IF InBegin THEN NoAttempt ELSE begun
  BY DEF Progress!Crash, InBegin
<1>2. pc = "flush" => file' \in {"short", "cut", "complete"} /\ stored' = mem
  BY DEF Progress!Crash
<1>3. pc # "flush" => file' = file /\ stored' = stored
  BY DEF Progress!Crash
<1>4. /\ Progress!NoCall \in Progress!Calls /\ NoAttempt \in Progress!Keys
  BY DEF Progress!Calls, Progress!NoCall, Progress!Keys
<1>5. crashes' \in 0 .. MaxCrash
  BY <1>1, ProgressConstants DEF ProgressInv, Progress!TypeOK
<1>6. /\ file' \in {"absent", "short", "cut", "complete"}
      /\ stored' \in {stored, mem}
  BY <1>2, <1>3 DEF ProgressInv, Progress!TypeOK
<1>7. Progress!TypeOK'
  BY <1>1, <1>4, <1>5, <1>6 DEF ProgressInv, Progress!TypeOK
<1>8. Progress!FlagsAgree'
  BY <1>1, <1>6 DEF ProgressInv, Progress!FlagsAgree, Progress!Consistent
<1>9. file' = "complete" => stored' = newest' /\ Pinned(stored)'
  <2>1. CASE pc = "flush"
    <3>1. mem = newest /\ ~InBegin => Pinned(mem)
      BY <2>1 DEF ProgressInv, RecordsKept, InBegin
    <3>2. mem = newest
      BY <2>1 DEF ProgressInv, RecordsKept
    <3> QED
      BY <1>1, <1>2, <2>1, <3>1, <3>2 DEF Pinned
  <2>2. CASE pc # "flush"
    <3>1. file = "complete" => stored = newest /\ Pinned(stored)
      BY DEF ProgressInv, RecordsKept
    <3> QED
      BY <1>1, <1>3, <2>2, <3>1 DEF Pinned, InBegin
  <2> QED
    BY <2>1, <2>2
<1>10. RecordsKept'
  BY <1>1, <1>9 DEF RecordsKept, InBegin
<1> QED
  BY <1>7, <1>8, <1>10 DEF ProgressInv

LEMMA RestartKeepsInv ==
  ASSUME ProgressInv, Progress!Restart
  PROVE  ProgressInv'
<1>1. /\ pc = "down" /\ mem' = Progress!BeginNew(NoAttempt) /\ pc' = "idle"
      /\ UNCHANGED <<file, stored, call, active, newest, begun, resumed,
                     crashes>>
  BY DEF Progress!Restart
<1>2. /\ Progress!BeginNew(NoAttempt) \in Progress!Records
      /\ Progress!Consistent(Progress!BeginNew(NoAttempt))
  BY NewRecord DEF Progress!Keys
<1>3. Progress!TypeOK'
  BY <1>1, <1>2 DEF ProgressInv, Progress!TypeOK
<1>4. Progress!FlagsAgree'
  BY <1>1, <1>2 DEF ProgressInv, Progress!FlagsAgree, Progress!Consistent
<1>5. RecordsKept'
  BY <1>1 DEF ProgressInv, RecordsKept, InBegin, Pinned
<1> QED
  BY <1>3, <1>4, <1>5 DEF ProgressInv

LEMMA NextProgressInv ==
  ASSUME ProgressInv, Progress!Next
  PROVE  ProgressInv'
<1>1. CASE \E k \in Attempts :
             \/ Progress!BeginLine(k) \/ Progress!ResumeLoaded(k)
             \/ Progress!ResumeIncomplete(k)
  BY <1>1, BeginKeepsInv, ResumeKeepsInv
<1>2. CASE \/ \E s \in 1 .. MaxSeq : Progress!MarkFrameSent(s)
           \/ \E a \in 1 .. MaxSeq, s \in 0 .. MaxSeq, f \in BOOLEAN :
                 Progress!Checkpoint(a, s, f)
           \/ Progress!AbortCurrentAttempt \/ Progress!CommitCurrentAttempt
  BY <1>2, UpdatesKeepInv
<1>3. CASE \/ Progress!ResumeThrows \/ Progress!FlushSucceeds
           \/ Progress!FlushFails \/ Progress!Crash \/ Progress!Restart
  BY <1>3, ThrowKeepsInv, FlushKeepsInv, CrashKeepsInv, RestartKeepsInv
<1> QED
  BY <1>1, <1>2, <1>3 DEF Progress!Next

LEMMA StutterProgressInv ==
  ASSUME ProgressInv, UNCHANGED progressVars
  PROVE  ProgressInv'
<1>1. /\ UNCHANGED <<mem, file, stored, pc, call>>
      /\ UNCHANGED <<active, newest, begun, resumed, crashes>>
  BY DEF progressVars
<1>2. Progress!TypeOK' /\ Progress!FlagsAgree'
  BY <1>1
  DEF ProgressInv, Progress!TypeOK, Progress!FlagsAgree, Progress!Consistent
<1>3. RecordsKept'
  BY <1>1 DEF ProgressInv, RecordsKept, InBegin, Pinned
<1> QED
  BY <1>2, <1>3 DEF ProgressInv

LEMMA SpecProgressInv == Spec => []ProgressInv
<1>1. Init => ProgressInv
  BY InitProgressInv DEF Init
<1>2. ProgressInv /\ [Next]_vars => ProgressInv'
  <2> SUFFICES ASSUME ProgressInv, [Next]_vars PROVE ProgressInv'
    OBVIOUS
  <2>1. Progress!Next \/ UNCHANGED progressVars
    BY DEF Next, vars
  <2> QED
    BY <2>1, NextProgressInv, StutterProgressInv
<1> QED
  BY <1>1, <1>2, PTL DEF Spec

(* The record of the progress is of the attempt last begun, its phase and  *)
(* its flags tell one story, and no other attempt is resumed, whenever the *)
(* process dies and whichever write fails (ProtocolV2.h:166-216).          *)
THEOREM ProgressStaysConsistent == Spec => []ProgressConsistent
<1>1. ProgressInv => ProgressConsistent
  BY DEF ProgressInv, RecordsKept, ProgressConsistent,
         Progress!ProgressConsistent, Progress!StaleAttemptNeverResumes
<1> QED
  BY <1>1, SpecProgressInv, PTL

(* What a successful resume finds is the newest record that a save has     *)
(* begun to write, whatever was lost since (resumeFromDisk(),              *)
(* ProtocolV2.h:185-204).                                                  *)
THEOREM ResumeFindsNewest == Spec => ResumesNewest
<1>1. ProgressInv /\ [Next]_vars =>
         [pc = "idle" /\ call'.op = "resume" /\ pc' = "flush"
             => newest' = Progress!Revive(newest)]_(Progress!vars)
  <2> SUFFICES ASSUME ProgressInv, Progress!Next,
                      pc = "idle", call'.op = "resume", pc' = "flush"
               PROVE  newest' = Progress!Revive(newest)
    BY DEF Next, vars, progressVars, Progress!vars
  <2>1. PICK k \in Attempts : Progress!ResumeLoaded(k)
    <3>1. \A k \in Attempts : \A m : Progress!SaveState([op |-> "begin", attempt |-> k], m)
             => call'.op = "begin" \/ pc' = pc
      BY DEF Progress!SaveState
    <3>2. \A m : ~Progress!Update(m)
      BY DEF Progress!Update, Progress!SaveState, Progress!NoCall
    <3> QED
      BY <3>1, <3>2
      DEF Progress!Next, Progress!BeginLine, Progress!ResumeIncomplete,
          Progress!MarkFrameSent, Progress!Checkpoint,
          Progress!AbortCurrentAttempt, Progress!CommitCurrentAttempt,
          Progress!ResumeThrows, Progress!FlushSucceeds, Progress!FlushFails,
          Progress!Crash, Progress!Restart
  <2>2. newest' = Progress!Revive(stored) /\ file = "complete"
    BY <2>1 DEF Progress!ResumeLoaded, Progress!SaveState
  <2>3. stored = newest
    BY <2>2 DEF ProgressInv, RecordsKept
  <2> QED
    BY <2>2, <2>3
<1> QED
  BY <1>1, SpecProgressInv, PTL DEF Spec, ResumesNewest, Progress!ResumesNewest

-----------------------------------------------------------------------------
(* Induction over the subsets of a finite set.                             *)
LEMMA SubsetInduction ==
  ASSUME NEW T, IsFiniteSet(T), NEW G,
         \A s \in SUBSET T : (\A r \in SUBSET s : r # s => r \in G) => s \in G
  PROVE  \A s \in SUBSET T : s \in G
<1> DEFINE Bad == (SUBSET T) \ G
           R == StrictSubsetOrdering(T)
<1>1. SUFFICES ASSUME Bad # {} PROVE FALSE
  OBVIOUS
<1>2. Bad \subseteq FiniteSubsetsOf(T)
  BY FS_Subset DEF FiniteSubsetsOf
<1>3. IsWellFoundedOn(R, FiniteSubsetsOf(T))
  BY FS_StrictSubsetOrderingWellFounded
<1>4. PICK x \in Bad : \A y \in Bad : ~(<<y, x>> \in R)
  <2> HIDE DEF Bad, R
  <2> QED
    BY <1>1, <1>2, <1>3, WFMin
<1>5. \A r \in SUBSET x : r # x => r \in G
  <2> SUFFICES ASSUME NEW r \in SUBSET x, r # x, r \notin G PROVE FALSE
    OBVIOUS
  <2>1. r \in Bad /\ <<r, x>> \in R
    BY DEF StrictSubsetOrdering
  <2> QED
    BY <1>4, <2>1
<1> QED
  BY <1>4, <1>5

(* SumFunctionOnSet() is a recursion over the subsets.                     *)
Chosen(s) == CHOOSE x \in s : TRUE
Rest(s)   == s \ {Chosen(s)}
SumBody(g, h, s) == IF s = {} THEN 0 ELSE g[Chosen(s)] + h[Rest(s)]
SumsUp(g, S, h) == h = [s \in SUBSET S |-> SumBody(g, h, s)]
PartialSums(g, S) == CHOOSE h : SumsUp(g, S, h)

LEMMA SumIsRecursive ==
  ASSUME NEW g, NEW S
  PROVE  SumFunctionOnSet(g, S) = PartialSums(g, S)[S]
  BY DEF SumFunctionOnSet, FoldFunctionOnSet, MapThenFoldSet, PartialSums,
     SumsUp, SumBody, Chosen, Rest

LEMMA SumsAgree ==
  ASSUME NEW T, IsFiniteSet(T), NEW g, NEW S \in SUBSET T, NEW R \in SUBSET S,
         NEW h, SumsUp(g, S, h), NEW k, SumsUp(g, R, k)
  PROVE  \A s \in SUBSET R : h[s] = k[s]
<1> DEFINE G == {s \in SUBSET R : h[s] = k[s]}
<1>1. IsFiniteSet(R)
  BY FS_Subset
<1>2. ASSUME NEW s \in SUBSET R, \A r \in SUBSET s : r # s => r \in G
      PROVE  s \in G
  <2>1. h[s] = SumBody(g, h, s) /\ k[s] = SumBody(g, k, s)
    BY DEF SumsUp
  <2>2. s # {} => h[Rest(s)] = k[Rest(s)]
    BY <1>2 DEF Rest, Chosen
  <2> QED
    BY <2>1, <2>2 DEF SumBody
<1> HIDE DEF G
<1>3. \A s \in SUBSET R : s \in G
  BY <1>1, <1>2, SubsetInduction
<1> QED
  BY <1>3 DEF G

LEMMA SumsDefined ==
  ASSUME NEW T, IsFiniteSet(T), NEW g
  PROVE  \A S \in SUBSET T : SumsUp(g, S, PartialSums(g, S))
<1> DEFINE G == {S \in SUBSET T : SumsUp(g, S, PartialSums(g, S))}
<1>1. ASSUME NEW S \in SUBSET T, \A r \in SUBSET S : r # S => r \in G
      PROVE  S \in G
  <2> DEFINE value(s) == IF s = {} THEN 0
                         ELSE g[Chosen(s)] + PartialSums(g, Rest(s))[Rest(s)]
             H == [s \in SUBSET S |-> value(s)]
  <2>1. ASSUME NEW s \in SUBSET S, s # S PROVE H[s] = PartialSums(g, s)[s]
    <3>1. SumsUp(g, s, PartialSums(g, s))
      BY <1>1, <2>1
    <3>2. PartialSums(g, s)[s] = SumBody(g, PartialSums(g, s), s)
      BY <3>1 DEF SumsUp
    <3>3. s # {} => PartialSums(g, s)[Rest(s)] = PartialSums(g, Rest(s))[Rest(s)]
      <4> SUFFICES ASSUME s # {}
                   PROVE  PartialSums(g, s)[Rest(s)] = PartialSums(g, Rest(s))[Rest(s)]
        OBVIOUS
      <4>1. Rest(s) \in SUBSET s /\ Rest(s) # s /\ Rest(s) # S /\ s \in SUBSET T
        BY DEF Rest, Chosen
      <4>2. SumsUp(g, Rest(s), PartialSums(g, Rest(s)))
        BY <1>1, <4>1
      <4> HIDE DEF H
      <4> QED
        BY <3>1, <4>1, <4>2, SumsAgree
    <3> QED
      BY <3>2, <3>3 DEF SumBody
  <2>2. H = [s \in SUBSET S |-> SumBody(g, H, s)]
    <3> SUFFICES ASSUME NEW s \in SUBSET S PROVE value(s) = SumBody(g, H, s)
      OBVIOUS
    <3>1. s # {} => Rest(s) \in SUBSET S /\ Rest(s) # S
      BY DEF Rest, Chosen
    <3>2. s # {} => H[Rest(s)] = PartialSums(g, Rest(s))[Rest(s)]
      BY <2>1, <3>1
    <3> QED
      BY <3>2 DEF SumBody
  <2>3. \E h : SumsUp(g, S, h)
    BY <2>2 DEF SumsUp
  <2> QED
    BY <2>3 DEF PartialSums
<1> HIDE DEF G
<1>2. \A S \in SUBSET T : S \in G
  BY <1>1, SubsetInduction
<1> QED
  BY <1>2 DEF G

LEMMA SumEquation ==
  ASSUME NEW T, IsFiniteSet(T), NEW g, NEW S \in SUBSET T
  PROVE  SumFunctionOnSet(g, S) =
            IF S = {} THEN 0
            ELSE g[Chosen(S)] + SumFunctionOnSet(g, Rest(S))
<1>1. Rest(S) \in SUBSET S
  BY DEF Rest
<1>2. /\ SumsUp(g, S, PartialSums(g, S))
      /\ SumsUp(g, Rest(S), PartialSums(g, Rest(S)))
  BY <1>1, SumsDefined
<1>3. PartialSums(g, S)[S] = SumBody(g, PartialSums(g, S), S)
  BY <1>2 DEF SumsUp
<1>4. \A s \in SUBSET Rest(S) :
         PartialSums(g, S)[s] = PartialSums(g, Rest(S))[s]
  BY <1>1, <1>2, SumsAgree
<1> QED
  BY <1>3, <1>4, SumIsRecursive DEF SumBody

-----------------------------------------------------------------------------
(* Sums of integers: each term may be taken out first,                     *)
LEMMA SumType ==
  ASSUME NEW T, IsFiniteSet(T), NEW g \in [T -> Int]
  PROVE  \A S \in SUBSET T : SumFunctionOnSet(g, S) \in Int
<1> DEFINE G == {S \in SUBSET T : SumFunctionOnSet(g, S) \in Int}
<1>1. ASSUME NEW S \in SUBSET T, \A R \in SUBSET S : R # S => R \in G
      PROVE  S \in G
  <2>1. S # {} => /\ Chosen(S) \in S /\ g[Chosen(S)] \in Int
                  /\ Rest(S) \in SUBSET S /\ Rest(S) # S
    BY DEF Chosen, Rest
  <2>2. S # {} => SumFunctionOnSet(g, Rest(S)) \in Int
    BY <1>1, <2>1
  <2> QED
    BY <2>1, <2>2, SumEquation
<1> HIDE DEF G
<1>2. \A S \in SUBSET T : S \in G
  BY <1>1, SubsetInduction
<1> QED
  BY <1>2 DEF G

LEMMA SumTake ==
  ASSUME NEW T, IsFiniteSet(T), NEW g \in [T -> Int]
  PROVE  \A S \in SUBSET T : \A x \in S :
            SumFunctionOnSet(g, S) = g[x] + SumFunctionOnSet(g, S \ {x})
<1> DEFINE Sum(S) == SumFunctionOnSet(g, S)
           G == {S \in SUBSET T : \A x \in S : Sum(S) = g[x] + Sum(S \ {x})}
<1>0. \A S \in SUBSET T : Sum(S) \in Int
  BY SumType
<1>e. \A S \in SUBSET T : Sum(S) = IF S = {} THEN 0
                                   ELSE g[Chosen(S)] + Sum(Rest(S))
  BY SumEquation
<1> HIDE DEF Sum
<1>1. ASSUME NEW S \in SUBSET T, \A R \in SUBSET S : R # S => R \in G
      PROVE  S \in G
  <2> SUFFICES ASSUME NEW x \in S PROVE Sum(S) = g[x] + Sum(S \ {x})
    OBVIOUS
  <2> DEFINE c == Chosen(S)
  <2>1. c \in S /\ Rest(S) = S \ {c}
    BY DEF Chosen, Rest
  <2> HIDE DEF c
  <2>2. Sum(S) = g[c] + Sum(S \ {c})
    BY <1>e, <2>1 DEF c
  <2>3. CASE x # c
    <3>1. Sum(S \ {c}) = g[x] + Sum((S \ {c}) \ {x})
      BY <1>1, <2>1, <2>3
    <3>2. Sum(S \ {x}) = g[c] + Sum((S \ {x}) \ {c})
      BY <1>1, <2>1, <2>3
    <3>3. Sum((S \ {c}) \ {x}) = Sum((S \ {x}) \ {c})
      <4>1. (S \ {c}) \ {x} = (S \ {x}) \ {c}
        OBVIOUS
      <4> QED
        BY <4>1
    <3>4. g[x] \in Int /\ g[c] \in Int /\ Sum((S \ {x}) \ {c}) \in Int
      BY <1>0, <2>1
    <3> QED
      BY ONLY <2>2, <3>1, <3>2, <3>3, <3>4
  <2> QED
    BY <2>2, <2>3
<1> HIDE DEF G
<1>2. \A S \in SUBSET T : S \in G
  BY <1>1, SubsetInduction
<1> QED
  BY <1>2 DEF G, Sum

(* and a new one may be added.                                             *)
LEMMA SumAdd ==
  ASSUME NEW T, IsFiniteSet(T), NEW g \in [T -> Int], NEW S \in SUBSET T,
         NEW x \in T, x \notin S
  PROVE  SumFunctionOnSet(g, S \cup {x}) = SumFunctionOnSet(g, S) + g[x]
<1>1. (S \cup {x}) \ {x} = S /\ S \cup {x} \in SUBSET T /\ x \in S \cup {x}
  OBVIOUS
<1>2. SumFunctionOnSet(g, S \cup {x})
        = g[x] + SumFunctionOnSet(g, (S \cup {x}) \ {x})
  BY <1>1, SumTake
<1>3. SumFunctionOnSet(g, (S \cup {x}) \ {x}) = SumFunctionOnSet(g, S)
  BY <1>1
<1>4. SumFunctionOnSet(g, S) \in Int /\ g[x] \in Int
  BY SumType
<1> QED
  BY ONLY <1>2, <1>3, <1>4

LEMMA SumNothing ==
  ASSUME NEW g
  PROVE  SumFunctionOnSet(g, {}) = 0
<1>1. IsFiniteSet({})
  BY FS_EmptySet
<1> QED
  BY <1>1, SumEquation

(* Terms that are not greater have a sum that is not greater,              *)
LEMMA SumBound ==
  ASSUME NEW T, IsFiniteSet(T), NEW f \in [T -> Int], NEW g \in [T -> Int]
  PROVE  \A S \in SUBSET T :
            (\A x \in S : f[x] <= g[x])
            => SumFunctionOnSet(f, S) <= SumFunctionOnSet(g, S)
<1> DEFINE F(S) == SumFunctionOnSet(f, S)
           Sum(S) == SumFunctionOnSet(g, S)
           G == {S \in SUBSET T : (\A x \in S : f[x] <= g[x]) => F(S) <= Sum(S)}
<1>0. \A S \in SUBSET T : F(S) \in Int /\ Sum(S) \in Int
  BY SumType
<1>e. \A S \in SUBSET T :
         /\ F(S) = IF S = {} THEN 0 ELSE f[Chosen(S)] + F(Rest(S))
         /\ Sum(S) = IF S = {} THEN 0 ELSE g[Chosen(S)] + Sum(Rest(S))
  BY SumEquation
<1> HIDE DEF F, Sum
<1>1. ASSUME NEW S \in SUBSET T, \A R \in SUBSET S : R # S => R \in G
      PROVE  S \in G
  <2> SUFFICES ASSUME \A x \in S : f[x] <= g[x] PROVE F(S) <= Sum(S)
    OBVIOUS
  <2>1. CASE S = {}
    <3>1. F(S) = 0 /\ Sum(S) = 0
      BY <1>e, <2>1
    <3> QED
      BY ONLY <3>1
  <2>2. CASE S # {}
    <3>1. /\ Chosen(S) \in S /\ Rest(S) \in SUBSET S /\ Rest(S) # S
      BY <2>2 DEF Chosen, Rest
    <3>2. F(Rest(S)) <= Sum(Rest(S))
      BY <1>1, <3>1
    <3>3. /\ f[Chosen(S)] \in Int /\ g[Chosen(S)] \in Int
          /\ F(Rest(S)) \in Int /\ Sum(Rest(S)) \in Int
          /\ f[Chosen(S)] <= g[Chosen(S)]
      BY <1>0, <3>1
    <3>4. F(S) = f[Chosen(S)] + F(Rest(S)) /\ Sum(S) = g[Chosen(S)] + Sum(Rest(S))
      BY <1>e, <2>2
    <3> QED
      BY <3>2, <3>3, <3>4
  <2> QED
    BY <2>1, <2>2
<1> HIDE DEF G
<1>2. \A S \in SUBSET T : S \in G
  BY <1>1, SubsetInduction
<1> QED
  BY <1>2 DEF G, F, Sum

(* and terms that are equal have equal sums.                               *)
LEMMA SumSame ==
  ASSUME NEW T, IsFiniteSet(T), NEW f \in [T -> Int], NEW g \in [T -> Int],
         NEW S \in SUBSET T, \A x \in S : f[x] = g[x]
  PROVE  SumFunctionOnSet(f, S) = SumFunctionOnSet(g, S)
<1>1. \A x \in S : f[x] <= g[x] /\ g[x] <= f[x]
  OBVIOUS
<1>2. /\ SumFunctionOnSet(f, S) <= SumFunctionOnSet(g, S)
      /\ SumFunctionOnSet(g, S) <= SumFunctionOnSet(f, S)
  BY <1>1, SumBound
<1>3. SumFunctionOnSet(f, S) \in Int /\ SumFunctionOnSet(g, S) \in Int
  BY SumType
<1> QED
  BY <1>2, <1>3

(* One term changes.                                                       *)
LEMMA SumChange ==
  ASSUME NEW T, IsFiniteSet(T), NEW f \in [T -> Int], NEW g \in [T -> Int],
         NEW S \in SUBSET T, NEW x \in T,
         \A y \in S : y # x => f[y] = g[y]
  PROVE  SumFunctionOnSet(g, S) = SumFunctionOnSet(f, S)
                                    + (IF x \in S THEN g[x] - f[x] ELSE 0)
<1>1. SumFunctionOnSet(f, S \ {x}) = SumFunctionOnSet(g, S \ {x})
  BY SumSame
<1>2. x \in S => /\ SumFunctionOnSet(f, S) = f[x] + SumFunctionOnSet(f, S \ {x})
                 /\ SumFunctionOnSet(g, S) = g[x] + SumFunctionOnSet(g, S \ {x})
  BY SumTake
<1>3. x \notin S => S \ {x} = S
  OBVIOUS
<1>4. f[x] \in Int /\ g[x] \in Int /\ SumFunctionOnSet(f, S \ {x}) \in Int
  BY SumType
<1> QED
  BY <1>1, <1>2, <1>3, <1>4

(* Sums of naturals.                                                       *)
LEMMA SumNatural ==
  ASSUME NEW T, IsFiniteSet(T), NEW g \in [T -> Nat]
  PROVE  \A S \in SUBSET T : SumFunctionOnSet(g, S) \in Nat
<1> DEFINE G == {S \in SUBSET T : SumFunctionOnSet(g, S) \in Nat}
<1>1. ASSUME NEW S \in SUBSET T, \A R \in SUBSET S : R # S => R \in G
      PROVE  S \in G
  <2>1. S # {} => /\ Chosen(S) \in S /\ g[Chosen(S)] \in Nat
                  /\ Rest(S) \in SUBSET S /\ Rest(S) # S
    BY DEF Chosen, Rest
  <2>2. S # {} => SumFunctionOnSet(g, Rest(S)) \in Nat
    BY <1>1, <2>1
  <2>3. SumFunctionOnSet(g, S) =
           IF S = {} THEN 0 ELSE g[Chosen(S)] + SumFunctionOnSet(g, Rest(S))
    BY SumEquation
  <2>4. SumFunctionOnSet(g, S) \in Nat
    BY ONLY <2>1, <2>2, <2>3
  <2> QED
    BY <2>4
<1> HIDE DEF G
<1>2. \A S \in SUBSET T : S \in G
  BY <1>1, SubsetInduction
<1> QED
  BY <1>2 DEF G

LEMMA SumZero ==
  ASSUME NEW T, IsFiniteSet(T), NEW S \in SUBSET T
  PROVE  SumFunctionOnSet([x \in T |-> 0], S) = 0
<1> DEFINE g == [x \in T |-> 0]
           G == {R \in SUBSET T : SumFunctionOnSet(g, R) = 0}
<1>0. \A x \in T : g[x] = 0
  OBVIOUS
<1> HIDE DEF g
<1>1. ASSUME NEW Q \in SUBSET T, \A R \in SUBSET Q : R # Q => R \in G
      PROVE  Q \in G
  <2>1. Q # {} => /\ Chosen(Q) \in Q /\ g[Chosen(Q)] = 0
                  /\ Rest(Q) \in SUBSET Q /\ Rest(Q) # Q
    BY <1>0 DEF Chosen, Rest
  <2>2. Q # {} => SumFunctionOnSet(g, Rest(Q)) = 0
    BY <1>1, <2>1
  <2> QED
    BY <2>1, <2>2, SumEquation
<1> HIDE DEF G
<1>2. \A R \in SUBSET T : R \in G
  BY <1>1, SubsetInduction
<1> QED
  BY <1>2 DEF G, g

-----------------------------------------------------------------------------
(* The times.  Where main() is, what has started and what has ended;       *)
(* nothing starts in the future.                                           *)
Collecting == 5

Busy      == {w \in Workers : worker[w].pc \in {"preprocess", "roi"}}
StoredPre == {w \in Workers : worker[w].pc \in {"loadRoi", "storeRoi", "done"}}
StoredRoi == {w \in Workers : worker[w].pc = "done"}
Leaving   == {w \in Workers : worker[w].pc \in {"loadPre", "storePre"}}
             \cup StoredPre

StagesOrdered ==
    /\ inside => Times!Script[at] \in Times!MainStages
    /\ producer.pc = "read" => at = Collecting /\ producer.count < ScanPositions
    /\ accumulator.pc = "add" => at = Collecting
    /\ Leaving # {} => producer.pc = "done"
    /\ accumulator.pc = "done" => Times!WorkersJoined
    /\ raw + Cardinality(Busy) + signals <= producer.count
    /\ lastWall <= clock /\ timerStart <= clock /\ producer.since <= clock
    /\ accumulator.since <= clock
    /\ \A w \in Workers : worker[w].since <= clock

(* The last record has the time of the last mark.                          *)
RecordsCurrent ==
    logged.totalWall = lastWall /\ Times!RecordsAddUp

(* The two stages of a worker are over when the next one starts.           *)
WorkersFit ==
    \A w \in Workers :
        /\ worker[w].pre + worker[w].roi <= clock
        /\ worker[w].pc \in {"preprocess", "roi"} =>
              worker[w].pre + worker[w].roi <= worker[w].since

(* What main() has measured and what a thread beside it has measured were  *)
(* over when the next measurement started.  A total is collected once.     *)
MainTime == SumFunctionOnSet(stageTimes, Times!MainStages)

MainFits ==
    /\ MainTime + total["frame_io"] <= clock
    /\ inside => MainTime + total["frame_io"] <= timerStart
    /\ producer.pc = "read" => MainTime + total["frame_io"] <= producer.since
    /\ MainTime + accumTime <= clock
    /\ inside => MainTime + accumTime <= timerStart
    /\ accumulator.pc = "add" => MainTime + accumTime <= accumulator.since
    /\ total["accumulation"] =
          IF accumulator.pc = "done" THEN accumTime ELSE 0
    /\ \A s \in {"frame_io", "accumulation"} :
          /\ stageTimes[s] <= total[s]
          /\ at <= Collecting => stageTimes[s] = 0

(* A total, and what a worker has loaded of it, is the sum of the times of *)
(* some of the workers that have stored theirs.                            *)
SumOfSome(stage, v, D) ==
    \E S \in SUBSET D : v = SumFunctionOnSet(Times!LocalTimes(stage), S)
SumOfSomeone(stage, v, D) ==
    D # {} => \E S \in SUBSET D :
                 S # {} /\ v = SumFunctionOnSet(Times!LocalTimes(stage), S)

TotalsSum ==
    /\ SumOfSome("preprocess", total["preprocess"], StoredPre)
    /\ SumOfSomeone("preprocess", total["preprocess"], StoredPre)
    /\ SumOfSome("roi_extraction", total["roi_extraction"], StoredRoi)
    /\ SumOfSomeone("roi_extraction", total["roi_extraction"], StoredRoi)
    /\ \A w \in Workers :
          /\ worker[w].pc = "storePre" =>
                SumOfSome("preprocess", worker[w].loaded, StoredPre)
          /\ worker[w].pc = "storeRoi" =>
                SumOfSome("roi_extraction", worker[w].loaded, StoredRoi)

TimesInv ==
    /\ Times!TypeOK /\ StagesOrdered /\ RecordsCurrent /\ WorkersFit
    /\ MainFits /\ TotalsSum

-----------------------------------------------------------------------------
LEMMA TimesConstants ==
  /\ IsFiniteSet(Workers) /\ Workers # {}
  /\ ScanPositions \in Nat /\ MaxClock \in Nat
  BY ResultConstants DEF Times!TimesAssumption, Times!IsFiniteSet, IsFiniteSet

LEMMA TimesSums ==
  \A g, S : Times!SumFunctionOnSet(g, S) = SumFunctionOnSet(g, S)
  BY DEF Times!SumFunctionOnSet, SumFunctionOnSet, Times!FoldFunctionOnSet,
         FoldFunctionOnSet, Times!MapThenFoldSet, MapThenFoldSet

(* What main() does, in its order.                                         *)
LEMMA ScriptOrder ==
  /\ DOMAIN Times!Script = 1 .. 27
  /\ \A i \in 1 .. 27 : Times!Script[i] = "pipeline" <=> i = Collecting
  /\ \A i \in 1 .. 27 : Times!Script[i] \notin Times!ThreadStages
  /\ \A i \in 1 .. 27 : Times!Script[i] # "finish" => i + 1 \in 1 .. 27
<1>1. DOMAIN Times!Script = 1 .. 27
  BY DEF Times!Script
<1>2. Times!Script[5] = "pipeline" /\ Times!Script[27] = "finish"
  BY DEF Times!Script
<1>3. \A i \in 1 .. 27 : i # 5 => Times!Script[i] # "pipeline"
  BY DEF Times!Script
<1>4. \A i \in 1 .. 27 : Times!Script[i] \notin Times!ThreadStages
  BY DEF Times!Script, Times!ThreadStages
<1> QED
  BY <1>1, <1>2, <1>3, <1>4 DEF Collecting

Stages == Times!ThreadStages \cup Times!MainStages

LEMMA StagesFinite ==
  /\ IsFiniteSet(Stages) /\ Times!MainStages \in SUBSET Stages
  /\ Times!ThreadStages \cap Times!MainStages = {}
<1>1. IsFiniteSet(Times!ThreadStages)
  <2>1. Times!ThreadStages
          = ((({} \cup {"frame_io"}) \cup {"preprocess"})
                \cup {"roi_extraction"}) \cup {"accumulation"}
    BY DEF Times!ThreadStages
  <2> QED
    BY <2>1, FS_EmptySet, FS_AddElement
<1>2. IsFiniteSet(Times!MainStages)
  <2> DEFINE steps == {Times!Script[i] : i \in 1 .. 27}
  <2>1. IsFiniteSet(1 .. 27)
    <3>1. \A n \in Nat : IsFiniteSet(1 .. n)
      BY FS_Interval
    <3>2. 27 \in Nat
      OBVIOUS
    <3> QED
      BY <3>1, <3>2, Zenon
  <2>2. IsFiniteSet(steps)
    <3> DEFINE f == [i \in 1 .. 27 |-> Times!Script[i]]
    <3>1. f \in Surjection(1 .. 27, steps)
      BY DEF Surjection
    <3> QED
      BY <2>1, <3>1, FS_Surjection
  <2>3. Times!MainStages \in SUBSET steps
    BY ScriptOrder DEF Times!MainStages
  <2> HIDE DEF steps
  <2> QED
    BY <2>2, <2>3, FS_Subset
<1>3. Times!ThreadStages \cap Times!MainStages = {}
  BY ScriptOrder DEF Times!MainStages
<1> QED
  BY <1>1, <1>2, <1>3, FS_Union DEF Stages

(* The types of the times.                                                 *)
WorkerRecords ==
    [pc : {"pop", "preprocess", "roi", "loadPre", "storePre", "loadRoi",
           "storeRoi", "done"},
     since : Times!Times, pre : Times!Times, roi : Times!Times, loaded : Nat]

LEMMA TimesTypes ==
  Times!TypeOK =>
    /\ clock \in Nat /\ clock <= MaxClock
    /\ lastWall \in Nat /\ timerStart \in Nat /\ accumTime \in Nat
    /\ stageTimes \in [Stages -> Nat] /\ total \in [Times!ThreadStages -> Nat]
    /\ at \in 1 .. 27 /\ raw \in Nat /\ signals \in Nat
    /\ producer.pc \in {"ready", "read", "done"}
    /\ producer.since \in Nat /\ producer.count \in 0 .. ScanPositions
    /\ accumulator.since \in Nat
    /\ worker \in [Workers -> WorkerRecords]
    /\ \A w \in Workers :
          /\ worker[w].since \in Nat /\ worker[w].pre \in Nat
          /\ worker[w].roi \in Nat /\ worker[w].loaded \in Nat
  BY TimesConstants, ScriptOrder
  DEF Times!TypeOK, Times!Times, Stages, WorkerRecords

-----------------------------------------------------------------------------
LEMMA InitTimesInv == Times!Init => TimesInv
<1> SUFFICES ASSUME Times!Init PROVE TimesInv
  OBVIOUS
<1> USE DEF Times!Init
<1>1. Times!TypeOK
  <2>1. /\ 0 \in Times!Times /\ 0 \in 0 .. ScanPositions
        /\ 1 \in DOMAIN Times!Script
    BY TimesConstants, ScriptOrder DEF Times!Times
  <2>2. worker \in [Workers -> WorkerRecords]
    BY <2>1 DEF WorkerRecords
  <2> QED
    BY <2>1, <2>2 DEF Times!TypeOK, WorkerRecords
<1>2. \A w \in Workers : worker[w].pc = "pop"
  OBVIOUS
<1>3. Busy = {} /\ StoredPre = {} /\ StoredRoi = {} /\ Leaving = {}
  BY <1>2 DEF Busy, StoredPre, StoredRoi, Leaving
<1>4. Cardinality({}) = 0
  BY FS_EmptySet
<1>5. StagesOrdered
  <2>1. 0 + Cardinality(Busy) + 0 <= 0
    BY <1>3, <1>4
  <2> QED
    BY <1>3, <2>1 DEF StagesOrdered
<1>6. RecordsCurrent
  BY DEF RecordsCurrent, Times!RecordsAddUp
<1>7. WorkersFit
  BY DEF WorkersFit
<1>8. MainFits
  <2>1. stageTimes = [s \in Stages |-> 0]
    BY DEF Stages
  <2>2. MainTime = 0
    BY <2>1, StagesFinite, SumZero DEF MainTime
  <2>3. "frame_io" \in Stages /\ "accumulation" \in Stages
    BY DEF Stages, Times!ThreadStages
  <2>4. \A s \in {"frame_io", "accumulation"} : stageTimes[s] = 0 /\ total[s] = 0
    BY <2>1, <2>3 DEF Times!ThreadStages
  <2> QED
    BY <2>2, <2>4 DEF MainFits
<1>9. TotalsSum
  <2>1. \A f : 0 = SumFunctionOnSet(f, {})
    BY SumNothing
  <2>2. \A stage : SumOfSome(stage, 0, {}) /\ SumOfSomeone(stage, 0, {})
    BY <2>1 DEF SumOfSome, SumOfSomeone
  <2>3. total["preprocess"] = 0 /\ total["roi_extraction"] = 0
    BY DEF Times!ThreadStages
  <2> QED
    BY <1>2, <1>3, <2>2, <2>3 DEF TotalsSum
<1> QED
  BY <1>1, <1>5, <1>6, <1>7, <1>8, <1>9 DEF TimesInv

LEMMA MainTimeType ==
  Times!TypeOK => /\ MainTime \in Nat /\ MainTime + accumTime \in Nat
                  /\ MainTime + total["frame_io"] \in Nat
                  /\ total["frame_io"] \in Nat /\ total["accumulation"] \in Nat
<1> SUFFICES ASSUME Times!TypeOK
             PROVE  /\ MainTime \in Nat /\ accumTime \in Nat
                    /\ \A s \in Times!ThreadStages : total[s] \in Nat
  BY DEF Times!ThreadStages
<1>1. /\ stageTimes \in [Stages -> Nat] /\ accumTime \in Nat
      /\ total \in [Times!ThreadStages -> Nat]
  BY TimesTypes
<1>2. MainTime \in Nat
  BY <1>1, StagesFinite, SumNatural DEF MainTime
<1> QED
  BY <1>1, <1>2

(* The workers stand still: time passes, or another thread goes on.        *)
LEMMA WorkersRest ==
  ASSUME TimesInv, worker' = worker, clock' \in Nat, clock <= clock',
         \A s \in {"preprocess", "roi_extraction"} : total'[s] = total[s]
  PROVE  /\ WorkersFit' /\ TotalsSum'
         /\ Busy' = Busy /\ Leaving' = Leaving
         /\ Times!WorkersJoined' = Times!WorkersJoined
<1>1. /\ Busy' = Busy /\ StoredPre' = StoredPre /\ StoredRoi' = StoredRoi
      /\ Leaving' = Leaving /\ Times!WorkersJoined' = Times!WorkersJoined
  BY DEF Busy, StoredPre, StoredRoi, Leaving, Times!WorkersJoined
<1>2. WorkersFit'
  BY TimesTypes DEF TimesInv, WorkersFit
<1>3. /\ Times!LocalTimes("preprocess")' = Times!LocalTimes("preprocess")
      /\ Times!LocalTimes("roi_extraction")' = Times!LocalTimes("roi_extraction")
  BY DEF Times!LocalTimes
<1>4. TotalsSum'
  BY <1>1, <1>3 DEF TimesInv, TotalsSum, SumOfSome, SumOfSomeone
<1> QED
  BY <1>1, <1>2, <1>4

LEMMA TickKeepsInv ==
  ASSUME TimesInv, Times!Tick
  PROVE  TimesInv'
<1>1. /\ clock' = clock + 1 /\ clock < MaxClock
      /\ UNCHANGED <<lastWall, logged, stageTimes, at, inside, timerStart>>
      /\ UNCHANGED <<total, raw, signals, producer, accumulator, accumTime,
                     worker>>
  BY DEF Times!Tick, Times!monitorVars, Times!mainVars
<1>2. /\ Times!TypeOK /\ clock \in Nat /\ clock' \in Nat /\ clock <= clock'
      /\ clock' \in Times!Times
  BY <1>1, TimesTypes, TimesConstants DEF TimesInv, Times!Times
<1>3. Times!TypeOK'
  BY <1>1, <1>2 DEF Times!TypeOK
<1>4. /\ WorkersFit' /\ TotalsSum' /\ Busy' = Busy /\ Leaving' = Leaving
      /\ Times!WorkersJoined' = Times!WorkersJoined
  BY <1>1, <1>2, WorkersRest
<1>5. StagesOrdered'
  BY <1>1, <1>2, <1>4, TimesTypes DEF TimesInv, StagesOrdered
<1>6. RecordsCurrent'
  BY <1>1 DEF TimesInv, RecordsCurrent, Times!RecordsAddUp
<1>7. MainFits'
  <2>1. /\ MainTime' = MainTime
        /\ MainTime + total["frame_io"] \in Nat /\ MainTime + accumTime \in Nat
    BY <1>1, <1>2, TimesTypes, MainTimeType DEF MainTime
  <2> QED
    BY <1>1, <1>2, <2>1 DEF TimesInv, MainFits
<1> QED
  BY <1>3, <1>4, <1>5, <1>6, <1>7 DEF TimesInv

(* A step of main().  Only those that leave the pipeline find its threads  *)
(* at work, and these have come to their end.                              *)
LEMMA MainMoves ==
  ASSUME TimesInv,
         UNCHANGED <<clock, total, raw, signals, producer, accumulator,
                     accumTime, worker>>,
         lastWall' \in {lastWall, clock}, timerStart' \in {timerStart, clock},
         inside' \in BOOLEAN, inside' => Times!Script[at'] \in Times!MainStages,
         at' \in 1 .. 27,
         at # Collecting => at' # Collecting \/ at' = at + 1,
         at' # at => (producer.pc # "read" /\ accumulator.pc # "add")
  PROVE  /\ StagesOrdered' /\ WorkersFit' /\ TotalsSum'
         /\ clock' = clock /\ clock \in Times!Times
         /\ lastWall' \in Times!Times /\ timerStart' \in Times!Times
<1>1. Times!TypeOK /\ clock \in Nat /\ clock <= clock /\ clock' = clock
  BY TimesTypes DEF TimesInv
<1>2. /\ WorkersFit' /\ TotalsSum' /\ Busy' = Busy /\ Leaving' = Leaving
      /\ Times!WorkersJoined' = Times!WorkersJoined
  BY <1>1, WorkersRest
<1>3. /\ clock \in Times!Times /\ lastWall' \in Times!Times
      /\ timerStart' \in Times!Times
  BY <1>1 DEF Times!TypeOK
<1>4. StagesOrdered'
  BY <1>1, <1>2, TimesTypes DEF TimesInv, StagesOrdered
<1> QED
  BY <1>1, <1>2, <1>3, <1>4

LEMMA NotCollecting ==
  ASSUME TimesInv, at # Collecting
  PROVE  producer.pc # "read" /\ accumulator.pc # "add"
  BY DEF TimesInv, StagesOrdered

LEMMA Collected ==
  ASSUME TimesInv, accumulator.pc = "done"
  PROVE  producer.pc # "read" /\ accumulator.pc # "add"
<1>1. Times!WorkersJoined
  BY DEF TimesInv, StagesOrdered
<1>2. PICK w \in Workers : worker[w].pc = "done"
  BY <1>1, TimesConstants DEF Times!WorkersJoined
<1>3. Leaving # {}
  BY <1>2 DEF Leaving, StoredPre
<1> QED
  BY <1>3 DEF TimesInv, StagesOrdered

(* A stage of main() is not the pipeline, nor the end.                     *)
LEMMA MainStageAt ==
  ASSUME TimesInv, Times!Script[at] \in Times!MainStages \cup {"mark"}
  PROVE  at # Collecting /\ at + 1 \in 1 .. 27 /\ at \in Nat
<1>1. at \in 1 .. 27
  BY TimesTypes DEF TimesInv
<1>2. Times!Script[at] # "pipeline" /\ Times!Script[at] # "finish"
  BY DEF Times!MainStages
<1> QED
  BY <1>1, <1>2, ScriptOrder

LEMMA MarkKeepsInv ==
  ASSUME TimesInv, Times!MainStep, Times!Mark \/ Times!Finish
  PROVE  TimesInv'
<1>1. UNCHANGED <<clock, total, raw, signals, producer, accumulator, accumTime,
                  worker>>
  BY DEF Times!MainStep
<1>2. /\ logged' = [stageWalls |-> logged.stageWalls + clock - lastWall,
                    totalWall |-> clock]
      /\ lastWall' = clock
      /\ UNCHANGED <<stageTimes, inside, timerStart>>
  BY DEF Times!Mark, Times!Finish, Times!AddRecord, Times!mainVars
<1>3. \/ at' = at /\ Times!Script[at] = "finish"
      \/ at' = at + 1 /\ Times!Script[at] = "mark"
  BY DEF Times!Mark, Times!Finish, Times!mainVars
<1>4. /\ Times!TypeOK /\ at \in 1 .. 27 /\ inside \in BOOLEAN
      /\ clock \in Nat /\ lastWall \in Nat
      /\ logged \in [stageWalls : Times!Times, totalWall : Times!Times]
  BY TimesTypes DEF TimesInv, Times!TypeOK
<1>5. ~inside
  <2>1. Times!Script[at] \notin Times!MainStages
    BY <1>3 DEF Times!MainStages
  <2> QED
    BY <2>1, <1>4 DEF TimesInv, StagesOrdered
<1>6. /\ at' \in 1 .. 27
      /\ at' # at => producer.pc # "read" /\ accumulator.pc # "add"
  BY <1>3, <1>4, MainStageAt, NotCollecting
<1>7. /\ StagesOrdered' /\ WorkersFit' /\ TotalsSum'
      /\ clock' = clock /\ clock \in Times!Times
      /\ lastWall' \in Times!Times /\ timerStart' \in Times!Times
  <2>1. at # Collecting => at' # Collecting \/ at' = at + 1
    BY <1>3
  <2> QED
    BY <1>1, <1>2, <1>4, <1>5, <1>6, <2>1, MainMoves
<1>8. RecordsCurrent'
  <2>1. logged.totalWall = lastWall /\ logged.stageWalls = lastWall
    BY DEF TimesInv, RecordsCurrent, Times!RecordsAddUp
  <2> QED
    BY <1>2, <1>4, <2>1 DEF RecordsCurrent, Times!RecordsAddUp
<1>9. Times!TypeOK'
  <2>1. logged' \in [stageWalls : Times!Times, totalWall : Times!Times]
    <3>1. logged.stageWalls = lastWall
      BY DEF TimesInv, RecordsCurrent, Times!RecordsAddUp
    <3>2. logged.stageWalls + clock - lastWall = clock
      BY <1>4, <3>1
    <3> QED
      BY <1>2, <1>7, <3>2
  <2>2. at' \in DOMAIN Times!Script
    BY <1>6, ScriptOrder
  <2> QED
    BY <1>1, <1>2, <1>4, <1>7, <2>1, <2>2 DEF Times!TypeOK
<1>10. MainFits'
  <2>1. MainTime' = MainTime
    BY <1>2 DEF MainTime
  <2>2. at' <= Collecting => at <= Collecting
    BY <1>3, <1>4 DEF Collecting
  <2> QED
    BY <1>1, <1>2, <1>5, <2>1, <2>2 DEF TimesInv, MainFits
<1> QED
  BY <1>7, <1>8, <1>9, <1>10 DEF TimesInv

LEMMA TimerStartKeepsInv ==
  ASSUME TimesInv, Times!MainStep, Times!TimerStarts
  PROVE  TimesInv'
<1>1. UNCHANGED <<clock, total, raw, signals, producer, accumulator, accumTime,
                  worker>>
  BY DEF Times!MainStep
<1>2. /\ Times!Script[at] \in Times!MainStages
      /\ inside' = TRUE /\ timerStart' = clock
      /\ UNCHANGED <<stageTimes, lastWall, logged, at>>
  BY DEF Times!TimerStarts, Times!monitorVars
<1>3. Times!TypeOK /\ at \in 1 .. 27
  BY TimesTypes DEF TimesInv
<1>4. /\ StagesOrdered' /\ WorkersFit' /\ TotalsSum'
      /\ clock' = clock /\ clock \in Times!Times
      /\ lastWall' \in Times!Times /\ timerStart' \in Times!Times
  BY <1>1, <1>2, <1>3, MainMoves
<1>5. Times!TypeOK'
  BY <1>1, <1>2, <1>3, <1>4 DEF Times!TypeOK
<1>6. RecordsCurrent'
  BY <1>2 DEF TimesInv, RecordsCurrent, Times!RecordsAddUp
<1>7. MainFits'
  <2>1. MainTime' = MainTime
    BY <1>2 DEF MainTime
  <2> QED
    BY <1>1, <1>2, <2>1 DEF TimesInv, MainFits
<1> QED
  BY <1>4, <1>5, <1>6, <1>7 DEF TimesInv

LEMMA TimerEndKeepsInv ==
  ASSUME TimesInv, Times!MainStep, Times!TimerEnds
  PROVE  TimesInv'
<1> DEFINE s == Times!Script[at]
<1>1. UNCHANGED <<clock, total, raw, signals, producer, accumulator, accumTime,
                  worker>>
  BY DEF Times!MainStep
<1>2. /\ s \in Times!MainStages /\ inside
      /\ stageTimes' = [stageTimes EXCEPT ![s] = @ + (clock - timerStart)]
      /\ inside' = FALSE /\ at' = at + 1
      /\ UNCHANGED <<lastWall, logged, timerStart>>
  BY DEF Times!TimerEnds, Times!AddStageTime
<1>3. /\ Times!TypeOK /\ at # Collecting /\ at' \in 1 .. 27 /\ at \in Nat
  BY <1>2, MainStageAt DEF TimesInv
<1>4. producer.pc # "read" /\ accumulator.pc # "add"
  BY <1>3, NotCollecting
<1>5. /\ StagesOrdered' /\ WorkersFit' /\ TotalsSum'
      /\ clock' = clock /\ clock \in Times!Times
      /\ lastWall' \in Times!Times /\ timerStart' \in Times!Times
  BY <1>1, <1>2, <1>3, <1>4, MainMoves
<1>6. /\ clock \in Nat /\ timerStart \in Nat /\ timerStart <= clock
      /\ stageTimes \in [Stages -> Nat]
  BY <1>3, TimesTypes DEF TimesInv, StagesOrdered
<1>7. s \in Stages /\ s \notin Times!ThreadStages
  BY <1>2, StagesFinite DEF Stages
<1> HIDE DEF s
<1>8. /\ stageTimes' \in [Stages -> Nat]
      /\ \A r \in Stages : r # s => stageTimes'[r] = stageTimes[r]
      /\ stageTimes'[s] - stageTimes[s] = clock - timerStart
  <2>1. stageTimes[s] \in Nat /\ clock - timerStart \in Nat
    BY <1>6, <1>7
  <2>2. stageTimes[s] + (clock - timerStart) \in Nat
    BY <2>1
  <2>3. stageTimes'[s] = stageTimes[s] + (clock - timerStart)
    BY <1>2, <1>6, <1>7
  <2> QED
    BY <1>2, <1>6, <1>7, <2>1, <2>2, <2>3
<1>9. Times!TypeOK'
  <2>1. at' \in DOMAIN Times!Script
    BY <1>3, ScriptOrder
  <2> QED
    BY <1>1, <1>2, <1>3, <1>5, <1>8, <2>1 DEF Times!TypeOK, Stages
<1>10. RecordsCurrent'
  BY <1>2 DEF TimesInv, RecordsCurrent, Times!RecordsAddUp
<1>11. MainTime' = MainTime + (clock - timerStart)
  <2>1. stageTimes \in [Stages -> Int] /\ stageTimes' \in [Stages -> Int]
    BY <1>6, <1>8
  <2>2. \A r \in Times!MainStages : r # s => stageTimes[r] = stageTimes'[r]
    BY <1>8, StagesFinite
  <2>3. SumFunctionOnSet(stageTimes', Times!MainStages)
          = SumFunctionOnSet(stageTimes, Times!MainStages)
            + (IF s \in Times!MainStages THEN stageTimes'[s] - stageTimes[s] ELSE 0)
    BY <1>7, <2>1, <2>2, StagesFinite, SumChange
  <2> QED
    BY <1>2, <1>8, <2>3 DEF MainTime
<1>12. MainFits'
  <2>1. /\ MainTime \in Nat /\ accumTime \in Nat /\ total["frame_io"] \in Nat
    BY <1>3, MainTimeType, TimesTypes
  <2>2. /\ MainTime + total["frame_io"] <= timerStart
        /\ MainTime + accumTime <= timerStart
    BY <1>2 DEF TimesInv, MainFits
  <2>3. /\ MainTime' + total'["frame_io"] <= clock'
        /\ MainTime' + accumTime' <= clock'
    BY <1>1, <1>5, <1>6, <1>11, <2>1, <2>2
  <2>4. \A r \in {"frame_io", "accumulation"} : stageTimes'[r] = stageTimes[r]
    BY <1>7, <1>8 DEF Stages, Times!ThreadStages
  <2>5. at' <= Collecting => at <= Collecting
    BY <1>2, <1>3 DEF Collecting
  <2> QED
    BY <1>1, <1>2, <1>4, <2>3, <2>4, <2>5 DEF TimesInv, MainFits
<1> QED
  BY <1>5, <1>9, <1>10, <1>12 DEF TimesInv

LEMMA CollectKeepsInv ==
  ASSUME TimesInv, Times!MainStep, Times!CollectTimes
  PROVE  TimesInv'
<1>1. UNCHANGED <<clock, total, raw, signals, producer, accumulator, accumTime,
                  worker>>
  BY DEF Times!MainStep
<1>2. /\ Times!Script[at] = "pipeline" /\ accumulator.pc = "done"
      /\ at' = at + 1 /\ UNCHANGED <<lastWall, logged, inside, timerStart>>
      /\ stageTimes' =
            [s \in DOMAIN stageTimes |->
               stageTimes[s] + IF s \in Times!ThreadStages THEN total[s] ELSE 0]
  BY DEF Times!CollectTimes, Times!Running
<1>3. /\ Times!TypeOK /\ at \in 1 .. 27 /\ stageTimes \in [Stages -> Nat]
      /\ total \in [Times!ThreadStages -> Nat]
  BY TimesTypes DEF TimesInv
<1>4. at = Collecting /\ at' \in 1 .. 27 /\ at' = 6
  BY <1>2, <1>3, ScriptOrder DEF Collecting
<1>5. producer.pc # "read" /\ accumulator.pc # "add" /\ ~inside
  <2>1. Times!Script[at] \notin Times!MainStages
    BY <1>2 DEF Times!MainStages
  <2>2. ~inside
    BY <2>1 DEF TimesInv, StagesOrdered
  <2>3. producer.pc # "read" /\ accumulator.pc # "add"
    BY <1>2, Collected
  <2> QED
    BY <2>2, <2>3
<1>6. /\ StagesOrdered' /\ WorkersFit' /\ TotalsSum'
      /\ clock' = clock /\ clock \in Times!Times
      /\ lastWall' \in Times!Times /\ timerStart' \in Times!Times
  <2>1. inside' \in BOOLEAN /\ ~inside'
    <3>1. inside \in BOOLEAN
      BY <1>3 DEF Times!TypeOK
    <3> QED
      BY <1>2, <1>5, <3>1
  <2> QED
    BY <1>1, <1>2, <1>4, <1>5, <2>1, MainMoves
<1>7. /\ stageTimes' \in [Stages -> Nat]
      /\ \A r \in Times!MainStages : stageTimes'[r] = stageTimes[r]
      /\ \A r \in Times!ThreadStages : stageTimes'[r] = stageTimes[r] + total[r]
  <2>1. \A r \in Stages : stageTimes'[r] =
           stageTimes[r] + IF r \in Times!ThreadStages THEN total[r] ELSE 0
    BY <1>2, <1>3
  <2>2. \A r \in Stages : stageTimes'[r] \in Nat
    BY <1>3, <2>1
  <2>3. \A r \in Times!MainStages : stageTimes[r] \in Nat
    BY <1>3, StagesFinite
  <2> QED
    BY <1>2, <1>3, <2>1, <2>2, <2>3, StagesFinite DEF Stages
<1>8. Times!TypeOK'
  <2>1. at' \in DOMAIN Times!Script
    BY <1>4, ScriptOrder
  <2> QED
    BY <1>1, <1>2, <1>3, <1>6, <1>7, <2>1 DEF Times!TypeOK, Stages
<1>9. RecordsCurrent'
  BY <1>2 DEF TimesInv, RecordsCurrent, Times!RecordsAddUp
<1>10. MainTime' = MainTime
  <2>1. stageTimes \in [Stages -> Int] /\ stageTimes' \in [Stages -> Int]
    BY <1>3, <1>7
  <2>2. SumFunctionOnSet(stageTimes', Times!MainStages)
          = SumFunctionOnSet(stageTimes, Times!MainStages)
    BY <1>7, <2>1, StagesFinite, SumSame
  <2> QED
    BY <2>2 DEF MainTime
<1>11. MainFits'
  <2>1. \A r \in {"frame_io", "accumulation"} : stageTimes'[r] = total[r]
    <3>1. \A r \in {"frame_io", "accumulation"} :
             stageTimes[r] = 0 /\ r \in Times!ThreadStages /\ total[r] \in Nat
      BY <1>3, <1>4 DEF TimesInv, MainFits, Times!ThreadStages, Collecting
    <3> QED
      BY <1>7, <3>1
  <2>2. \A r \in {"frame_io", "accumulation"} : total[r] \in Nat
    BY <1>3 DEF Times!ThreadStages
  <2> QED
    BY <1>1, <1>2, <1>4, <1>5, <1>10, <2>1, <2>2
    DEF TimesInv, MainFits, Collecting
<1> QED
  BY <1>6, <1>8, <1>9, <1>11 DEF TimesInv

LEMMA MainStepKeepsInv ==
  ASSUME TimesInv, Times!MainStep
  PROVE  TimesInv'
  BY MarkKeepsInv, TimerStartKeepsInv, TimerEndKeepsInv, CollectKeepsInv
  DEF Times!MainStep

-----------------------------------------------------------------------------
(* The producer and the accumulator run beside the workers, while main()   *)
(* waits for them.                                                         *)
LEMMA PipelineRuns ==
  ASSUME TimesInv, Times!Running
  PROVE  /\ Times!TypeOK /\ at = Collecting /\ ~inside
         /\ clock \in Nat /\ clock <= MaxClock /\ clock \in Times!Times
<1>1. /\ Times!TypeOK /\ at \in 1 .. 27 /\ clock \in Nat /\ clock <= MaxClock
  BY TimesTypes DEF TimesInv
<1>2. at = Collecting
  BY <1>1, ScriptOrder DEF Times!Running
<1>3. Times!Script[at] \notin Times!MainStages
  BY DEF Times!MainStages, Times!Running
<1> QED
  BY <1>1, <1>2, <1>3 DEF TimesInv, StagesOrdered, Times!TypeOK

LEMMA ProducerKeepsInv ==
  ASSUME TimesInv, Times!ProducerStep
  PROVE  TimesInv'
<1>1. /\ UNCHANGED <<clock, lastWall, logged, stageTimes, at, inside, timerStart>>
      /\ UNCHANGED <<signals, accumulator, accumTime, worker>>
      /\ Times!Running
  BY DEF Times!ProducerStep, Times!monitorVars, Times!mainVars
<1>2. /\ Times!TypeOK /\ at = Collecting /\ ~inside
      /\ clock \in Nat /\ clock <= MaxClock /\ clock \in Times!Times
  BY <1>1, PipelineRuns
<1>3. /\ producer \in [pc : {"ready", "read", "done"}, since : Times!Times,
                       count : 0 .. ScanPositions]
      /\ total \in [Times!ThreadStages -> Nat] /\ raw \in Nat /\ signals \in Nat
      /\ producer.since \in Nat /\ producer.count \in Nat
  BY <1>2, TimesTypes DEF Times!TypeOK
<1>4. IsFiniteSet(Busy) /\ Cardinality(Busy) \in Nat
  BY TimesConstants, FS_Subset, FS_CardinalityType DEF Busy
<1>5. raw + Cardinality(Busy) + signals <= producer.count
  BY DEF TimesInv, StagesOrdered
<1> DEFINE N == Cardinality(Busy)
<1> HIDE DEF N
(* What the three steps leave.                                             *)
<1>6. ASSUME producer' \in [pc : {"ready", "read", "done"}, since : Times!Times,
                            count : 0 .. ScanPositions],
             producer'.since <= clock,
             raw' + N + signals <= producer'.count, raw' \in 0 .. ScanPositions,
             producer'.pc = "read" => producer'.count < ScanPositions,
             producer.pc = "done" => producer'.pc = "done",
             total' \in [Times!ThreadStages -> Nat],
             \A s \in Times!ThreadStages :
                s # "frame_io" => total'[s] = total[s],
             total["frame_io"] <= total'["frame_io"],
             MainTime + total'["frame_io"] <= clock,
             producer'.pc = "read" =>
                MainTime + total'["frame_io"] <= producer'.since
      PROVE  TimesInv'
  <2>1. Times!TypeOK'
    BY <1>1, <1>2, <1>6 DEF Times!TypeOK
  <2>2. /\ WorkersFit' /\ TotalsSum' /\ Busy' = Busy /\ Leaving' = Leaving
        /\ Times!WorkersJoined' = Times!WorkersJoined
    <3>1. \A s \in {"preprocess", "roi_extraction"} : total'[s] = total[s]
      BY <1>6 DEF Times!ThreadStages
    <3>2. clock' \in Nat /\ clock <= clock' /\ worker' = worker
      BY <1>1, <1>2
    <3> QED
      BY <3>1, <3>2, WorkersRest
  <2>3. StagesOrdered'
    <3>1. raw' + Cardinality(Busy)' + signals' <= producer'.count
      BY <1>1, <1>6, <2>2 DEF N
    <3> QED
      BY <1>1, <1>2, <1>6, <2>2, <3>1 DEF TimesInv, StagesOrdered
  <2>4. RecordsCurrent'
    BY <1>1 DEF TimesInv, RecordsCurrent, Times!RecordsAddUp
  <2>5. MainFits'
    <3>1. MainTime' = MainTime
      BY <1>1 DEF MainTime
    <3>2. /\ total'["accumulation"] = total["accumulation"]
          /\ \A s \in {"frame_io", "accumulation"} :
                stageTimes[s] <= total'[s]
      <4>1. total'["accumulation"] = total["accumulation"]
        BY <1>6 DEF Times!ThreadStages
      <4>2. stageTimes["frame_io"] \in Nat /\ total["frame_io"] \in Nat
            /\ total'["frame_io"] \in Nat
        BY <1>2, <1>6 DEF Times!TypeOK, Times!ThreadStages
      <4>3. /\ stageTimes["frame_io"] <= total["frame_io"]
            /\ stageTimes["accumulation"] <= total["accumulation"]
        BY DEF TimesInv, MainFits
      <4> QED
        BY <1>6, <4>1, <4>2, <4>3
    <3> QED
      BY <1>1, <1>2, <1>6, <3>1, <3>2 DEF TimesInv, MainFits
  <2> QED
    BY <2>1, <2>2, <2>3, <2>4, <2>5 DEF TimesInv
<1>7. /\ MainTime \in Nat /\ total["frame_io"] \in Nat
      /\ MainTime + total["frame_io"] <= clock
      /\ producer.pc = "read" => MainTime + total["frame_io"] <= producer.since
      /\ raw \in 0 .. ScanPositions /\ raw + N + signals <= producer.count
  BY <1>2, <1>5, MainTimeType DEF TimesInv, MainFits, N, Times!TypeOK
<1>8. CASE Times!ProducerReads
  <2>1. /\ producer.pc = "ready" /\ producer.count < ScanPositions
        /\ producer' = [producer EXCEPT !.pc = "read", !.since = clock]
        /\ total' = total /\ raw' = raw
    BY <1>8 DEF Times!ProducerReads
  <2>2. /\ producer' \in [pc : {"ready", "read", "done"}, since : Times!Times,
                          count : 0 .. ScanPositions]
        /\ producer'.pc = "read" /\ producer'.since = clock
        /\ producer'.count = producer.count
    BY <1>2, <1>3, <2>1
  <2> QED
    BY <1>2, <1>3, <1>6, <1>7, <2>1, <2>2
<1>9. CASE Times!ProducerPushes
  <2> DEFINE t == total["frame_io"] + clock - producer.since
  <2>1. /\ producer.pc = "read" /\ raw' = raw + 1
        /\ total' = [total EXCEPT !["frame_io"] = t]
        /\ producer' = [producer EXCEPT !.pc = "ready", !.count = @ + 1]
    BY <1>9 DEF Times!ProducerPushes
  <2>2. producer.count < ScanPositions /\ producer.since <= clock
    BY <2>1 DEF TimesInv, StagesOrdered
  <2>3. producer.count + 1 \in 0 .. ScanPositions
    BY <1>3, <2>2, TimesConstants
  <2>4. /\ producer' \in [pc : {"ready", "read", "done"}, since : Times!Times,
                          count : 0 .. ScanPositions]
        /\ producer'.pc = "ready" /\ producer'.since = producer.since
        /\ producer'.count = producer.count + 1
    BY <1>3, <2>1, <2>3
  <2>5. t \in Nat /\ total["frame_io"] <= t /\ MainTime + t <= clock
    BY <1>2, <1>3, <1>7, <2>1, <2>2
  <2>6. raw' + N + signals <= producer'.count /\ raw' \in 0 .. ScanPositions
    <3> DEFINE c == producer.count
    <3>1. /\ raw \in Nat /\ signals \in Nat /\ N \in Nat /\ c \in Nat
          /\ raw + N + signals <= c /\ c + 1 <= ScanPositions /\ ScanPositions \in Nat
      BY <1>3, <1>4, <1>7, <2>3, TimesConstants DEF N
    <3> HIDE DEF c
    <3>2. raw + 1 + N + signals <= c + 1 /\ raw + 1 \in 0 .. ScanPositions
      BY ONLY <3>1
    <3>3. raw' = raw + 1 /\ producer'.count = c + 1
      BY <2>1, <2>4 DEF c
    <3> QED
      BY <3>2, <3>3
  <2> HIDE DEF t
  <2>7. /\ total' \in [Times!ThreadStages -> Nat] /\ total'["frame_io"] = t
        /\ \A s \in Times!ThreadStages : s # "frame_io" => total'[s] = total[s]
    BY <1>3, <2>1, <2>5 DEF Times!ThreadStages
  <2> QED
    BY <1>6, <2>1, <2>2, <2>4, <2>5, <2>6, <2>7
<1>10. CASE Times!ProducerEnds
  <2>1. /\ producer.pc = "ready" /\ producer' = [producer EXCEPT !.pc = "done"]
        /\ total' = total /\ raw' = raw
    BY <1>10 DEF Times!ProducerEnds
  <2>2. /\ producer' \in [pc : {"ready", "read", "done"}, since : Times!Times,
                          count : 0 .. ScanPositions]
        /\ producer'.pc = "done" /\ producer'.since = producer.since
        /\ producer'.count = producer.count
    BY <1>3, <2>1
  <2>3. producer.since <= clock
    BY DEF TimesInv, StagesOrdered
  <2> QED
    BY <1>3, <1>6, <1>7, <2>1, <2>2, <2>3
<1> QED
  BY <1>8, <1>9, <1>10 DEF Times!ProducerStep

LEMMA AccumulatorKeepsInv ==
  ASSUME TimesInv, Times!AccumulatorStep
  PROVE  TimesInv'
<1>1. /\ UNCHANGED <<clock, lastWall, logged, stageTimes, at, inside, timerStart>>
      /\ UNCHANGED <<raw, producer, worker>>
      /\ Times!Running
  BY DEF Times!AccumulatorStep, Times!monitorVars, Times!mainVars
<1>2. /\ Times!TypeOK /\ at = Collecting /\ ~inside
      /\ clock \in Nat /\ clock <= MaxClock /\ clock \in Times!Times
  BY <1>1, PipelineRuns
<1>3. /\ accumulator \in [pc : {"pop", "add", "done"}, since : Times!Times]
      /\ total \in [Times!ThreadStages -> Nat] /\ raw \in Nat /\ signals \in Nat
      /\ accumulator.since \in Nat /\ accumTime \in Nat
      /\ producer.count \in Nat
  BY <1>2, TimesTypes DEF Times!TypeOK
<1>4. IsFiniteSet(Busy) /\ Cardinality(Busy) \in Nat
  BY TimesConstants, FS_Subset, FS_CardinalityType DEF Busy
<1>5. raw + Cardinality(Busy) + signals <= producer.count
  BY DEF TimesInv, StagesOrdered
<1>6. /\ stageTimes["accumulation"] = 0 /\ total["accumulation"] \in Nat
      /\ MainTime \in Nat /\ MainTime + accumTime <= clock
      /\ accumulator.pc = "add" => MainTime + accumTime <= accumulator.since
      /\ accumulator.pc # "done" => total["accumulation"] = 0
      /\ accumulator.since <= clock
  BY <1>2, MainTimeType
  DEF TimesInv, MainFits, StagesOrdered, Collecting
<1>7. ASSUME accumulator' \in [pc : {"pop", "add", "done"}, since : Times!Times],
             accumulator'.since <= clock,
             accumulator'.pc = "done" => Times!WorkersJoined,
             signals' <= signals, signals' \in 0 .. ScanPositions,
             accumTime' \in Nat, MainTime + accumTime' <= clock,
             accumulator'.pc = "add" => MainTime + accumTime' <= accumulator'.since,
             total' \in [Times!ThreadStages -> Nat],
             \A s \in Times!ThreadStages :
                s # "accumulation" => total'[s] = total[s],
             total'["accumulation"] =
                IF accumulator'.pc = "done" THEN accumTime' ELSE 0
      PROVE  TimesInv'
  <2>1. Times!TypeOK'
    <3>1. accumTime' \in Times!Times
      <4>1. /\ MainTime \in Nat /\ accumTime' \in Nat /\ clock \in Nat
            /\ MaxClock \in Nat /\ clock <= MaxClock
            /\ MainTime + accumTime' <= clock
        BY <1>2, <1>6, <1>7, TimesConstants
      <4>2. accumTime' \in 0 .. MaxClock
        <5>1. \A a, m, c, k \in Nat : m + a <= c /\ c <= k => a \in 0 .. k
          OBVIOUS
        <5> QED
          BY <4>1, <5>1
      <4> QED
        BY <4>2 DEF Times!Times
    <3> QED
      BY <1>1, <1>2, <1>7, <3>1 DEF Times!TypeOK
  <2>2. /\ WorkersFit' /\ TotalsSum' /\ Busy' = Busy /\ Leaving' = Leaving
        /\ Times!WorkersJoined' = Times!WorkersJoined
    <3>1. \A s \in {"preprocess", "roi_extraction"} : total'[s] = total[s]
      BY <1>7 DEF Times!ThreadStages
    <3>2. clock' \in Nat /\ clock <= clock' /\ worker' = worker
      BY <1>1, <1>2
    <3> QED
      BY <3>1, <3>2, WorkersRest
  <2>3. StagesOrdered'
    <3>1. raw' + Cardinality(Busy)' + signals' <= producer'.count
      <4> DEFINE N == Cardinality(Busy)
      <4>1. raw + N + signals' <= producer.count
        <5>1. N \in Nat /\ signals' \in Int
          BY <1>4, <1>7, TimesConstants
        <5> HIDE DEF N
        <5> QED
          BY <1>3, <1>5, <1>7, <5>1 DEF N
      <4> QED
        BY <1>1, <2>2, <4>1
    <3> QED
      BY <1>1, <1>2, <1>7, <2>2, <3>1 DEF TimesInv, StagesOrdered
  <2>4. RecordsCurrent'
    BY <1>1 DEF TimesInv, RecordsCurrent, Times!RecordsAddUp
  <2>5. MainFits'
    <3>1. MainTime' = MainTime
      BY <1>1 DEF MainTime
    <3>2. total'["frame_io"] = total["frame_io"]
      BY <1>7 DEF Times!ThreadStages
    <3>3. stageTimes["accumulation"] <= total'["accumulation"]
      BY <1>6, <1>7
    <3> QED
      BY <1>1, <1>2, <1>6, <1>7, <3>1, <3>2, <3>3 DEF TimesInv, MainFits
  <2> QED
    BY <2>1, <2>2, <2>3, <2>4, <2>5 DEF TimesInv
<1>8. CASE Times!AccumulatorPops
  <2>1. /\ accumulator.pc = "pop" /\ signals > 0 /\ signals' = signals - 1
        /\ accumulator' = [pc |-> "add", since |-> clock]
        /\ total' = total /\ accumTime' = accumTime
    BY <1>8 DEF Times!AccumulatorPops
  <2>2. /\ accumulator' \in [pc : {"pop", "add", "done"}, since : Times!Times]
        /\ accumulator'.pc = "add" /\ accumulator'.since = clock
    BY <1>2, <2>1
  <2>3. signals' \in 0 .. ScanPositions /\ signals' <= signals
    BY <1>2, <2>1, TimesConstants DEF Times!TypeOK
  <2> QED
    BY <1>2, <1>3, <1>6, <1>7, <2>1, <2>2, <2>3
<1>9. CASE Times!AccumulatorAdds
  <2>1. /\ accumulator.pc = "add"
        /\ accumTime' = accumTime + clock - accumulator.since
        /\ accumulator' = [accumulator EXCEPT !.pc = "pop"]
        /\ total' = total /\ signals' = signals
    BY <1>9 DEF Times!AccumulatorAdds
  <2>2. /\ accumulator' \in [pc : {"pop", "add", "done"}, since : Times!Times]
        /\ accumulator'.pc = "pop" /\ accumulator'.since = accumulator.since
    BY <1>3, <2>1
  <2>3. accumTime' \in Nat /\ MainTime + accumTime' <= clock
    BY <1>2, <1>3, <1>6, <2>1
  <2>4. signals' \in 0 .. ScanPositions /\ signals' <= signals
    BY <1>2, <1>3, <2>1 DEF Times!TypeOK
  <2> QED
    BY <1>3, <1>6, <1>7, <2>1, <2>2, <2>3, <2>4
<1>10. CASE Times!AccumulatorEnds
  <2>1. /\ accumulator.pc = "pop" /\ Times!WorkersJoined
        /\ total' = [total EXCEPT !["accumulation"] = @ + accumTime]
        /\ accumulator' = [accumulator EXCEPT !.pc = "done"]
        /\ signals' = signals /\ accumTime' = accumTime
    BY <1>10 DEF Times!AccumulatorEnds
  <2>2. /\ accumulator' \in [pc : {"pop", "add", "done"}, since : Times!Times]
        /\ accumulator'.pc = "done" /\ accumulator'.since = accumulator.since
    BY <1>3, <2>1
  <2>3. signals' \in 0 .. ScanPositions /\ signals' <= signals
    BY <1>2, <1>3, <2>1 DEF Times!TypeOK
  <2>4. total["accumulation"] + accumTime = accumTime
    BY <1>3, <1>6, <2>1
  <2>5. /\ total' \in [Times!ThreadStages -> Nat]
        /\ total'["accumulation"] = accumTime
        /\ \A s \in Times!ThreadStages :
              s # "accumulation" => total'[s] = total[s]
    BY <1>3, <2>1, <2>4 DEF Times!ThreadStages
  <2> QED
    BY <1>3, <1>6, <1>7, <2>1, <2>2, <2>3, <2>5
<1> QED
  BY <1>8, <1>9, <1>10 DEF Times!AccumulatorStep

-----------------------------------------------------------------------------
(* Sums of the times of some workers, in general: they stay what they are  *)
(* while nobody that has stored its time changes it, and a worker that     *)
(* stores adds its own.                                                    *)
IsSumOf(v, f, S) == v = SumFunctionOnSet(f, S)

LEMMA SumsKept ==
  ASSUME NEW f \in [Workers -> Int], NEW g \in [Workers -> Int],
         NEW S \in SUBSET Workers, \A x \in S : g[x] = f[x], NEW v,
         IsSumOf(v, f, S)
  PROVE  IsSumOf(v, g, S)
<1>1. SumFunctionOnSet(g, S) = SumFunctionOnSet(f, S)
  BY TimesConstants, SumSame
<1> QED
  BY <1>1 DEF IsSumOf

LEMMA SumsGrow ==
  ASSUME NEW f \in [Workers -> Int], NEW S \in SUBSET Workers,
         NEW w \in Workers, w \notin S, NEW v, IsSumOf(v, f, S)
  PROVE  IsSumOf(v + f[w], f, S \cup {w})
<1>1. SumFunctionOnSet(f, S \cup {w}) = SumFunctionOnSet(f, S) + f[w]
  BY TimesConstants, SumAdd
<1> QED
  BY <1>1 DEF IsSumOf

LocalPre == Times!LocalTimes("preprocess")
LocalRoi == Times!LocalTimes("roi_extraction")

LEMMA RecordTypes ==
  ASSUME NEW r \in WorkerRecords
  PROVE  /\ r.since \in Nat /\ r.pre \in Nat /\ r.roi \in Nat
         /\ r.loaded \in Nat /\ r.pre \in Int /\ r.roi \in Int
         /\ r.loaded \in Int
  BY TimesConstants DEF WorkerRecords, Times!Times

LEMMA LocalType ==
  Times!TypeOK => /\ LocalPre \in [Workers -> Int] /\ LocalRoi \in [Workers -> Int]
                  /\ \A w \in Workers : LocalPre[w] = worker[w].pre
                  /\ \A w \in Workers : LocalRoi[w] = worker[w].roi
<1> SUFFICES ASSUME Times!TypeOK
             PROVE  /\ LocalPre = [w \in Workers |-> worker[w].pre]
                    /\ LocalRoi = [w \in Workers |-> worker[w].roi]
                    /\ \A w \in Workers : worker[w].pre \in Int
                                          /\ worker[w].roi \in Int
  OBVIOUS
<1> QED
  BY TimesTypes DEF LocalPre, LocalRoi, Times!LocalTimes

(* TotalsSum in these words.                                               *)
LEMMA TotalsAreSums ==
  TotalsSum <=>
    /\ \E S \in SUBSET StoredPre : IsSumOf(total["preprocess"], LocalPre, S)
    /\ StoredPre # {} =>
          \E S \in SUBSET StoredPre :
             S # {} /\ IsSumOf(total["preprocess"], LocalPre, S)
    /\ \E S \in SUBSET StoredRoi : IsSumOf(total["roi_extraction"], LocalRoi, S)
    /\ StoredRoi # {} =>
          \E S \in SUBSET StoredRoi :
             S # {} /\ IsSumOf(total["roi_extraction"], LocalRoi, S)
    /\ \A w \in Workers :
          /\ worker[w].pc = "storePre" =>
                \E S \in SUBSET StoredPre : IsSumOf(worker[w].loaded, LocalPre, S)
          /\ worker[w].pc = "storeRoi" =>
                \E S \in SUBSET StoredRoi : IsSumOf(worker[w].loaded, LocalRoi, S)
  BY DEF TotalsSum, SumOfSome, SumOfSomeone, IsSumOf, LocalPre, LocalRoi

LEMMA NextTotalsAreSums ==
  TotalsSum' <=>
    /\ \E S \in SUBSET StoredPre' : IsSumOf(total'["preprocess"], LocalPre', S)
    /\ StoredPre' # {} =>
          \E S \in SUBSET StoredPre' :
             S # {} /\ IsSumOf(total'["preprocess"], LocalPre', S)
    /\ \E S \in SUBSET StoredRoi' : IsSumOf(total'["roi_extraction"], LocalRoi', S)
    /\ StoredRoi' # {} =>
          \E S \in SUBSET StoredRoi' :
             S # {} /\ IsSumOf(total'["roi_extraction"], LocalRoi', S)
    /\ \A x \in Workers :
          /\ worker'[x].pc = "storePre" =>
                \E S \in SUBSET StoredPre' : IsSumOf(worker'[x].loaded, LocalPre', S)
          /\ worker'[x].pc = "storeRoi" =>
                \E S \in SUBSET StoredRoi' : IsSumOf(worker'[x].loaded, LocalRoi', S)
  BY DEF TotalsSum, SumOfSome, SumOfSomeone, IsSumOf, LocalPre, LocalRoi

(* A worker w becomes r.                                                   *)
Becomes(w, r) ==
    /\ worker' \in [Workers -> WorkerRecords] /\ worker'[w] = r
    /\ \A x \in Workers : x # w => worker'[x] = worker[x]
    /\ UNCHANGED <<clock, lastWall, logged, stageTimes, at, inside, timerStart>>
    /\ UNCHANGED <<producer, accumulator, accumTime>>
    /\ Times!Running

BusyCount(p) == IF p \in {"preprocess", "roi"} THEN 1 ELSE 0

LEMMA WorkerMoves ==
  ASSUME TimesInv, NEW w \in Workers, NEW r \in WorkerRecords, Becomes(w, r),
         worker[w].pc # "done", r.since <= clock, r.pre + r.roi <= clock,
         r.pc \in {"preprocess", "roi"} => r.pre + r.roi <= r.since,
         raw' \in 0 .. ScanPositions, signals' \in 0 .. ScanPositions,
         raw' + signals' + BusyCount(r.pc)
            = raw + signals + BusyCount(worker[w].pc),
         r.pc \notin {"pop", "preprocess", "roi"} => producer.pc = "done",
         total' \in [Times!ThreadStages -> Nat],
         \A s \in {"frame_io", "accumulation"} : total'[s] = total[s]
  PROVE  /\ Times!TypeOK' /\ StagesOrdered' /\ RecordsCurrent'
         /\ WorkersFit' /\ MainFits'
<1> USE DEF Becomes
<1>1. /\ Times!TypeOK /\ at = Collecting /\ ~inside
      /\ clock \in Nat /\ clock <= MaxClock /\ clock \in Times!Times
  BY PipelineRuns
<1>2. Times!TypeOK'
  BY <1>1 DEF Times!TypeOK, WorkerRecords
<1>3. Leaving' # {} => producer.pc = "done"
  <2>1. CASE r.pc \in {"pop", "preprocess", "roi"}
    <3>1. Leaving' \subseteq Leaving
      BY <2>1 DEF Leaving, StoredPre
    <3> QED
      BY <3>1 DEF TimesInv, StagesOrdered
  <2>2. CASE r.pc \notin {"pop", "preprocess", "roi"}
    BY <2>2
  <2> QED
    BY <2>1, <2>2
<1>4. accumulator.pc # "done"
  BY DEF TimesInv, StagesOrdered, Times!WorkersJoined
<1>5. Cardinality(Busy') + BusyCount(worker[w].pc)
         = Cardinality(Busy) + BusyCount(r.pc) /\ Cardinality(Busy) \in Nat
      /\ Cardinality(Busy') \in Nat
  <2>1. IsFiniteSet(Busy \ {w}) /\ Cardinality(Busy \ {w}) \in Nat
    BY TimesConstants, FS_Subset, FS_CardinalityType DEF Busy
  <2>2. Busy = IF BusyCount(worker[w].pc) = 1 THEN (Busy \ {w}) \cup {w}
                                              ELSE Busy \ {w}
    BY DEF Busy, BusyCount
  <2>3. Busy' = IF BusyCount(r.pc) = 1 THEN (Busy \ {w}) \cup {w}
                                       ELSE Busy \ {w}
    BY DEF Busy, BusyCount
  <2>4. Cardinality((Busy \ {w}) \cup {w}) = Cardinality(Busy \ {w}) + 1
    <3>1. w \notin Busy \ {w}
      OBVIOUS
    <3> QED
      BY <2>1, <3>1, FS_AddElement
  <2>5. BusyCount(r.pc) \in {0, 1} /\ BusyCount(worker[w].pc) \in {0, 1}
    BY DEF BusyCount
  <2>6. Cardinality(Busy) = Cardinality(Busy \ {w}) + BusyCount(worker[w].pc)
    <3>1. CASE BusyCount(worker[w].pc) = 1
      BY ONLY <2>1, <2>2, <2>4, <3>1
    <3>2. CASE BusyCount(worker[w].pc) = 0
      BY ONLY <2>1, <2>2, <3>2
    <3> QED
      BY <2>5, <3>1, <3>2
  <2>7. Cardinality(Busy') = Cardinality(Busy \ {w}) + BusyCount(r.pc)
    <3>1. CASE BusyCount(r.pc) = 1
      BY ONLY <2>1, <2>3, <2>4, <3>1
    <3>2. CASE BusyCount(r.pc) = 0
      BY ONLY <2>1, <2>3, <3>2
    <3> QED
      BY <2>5, <3>1, <3>2
  <2> QED
    BY <2>1, <2>5, <2>6, <2>7
<1>6. StagesOrdered'
  <2>1. raw + Cardinality(Busy) + signals <= producer.count
    BY DEF TimesInv, StagesOrdered
  <2>2. raw \in Nat /\ signals \in Nat /\ raw' \in Nat /\ signals' \in Nat
        /\ producer.count \in Nat
    BY <1>1, TimesTypes, TimesConstants
  <2>3. BusyCount(r.pc) \in {0, 1} /\ BusyCount(worker[w].pc) \in {0, 1}
    BY DEF BusyCount
  <2> DEFINE a == Cardinality(Busy)
             b == Cardinality(Busy')
             x == BusyCount(worker[w].pc)
             y == BusyCount(r.pc)
  <2>4. /\ b + x = a + y /\ raw' + signals' + y = raw + signals + x
        /\ a \in Nat /\ b \in Nat /\ x \in Nat /\ y \in Nat
        /\ raw + a + signals <= producer.count
    BY <1>5, <2>1, <2>3
  <2> HIDE DEF a, b, x, y
  <2>5. raw' + b + signals' <= producer.count
    BY <2>2, <2>4
  <2>6. raw' + Cardinality(Busy)' + signals' <= producer'.count
    BY <2>5 DEF b
  <2>7. \A v \in Workers : worker'[v].since <= clock
    BY DEF TimesInv, StagesOrdered
  <2> QED
    BY <1>1, <1>3, <1>4, <2>6, <2>7 DEF TimesInv, StagesOrdered
<1>7. RecordsCurrent'
  BY DEF TimesInv, RecordsCurrent, Times!RecordsAddUp
<1>8. WorkersFit'
  BY DEF TimesInv, WorkersFit
<1>9. MainFits'
  <2>1. MainTime' = MainTime
    BY DEF MainTime
  <2> QED
    BY <1>1, <2>1 DEF TimesInv, MainFits
<1> QED
  BY <1>2, <1>6, <1>7, <1>8, <1>9

(* The sums, while no worker stores.                                       *)
LEMMA SumsRest ==
  ASSUME TimesInv, NEW w \in Workers, NEW r \in WorkerRecords,
         Becomes(w, r), total' = total,
         StoredPre' = StoredPre, StoredRoi' = StoredRoi,
         w \in StoredPre => r.pre = worker[w].pre,
         w \in StoredRoi => r.roi = worker[w].roi,
         r.pc = "storePre" => r.loaded = total["preprocess"],
         r.pc = "storeRoi" => r.loaded = total["roi_extraction"]
  PROVE  TotalsSum'
<1>1. /\ LocalPre \in [Workers -> Int] /\ LocalRoi \in [Workers -> Int]
      /\ LocalPre' \in [Workers -> Int] /\ LocalRoi' \in [Workers -> Int]
      /\ \A x \in Workers :
            /\ LocalPre[x] = worker[x].pre /\ LocalPre'[x] = worker'[x].pre
            /\ LocalRoi[x] = worker[x].roi /\ LocalRoi'[x] = worker'[x].roi
  <2>1. Times!TypeOK
    BY DEF TimesInv
  <2>2. /\ LocalPre' = [x \in Workers |-> worker'[x].pre]
        /\ LocalRoi' = [x \in Workers |-> worker'[x].roi]
    BY DEF LocalPre, LocalRoi, Times!LocalTimes
  <2>3. \A x \in Workers : worker'[x].pre \in Int /\ worker'[x].roi \in Int
    BY RecordTypes DEF Becomes
  <2> QED
    BY <2>1, <2>2, <2>3, LocalType
<1>2. StoredPre \in SUBSET Workers /\ StoredRoi \in SUBSET Workers
  BY DEF StoredPre, StoredRoi
<1>3. /\ \A x \in StoredPre : LocalPre'[x] = LocalPre[x]
      /\ \A x \in StoredRoi : LocalRoi'[x] = LocalRoi[x]
  BY <1>1, <1>2 DEF Becomes
<1>4. \A S \in SUBSET StoredPre : \A v :
         IsSumOf(v, LocalPre, S) => IsSumOf(v, LocalPre', S)
  BY <1>1, <1>2, <1>3, SumsKept
<1>5. \A S \in SUBSET StoredRoi : \A v :
         IsSumOf(v, LocalRoi, S) => IsSumOf(v, LocalRoi', S)
  BY <1>1, <1>2, <1>3, SumsKept
<1>6. TotalsSum
  BY DEF TimesInv
<1>7. ASSUME NEW x \in Workers, worker'[x].pc = "storePre"
      PROVE  \E S \in SUBSET StoredPre : IsSumOf(worker'[x].loaded, LocalPre', S)
  <2>1. \E S \in SUBSET StoredPre : IsSumOf(worker'[x].loaded, LocalPre, S)
    BY <1>6, <1>7, TotalsAreSums DEF Becomes
  <2> QED
    BY <1>4, <2>1
<1>8. ASSUME NEW x \in Workers, worker'[x].pc = "storeRoi"
      PROVE  \E S \in SUBSET StoredRoi : IsSumOf(worker'[x].loaded, LocalRoi', S)
  <2>1. \E S \in SUBSET StoredRoi : IsSumOf(worker'[x].loaded, LocalRoi, S)
    BY <1>6, <1>8, TotalsAreSums DEF Becomes
  <2> QED
    BY <1>5, <2>1
<1>9. /\ \E S \in SUBSET StoredPre : IsSumOf(total'["preprocess"], LocalPre', S)
      /\ StoredPre # {} =>
            \E S \in SUBSET StoredPre :
               S # {} /\ IsSumOf(total'["preprocess"], LocalPre', S)
  BY <1>4, <1>6, TotalsAreSums
<1>10. /\ \E S \in SUBSET StoredRoi : IsSumOf(total'["roi_extraction"], LocalRoi', S)
       /\ StoredRoi # {} =>
             \E S \in SUBSET StoredRoi :
                S # {} /\ IsSumOf(total'["roi_extraction"], LocalRoi', S)
  BY <1>5, <1>6, TotalsAreSums
<1> QED
  BY <1>7, <1>8, <1>9, <1>10, NextTotalsAreSums

(* The steps of a worker.                                                  *)
LEMMA WorkerBecomes ==
  ASSUME TimesInv, Times!WorkerStep, NEW w \in Workers, NEW r \in WorkerRecords,
         worker' = [worker EXCEPT ![w] = r]
  PROVE  Becomes(w, r)
<1>1. worker \in [Workers -> WorkerRecords]
  BY TimesTypes DEF TimesInv
<1>2. /\ worker' \in [Workers -> WorkerRecords] /\ worker'[w] = r
      /\ \A x \in Workers : x # w => worker'[x] = worker[x]
  BY <1>1
<1>3. /\ UNCHANGED <<clock, lastWall, logged, stageTimes, at, inside, timerStart>>
      /\ UNCHANGED <<producer, accumulator, accumTime>>
      /\ Times!Running
  BY DEF Times!WorkerStep, Times!monitorVars, Times!mainVars
<1> QED
  BY <1>2, <1>3 DEF Becomes

(* What is known of a worker before it moves.                              *)
LEMMA WorkerBefore ==
  ASSUME TimesInv, NEW w \in Workers
  PROVE  /\ worker \in [Workers -> WorkerRecords]
         /\ worker[w] \in WorkerRecords
         /\ worker[w].since \in Nat /\ worker[w].pre \in Nat
         /\ worker[w].roi \in Nat /\ worker[w].loaded \in Nat
         /\ worker[w].since <= clock /\ worker[w].pre + worker[w].roi <= clock
         /\ clock \in Nat /\ clock <= MaxClock /\ clock \in Times!Times
         /\ raw \in 0 .. ScanPositions /\ signals \in 0 .. ScanPositions
         /\ total \in [Times!ThreadStages -> Nat]
<1>1. Times!TypeOK /\ worker \in [Workers -> WorkerRecords]
  BY TimesTypes DEF TimesInv
<1>2. /\ clock \in Nat /\ clock <= MaxClock /\ clock \in Times!Times
      /\ raw \in 0 .. ScanPositions /\ signals \in 0 .. ScanPositions
      /\ total \in [Times!ThreadStages -> Nat]
  BY <1>1, TimesTypes DEF Times!TypeOK
<1>3. worker[w].since <= clock /\ worker[w].pre + worker[w].roi <= clock
  BY DEF TimesInv, StagesOrdered, WorkersFit
<1> QED
  BY <1>1, <1>2, <1>3, RecordTypes

(* What the steps leave that neither load nor store.                       *)
Leaves(w, r) ==
    /\ worker' = [worker EXCEPT ![w] = r]
    /\ r.since <= clock /\ r.pre + r.roi <= clock
    /\ r.pc \in {"preprocess", "roi"} => r.pre + r.roi <= r.since
    /\ \/ r.pc \in {"pop", "preprocess", "roi"}
       \/ r.pc = "loadPre" /\ producer.pc = "done"
    /\ worker[w].pc \in {"pop", "preprocess", "roi"} /\ total' = total
    /\ raw' \in 0 .. ScanPositions /\ signals' \in 0 .. ScanPositions
    /\ raw' + signals' + BusyCount(r.pc)
         = raw + signals + BusyCount(worker[w].pc)

LEMMA PopsKeepInv ==
  ASSUME TimesInv, Times!WorkerStep, NEW w \in Workers,
         \/ Times!WorkerPops(w) \/ Times!WorkerPreprocessed(w)
         \/ Times!WorkerExtracted(w) \/ Times!WorkerEnds(w)
  PROVE  TimesInv'
<1> DEFINE old == worker[w]
<1>0. /\ worker \in [Workers -> WorkerRecords] /\ old \in WorkerRecords
      /\ old.since \in Nat /\ old.pre \in Nat /\ old.roi \in Nat
      /\ old.since <= clock /\ old.pre + old.roi <= clock
      /\ clock \in Nat /\ clock <= MaxClock /\ clock \in Times!Times
      /\ raw \in 0 .. ScanPositions /\ signals \in 0 .. ScanPositions
      /\ total \in [Times!ThreadStages -> Nat]
  BY WorkerBefore
<1>1. old.pc \in {"preprocess", "roi"} => old.pre + old.roi <= old.since
  BY DEF TimesInv, WorkersFit
<1>2. raw \in Nat /\ signals \in Nat /\ ScanPositions \in Nat /\ MaxClock \in Nat
  BY <1>0, TimesConstants
<1>3. ASSUME NEW r \in WorkerRecords, Leaves(w, r)
      PROVE  TimesInv'
  <2> USE <1>3 DEF Leaves
  <2>1. Becomes(w, r)
    BY <1>3, WorkerBecomes
  <2>2. /\ Times!TypeOK' /\ StagesOrdered' /\ RecordsCurrent'
        /\ WorkersFit' /\ MainFits'
    BY <1>0, <1>3, <2>1, WorkerMoves
  <2>3. StoredPre' = StoredPre /\ StoredRoi' = StoredRoi
    BY <1>3, <2>1 DEF StoredPre, StoredRoi, Becomes
  <2>4. w \notin StoredPre /\ w \notin StoredRoi
    BY <1>3 DEF StoredPre, StoredRoi
  <2>5. TotalsSum'
    BY <1>3, <2>1, <2>3, <2>4, SumsRest
  <2> QED
    BY <2>2, <2>5 DEF TimesInv
<1>4. CASE Times!WorkerPops(w)
  <2> DEFINE r == [old EXCEPT !.pc = "preprocess", !.since = clock]
  <2>1. /\ old.pc = "pop" /\ raw > 0 /\ raw' = raw - 1 /\ total' = total
        /\ signals' = signals /\ worker' = [worker EXCEPT ![w] = r]
    BY <1>0, <1>4 DEF Times!WorkerPops
  <2>2. /\ r \in WorkerRecords /\ r.pc = "preprocess" /\ r.since = clock
        /\ r.pre = old.pre /\ r.roi = old.roi
    BY <1>0 DEF WorkerRecords
  <2> HIDE DEF r
  <2>3. raw' \in 0 .. ScanPositions /\ signals' \in 0 .. ScanPositions
    BY <1>0, <1>2, <2>1
  <2>4. raw' + signals' + BusyCount(r.pc) = raw + signals + BusyCount(old.pc)
    BY <1>2, <2>1, <2>2 DEF BusyCount
  <2>a. /\ r.since <= clock /\ r.pre + r.roi <= clock
        /\ r.pc \in {"preprocess", "roi"} => r.pre + r.roi <= r.since
    BY <1>0, <2>1, <2>2
  <2>b. /\ \/ r.pc \in {"pop", "preprocess", "roi"}
           \/ r.pc = "loadPre" /\ producer.pc = "done"
        /\ old.pc \in {"pop", "preprocess", "roi"}
    BY <2>1, <2>2, <2>3
  <2>5. total' = total /\ raw' \in 0 .. ScanPositions /\ signals' \in 0 .. ScanPositions
    BY <1>0, <2>1, <2>2, <2>3
  <2>c. Leaves(w, r)
    BY <2>1, <2>2, <2>4, <2>5, <2>a, <2>b DEF Leaves
  <2> QED
    BY <1>3, <2>2, <2>4, <2>c
<1>5. CASE Times!WorkerPreprocessed(w)
  <2> DEFINE pre == old.pre + clock - old.since
             r == [old EXCEPT !.pc = "roi", !.since = clock, !.pre = pre]
  <2>1. /\ old.pc = "preprocess" /\ raw' = raw /\ total' = total
        /\ signals' = signals /\ worker' = [worker EXCEPT ![w] = r]
    BY <1>0, <1>5 DEF Times!WorkerPreprocessed
  <2>2. pre \in Nat /\ pre + old.roi <= clock
    BY <1>0, <1>1, <2>1
  <2>3. pre \in Times!Times
    BY <1>0, <1>2, <2>2 DEF Times!Times
  <2> HIDE DEF pre
  <2>4. /\ r \in WorkerRecords /\ r.pc = "roi" /\ r.since = clock
        /\ r.pre = pre /\ r.roi = old.roi
    BY <1>0, <2>3 DEF WorkerRecords
  <2> HIDE DEF r
  <2>5. raw' + signals' + BusyCount(r.pc) = raw + signals + BusyCount(old.pc)
    BY <1>2, <2>1, <2>4 DEF BusyCount
  <2>a. /\ r.since <= clock /\ r.pre + r.roi <= clock
        /\ r.pc \in {"preprocess", "roi"} => r.pre + r.roi <= r.since
    BY <1>0, <2>1, <2>2, <2>4
  <2>b. /\ \/ r.pc \in {"pop", "preprocess", "roi"}
           \/ r.pc = "loadPre" /\ producer.pc = "done"
        /\ old.pc \in {"pop", "preprocess", "roi"}
    BY <2>1, <2>2, <2>4
  <2>6. total' = total /\ raw' \in 0 .. ScanPositions /\ signals' \in 0 .. ScanPositions
    BY <1>0, <2>1, <2>2, <2>4
  <2>c. Leaves(w, r)
    BY <2>1, <2>4, <2>5, <2>6, <2>a, <2>b DEF Leaves
  <2> QED
    BY <1>3, <2>4, <2>c
<1>6. CASE Times!WorkerExtracted(w)
  <2> DEFINE roi == old.roi + clock - old.since
             r == [old EXCEPT !.pc = "pop", !.roi = roi]
  <2>1. /\ old.pc = "roi" /\ raw' = raw /\ total' = total
        /\ signals' = signals + 1 /\ worker' = [worker EXCEPT ![w] = r]
    BY <1>0, <1>6 DEF Times!WorkerExtracted
  <2>2. roi \in Nat /\ old.pre + roi <= clock
    BY <1>0, <1>1, <2>1
  <2>3. roi \in Times!Times
    BY <1>0, <1>2, <2>2 DEF Times!Times
  <2> HIDE DEF roi
  <2>4. /\ r \in WorkerRecords /\ r.pc = "pop" /\ r.since = old.since
        /\ r.pre = old.pre /\ r.roi = roi
    BY <1>0, <2>3 DEF WorkerRecords
  <2> HIDE DEF r
  <2>5. raw' + signals' + BusyCount(r.pc) = raw + signals + BusyCount(old.pc)
    BY <1>2, <2>1, <2>4 DEF BusyCount
  <2>6. signals' \in 0 .. ScanPositions
    <3>1. w \in Busy /\ IsFiniteSet(Busy)
      BY <2>1, TimesConstants, FS_Subset DEF Busy
    <3>2. Cardinality(Busy) \in Nat /\ Cardinality(Busy) # 0
      BY <3>1, FS_CardinalityType, FS_EmptySet
    <3>3. /\ raw + Cardinality(Busy) + signals <= producer.count
          /\ producer.count \in 0 .. ScanPositions
      BY TimesTypes DEF TimesInv, StagesOrdered
    <3> QED
      BY <1>2, <2>1, <3>2, <3>3
  <2>a. /\ r.since <= clock /\ r.pre + r.roi <= clock
        /\ r.pc \in {"preprocess", "roi"} => r.pre + r.roi <= r.since
    BY <1>0, <2>1, <2>2, <2>4
  <2>b. /\ \/ r.pc \in {"pop", "preprocess", "roi"}
           \/ r.pc = "loadPre" /\ producer.pc = "done"
        /\ old.pc \in {"pop", "preprocess", "roi"}
    BY <2>1, <2>2, <2>4, <2>6
  <2>7. total' = total /\ raw' \in 0 .. ScanPositions /\ signals' \in 0 .. ScanPositions
    BY <1>0, <2>1, <2>2, <2>4, <2>6
  <2>c. Leaves(w, r)
    BY <2>1, <2>4, <2>5, <2>7, <2>a, <2>b DEF Leaves
  <2> QED
    BY <1>3, <2>4, <2>c
<1>7. CASE Times!WorkerEnds(w)
  <2> DEFINE r == [old EXCEPT !.pc = "loadPre"]
  <2>1. /\ old.pc = "pop" /\ producer.pc = "done" /\ raw' = raw
        /\ total' = total /\ signals' = signals
        /\ worker' = [worker EXCEPT ![w] = r]
    BY <1>0, <1>7 DEF Times!WorkerEnds
  <2>2. /\ r \in WorkerRecords /\ r.pc = "loadPre" /\ r.since = old.since
        /\ r.pre = old.pre /\ r.roi = old.roi
    BY <1>0 DEF WorkerRecords
  <2> HIDE DEF r
  <2>3. raw' + signals' + BusyCount(r.pc) = raw + signals + BusyCount(old.pc)
    BY <1>2, <2>1, <2>2 DEF BusyCount
  <2>a. /\ r.since <= clock /\ r.pre + r.roi <= clock
        /\ r.pc \in {"preprocess", "roi"} => r.pre + r.roi <= r.since
    BY <1>0, <2>1, <2>2
  <2>b. /\ \/ r.pc \in {"pop", "preprocess", "roi"}
           \/ r.pc = "loadPre" /\ producer.pc = "done"
        /\ old.pc \in {"pop", "preprocess", "roi"}
    BY <2>1, <2>2
  <2>4. total' = total /\ raw' \in 0 .. ScanPositions /\ signals' \in 0 .. ScanPositions
    BY <1>0, <2>1, <2>2
  <2>c. Leaves(w, r)
    BY <2>1, <2>2, <2>3, <2>4, <2>a, <2>b DEF Leaves
  <2> QED
    BY <1>3, <2>2, <2>4, <2>c
<1> QED
  BY <1>4, <1>5, <1>6, <1>7

(* The load of a total: whatever it is, it is a sum of the times of some.  *)
LEMMA LoadKeepsInv ==
  ASSUME TimesInv, Times!WorkerStep, NEW w \in Workers,
         \/ Times!Load(w, "loadPre", "preprocess", "storePre")
         \/ Times!Load(w, "loadRoi", "roi_extraction", "storeRoi")
  PROVE  TimesInv'
<1> DEFINE old == worker[w]
<1>0. /\ worker \in [Workers -> WorkerRecords] /\ old \in WorkerRecords
      /\ old.since <= clock /\ old.pre + old.roi <= clock
      /\ raw \in 0 .. ScanPositions /\ signals \in 0 .. ScanPositions
      /\ total \in [Times!ThreadStages -> Nat]
  BY WorkerBefore
<1>1. PICK stage \in {"preprocess", "roi_extraction"} :
         \/ /\ Times!Load(w, "loadPre", "preprocess", "storePre")
            /\ stage = "preprocess"
         \/ /\ Times!Load(w, "loadRoi", "roi_extraction", "storeRoi")
            /\ stage = "roi_extraction"
  OBVIOUS
<1> DEFINE to == IF stage = "preprocess" THEN "storePre" ELSE "storeRoi"
           r == [old EXCEPT !.pc = to, !.loaded = total[stage]]
<1>2. /\ old.pc = IF stage = "preprocess" THEN "loadPre" ELSE "loadRoi"
      /\ worker' = [worker EXCEPT ![w] = r]
      /\ total' = total /\ raw' = raw /\ signals' = signals
  BY <1>0, <1>1 DEF Times!Load
<1>3. total[stage] \in Nat
  BY <1>0 DEF Times!ThreadStages
<1>4. /\ r \in WorkerRecords /\ r.pc = to /\ r.since = old.since
      /\ r.pre = old.pre /\ r.roi = old.roi /\ r.loaded = total[stage]
  BY <1>0, <1>3 DEF WorkerRecords
<1> HIDE DEF r
<1>5. Becomes(w, r)
  BY <1>2, <1>4, WorkerBecomes
<1>6. producer.pc = "done"
  <2>1. w \in Leaving
    BY <1>2 DEF Leaving, StoredPre
  <2> QED
    BY <2>1 DEF TimesInv, StagesOrdered
<1>7. BusyCount(r.pc) = 0 /\ BusyCount(old.pc) = 0
  BY <1>2, <1>4 DEF BusyCount
<1>8. /\ Times!TypeOK' /\ StagesOrdered' /\ RecordsCurrent'
      /\ WorkersFit' /\ MainFits'
  <2>1. /\ r.since <= clock /\ r.pre + r.roi <= clock
        /\ r.pc \notin {"pop", "preprocess", "roi"} /\ old.pc # "done"
        /\ raw' + signals' + BusyCount(r.pc)
             = raw + signals + BusyCount(old.pc)
    BY <1>0, <1>2, <1>4, <1>7
  <2> QED
    BY <1>0, <1>2, <1>4, <1>5, <1>6, <2>1, WorkerMoves
<1>9. TotalsSum'
  <2>1. StoredPre' = StoredPre /\ StoredRoi' = StoredRoi
    BY <1>2, <1>4, <1>5 DEF StoredPre, StoredRoi, Becomes
  <2>2. /\ r.pc = "storePre" => r.loaded = total["preprocess"]
        /\ r.pc = "storeRoi" => r.loaded = total["roi_extraction"]
    BY <1>4
  <2> QED
    BY <1>2, <1>4, <1>5, <2>1, <2>2, SumsRest
<1> QED
  BY <1>8, <1>9 DEF TimesInv

(* The store: the times of those that the loaded total had, and its own.   *)
(* What others have stored since the load is lost.                         *)
LEMMA StoreMoves ==
  ASSUME TimesInv, Times!WorkerStep, NEW w \in Workers,
         NEW stage \in {"preprocess", "roi_extraction"},
         NEW to \in {"loadRoi", "done"}, NEW t \in Nat,
         worker[w].pc \in {"storePre", "storeRoi"},
         total' = [total EXCEPT ![stage] = t],
         worker' = [worker EXCEPT ![w].pc = to],
         raw' = raw, signals' = signals
  PROVE  /\ Times!TypeOK' /\ StagesOrdered' /\ RecordsCurrent'
         /\ WorkersFit' /\ MainFits'
         /\ worker'[w].pc = to
         /\ \A x \in Workers : /\ x # w => worker'[x] = worker[x]
                               /\ worker'[x].pre = worker[x].pre
                               /\ worker'[x].roi = worker[x].roi
                               /\ worker'[x].loaded = worker[x].loaded
         /\ total'[stage] = t
         /\ \A s \in Times!ThreadStages : s # stage => total'[s] = total[s]
<1> DEFINE old == worker[w]
           r == [old EXCEPT !.pc = to]
<1>0. /\ worker \in [Workers -> WorkerRecords] /\ old \in WorkerRecords
      /\ old.since <= clock /\ old.pre + old.roi <= clock
      /\ raw \in 0 .. ScanPositions /\ signals \in 0 .. ScanPositions
      /\ total \in [Times!ThreadStages -> Nat]
  BY WorkerBefore
<1>1. worker' = [worker EXCEPT ![w] = r]
  OBVIOUS
<1>2. /\ r \in WorkerRecords /\ r.pc = to /\ r.since = old.since
      /\ r.pre = old.pre /\ r.roi = old.roi /\ r.loaded = old.loaded
  BY <1>0 DEF WorkerRecords
<1> HIDE DEF r
<1>3. Becomes(w, r)
  BY <1>1, <1>2, WorkerBecomes
<1>4. producer.pc = "done"
  <2>1. w \in Leaving
    BY DEF Leaving, StoredPre
  <2> QED
    BY <2>1 DEF TimesInv, StagesOrdered
<1>5. /\ total' \in [Times!ThreadStages -> Nat] /\ total'[stage] = t
      /\ \A s \in Times!ThreadStages : s # stage => total'[s] = total[s]
  BY <1>0 DEF Times!ThreadStages
<1>6. BusyCount(r.pc) = 0 /\ BusyCount(old.pc) = 0
  BY <1>2 DEF BusyCount
<1>7. /\ Times!TypeOK' /\ StagesOrdered' /\ RecordsCurrent'
      /\ WorkersFit' /\ MainFits'
  <2>1. /\ r.since <= clock /\ r.pre + r.roi <= clock
        /\ r.pc \notin {"pop", "preprocess", "roi"} /\ old.pc # "done"
        /\ raw' + signals' + BusyCount(r.pc)
             = raw + signals + BusyCount(old.pc)
        /\ raw' \in 0 .. ScanPositions /\ signals' \in 0 .. ScanPositions
    BY <1>0, <1>2, <1>6
  <2>2. \A s \in {"frame_io", "accumulation"} : total'[s] = total[s]
    BY <1>5 DEF Times!ThreadStages
  <2> QED
    BY <1>2, <1>3, <1>4, <1>5, <2>1, <2>2, WorkerMoves
<1>8. \A x \in Workers : /\ x # w => worker'[x] = worker[x]
                         /\ worker'[x].pre = worker[x].pre
                         /\ worker'[x].roi = worker[x].roi
                         /\ worker'[x].loaded = worker[x].loaded
  BY <1>2, <1>3 DEF Becomes
<1> QED
  BY <1>2, <1>3, <1>5, <1>7, <1>8 DEF Becomes

LEMMA StorePreKeepsInv ==
  ASSUME TimesInv, Times!WorkerStep, NEW w \in Workers,
         Times!Store(w, "storePre", "preprocess", worker[w].pre, "loadRoi")
  PROVE  TimesInv'
<1> DEFINE t == worker[w].loaded + worker[w].pre
<1>1. /\ worker[w].pc = "storePre" /\ raw' = raw /\ signals' = signals
      /\ total' = [total EXCEPT !["preprocess"] = t]
      /\ worker' = [worker EXCEPT ![w].pc = "loadRoi"]
  BY DEF Times!Store
<1>2. /\ t \in Nat /\ Times!TypeOK /\ TotalsSum
  BY WorkerBefore DEF TimesInv
<1>3. /\ Times!TypeOK' /\ StagesOrdered' /\ RecordsCurrent'
      /\ WorkersFit' /\ MainFits'
      /\ worker'[w].pc = "loadRoi"
      /\ \A x \in Workers : /\ x # w => worker'[x] = worker[x]
                            /\ worker'[x].pre = worker[x].pre
                            /\ worker'[x].roi = worker[x].roi
                            /\ worker'[x].loaded = worker[x].loaded
      /\ total'["preprocess"] = t
      /\ total'["roi_extraction"] = total["roi_extraction"]
  <2> HIDE DEF t
  <2>1. \A s \in Times!ThreadStages : s # "preprocess" => total'[s] = total[s]
    BY <1>1, <1>2, StoreMoves
  <2>2. total'["roi_extraction"] = total["roi_extraction"]
    BY <2>1 DEF Times!ThreadStages
  <2> QED
    BY <1>1, <1>2, <2>2, StoreMoves
<1>4. LocalPre' = LocalPre /\ LocalRoi' = LocalRoi
  BY <1>3 DEF LocalPre, LocalRoi, Times!LocalTimes
<1>5. /\ StoredPre' = StoredPre \cup {w} /\ StoredRoi' = StoredRoi
      /\ w \notin StoredPre /\ StoredPre \in SUBSET Workers
  BY <1>1, <1>3 DEF StoredPre, StoredRoi
<1>6. PICK S \in SUBSET StoredPre : IsSumOf(worker[w].loaded, LocalPre, S)
  BY <1>1, <1>2, TotalsAreSums
<1>7. IsSumOf(t, LocalPre, S \cup {w})
  <2>1. /\ LocalPre \in [Workers -> Int] /\ LocalPre[w] = worker[w].pre
        /\ S \in SUBSET Workers /\ w \notin S
    BY <1>2, <1>5, LocalType
  <2>2. IsSumOf(worker[w].loaded + LocalPre[w], LocalPre, S \cup {w})
    BY <1>6, <2>1, SumsGrow
  <2> QED
    BY <2>1, <2>2
<1>8. TotalsSum'
  <2>1. S \cup {w} \in SUBSET StoredPre' /\ S \cup {w} # {}
    BY <1>5
  <2>2. ASSUME NEW x \in Workers, worker'[x].pc = "storePre"
        PROVE  \E R \in SUBSET StoredPre' :
                  IsSumOf(worker'[x].loaded, LocalPre', R)
    <3>1. worker[x].pc = "storePre" /\ worker'[x].loaded = worker[x].loaded
      BY <1>3, <2>2
    <3>2. PICK R \in SUBSET StoredPre : IsSumOf(worker[x].loaded, LocalPre, R)
      BY <1>2, <3>1, TotalsAreSums
    <3> QED
      BY <1>4, <1>5, <3>1, <3>2
  <2>3. ASSUME NEW x \in Workers, worker'[x].pc = "storeRoi"
        PROVE  \E R \in SUBSET StoredRoi' :
                  IsSumOf(worker'[x].loaded, LocalRoi', R)
    <3>1. worker[x].pc = "storeRoi" /\ worker'[x].loaded = worker[x].loaded
      BY <1>3, <2>3
    <3> QED
      BY <1>2, <1>4, <1>5, <3>1, TotalsAreSums
  <2>4. /\ \E R \in SUBSET StoredPre' : IsSumOf(total'["preprocess"], LocalPre', R)
        /\ \E R \in SUBSET StoredPre' :
              R # {} /\ IsSumOf(total'["preprocess"], LocalPre', R)
    BY <1>3, <1>4, <1>7, <2>1
  <2>5. /\ \E R \in SUBSET StoredRoi' :
              IsSumOf(total'["roi_extraction"], LocalRoi', R)
        /\ StoredRoi' # {} =>
              \E R \in SUBSET StoredRoi' :
                 R # {} /\ IsSumOf(total'["roi_extraction"], LocalRoi', R)
    BY <1>2, <1>3, <1>4, <1>5, TotalsAreSums
  <2> QED
    BY <2>2, <2>3, <2>4, <2>5, NextTotalsAreSums
<1> QED
  BY <1>3, <1>8 DEF TimesInv

LEMMA StoreRoiKeepsInv ==
  ASSUME TimesInv, Times!WorkerStep, NEW w \in Workers,
         Times!Store(w, "storeRoi", "roi_extraction", worker[w].roi, "done")
  PROVE  TimesInv'
<1> DEFINE t == worker[w].loaded + worker[w].roi
<1>1. /\ worker[w].pc = "storeRoi" /\ raw' = raw /\ signals' = signals
      /\ total' = [total EXCEPT !["roi_extraction"] = t]
      /\ worker' = [worker EXCEPT ![w].pc = "done"]
  BY DEF Times!Store
<1>2. /\ t \in Nat /\ Times!TypeOK /\ TotalsSum
  BY WorkerBefore DEF TimesInv
<1>3. /\ Times!TypeOK' /\ StagesOrdered' /\ RecordsCurrent'
      /\ WorkersFit' /\ MainFits'
      /\ worker'[w].pc = "done"
      /\ \A x \in Workers : /\ x # w => worker'[x] = worker[x]
                            /\ worker'[x].pre = worker[x].pre
                            /\ worker'[x].roi = worker[x].roi
                            /\ worker'[x].loaded = worker[x].loaded
      /\ total'["roi_extraction"] = t
      /\ total'["preprocess"] = total["preprocess"]
  <2> HIDE DEF t
  <2>1. \A s \in Times!ThreadStages : s # "roi_extraction" => total'[s] = total[s]
    BY <1>1, <1>2, StoreMoves
  <2>2. total'["preprocess"] = total["preprocess"]
    BY <2>1 DEF Times!ThreadStages
  <2> QED
    BY <1>1, <1>2, <2>2, StoreMoves
<1>4. LocalPre' = LocalPre /\ LocalRoi' = LocalRoi
  BY <1>3 DEF LocalPre, LocalRoi, Times!LocalTimes
<1>5. /\ StoredRoi' = StoredRoi \cup {w} /\ StoredPre' = StoredPre
      /\ w \notin StoredRoi /\ StoredRoi \in SUBSET Workers
      /\ StoredPre # {}
  <2>1. w \in StoredPre
    BY <1>1 DEF StoredPre
  <2> QED
    BY <1>1, <1>3, <2>1 DEF StoredPre, StoredRoi
<1>6. PICK S \in SUBSET StoredRoi : IsSumOf(worker[w].loaded, LocalRoi, S)
  BY <1>1, <1>2, TotalsAreSums
<1>7. IsSumOf(t, LocalRoi, S \cup {w})
  <2>1. /\ LocalRoi \in [Workers -> Int] /\ LocalRoi[w] = worker[w].roi
        /\ S \in SUBSET Workers /\ w \notin S
    BY <1>2, <1>5, LocalType
  <2>2. IsSumOf(worker[w].loaded + LocalRoi[w], LocalRoi, S \cup {w})
    BY <1>6, <2>1, SumsGrow
  <2> QED
    BY <2>1, <2>2
<1>8. TotalsSum'
  <2>1. S \cup {w} \in SUBSET StoredRoi' /\ S \cup {w} # {}
    BY <1>5
  <2>2. ASSUME NEW x \in Workers, worker'[x].pc = "storePre"
        PROVE  \E R \in SUBSET StoredPre' :
                  IsSumOf(worker'[x].loaded, LocalPre', R)
    <3>1. worker[x].pc = "storePre" /\ worker'[x].loaded = worker[x].loaded
      BY <1>3, <2>2
    <3> QED
      BY <1>2, <1>4, <1>5, <3>1, TotalsAreSums
  <2>3. ASSUME NEW x \in Workers, worker'[x].pc = "storeRoi"
        PROVE  \E R \in SUBSET StoredRoi' :
                  IsSumOf(worker'[x].loaded, LocalRoi', R)
    <3>1. worker[x].pc = "storeRoi" /\ worker'[x].loaded = worker[x].loaded
      BY <1>3, <2>3
    <3>2. PICK R \in SUBSET StoredRoi : IsSumOf(worker[x].loaded, LocalRoi, R)
      BY <1>2, <3>1, TotalsAreSums
    <3> QED
      BY <1>4, <1>5, <3>1, <3>2
  <2>4. /\ \E R \in SUBSET StoredRoi' :
              IsSumOf(total'["roi_extraction"], LocalRoi', R)
        /\ \E R \in SUBSET StoredRoi' :
              R # {} /\ IsSumOf(total'["roi_extraction"], LocalRoi', R)
    BY <1>3, <1>4, <1>7, <2>1
  <2>5. /\ \E R \in SUBSET StoredPre' : IsSumOf(total'["preprocess"], LocalPre', R)
        /\ StoredPre' # {} =>
              \E R \in SUBSET StoredPre' :
                 R # {} /\ IsSumOf(total'["preprocess"], LocalPre', R)
    BY <1>2, <1>3, <1>4, <1>5, TotalsAreSums
  <2> QED
    BY <2>2, <2>3, <2>4, <2>5, NextTotalsAreSums
<1> QED
  BY <1>3, <1>8 DEF TimesInv

LEMMA WorkerStepKeepsInv ==
  ASSUME TimesInv, Times!WorkerStep
  PROVE  TimesInv'
<1>1. PICK w \in Workers :
         \/ Times!WorkerPops(w) \/ Times!WorkerPreprocessed(w)
         \/ Times!WorkerExtracted(w) \/ Times!WorkerEnds(w)
         \/ Times!Load(w, "loadPre", "preprocess", "storePre")
         \/ Times!Store(w, "storePre", "preprocess", worker[w].pre, "loadRoi")
         \/ Times!Load(w, "loadRoi", "roi_extraction", "storeRoi")
         \/ Times!Store(w, "storeRoi", "roi_extraction", worker[w].roi, "done")
  BY DEF Times!WorkerStep
<1> QED
  BY <1>1, PopsKeepInv, LoadKeepsInv, StorePreKeepsInv, StoreRoiKeepsInv

LEMMA StutterTimesInv ==
  ASSUME TimesInv, UNCHANGED timeVars
  PROVE  TimesInv'
<1>1. /\ UNCHANGED <<clock, lastWall, logged, stageTimes, at, inside, timerStart>>
      /\ UNCHANGED <<total, raw, signals, producer, accumulator, accumTime,
                     worker>>
  BY DEF timeVars
<1>2. Times!TypeOK /\ clock \in Nat /\ clock' \in Nat /\ clock <= clock'
  BY <1>1, TimesTypes DEF TimesInv
<1>3. Times!TypeOK'
  BY <1>1, <1>2 DEF Times!TypeOK
<1>4. /\ WorkersFit' /\ TotalsSum' /\ Busy' = Busy /\ Leaving' = Leaving
      /\ Times!WorkersJoined' = Times!WorkersJoined
  BY <1>1, <1>2, WorkersRest
<1>5. StagesOrdered'
  BY <1>1, <1>4 DEF TimesInv, StagesOrdered
<1>6. RecordsCurrent'
  BY <1>1 DEF TimesInv, RecordsCurrent, Times!RecordsAddUp
<1>7. MainTime' = MainTime
  BY <1>1 DEF MainTime
<1>8. MainFits'
  BY <1>1, <1>7 DEF TimesInv, MainFits
<1> QED
  BY <1>3, <1>4, <1>5, <1>6, <1>8 DEF TimesInv

LEMMA SpecTimesInv == Spec => []TimesInv
<1>1. Init => TimesInv
  BY InitTimesInv DEF Init
<1>2. TimesInv /\ [Next]_vars => TimesInv'
  <2> SUFFICES ASSUME TimesInv, [Next]_vars PROVE TimesInv'
    OBVIOUS
  <2>1. Times!Next \/ UNCHANGED timeVars
    BY DEF Next, vars
  <2> QED
    BY <2>1, TickKeepsInv, MainStepKeepsInv, ProducerKeepsInv,
       WorkerStepKeepsInv, AccumulatorKeepsInv, StutterTimesInv DEF Times!Next
<1> QED
  BY <1>1, <1>2, PTL DEF Spec

(* No time is reported that was not spent, for any number of worker        *)
(* threads and frames: the records add up to the wall time, the stages of  *)
(* a thread fit into it, and a total over threads, added up without a      *)
(* lock, is the sum of the times of some of them (io_utils.h:73-141,       *)
(* reconstruct_serial.cpp:500-596).                                        *)
THEOREM TimesAreSpent == Spec => []TimesCorrect
<1>1. TimesInv => TimesCorrect
  <2> SUFFICES ASSUME TimesInv PROVE Times!TimesCorrect
    BY DEF TimesCorrect
  <2>1. Times!TypeOK /\ Times!RecordsAddUp /\ Times!WorkerTimesFit
    BY DEF TimesInv, RecordsCurrent, WorkersFit, Times!WorkerTimesFit
  <2>2. Times!TotalsFromWorkers
    <3>1. SUFFICES ASSUME Times!WorkersJoined,
                          NEW s \in {"preprocess", "roi_extraction"}
                   PROVE  \E S \in SUBSET Workers : S # {} /\ total[s] =
                             Times!SumFunctionOnSet(Times!LocalTimes(s), S)
      BY DEF Times!TotalsFromWorkers
    <3>2. StoredPre # {} /\ StoredRoi # {}
      BY <3>1, TimesConstants DEF Times!WorkersJoined, StoredPre, StoredRoi
    <3>3. StoredPre \in SUBSET Workers /\ StoredRoi \in SUBSET Workers
      BY DEF StoredPre, StoredRoi
    <3>4. \E S \in SUBSET Workers :
             S # {} /\ total[s] = SumFunctionOnSet(Times!LocalTimes(s), S)
      <4>1. CASE s = "preprocess"
        BY <3>2, <3>3, <4>1 DEF TimesInv, TotalsSum, SumOfSomeone
      <4>2. CASE s = "roi_extraction"
        BY <3>2, <3>3, <4>2 DEF TimesInv, TotalsSum, SumOfSomeone
      <4> QED
        BY <4>1, <4>2
    <3> QED
      BY <3>4, TimesSums
  <2>3. Times!SequentialTimesFit
    <3>1. SUFFICES ASSUME NEW s \in {"frame_io", "accumulation"}
                   PROVE  stageTimes[s] + MainTime <= clock
      BY TimesSums DEF Times!SequentialTimesFit, MainTime
    <3>2. /\ clock \in Nat /\ accumTime \in Nat /\ MainTime \in Nat
          /\ total["frame_io"] \in Nat /\ total["accumulation"] \in Nat
          /\ stageTimes \in [Stages -> Nat]
      BY <2>1, TimesTypes, MainTimeType
    <3>3. stageTimes[s] \in Nat
      BY <3>2 DEF Stages, Times!ThreadStages
    <3>4. /\ stageTimes[s] <= total[s]
          /\ MainTime + total["frame_io"] <= clock
          /\ MainTime + accumTime <= clock
          /\ total["accumulation"] \in {0, accumTime}
      BY DEF TimesInv, MainFits
    <3> QED
      BY <3>2, <3>3, <3>4
  <2> QED
    BY <2>1, <2>2, <2>3 DEF Times!TimesCorrect
<1> QED
  BY <1>1, SpecTimesInv, PTL

-----------------------------------------------------------------------------
(* The picture.  Sums over its instance of the library,                    *)
LEMMA PictureSums ==
  /\ \A g, S : Picture!SumFunctionOnSet(g, S) = SumFunctionOnSet(g, S)
  /\ \A g : Picture!SumFunction(g) = SumFunctionOnSet(g, DOMAIN g)
<1>1. \A g, S : Picture!SumFunctionOnSet(g, S) = SumFunctionOnSet(g, S)
  BY DEF Picture!SumFunctionOnSet, SumFunctionOnSet, Picture!FoldFunctionOnSet,
         FoldFunctionOnSet, Picture!MapThenFoldSet, MapThenFoldSet
<1>2. \A g : Picture!SumFunction(g) = Picture!SumFunctionOnSet(g, DOMAIN g)
  BY DEF Picture!SumFunction, Picture!SumFunctionOnSet, Picture!FoldFunction,
         Picture!FoldFunctionOnSet
<1> QED
  BY <1>1, <1>2

LEMMA PictureConstants ==
  /\ Unit \in Nat /\ Unit > 0 /\ PictureWidth \in Nat /\ PictureHeight \in Nat
  /\ Intensities \subseteq Nat /\ IsFiniteSet(Samples)
  BY ResultConstants
  DEF Picture!AccumulationAssumption, Picture!IsFiniteSet, IsFiniteSet

(* sums of which most terms are zero, sums of multiples, bounded sums,     *)
LEMMA SumZeros ==
  ASSUME NEW T, IsFiniteSet(T), NEW g \in [T -> Int], NEW S \in SUBSET T,
         \A x \in S : g[x] = 0
  PROVE  SumFunctionOnSet(g, S) = 0
<1> DEFINE z == [x \in T |-> 0]
<1>1. z \in [T -> Int] /\ \A x \in S : g[x] = z[x]
  OBVIOUS
<1>2. SumFunctionOnSet(z, S) = 0
  BY SumZero
<1> HIDE DEF z
<1>3. SumFunctionOnSet(g, S) = SumFunctionOnSet(z, S)
  BY <1>1, SumSame
<1> QED
  BY <1>2, <1>3

LEMMA SumSingle ==
  ASSUME NEW T, IsFiniteSet(T), NEW g \in [T -> Int], NEW x \in T,
         \A y \in T : y # x => g[y] = 0
  PROVE  SumFunctionOnSet(g, T) = g[x]
<1>1. SumFunctionOnSet(g, T) = g[x] + SumFunctionOnSet(g, T \ {x})
  BY SumTake
<1>2. SumFunctionOnSet(g, T \ {x}) = 0
  BY SumZeros
<1>3. g[x] \in Int
  OBVIOUS
<1> QED
  BY <1>1, <1>2, <1>3

LEMMA SumScale ==
  ASSUME NEW T, IsFiniteSet(T), NEW g \in [T -> Int], NEW m \in Int
  PROVE  \A S \in SUBSET T :
            SumFunctionOnSet([x \in T |-> m * g[x]], S)
              = m * SumFunctionOnSet(g, S)
<1> DEFINE f == [x \in T |-> m * g[x]]
           F(S) == SumFunctionOnSet(f, S)
           Sum(S) == SumFunctionOnSet(g, S)
           G == {S \in SUBSET T : F(S) = m * Sum(S)}
<1>a. f \in [T -> Int] /\ \A x \in T : f[x] = m * g[x]
  OBVIOUS
<1> HIDE DEF f
<1>0. \A S \in SUBSET T : F(S) \in Int /\ Sum(S) \in Int
  BY <1>a, SumType
<1>e. \A S \in SUBSET T :
         /\ F(S) = IF S = {} THEN 0 ELSE f[Chosen(S)] + F(Rest(S))
         /\ Sum(S) = IF S = {} THEN 0 ELSE g[Chosen(S)] + Sum(Rest(S))
  <2>1. \A h : \A S \in SUBSET T :
           SumFunctionOnSet(h, S) =
              IF S = {} THEN 0
              ELSE h[Chosen(S)] + SumFunctionOnSet(h, Rest(S))
    BY SumEquation
  <2>2. \A S \in SUBSET T :
           F(S) = IF S = {} THEN 0 ELSE f[Chosen(S)] + F(Rest(S))
    BY <2>1
  <2>3. \A S \in SUBSET T :
           Sum(S) = IF S = {} THEN 0 ELSE g[Chosen(S)] + Sum(Rest(S))
    BY <2>1
  <2> QED
    BY <2>2, <2>3
<1> HIDE DEF F, Sum
<1>1. ASSUME NEW S \in SUBSET T, \A R \in SUBSET S : R # S => R \in G
      PROVE  S \in G
  <2>1. CASE S = {}
    <3>1. F(S) = 0 /\ Sum(S) = 0
      BY <1>e, <2>1
    <3> QED
      BY <3>1
  <2>2. CASE S # {}
    <3>1. /\ Chosen(S) \in S /\ Rest(S) \in SUBSET S /\ Rest(S) # S
      BY <2>2 DEF Chosen, Rest
    <3>2. F(Rest(S)) = m * Sum(Rest(S)) /\ f[Chosen(S)] = m * g[Chosen(S)]
      BY <1>1, <1>a, <3>1
    <3>3. g[Chosen(S)] \in Int /\ Sum(Rest(S)) \in Int
      BY <1>0, <3>1
    <3>4. F(S) = f[Chosen(S)] + F(Rest(S)) /\ Sum(S) = g[Chosen(S)] + Sum(Rest(S))
      BY <1>e, <2>2
    <3>5. \A a, b \in Int : m * a + m * b = m * (a + b)
      OBVIOUS
    <3>6. m * g[Chosen(S)] + m * Sum(Rest(S)) = m * (g[Chosen(S)] + Sum(Rest(S)))
      BY <3>3, <3>5
    <3>7. F(S) = m * Sum(S)
      BY ONLY <3>2, <3>4, <3>6
    <3> QED
      BY <3>7
  <2> QED
    BY <2>1, <2>2
<1> HIDE DEF G
<1>2. \A S \in SUBSET T : S \in G
  BY <1>1, SubsetInduction
<1> QED
  BY <1>2 DEF G, F, Sum, f

LEMMA SumBetween ==
  ASSUME NEW T, IsFiniteSet(T), NEW g \in [T -> Int], NEW a \in Int, NEW b \in Int,
         \A x \in T : a <= g[x] /\ g[x] <= b
  PROVE  \A S \in SUBSET T : /\ Cardinality(S) * a <= SumFunctionOnSet(g, S)
                             /\ SumFunctionOnSet(g, S) <= Cardinality(S) * b
<1> DEFINE Sum(S) == SumFunctionOnSet(g, S)
           G == {S \in SUBSET T : /\ Cardinality(S) * a <= Sum(S)
                                  /\ Sum(S) <= Cardinality(S) * b}
<1>0. \A S \in SUBSET T : Sum(S) \in Int /\ IsFiniteSet(S) /\ Cardinality(S) \in Nat
  BY SumType, FS_Subset, FS_CardinalityType
<1>e. \A S \in SUBSET T : Sum(S) = IF S = {} THEN 0
                                   ELSE g[Chosen(S)] + Sum(Rest(S))
  BY SumEquation
<1> HIDE DEF Sum
<1>1. ASSUME NEW S \in SUBSET T, \A R \in SUBSET S : R # S => R \in G
      PROVE  S \in G
  <2>1. CASE S = {}
    <3>1. Sum(S) = 0 /\ Cardinality(S) = 0
      BY <1>e, <2>1, FS_EmptySet
    <3> QED
      BY <3>1
  <2>2. CASE S # {}
    <3>1. /\ Chosen(S) \in S /\ Rest(S) \in SUBSET S /\ Rest(S) # S
          /\ Rest(S) = S \ {Chosen(S)}
      BY <2>2 DEF Chosen, Rest
    <3>2. Cardinality(Rest(S)) = Cardinality(S) - 1
      BY <1>0, <3>1, FS_RemoveElement
    <3> DEFINE k == Cardinality(Rest(S))
               s == Sum(Rest(S))
               x == g[Chosen(S)]
    <3>3. /\ k * a <= s /\ s <= k * b /\ a <= x /\ x <= b
          /\ x \in Int /\ s \in Int /\ k \in Nat
      BY <1>0, <1>1, <3>1
    <3>4. Sum(S) = x + s /\ Cardinality(S) = k + 1
      BY <1>0, <1>e, <2>2, <3>2
    <3> HIDE DEF k, s, x
    <3>5. /\ (k + 1) * a = k * a + a /\ k * a \in Int
          /\ (k + 1) * b = k * b + b /\ k * b \in Int
      BY <3>3
    <3>6. (k + 1) * a <= x + s /\ x + s <= (k + 1) * b
      BY <3>3, <3>5
    <3> QED
      BY <3>4, <3>6
  <2> QED
    BY <2>1, <2>2
<1> HIDE DEF G
<1>2. \A S \in SUBSET T : S \in G
  BY <1>1, SubsetInduction
<1> QED
  BY <1>2 DEF G, Sum

-----------------------------------------------------------------------------
(* What a sample gives to a pixel: a corner is a pixel that is less than   *)
(* one away.                                                               *)
LEMMA FloorOf ==
  ASSUME NEW x \in Int
  PROVE  /\ Picture!Floor(x) \in Int
         /\ Picture!Floor(x) * Unit <= x
         /\ x < (Picture!Floor(x) + 1) * Unit
<1>1. \A u \in Nat : u > 0 =>
         /\ x \div u \in Int /\ (x \div u) * u <= x /\ x < (x \div u + 1) * u
  OBVIOUS
<1> QED
  BY <1>1, PictureConstants DEF Picture!Floor

LEMMA MaxOfZero ==
  ASSUME NEW v \in Int
  PROVE  Picture!Max({0, v}) = IF v < 0 THEN 0 ELSE v
<1>1. PICK m \in {0, v} : \A y \in {0, v} : m >= y
  OBVIOUS
<1>2. Picture!Max({0, v}) \in {0, v} /\ \A y \in {0, v} : Picture!Max({0, v}) >= y
  BY <1>1 DEF Picture!Max
<1> QED
  BY <1>2

LEMMA TentAt ==
  ASSUME NEW x \in Int, NEW a \in Int
  PROVE  LET f == Picture!Floor(x)
             d == x - f * Unit
         IN  Picture!Tent(x - a * Unit) =
                IF a = f THEN Unit - d ELSE IF a = f + 1 THEN d ELSE 0
<1> DEFINE f == Picture!Floor(x)
           d == x - f * Unit
           e == x - a * Unit
           u == Unit
<1>1. f \in Int /\ f * u <= x /\ x < (f + 1) * u /\ u \in Nat /\ u > 0
  BY FloorOf, PictureConstants
<1> HIDE DEF f, u
<1>2. Picture!Tent(e) = IF u - (IF e < 0 THEN -e ELSE e) < 0 THEN 0
                        ELSE u - (IF e < 0 THEN -e ELSE e)
  <2>1. e \in Int
    BY <1>1 DEF u
  <2> HIDE DEF e
  <2>2. u - (IF e < 0 THEN -e ELSE e) \in Int
    BY <1>1, <2>1
  <2> QED
    BY <2>1, <2>2, MaxOfZero DEF Picture!Tent, u
<1>3. e = x - a * u /\ d = x - f * u
  BY DEF u
<1>4. a \in Int /\ x \in Int
  OBVIOUS
<1> HIDE DEF d, e
<1>5. \A i, j \in Int : i <= j => i * u <= j * u
  BY <1>1
<1>6. (f + 1) * u = f * u + u /\ f * u \in Int
  BY <1>1
<1>7. CASE a = f
  <2>1. e = d /\ d \in Int /\ 0 <= d /\ d < u
    <3>1. a * u = f * u
      BY <1>7
    <3> QED
      BY ONLY <1>1, <1>3, <1>4, <1>6, <3>1
  <2>2. Picture!Tent(e) = u - d
    BY <1>1, <1>2, <2>1
  <2> QED
    BY <1>7, <2>2 DEF e, u, f, d
<1>8. CASE a = f + 1
  <2>1. e = d - u /\ d \in Int /\ 0 <= d /\ d < u
    <3>1. a * u = (f + 1) * u
      BY <1>8
    <3> QED
      BY ONLY <1>1, <1>3, <1>4, <1>6, <3>1
  <2>2. Picture!Tent(e) = d
    BY <1>1, <1>2, <2>1
  <2>3. a # f
    BY <1>1, <1>8
  <2> QED
    BY <1>8, <2>2, <2>3 DEF e, u, f, d
<1>9. CASE a < f
  <2>1. a * u + u <= f * u
    <3>1. (a + 1) * u <= f * u
      BY <1>1, <1>5, <1>9
    <3>2. (a + 1) * u = a * u + u
      BY <1>1
    <3> QED
      BY <3>1, <3>2
  <2>2. a * u \in Int
    BY <1>1
  <2>3. e \in Int /\ e >= u
    BY ONLY <1>1, <1>3, <1>4, <1>6, <2>1, <2>2
  <2>4. Picture!Tent(e) = 0
    BY <1>1, <1>2, <2>3
  <2>5. a # f /\ a # f + 1
    BY <1>1, <1>9
  <2> QED
    BY <2>4, <2>5 DEF e, u, f, d
<1>10. CASE a > f + 1
  <2>1. f * u + 2 * u <= a * u
    <3>1. (f + 2) * u <= a * u
      BY <1>1, <1>5, <1>10
    <3>2. (f + 2) * u = f * u + 2 * u
      BY <1>1
    <3> QED
      BY <3>1, <3>2
  <2>2. a * u \in Int
    BY <1>1
  <2>3. e \in Int /\ e < -u
    BY ONLY <1>1, <1>3, <1>4, <1>6, <2>1, <2>2
  <2>4. Picture!Tent(e) = 0
    BY <1>1, <1>2, <2>3
  <2>5. a # f /\ a # f + 1
    BY <1>1, <1>10
  <2> QED
    BY <2>4, <2>5 DEF e, u, f, d
<1> QED
  BY <1>1, <1>7, <1>8, <1>9, <1>10

LEMMA PositionType ==
  ASSUME NEW s \in Picture!Positions
  PROVE  s.x \in Int /\ s.y \in Int /\ s.value \in Nat
<1> DEFINE w == PictureWidth * Unit
           h == PictureHeight * Unit
           u == -Unit
<1>1. w \in Int /\ h \in Int /\ u \in Int
  BY PictureConstants
<1>2. Picture!Positions = [x : u .. w, y : u .. h, value : Intensities]
  BY DEF Picture!Positions
<1> HIDE DEF w, h, u
<1>3. s.x \in u .. w /\ s.y \in u .. h /\ s.value \in Intensities
  BY <1>2
<1>4. s.x \in Int /\ s.y \in Int
  BY ONLY <1>1, <1>3
<1>5. s.value \in Nat
  BY <1>3, PictureConstants
<1> QED
  BY <1>4, <1>5

LEMMA PixelType ==
  ASSUME NEW p \in Picture!Pixels
  PROVE  p[1] \in Int /\ p[2] \in Int /\ p = <<p[1], p[2]>>
  BY PictureConstants DEF Picture!Pixels

(* The four corners are different pixels, so that a pixel has the weight   *)
(* of at most one.                                                         *)
LEMMA WeightIsTent ==
  ASSUME NEW s \in Picture!Positions, NEW p \in Picture!Pixels
  PROVE  Picture!WeightAt(s, p) = Picture!TentWeight(s, p)
<1> DEFINE x0 == Picture!Floor(s.x)
           y0 == Picture!Floor(s.y)
           dx == s.x - x0 * Unit
           dy == s.y - y0 * Unit
           c1 == [p |-> <<x0, y0>>, w |-> (Unit - dx) * (Unit - dy)]
           c2 == [p |-> <<x0 + 1, y0>>, w |-> dx * (Unit - dy)]
           c3 == [p |-> <<x0, y0 + 1>>, w |-> (Unit - dx) * dy]
           c4 == [p |-> <<x0 + 1, y0 + 1>>, w |-> dx * dy]
           C == {c1, c2, c3, c4}
           g == [c \in C |-> IF c.p = p THEN c.w ELSE 0]
           a == p[1]
           b == p[2]
<1>1. /\ s.x \in Int /\ s.y \in Int /\ a \in Int /\ b \in Int /\ p = <<a, b>>
      /\ Unit \in Int /\ Unit \in Nat
  BY PositionType, PixelType, PictureConstants
<1>2. x0 \in Int /\ y0 \in Int
  BY <1>1, FloorOf
<1> HIDE DEF x0, y0
<1>3. dx \in Int /\ dy \in Int
  BY <1>1, <1>2
<1>4. Picture!WeightAt(s, p) = SumFunctionOnSet(g, C)
  <2>1. Picture!Corners(s) = C
    BY DEF Picture!Corners, x0, y0
  <2>2. Picture!WeightAt(s, p) = SumFunctionOnSet(g, DOMAIN g)
    BY <2>1, PictureSums DEF Picture!WeightAt
  <2> QED
    BY <2>2
<1>5. Picture!TentWeight(s, p) =
         (IF a = x0 THEN Unit - dx ELSE IF a = x0 + 1 THEN dx ELSE 0)
         * (IF b = y0 THEN Unit - dy ELSE IF b = y0 + 1 THEN dy ELSE 0)
  <2>1. /\ Picture!Tent(s.x - a * Unit) =
              (IF a = x0 THEN Unit - dx ELSE IF a = x0 + 1 THEN dx ELSE 0)
        /\ Picture!Tent(s.y - b * Unit) =
              (IF b = y0 THEN Unit - dy ELSE IF b = y0 + 1 THEN dy ELSE 0)
    BY <1>1, TentAt DEF x0, y0
  <2> QED
    BY <2>1 DEF Picture!TentWeight
<1> HIDE DEF dx, dy
<1> DEFINE w1 == (Unit - dx) * (Unit - dy)
           w2 == dx * (Unit - dy)
           w3 == (Unit - dx) * dy
           w4 == dx * dy
<1>6. w1 \in Int /\ w2 \in Int /\ w3 \in Int /\ w4 \in Int
  BY <1>1, <1>3
<1>7. /\ c1.p = <<x0, y0>> /\ c2.p = <<x0 + 1, y0>>
      /\ c3.p = <<x0, y0 + 1>> /\ c4.p = <<x0 + 1, y0 + 1>>
      /\ c1.w = w1 /\ c2.w = w2 /\ c3.w = w3 /\ c4.w = w4
  OBVIOUS
<1>8. /\ c1.p = p <=> a = x0 /\ b = y0
      /\ c2.p = p <=> a = x0 + 1 /\ b = y0
      /\ c3.p = p <=> a = x0 /\ b = y0 + 1
      /\ c4.p = p <=> a = x0 + 1 /\ b = y0 + 1
  BY <1>1, <1>7
<1>9. IsFiniteSet(C)
  <2> HIDE DEF c1, c2, c3, c4
  <2>1. C = ((({} \cup {c1}) \cup {c2}) \cup {c3}) \cup {c4}
    OBVIOUS
  <2>2. IsFiniteSet({} \cup {c1})
    BY FS_EmptySet, FS_AddElement
  <2>3. IsFiniteSet(({} \cup {c1}) \cup {c2})
    BY <2>2, FS_AddElement
  <2>4. IsFiniteSet((({} \cup {c1}) \cup {c2}) \cup {c3})
    BY <2>3, FS_AddElement
  <2>5. IsFiniteSet(((({} \cup {c1}) \cup {c2}) \cup {c3}) \cup {c4})
    BY <2>4, FS_AddElement
  <2> HIDE DEF C
  <2> QED
    BY <2>1, <2>5
<1> HIDE DEF w1, w2, w3, w4
<1>10. \A c \in C : c.w \in Int
  BY <1>6, <1>7
<1>11. /\ g \in [C -> Int]
       /\ \A c \in C : g[c] = IF c.p = p THEN c.w ELSE 0
  <2> HIDE DEF C
  <2> QED
    BY <1>10
<1>12. \A c, d \in C : c.p = p /\ d.p = p => c = d
  <2> HIDE DEF c1, c2, c3, c4
  <2> QED
    BY <1>2, <1>8
<1>13. ASSUME NEW c \in C, c.p = p
       PROVE  Picture!WeightAt(s, p) = c.w
  <2> HIDE DEF g, C
  <2>1. \A d \in C : d # c => g[d] = 0
    BY <1>11, <1>12, <1>13
  <2>2. SumFunctionOnSet(g, C) = g[c]
    BY <1>9, <1>11, <2>1, SumSingle
  <2> QED
    BY <1>4, <1>11, <1>13, <2>2
<1>14. ASSUME \A c \in C : c.p # p
       PROVE  Picture!WeightAt(s, p) = 0
  <2> HIDE DEF g, C
  <2>1. \A d \in C : g[d] = 0
    BY <1>11, <1>14
  <2>2. SumFunctionOnSet(g, C) = 0
    BY <1>9, <1>11, <2>1, SumZeros
  <2> QED
    BY <1>4, <2>2
<1>15. c1 \in C /\ c2 \in C /\ c3 \in C /\ c4 \in C
  OBVIOUS
<1>16. x0 # x0 + 1 /\ y0 # y0 + 1
  BY <1>2
<1> HIDE DEF g
<1>17. CASE a = x0 /\ b = y0
  <2>1. Picture!WeightAt(s, p) = w1
    <3> HIDE DEF C, c1
    <3> QED
      BY <1>7, <1>8, <1>13, <1>15, <1>17
  <2> QED
    BY <1>5, <1>17, <2>1 DEF w1
<1>18. CASE a = x0 + 1 /\ b = y0
  <2>1. Picture!WeightAt(s, p) = w2
    <3> HIDE DEF C, c2
    <3> QED
      BY <1>7, <1>8, <1>13, <1>15, <1>18
  <2> QED
    BY <1>5, <1>16, <1>18, <2>1 DEF w2
<1>19. CASE a = x0 /\ b = y0 + 1
  <2>1. Picture!WeightAt(s, p) = w3
    <3> HIDE DEF C, c3
    <3> QED
      BY <1>7, <1>8, <1>13, <1>15, <1>19
  <2> QED
    BY <1>5, <1>16, <1>19, <2>1 DEF w3
<1>20. CASE a = x0 + 1 /\ b = y0 + 1
  <2>1. Picture!WeightAt(s, p) = w4
    <3> HIDE DEF C, c4
    <3> QED
      BY <1>7, <1>8, <1>13, <1>15, <1>20
  <2> QED
    BY <1>5, <1>16, <1>20, <2>1 DEF w4
<1>21. CASE a \notin {x0, x0 + 1} \/ b \notin {y0, y0 + 1}
  <2>1. \A c \in C : c.p # p
    <3> HIDE DEF c1, c2, c3, c4
    <3> QED
      BY <1>8, <1>21
  <2>2. Picture!WeightAt(s, p) = 0
    BY <1>14, <2>1
  <2>3. /\ \A i \in Int : 0 * i = 0 /\ i * 0 = 0
        /\ (IF a = x0 THEN Unit - dx ELSE IF a = x0 + 1 THEN dx ELSE 0) \in Int
        /\ (IF b = y0 THEN Unit - dy ELSE IF b = y0 + 1 THEN dy ELSE 0) \in Int
    BY <1>1, <1>3
  <2>4. Picture!TentWeight(s, p) = 0
    BY <1>5, <1>21, <2>3
  <2> QED
    BY <2>2, <2>4
<1> QED
  BY <1>17, <1>18, <1>19, <1>20, <1>21

-----------------------------------------------------------------------------
(* The picture is the sum of what the samples give that have been added;   *)
(* the division is made when all of them are.                              *)
Tents(p) == [i \in Samples |-> Picture!TentWeight(sample[i], p)]
Parts(p) == [i \in Samples |-> sample[i].value * Tents(p)[i]]

Normalized ==
    \/ recon = [p \in Picture!Pixels |-> <<0, 1>>] /\ holes = {}
    \/ /\ added = Samples
       /\ recon = [p \in Picture!Pixels |->
                     IF weight[p] > 0 THEN <<accum[p], weight[p]>> ELSE <<0, 1>>]
       /\ holes = {p \in Picture!Pixels : weight[p] = 0}

PictureInv ==
    /\ sample \in [Samples -> Picture!Positions] /\ added \subseteq Samples
    /\ accum \in [Picture!Pixels -> Nat] /\ weight \in [Picture!Pixels -> Nat]
    /\ \A p \in Picture!Pixels :
          /\ weight[p] = SumFunctionOnSet(Tents(p), added)
          /\ accum[p] = SumFunctionOnSet(Parts(p), added)
    /\ Normalized

LEMMA TentType ==
  ASSUME NEW s \in Picture!Positions, NEW p \in Picture!Pixels
  PROVE  /\ Picture!TentWeight(s, p) \in Nat
         /\ Picture!TentWeight(s, p) <= Unit * Unit
         /\ s.value * Picture!TentWeight(s, p) \in Nat
<1>1. /\ s.x \in Int /\ s.y \in Int /\ p[1] \in Int /\ p[2] \in Int
      /\ Unit \in Nat /\ s.value \in Nat
  BY PositionType, PixelType, PictureConstants
<1> DEFINE dx == s.x - p[1] * Unit
           dy == s.y - p[2] * Unit
<1>2. dx \in Int /\ dy \in Int
  BY <1>1
<1>3. ASSUME NEW d \in Int
      PROVE  Picture!Tent(d) \in Nat /\ Picture!Tent(d) <= Unit
  <2>1. Unit - (IF d < 0 THEN -d ELSE d) \in Int
    BY <1>1
  <2> QED
    BY <1>1, <2>1, MaxOfZero DEF Picture!Tent
<1>4. Picture!TentWeight(s, p) = Picture!Tent(dx) * Picture!Tent(dy)
  BY DEF Picture!TentWeight
<1> HIDE DEF dx, dy
<1> DEFINE a == Picture!Tent(dx)
           b == Picture!Tent(dy)
<1>5. a \in Nat /\ b \in Nat /\ a <= Unit /\ b <= Unit
  BY <1>2, <1>3
<1> HIDE DEF a, b
<1>6. a * b \in Nat /\ a * b <= Unit * Unit
  <2>1. \A i, j, k \in Nat : i <= j => i * k <= j * k
    OBVIOUS
  <2>2. a * b <= Unit * b /\ b * Unit <= Unit * Unit
    BY <1>1, <1>5, <2>1
  <2>3. b * Unit = Unit * b /\ a * b \in Nat /\ b * Unit \in Nat /\ Unit * Unit \in Nat
    BY <1>1, <1>5
  <2> QED
    BY <2>2, <2>3
<1>7. s.value * (a * b) \in Nat
  BY <1>1, <1>6
<1> QED
  BY <1>4, <1>6, <1>7 DEF a, b

LEMMA TentsType ==
  ASSUME sample \in [Samples -> Picture!Positions], NEW p \in Picture!Pixels
  PROVE  /\ Tents(p) \in [Samples -> Nat] /\ Tents(p) \in [Samples -> Int]
         /\ Parts(p) \in [Samples -> Nat] /\ Parts(p) \in [Samples -> Int]
         /\ \A i \in Samples :
               /\ Tents(p)[i] = Picture!TentWeight(sample[i], p)
               /\ Tents(p)[i] <= Unit * Unit
               /\ Parts(p)[i] = sample[i].value * Tents(p)[i]
               /\ sample[i].value \in Nat
<1>1. \A i \in Samples :
         /\ sample[i] \in Picture!Positions
         /\ Picture!TentWeight(sample[i], p) \in Nat
         /\ Picture!TentWeight(sample[i], p) <= Unit * Unit
         /\ sample[i].value * Picture!TentWeight(sample[i], p) \in Nat
         /\ sample[i].value \in Nat
  BY TentType, PositionType
<1>2. /\ Tents(p) = [i \in Samples |-> Picture!TentWeight(sample[i], p)]
      /\ Parts(p) = [i \in Samples |-> sample[i].value * Tents(p)[i]]
  BY DEF Tents, Parts
<1>3. \A i \in Samples : Tents(p)[i] = Picture!TentWeight(sample[i], p)
  BY <1>2
<1> QED
  BY <1>1, <1>2, <1>3

LEMMA InitPictureInv ==
  ASSUME Picture!Init
  PROVE  PictureInv
<1>1. PICK s \in [Samples -> Picture!Positions] : Picture!InitWith(s)
  BY DEF Picture!Init
<1>2. \A f : SumFunctionOnSet(f, {}) = 0
  BY SumNothing
<1> QED
  BY <1>1, <1>2 DEF Picture!InitWith, PictureInv, Normalized

LEMMA AddKeepsInv ==
  ASSUME PictureInv, NEW i \in Samples, Picture!AddBilinearSample(i)
  PROVE  PictureInv'
<1>1. /\ i \notin added /\ added' = added \cup {i}
      /\ sample' = sample /\ recon' = recon /\ holes' = holes
      /\ accum' = [p \in Picture!Pixels |->
            accum[p] + sample[i].value * Picture!WeightAt(sample[i], p)]
      /\ weight' = [p \in Picture!Pixels |->
            weight[p] + Picture!WeightAt(sample[i], p)]
  BY DEF Picture!AddBilinearSample
<1>2. /\ sample \in [Samples -> Picture!Positions] /\ added \in SUBSET Samples
      /\ accum \in [Picture!Pixels -> Nat] /\ weight \in [Picture!Pixels -> Nat]
      /\ IsFiniteSet(Samples)
  BY PictureConstants DEF PictureInv
<1>3. ASSUME NEW p \in Picture!Pixels
      PROVE  /\ weight'[p] \in Nat /\ accum'[p] \in Nat
             /\ weight'[p] = SumFunctionOnSet(Tents(p), added')
             /\ accum'[p] = SumFunctionOnSet(Parts(p), added')
  <2>1. /\ Tents(p) \in [Samples -> Int] /\ Parts(p) \in [Samples -> Int]
        /\ Tents(p)[i] \in Nat /\ Parts(p)[i] \in Nat
        /\ Tents(p)[i] = Picture!TentWeight(sample[i], p)
        /\ Parts(p)[i] = sample[i].value * Tents(p)[i]
    BY <1>2, TentsType
  <2>2. Picture!WeightAt(sample[i], p) = Tents(p)[i]
    BY <1>2, <2>1, WeightIsTent
  <2>3. weight'[p] = weight[p] + Tents(p)[i] /\ accum'[p] = accum[p] + Parts(p)[i]
    BY <1>1, <2>1, <2>2
  <2>4. /\ weight[p] = SumFunctionOnSet(Tents(p), added)
        /\ accum[p] = SumFunctionOnSet(Parts(p), added)
    BY DEF PictureInv
  <2>5. /\ SumFunctionOnSet(Tents(p), added \cup {i})
             = SumFunctionOnSet(Tents(p), added) + Tents(p)[i]
        /\ SumFunctionOnSet(Parts(p), added \cup {i})
             = SumFunctionOnSet(Parts(p), added) + Parts(p)[i]
    BY <1>1, <1>2, <2>1, SumAdd
  <2>6. weight[p] \in Nat /\ accum[p] \in Nat
    BY <1>2
  <2> QED
    BY <1>1, <2>1, <2>3, <2>4, <2>5, <2>6
<1>4. \A p : Tents(p)' = Tents(p) /\ Parts(p)' = Parts(p)
  BY <1>1 DEF Tents, Parts
<1>5. Normalized'
  <2>1. added # Samples
    BY <1>1
  <2> QED
    BY <1>1, <2>1 DEF PictureInv, Normalized
<1>6. accum' \in [Picture!Pixels -> Nat] /\ weight' \in [Picture!Pixels -> Nat]
  BY <1>1, <1>3
<1>7. \A p \in Picture!Pixels :
         /\ weight'[p] = SumFunctionOnSet(Tents(p)', added')
         /\ accum'[p] = SumFunctionOnSet(Parts(p)', added')
  BY <1>3, <1>4
<1> QED
  BY <1>1, <1>2, <1>5, <1>6, <1>7 DEF PictureInv

LEMMA NormalizeKeepsInv ==
  ASSUME PictureInv, Picture!Normalize
  PROVE  PictureInv'
<1>1. /\ UNCHANGED <<sample, added, accum, weight>> /\ Normalized'
  BY DEF Picture!Normalize, Normalized
<1>2. \A p : Tents(p)' = Tents(p) /\ Parts(p)' = Parts(p)
  BY <1>1 DEF Tents, Parts
<1> QED
  BY <1>1, <1>2 DEF PictureInv

LEMMA StutterPictureInv ==
  ASSUME PictureInv, UNCHANGED pictureVars
  PROVE  PictureInv'
<1>1. UNCHANGED <<sample, added, accum, weight, recon, holes>>
  BY DEF pictureVars
<1>2. \A p : Tents(p)' = Tents(p) /\ Parts(p)' = Parts(p)
  BY <1>1 DEF Tents, Parts
<1> QED
  BY <1>1, <1>2 DEF PictureInv, Normalized

(* The least and the greatest of some numbers.                             *)
LEMMA Extremes ==
  ASSUME NEW T, IsFiniteSet(T), T \subseteq Nat, T # {}
  PROVE  /\ Picture!Min(T) \in T /\ \A y \in T : Picture!Min(T) <= y
         /\ Picture!Max(T) \in T /\ \A y \in T : Picture!Max(T) >= y
<1> DEFINE G == {S \in SUBSET T : S # {} =>
                    /\ \E x \in S : \A y \in S : x <= y
                    /\ \E x \in S : \A y \in S : x >= y}
<1>1. ASSUME NEW S \in SUBSET T, \A R \in SUBSET S : R # S => R \in G
      PROVE  S \in G
  <2> SUFFICES ASSUME S # {}
               PROVE  /\ \E x \in S : \A y \in S : x <= y
                      /\ \E x \in S : \A y \in S : x >= y
    OBVIOUS
  <2>1. PICK c \in S : TRUE
    OBVIOUS
  <2> DEFINE R == S \ {c}
  <2>2. R \in SUBSET S /\ R # S /\ \A y \in S : y = c \/ y \in R
    BY <2>1
  <2>3. \A y \in S : y \in Nat
    OBVIOUS
  <2> HIDE DEF R
  <2>4. CASE R = {}
    BY <2>2, <2>3, <2>4
  <2>5. CASE R # {}
    <3>1. R \in G
      BY <1>1, <2>2
    <3>2. PICK x \in R : \A y \in R : x <= y
      BY <2>5, <3>1
    <3>3. PICK z \in R : \A y \in R : z >= y
      BY <2>5, <3>1
    <3>4. c \in Nat /\ x \in Nat /\ z \in Nat /\ x \in S /\ z \in S
      BY <2>2, <2>3
    <3>5. \E m \in S : \A y \in S : m <= y
      BY <2>2, <2>3, <3>2, <3>4
    <3>6. \E m \in S : \A y \in S : m >= y
      BY <2>2, <2>3, <3>3, <3>4
    <3> QED
      BY <3>5, <3>6
  <2> QED
    BY <2>4, <2>5
<1> HIDE DEF G
<1>2. \A S \in SUBSET T : S \in G
  BY <1>1, SubsetInduction
<1>3. /\ \E x \in T : \A y \in T : x <= y
      /\ \E x \in T : \A y \in T : x >= y
  BY <1>2 DEF G
<1> QED
  BY <1>3 DEF Picture!Min, Picture!Max

(* A pixel that has weight has it of some sample, and its value is between *)
(* those of the samples that gave it weight.                               *)
Around(p) == {i \in Samples : Picture!TentWeight(sample[i], p) > 0}
Near(p)   == {sample[i].value : i \in Around(p)}

LEMMA NearType ==
  ASSUME sample \in [Samples -> Picture!Positions], NEW p \in Picture!Pixels
  PROVE  /\ IsFiniteSet(Near(p)) /\ Near(p) \subseteq Nat
         /\ Near(p) # {} <=> Around(p) # {}
<1>1. \A i \in Samples : sample[i].value \in Nat
  BY TentsType
<1>2. Near(p) \subseteq Nat /\ Near(p) # {} <=> Around(p) # {}
  BY <1>1 DEF Near, Around
<1>3. IsFiniteSet(Around(p))
  BY PictureConstants, FS_Subset DEF Around
<1>4. IsFiniteSet(Near(p))
  <2> DEFINE f == [i \in Around(p) |-> sample[i].value]
  <2>1. f \in Surjection(Around(p), Near(p))
    BY DEF Surjection, Near
  <2> QED
    BY <1>3, <2>1, FS_Surjection
<1> QED
  BY <1>1, <1>2, <1>4 DEF Near, Around

LEMMA HoleHasNone ==
  ASSUME PictureInv, added = Samples, NEW p \in Picture!Pixels
  PROVE  weight[p] = 0 <=> Around(p) = {}
<1>1. /\ sample \in [Samples -> Picture!Positions] /\ IsFiniteSet(Samples)
      /\ weight[p] = SumFunctionOnSet(Tents(p), Samples)
  BY PictureConstants DEF PictureInv
<1>2. /\ Tents(p) \in [Samples -> Nat] /\ Tents(p) \in [Samples -> Int]
      /\ \A i \in Samples : Tents(p)[i] = Picture!TentWeight(sample[i], p)
  BY <1>1, TentsType
<1>3. ASSUME NEW i \in Around(p) PROVE weight[p] # 0
  <2>1. i \in Samples /\ Tents(p)[i] > 0 /\ Tents(p)[i] \in Nat
    BY <1>2 DEF Around
  <2>2. SumFunctionOnSet(Tents(p), Samples)
           = Tents(p)[i] + SumFunctionOnSet(Tents(p), Samples \ {i})
    BY <1>1, <1>2, <2>1, SumTake
  <2>3. SumFunctionOnSet(Tents(p), Samples \ {i}) \in Nat
    BY <1>1, <1>2, SumNatural
  <2> QED
    BY <1>1, <2>1, <2>2, <2>3
<1>4. ASSUME Around(p) = {} PROVE weight[p] = 0
  <2>1. \A i \in Samples : Tents(p)[i] = 0
    <3>1. \A i \in Samples : Tents(p)[i] \in Nat /\ ~(Tents(p)[i] > 0)
      BY <1>2, <1>4 DEF Around
    <3>2. \A n \in Nat : ~(n > 0) => n = 0
      OBVIOUS
    <3> QED
      BY ONLY <3>1, <3>2
  <2>2. SumFunctionOnSet(Tents(p), Samples) = 0
    BY <1>1, <1>2, <2>1, SumZeros
  <2> QED
    BY <1>1, <2>2
<1> QED
  BY <1>3, <1>4

(* Multiples of the tents bound the parts.                                 *)
LEMMA PartsBetween ==
  ASSUME PictureInv, added = Samples, NEW p \in Picture!Pixels,
         NEW a \in Nat, NEW b \in Nat, \A v \in Near(p) : a <= v /\ v <= b
  PROVE  a * weight[p] <= accum[p] /\ accum[p] <= b * weight[p]
<1>1. /\ sample \in [Samples -> Picture!Positions] /\ IsFiniteSet(Samples)
      /\ weight[p] = SumFunctionOnSet(Tents(p), Samples)
      /\ accum[p] = SumFunctionOnSet(Parts(p), Samples)
  BY PictureConstants DEF PictureInv
<1>2. /\ Tents(p) \in [Samples -> Nat] /\ Tents(p) \in [Samples -> Int]
      /\ Parts(p) \in [Samples -> Int]
      /\ \A i \in Samples :
            /\ Tents(p)[i] = Picture!TentWeight(sample[i], p)
            /\ Parts(p)[i] = sample[i].value * Tents(p)[i]
            /\ sample[i].value \in Nat
  BY <1>1, TentsType
<1> DEFINE low  == [i \in Samples |-> a * Tents(p)[i]]
           high == [i \in Samples |-> b * Tents(p)[i]]
<1>3. /\ low \in [Samples -> Int] /\ high \in [Samples -> Int]
      /\ \A i \in Samples : low[i] = a * Tents(p)[i] /\ high[i] = b * Tents(p)[i]
  BY <1>2
<1>4. /\ SumFunctionOnSet(low, Samples) = a * weight[p]
      /\ SumFunctionOnSet(high, Samples) = b * weight[p]
  <2>1. a \in Int /\ b \in Int /\ Samples \in SUBSET Samples
    OBVIOUS
  <2>2. \A m \in Int : SumFunctionOnSet([i \in Samples |-> m * Tents(p)[i]], Samples)
                          = m * SumFunctionOnSet(Tents(p), Samples)
    BY <1>1, <1>2, <2>1, SumScale
  <2> QED
    BY <1>1, <2>1, <2>2
<1> HIDE DEF low, high
<1>5. ASSUME NEW i \in Samples
      PROVE  low[i] <= Parts(p)[i] /\ Parts(p)[i] <= high[i]
  <2> DEFINE t == Tents(p)[i]
             v == sample[i].value
  <2>1. t \in Nat /\ v \in Nat /\ t > 0 => a <= v /\ v <= b
    BY <1>2 DEF Near, Around
  <2>2. /\ low[i] = a * t /\ high[i] = b * t /\ Parts(p)[i] = v * t
        /\ t \in Nat /\ v \in Nat
    BY <1>2, <1>3
  <2> HIDE DEF t, v
  <2>3. CASE t = 0
    <3>1. \A n \in Nat : n * 0 = 0
      OBVIOUS
    <3> QED
      BY <2>2, <2>3, <3>1
  <2>4. CASE t > 0
    <3>1. \A j, k, n \in Nat : j <= k => j * n <= k * n
      OBVIOUS
    <3> QED
      BY <2>1, <2>2, <2>4, <3>1
  <2> QED
    BY <2>2, <2>3, <2>4
<1>6. /\ SumFunctionOnSet(low, Samples) <= SumFunctionOnSet(Parts(p), Samples)
      /\ SumFunctionOnSet(Parts(p), Samples) <= SumFunctionOnSet(high, Samples)
  <2>1. \A i \in Samples : low[i] <= Parts(p)[i]
    BY <1>5
  <2>2. \A i \in Samples : Parts(p)[i] <= high[i]
    BY <1>5
  <2>3. SumFunctionOnSet(low, Samples) <= SumFunctionOnSet(Parts(p), Samples)
    BY <1>1, <1>2, <1>3, <2>1, SumBound
  <2>4. SumFunctionOnSet(Parts(p), Samples) <= SumFunctionOnSet(high, Samples)
    BY <1>1, <1>2, <1>3, <2>2, SumBound
  <2> QED
    BY <2>3, <2>4
<1> QED
  BY <1>1, <1>4, <1>6


LEMMA SpecPictureInv ==
  Spec => [](part = "picture" => PictureInv)
<1> DEFINE I == part = "picture" => PictureInv
<1>1. Init => I
  BY InitPictureInv DEF Init
<1>2. ASSUME I, [Next]_vars PROVE I'
  <2> SUFFICES ASSUME part' = "picture" PROVE PictureInv'
    OBVIOUS
  <2>1. part = "picture"
    BY <1>2 DEF Next, vars
  <2>2. CASE UNCHANGED pictureVars
    BY <1>2, <2>1, <2>2, StutterPictureInv
  <2>3. CASE Picture!Next
    <3>1. PictureInv
      BY <1>2, <2>1
    <3>2. CASE \E i \in Samples : Picture!AddBilinearSample(i)
      BY <3>1, <3>2, AddKeepsInv
    <3>3. CASE Picture!Normalize
      BY <3>1, <3>3, NormalizeKeepsInv
    <3> QED
      BY <2>3, <3>2, <3>3 DEF Picture!Next
  <2> QED
    BY <1>2, <2>1, <2>2, <2>3 DEF Next, vars
<1> QED
  BY <1>1, <1>2, PTL DEF Spec

LEMMA PictureTyped ==
  ASSUME PictureInv
  PROVE  Picture!TypeOK
<1>1. /\ sample \in [Samples -> Picture!Positions] /\ added \in SUBSET Samples
      /\ accum \in [Picture!Pixels -> Nat] /\ weight \in [Picture!Pixels -> Nat]
      /\ IsFiniteSet(Samples) /\ Unit \in Nat
  BY PictureConstants DEF PictureInv
<1> DEFINE n == Cardinality(Samples)
           m == Cardinality(added)
<1>2. m \in Nat /\ n \in Nat /\ m <= n
  BY <1>1, FS_Subset, FS_CardinalityType
<1>3. Picture!Cardinality(Samples) = n
  BY DEF Picture!Cardinality, Cardinality, Picture!IsFiniteSet, IsFiniteSet
<1> HIDE DEF n
<1>4. ASSUME NEW p \in Picture!Pixels
      PROVE  weight[p] \in 0 .. n * Unit * Unit
  <2> DEFINE b == Unit * Unit
  <2>1. b \in Nat /\ n * Unit * Unit = n * b
    BY <1>1, <1>2
  <2> HIDE DEF b
  <2>2. /\ Tents(p) \in [Samples -> Int]
        /\ \A i \in Samples : 0 <= Tents(p)[i] /\ Tents(p)[i] <= b
    BY <1>1, TentsType DEF b
  <2>3. SumFunctionOnSet(Tents(p), added) <= m * b
    <3>1. 0 \in Int /\ b \in Int
      BY <2>1
    <3>2. \A S \in SUBSET Samples : SumFunctionOnSet(Tents(p), S) <= Cardinality(S) * b
      BY <1>1, <2>2, <3>1, SumBetween
    <3> QED
      BY <1>1, <3>2
  <2>4. weight[p] = SumFunctionOnSet(Tents(p), added) /\ weight[p] \in Nat
    BY <1>1 DEF PictureInv
  <2> HIDE DEF m
  <2>5. m * b <= n * b
    <3>1. \A i, j, k \in Nat : i <= j => i * k <= j * k
      OBVIOUS
    <3> QED
      BY <1>2, <2>1, <3>1
  <2>6. m * b \in Int /\ n * b \in Int
    BY <1>2, <2>1
  <2>7. weight[p] <= n * b
    BY <2>3, <2>4, <2>5, <2>6
  <2> QED
    BY <2>1, <2>4, <2>6, <2>7
<1>5. weight \in [Picture!Pixels -> 0 .. n * Unit * Unit]
  BY <1>1, <1>4
<1>6. /\ recon \in [Picture!Pixels -> Nat \X (Nat \ {0})]
      /\ holes \subseteq Picture!Pixels
  <2>1. \A p \in Picture!Pixels : accum[p] \in Nat /\ weight[p] \in Nat
    BY <1>1
  <2> QED
    BY <2>1 DEF PictureInv, Normalized
<1> QED
  BY <1>1, <1>3, <1>5, <1>6 DEF Picture!TypeOK

LEMMA PictureSummed ==
  ASSUME PictureInv
  PROVE  Picture!PictureIsTentSum
<1>1. ASSUME NEW p \in Picture!Pixels
      PROVE  LET tents == [i \in Samples |-> Picture!TentWeight(sample[i], p)]
                 parts == [i \in Samples |-> sample[i].value * tents[i]]
             IN  /\ weight[p] = Picture!SumFunctionOnSet(tents, added)
                 /\ accum[p] = Picture!SumFunctionOnSet(parts, added)
  <2>1. /\ weight[p] = Picture!SumFunctionOnSet(Tents(p), added)
        /\ accum[p] = Picture!SumFunctionOnSet(Parts(p), added)
    BY PictureSums DEF PictureInv
  <2> QED
    BY <2>1 DEF Tents, Parts
<1> QED
  BY <1>1 DEF Picture!PictureIsTentSum

LEMMA PictureIsMean ==
  ASSUME PictureInv
  PROVE  Picture!MeanOfNeighbours
<1> SUFFICES ASSUME holes # {} \/ recon # [p \in Picture!Pixels |-> <<0, 1>>],
                    NEW p \in Picture!Pixels
             PROVE  IF p \in holes THEN Near(p) = {}
                    ELSE /\ Near(p) # {}
                         /\ Picture!Min(Near(p)) * recon[p][2] <= recon[p][1]
                         /\ recon[p][1] <= Picture!Max(Near(p)) * recon[p][2]
  BY DEF Picture!MeanOfNeighbours, Near, Around
<1>1. /\ added = Samples
      /\ recon = [q \in Picture!Pixels |->
                    IF weight[q] > 0 THEN <<accum[q], weight[q]>> ELSE <<0, 1>>]
      /\ holes = {q \in Picture!Pixels : weight[q] = 0}
  BY DEF PictureInv, Normalized
<1>2. /\ sample \in [Samples -> Picture!Positions]
      /\ weight[p] \in Nat /\ accum[p] \in Nat
  BY DEF PictureInv
<1>3. /\ weight[p] = 0 <=> Near(p) = {}
      /\ IsFiniteSet(Near(p)) /\ Near(p) \subseteq Nat
  BY <1>1, <1>2, HoleHasNone, NearType
<1>4. CASE weight[p] = 0
  BY <1>1, <1>3, <1>4
<1>5. CASE weight[p] # 0
  <2>1. p \notin holes /\ Near(p) # {}
    BY <1>1, <1>3, <1>5
  <2>2. recon[p] = <<accum[p], weight[p]>>
    BY <1>1, <1>2, <1>5
  <2> DEFINE a == Picture!Min(Near(p))
             b == Picture!Max(Near(p))
  <2>3. a \in Nat /\ b \in Nat /\ \A v \in Near(p) : a <= v /\ v <= b
    <3>1. /\ a \in Near(p) /\ \A v \in Near(p) : a <= v
          /\ b \in Near(p) /\ \A v \in Near(p) : b >= v
      BY <1>3, <2>1, Extremes
    <3> HIDE DEF a, b
    <3>2. \A v \in Near(p) : v \in Nat
      BY <1>3
    <3> QED
      BY <3>1, <3>2
  <2> HIDE DEF a, b
  <2>4. a * weight[p] <= accum[p] /\ accum[p] <= b * weight[p]
    BY <1>1, <2>3, PartsBetween
  <2> QED
    BY <2>1, <2>2, <2>4 DEF a, b
<1> QED
  BY <1>4, <1>5

(* The picture is the sum of what each sample gives by its distance, in    *)
(* whatever order the workers delivered them, and after the division each  *)
(* pixel that is not a hole lies between the least and the greatest value  *)
(* that was measured less than a pixel away                                *)
(* (reconstruction_core.cpp:86-127).                                       *)
THEOREM PictureIsSound == Spec => []PictureCorrect
<1>1. ASSUME PictureInv PROVE Picture!PictureCorrect
  BY <1>1, PictureTyped, PictureSummed, PictureIsMean DEF Picture!PictureCorrect
<1>2. (part = "picture" => PictureInv) => PictureCorrect
  BY <1>1 DEF PictureCorrect
<1> QED
  BY <1>2, SpecPictureInv, PTL

-----------------------------------------------------------------------------
(* The path of the laser.  A set of numbers that has zero, and with each   *)
(* its successor, has all of them.                                         *)
Less == {pair \in Nat \X Nat : pair[1] < pair[2]}

LEMMA LessIsWellFounded == IsWellFoundedOn(Less, Nat)
BY NatLessThanWellFounded DEF OpToRel, Less

LEMMA CountUp ==
  ASSUME NEW N \in Nat, NEW G, 0 \in G,
         \A n \in 0 .. N - 1 : n \in G => n + 1 \in G
  PROVE  \A n \in 0 .. N : n \in G
<1> DEFINE Bad == (0 .. N) \ G
<1> SUFFICES ASSUME Bad # {} PROVE FALSE
  OBVIOUS
<1>1. Bad \subseteq Nat
  OBVIOUS
<1>2. PICK x \in Bad : \A y \in Bad : ~(<<y, x>> \in Less)
  <2> HIDE DEF Bad
  <2> QED
    BY <1>1, LessIsWellFounded, WFMin
<1>3. x \in 0 .. N /\ x \notin G /\ x # 0
  OBVIOUS
<1>4. x - 1 \in 0 .. N - 1 /\ x - 1 + 1 = x /\ x - 1 < x /\ x - 1 \in Nat
  BY <1>3
<1>5. x - 1 \notin G
  BY <1>3, <1>4
<1>6. x - 1 \in Bad
  BY <1>4, <1>5
<1>7. <<x - 1, x>> \in Less
  BY <1>1, <1>4 DEF Less
<1> QED
  BY <1>2, <1>6, <1>7

LEMMA PathConstants ==
  /\ ImageWidth \in Nat /\ ImageWidth > 0 /\ ImageHeight \in Nat /\ ImageHeight > 0
  /\ MinArea \in Nat /\ MinArea > 0
  BY ResultConstants DEF Path!ScanAssumption

LEMMA PathNumbers ==
  /\ \A T : Path!Min(T) = Picture!Min(T) /\ Path!Max(T) = Picture!Max(T)
  /\ \A T : Path!Cardinality(T) = Cardinality(T)
  BY DEF Path!Min, Picture!Min, Path!Max, Picture!Max, Path!Cardinality,
         Cardinality, Path!IsFiniteSet, IsFiniteSet

LEMMA PixelsFinite ==
  ASSUME NEW T \in SUBSET Path!Pixels
  PROVE  IsFiniteSet(T)
<1>1. IsFiniteSet(0 .. ImageWidth - 1) /\ IsFiniteSet(0 .. ImageHeight - 1)
  BY PathConstants, FS_Interval
<1>2. IsFiniteSet(Path!Pixels)
  BY <1>1, FS_Product DEF Path!Pixels
<1> QED
  BY <1>2, FS_Subset

(* A component is a set of pixels of the image: the recursion of           *)
(* Component() has a solution, built up from below.                        *)
Grow(p, g, m) ==
    [n \in 0 .. m |-> IF n = 0 THEN {p}
                      ELSE {q \in image : \E r \in g[n - 1] : Path!Touch(q, r)}]

LEMMA ComponentInImage ==
  ASSUME NEW p
  PROVE  Path!Component(p) \subseteq image
<1> DEFINE N == ImageWidth * ImageHeight
           G == {m \in 0 .. N : \E g : g = Grow(p, g, m)}
<1>1. N \in Nat /\ N > 0
  <2>1. \A i, j \in Nat : i > 0 /\ j > 0 => i * j > 0 /\ i * j \in Nat
    OBVIOUS
  <2> QED
    BY <2>1, PathConstants
<1> HIDE DEF N
<1>2. 0 \in G
  <2> DEFINE g == [n \in 0 .. 0 |-> {p}]
  <2>1. g = Grow(p, g, 0)
    BY DEF Grow
  <2> QED
    BY <1>1, <2>1
<1>3. ASSUME NEW m \in 0 .. N - 1, m \in G PROVE m + 1 \in G
  <2>1. PICK g : g = Grow(p, g, m)
    BY <1>3
  <2> DEFINE h == [n \in 0 .. m + 1 |->
                     IF n = 0 THEN {p}
                     ELSE {q \in image : \E r \in g[n - 1] : Path!Touch(q, r)}]
  <2>2. ASSUME NEW n \in 1 .. m + 1 PROVE h[n - 1] = g[n - 1]
    <3>1. n - 1 \in 0 .. m /\ n - 1 \in 0 .. m + 1
      BY <1>1
    <3>2. g[n - 1] = IF n - 1 = 0 THEN {p}
             ELSE {q \in image : \E r \in g[n - 1 - 1] : Path!Touch(q, r)}
      BY <2>1, <3>1 DEF Grow
    <3> QED
      BY <3>1, <3>2
  <2>3. h = Grow(p, h, m + 1)
    <3>1. ASSUME NEW n \in 0 .. m + 1
          PROVE  h[n] = IF n = 0 THEN {p}
                        ELSE {q \in image : \E r \in h[n - 1] : Path!Touch(q, r)}
      <4>1. n # 0 => h[n - 1] = g[n - 1]
        <5>1. n # 0 => n \in 1 .. m + 1
          BY <1>1
        <5> HIDE DEF h
        <5> QED
          BY <2>2, <5>1
      <4>2. h[n] = IF n = 0 THEN {p}
                   ELSE {q \in image : \E r \in g[n - 1] : Path!Touch(q, r)}
        OBVIOUS
      <4> HIDE DEF h
      <4> QED
        BY <4>1, <4>2
    <3>2. h = [n \in 0 .. m + 1 |-> h[n]]
      OBVIOUS
    <3> HIDE DEF h
    <3> QED
      BY <3>1, <3>2 DEF Grow
  <2>4. m + 1 \in 0 .. N
    BY <1>1
  <2> HIDE DEF h
  <2> QED
    BY <2>3, <2>4
<1>4. \A m \in 0 .. N : m \in G
  <2> HIDE DEF G
  <2> QED
    BY <1>1, <1>2, <1>3, CountUp
<1> DEFINE grown == CHOOSE g : g = Grow(p, g, N)
<1>5. grown = Grow(p, grown, N)
  <2>1. N \in G
    BY <1>1, <1>4
  <2>2. \E g : g = Grow(p, g, N)
    BY <2>1
  <2> QED
    BY <2>2
<1>6. Path!Component(p) = grown[N]
  BY DEF Path!Component, Grow, N
<1> HIDE DEF grown
<1>7. grown[N] = {q \in image : \E r \in grown[N - 1] : Path!Touch(q, r)}
  <2>1. N \in 0 .. N /\ N # 0
    BY <1>1
  <2> QED
    BY <1>5, <2>1 DEF Grow
<1> QED
  BY <1>6, <1>7


(* The bounding box has the region, and is in the image.                   *)
LEMMA Box ==
  ASSUME NEW region \in SUBSET Path!Pixels, region # {}
  PROVE  /\ Path!Left(region) \in 0 .. ImageWidth - 1
         /\ Path!Right(region) \in 0 .. ImageWidth - 1
         /\ Path!Top(region) \in 0 .. ImageHeight - 1
         /\ Path!Bottom(region) \in 0 .. ImageHeight - 1
         /\ \A p \in region :
               /\ p[1] \in Path!Left(region) .. Path!Right(region)
               /\ p[2] \in Path!Top(region) .. Path!Bottom(region)
         /\ Path!Left(region) <= Path!Right(region)
         /\ Path!Top(region) <= Path!Bottom(region)
<1> DEFINE X == Path!Xs(region)
           Y == Path!Ys(region)
<1>1. \A p \in region : p[1] \in 0 .. ImageWidth - 1 /\ p[2] \in 0 .. ImageHeight - 1
  BY DEF Path!Pixels
<1>2. IsFiniteSet(X) /\ IsFiniteSet(Y)
  <2>1. IsFiniteSet(0 .. ImageWidth - 1) /\ IsFiniteSet(0 .. ImageHeight - 1)
    BY PathConstants, FS_Interval
  <2>2. X \in SUBSET (0 .. ImageWidth - 1) /\ Y \in SUBSET (0 .. ImageHeight - 1)
    BY <1>1 DEF Path!Xs, Path!Ys
  <2> QED
    BY <2>1, <2>2, FS_Subset
<1>3. /\ X # {} /\ Y # {} /\ X \subseteq Nat /\ Y \subseteq Nat
      /\ \A p \in region : p[1] \in X /\ p[2] \in Y
      /\ \A x \in X : x \in 0 .. ImageWidth - 1
      /\ \A y \in Y : y \in 0 .. ImageHeight - 1
  BY <1>1 DEF Path!Xs, Path!Ys
<1>4. /\ Path!Left(region) = Picture!Min(X) /\ Path!Right(region) = Picture!Max(X)
      /\ Path!Top(region) = Picture!Min(Y) /\ Path!Bottom(region) = Picture!Max(Y)
  BY PathNumbers DEF Path!Left, Path!Right, Path!Top, Path!Bottom
<1> HIDE DEF X, Y
<1>5. /\ Picture!Min(X) \in X /\ \A x \in X : Picture!Min(X) <= x
      /\ Picture!Max(X) \in X /\ \A x \in X : Picture!Max(X) >= x
  BY <1>2, <1>3, Extremes
<1>6. /\ Picture!Min(Y) \in Y /\ \A y \in Y : Picture!Min(Y) <= y
      /\ Picture!Max(Y) \in Y /\ \A y \in Y : Picture!Max(Y) >= y
  BY <1>2, <1>3, Extremes
<1> DEFINE l == Path!Left(region)
           r == Path!Right(region)
           t == Path!Top(region)
           b == Path!Bottom(region)
<1>7. /\ l \in X /\ r \in X /\ \A x \in X : l <= x /\ r >= x
      /\ t \in Y /\ b \in Y /\ \A y \in Y : t <= y /\ b >= y
  BY <1>4, <1>5, <1>6
<1> HIDE DEF l, r, t, b
<1>8. /\ l \in 0 .. ImageWidth - 1 /\ r \in 0 .. ImageWidth - 1
      /\ t \in 0 .. ImageHeight - 1 /\ b \in 0 .. ImageHeight - 1
      /\ l <= r /\ t <= b
  BY <1>3, <1>7
<1>9. ASSUME NEW p \in region PROVE p[1] \in l .. r /\ p[2] \in t .. b
  <2>1. p[1] \in X /\ p[2] \in Y /\ p[1] \in Nat /\ p[2] \in Nat
    BY <1>3
  <2>2. l <= p[1] /\ p[1] <= r /\ t <= p[2] /\ p[2] <= b
    BY <1>3, <1>7, <2>1
  <2>3. l \in Int /\ r \in Int /\ t \in Int /\ b \in Int
    BY <1>8
  <2> QED
    BY <2>1, <2>2, <2>3
<1> QED
  BY <1>8, <1>9 DEF l, r, t, b

(* A row goes from one side of the box to the other, back if the one above *)
(* went there.                                                             *)
Across(region) == Path!Right(region) - Path!Left(region) + 1
Even(region, y) == (y - Path!Top(region)) % 2 = 0
Column(region, y, i) == IF Even(region, y) THEN Path!Left(region) + i - 1
                        ELSE Path!Right(region) - i + 1
Spot(q) == <<q.x, q.y>>
Steps(path) ==
    \A i \in 1 .. Len(path) : i > 1 => Path!Touch(Spot(path[i - 1]), Spot(path[i]))

LEMMA RowOf ==
  ASSUME NEW region \in SUBSET Path!Pixels, region # {},
         NEW y \in Path!Top(region) .. Path!Bottom(region)
  PROVE  LET row == Path!SnakeRow(region, y)
         IN  /\ row \in Seq(Path!Points) /\ Len(row) = Across(region)
             /\ Across(region) \in Nat /\ Across(region) > 0
             /\ \A i \in 1 .. Across(region) :
                   /\ row[i].x = Column(region, y, i) /\ row[i].y = y
                   /\ Column(region, y, i) \in Int
                   /\ row[i].laserOn <=> Spot(row[i]) \in image
<1> DEFINE row == Path!SnakeRow(region, y)
           n == Across(region)
           l == Path!Left(region)
           r == Path!Right(region)
<1>1. /\ l \in 0 .. ImageWidth - 1 /\ r \in 0 .. ImageWidth - 1 /\ l <= r
      /\ y \in 0 .. ImageHeight - 1 /\ n = r - l + 1
  <2>1. Path!Top(region) \in 0 .. ImageHeight - 1 /\ Path!Bottom(region) \in 0 .. ImageHeight - 1
    BY Box
  <2>2. l \in 0 .. ImageWidth - 1 /\ r \in 0 .. ImageWidth - 1 /\ l <= r
    BY Box
  <2>3. y \in 0 .. ImageHeight - 1
    BY <2>1, PathConstants
  <2> QED
    BY <2>2, <2>3 DEF Across
<1>2. row = [i \in 1 .. n |-> [x |-> Column(region, y, i), y |-> y,
                               laserOn |-> <<Column(region, y, i), y>> \in image]]
  BY DEF Path!SnakeRow, Column, Across, Even
<1>3. n \in Nat /\ n > 0
  BY <1>1, PathConstants
<1>4. \A i \in 1 .. n : Column(region, y, i) \in 0 .. ImageWidth - 1
  <2> SUFFICES ASSUME NEW i \in 1 .. n
               PROVE  Column(region, y, i) \in 0 .. ImageWidth - 1
    OBVIOUS
  <2>1. Column(region, y, i) = l + i - 1 \/ Column(region, y, i) = r - i + 1
    BY DEF Column
  <2> HIDE DEF l, r, n
  <2> QED
    BY <1>1, <2>1, PathConstants
<1> HIDE DEF row, n
<1>5. \A i \in 1 .. n : row[i] \in Path!Points
  BY <1>1, <1>2, <1>4 DEF Path!Points
<1>6. row \in Seq(Path!Points) /\ Len(row) = n
  BY <1>2, <1>3, <1>5
<1>7. \A i \in 1 .. n :
         /\ row[i].x = Column(region, y, i) /\ row[i].y = y
         /\ Column(region, y, i) \in Int
         /\ row[i].laserOn <=> Spot(row[i]) \in image
  <2> SUFFICES ASSUME NEW i \in 1 .. n
               PROVE  /\ row[i].x = Column(region, y, i) /\ row[i].y = y
                      /\ Column(region, y, i) \in Int
                      /\ row[i].laserOn <=> Spot(row[i]) \in image
    OBVIOUS
  <2> DEFINE c == Column(region, y, i)
             lit == <<c, y>> \in image
  <2>1. row[i] = [x |-> c, y |-> y, laserOn |-> lit]
    BY <1>2
  <2>2. c \in Int
    BY <1>4, PathConstants
  <2> HIDE DEF c, lit
  <2>3. row[i].x = c /\ row[i].y = y /\ row[i].laserOn = lit
    BY <2>1
  <2> QED
    BY <2>2, <2>3 DEF Spot, c, lit
<1> QED
  BY <1>3, <1>6, <1>7 DEF row, n

LEMMA RowSteps ==
  ASSUME NEW region \in SUBSET Path!Pixels, region # {},
         NEW y \in Path!Top(region) .. Path!Bottom(region)
  PROVE  Steps(Path!SnakeRow(region, y))
<1> DEFINE row == Path!SnakeRow(region, y)
           n == Across(region)
<1> SUFFICES ASSUME NEW i \in 1 .. Len(row), i > 1
             PROVE  Path!Touch(Spot(row[i - 1]), Spot(row[i]))
  BY DEF Steps
<1>1. Len(row) = n /\ n \in Nat
  BY RowOf
<1>2. i \in 1 .. n /\ i - 1 \in 1 .. n
  BY <1>1
<1>3. /\ row[i].x = Column(region, y, i) /\ row[i].y = y
      /\ row[i - 1].x = Column(region, y, i - 1) /\ row[i - 1].y = y
      /\ Column(region, y, i) \in Int /\ Column(region, y, i - 1) \in Int
  BY <1>2, RowOf
<1>4. \/ Column(region, y, i) = Column(region, y, i - 1) + 1
      \/ Column(region, y, i) = Column(region, y, i - 1) - 1
  <2>1. Path!Left(region) \in Int /\ Path!Right(region) \in Int /\ i \in Int
    BY <1>1, Box
  <2> QED
    BY <2>1 DEF Column
<1>5. y \in Int
  BY Box
<1> DEFINE a == Column(region, y, i - 1)
           b == Column(region, y, i)
<1>6. a \in Int /\ b \in Int /\ (b = a + 1 \/ b = a - 1)
  BY <1>3, <1>4
<1>7. Path!Touch(<<a, y>>, <<b, y>>)
  <2> HIDE DEF a, b
  <2>0. a \in Int /\ b \in Int
    BY <1>3 DEF a, b
  <2>1. Path!Distance(a, b) <= 1 /\ Path!Distance(y, y) <= 1
    BY <1>5, <1>6, <2>0 DEF Path!Distance
  <2> QED
    BY <2>1 DEF Path!Touch
<1> QED
  BY <1>3, <1>7 DEF Spot

(* From the end of a row to the begin of the next one it is a step down.   *)
LEMMA Turns ==
  ASSUME NEW region \in SUBSET Path!Pixels, region # {},
         NEW y \in Path!Top(region) .. Path!Bottom(region),
         y + 1 \in Path!Top(region) .. Path!Bottom(region)
  PROVE  Path!Touch(Spot(Path!SnakeRow(region, y)[Across(region)]),
                    Spot(Path!SnakeRow(region, y + 1)[1]))
<1> DEFINE n == Across(region)
           t == Path!Top(region)
           l == Path!Left(region)
           r == Path!Right(region)
<1>1. l \in Int /\ r \in Int /\ t \in Int /\ y \in Int /\ n = r - l + 1 /\ y >= t
  BY Box DEF Across
<1>2. n \in Nat /\ n > 0 /\ 1 \in 1 .. n /\ n \in 1 .. n
  BY RowOf
<1>3. Column(region, y, n) = Column(region, y + 1, 1)
  <2> DEFINE d == y - t
  <2>1. d \in Nat /\ (y + 1) - t = d + 1
    BY <1>1
  <2>2. d % 2 = 0 <=> ~((d + 1) % 2 = 0)
    <3> HIDE DEF d
    <3> QED
      BY <2>1
  <2>3. Even(region, y) <=> ~Even(region, y + 1)
    <3>1. Even(region, y) <=> d % 2 = 0
      BY DEF Even
    <3>2. Even(region, y + 1) <=> ((y + 1) - t) % 2 = 0
      BY DEF Even
    <3> HIDE DEF d, t
    <3>3. ((y + 1) - t) % 2 = (d + 1) % 2
      BY ONLY <2>1
    <3> QED
      BY ONLY <2>2, <3>1, <3>2, <3>3
  <2>4. l + n - 1 = r - 1 + 1 /\ r - n + 1 = l + 1 - 1
    BY <1>1
  <2>5. /\ Column(region, y, n) = IF Even(region, y) THEN l + n - 1 ELSE r - n + 1
        /\ Column(region, y + 1, 1)
              = IF Even(region, y + 1) THEN l + 1 - 1 ELSE r - 1 + 1
    BY DEF Column
  <2> QED
    BY ONLY <2>3, <2>4, <2>5
<1>4. /\ Spot(Path!SnakeRow(region, y)[n]) = <<Column(region, y, n), y>>
      /\ Spot(Path!SnakeRow(region, y + 1)[1]) = <<Column(region, y + 1, 1), y + 1>>
      /\ Column(region, y, n) \in Int
  <2>1. /\ Path!SnakeRow(region, y)[n].x = Column(region, y, n)
        /\ Path!SnakeRow(region, y)[n].y = y /\ Column(region, y, n) \in Int
    BY <1>2, RowOf
  <2>2. /\ Path!SnakeRow(region, y + 1)[1].x = Column(region, y + 1, 1)
        /\ Path!SnakeRow(region, y + 1)[1].y = y + 1
    BY <1>2, RowOf
  <2> QED
    BY <2>1, <2>2 DEF Spot
<1> DEFINE c == Column(region, y, n)
<1>5. Path!Touch(<<c, y>>, <<c, y + 1>>)
  <2>1. c \in Int
    BY <1>4
  <2> HIDE DEF c
  <2>2. Path!Distance(c, c) <= 1 /\ Path!Distance(y, y + 1) <= 1
    BY <1>1, <2>1 DEF Path!Distance
  <2> QED
    BY <2>2 DEF Path!Touch
<1> QED
  BY <1>3, <1>4, <1>5


(* FlattenSeq() is the last of a series of sequences, each of which is     *)
(* the one before it and one part more.                                    *)
Flat(parts, f, m) ==
    [i \in 1 .. m |-> IF i = 1 THEN parts[i] ELSE f[i - 1] \o parts[i]]

LEMMA FlattenIsDefined ==
  ASSUME NEW parts, NEW N \in Nat, N > 0, Len(parts) = N
  PROVE  \E f : f = Flat(parts, f, N) /\ Path!FlattenSeq(parts) = f[N]
<1> DEFINE G == {m \in 0 .. N : \E f : f = Flat(parts, f, m)}
<1>1. 0 \in G
  <2> DEFINE f == [i \in 1 .. 0 |-> IF i = 1 THEN parts[i] ELSE parts[i] \o parts[i]]
  <2>1. \A i \in 1 .. 0 : FALSE
    OBVIOUS
  <2>2. f = Flat(parts, f, 0)
    BY <2>1 DEF Flat
  <2> HIDE DEF f
  <2> QED
    BY <2>2
<1>2. ASSUME NEW m \in 0 .. N - 1, m \in G PROVE m + 1 \in G
  <2>1. PICK f : f = Flat(parts, f, m)
    BY <1>2
  <2> DEFINE h == [i \in 1 .. m + 1 |->
                     IF i = 1 THEN parts[i] ELSE f[i - 1] \o parts[i]]
  <2>2. ASSUME NEW i \in 1 .. m + 1, i # 1 PROVE h[i - 1] = f[i - 1]
    <3>1. i - 1 \in 1 .. m /\ i - 1 \in 1 .. m + 1
      BY <2>2
    <3>2. f[i - 1] = IF i - 1 = 1 THEN parts[i - 1]
                     ELSE f[i - 1 - 1] \o parts[i - 1]
      BY <2>1, <3>1 DEF Flat
    <3> QED
      BY <3>1, <3>2
  <2>3. h = Flat(parts, h, m + 1)
    <3>1. ASSUME NEW i \in 1 .. m + 1
          PROVE  h[i] = IF i = 1 THEN parts[i] ELSE h[i - 1] \o parts[i]
      <4>1. i # 1 => h[i - 1] = f[i - 1]
        BY <2>2
      <4>2. h[i] = IF i = 1 THEN parts[i] ELSE f[i - 1] \o parts[i]
        OBVIOUS
      <4> HIDE DEF h
      <4> QED
        BY <4>1, <4>2
    <3>2. h = [i \in 1 .. m + 1 |-> h[i]]
      OBVIOUS
    <3> HIDE DEF h
    <3> QED
      BY <3>1, <3>2 DEF Flat
  <2>4. m + 1 \in 0 .. N
    OBVIOUS
  <2> HIDE DEF h
  <2> QED
    BY <2>3, <2>4
<1>3. \A m \in 0 .. N : m \in G
  <2> HIDE DEF G
  <2> QED
    BY <1>1, <1>2, CountUp
<1> DEFINE flatten == CHOOSE f : f = Flat(parts, f, N)
<1>4. flatten = Flat(parts, flatten, N)
  <2>1. N \in G
    BY <1>3
  <2>2. \E f : f = Flat(parts, f, N)
    BY <2>1
  <2> QED
    BY <2>2
<1>5. Path!FlattenSeq(parts) = flatten[N]
  <2>1. Len(parts) # 0
    OBVIOUS
  <2> QED
    BY <2>1 DEF Path!FlattenSeq, Flat
<1> HIDE DEF flatten
<1> QED
  BY <1>4, <1>5

LEMMA Joined ==
  ASSUME NEW S, NEW s \in Seq(S), NEW t \in Seq(S), s # <<>>, t # <<>>
  PROVE  /\ s \o t \in Seq(S) /\ s \o t # <<>>
         /\ Len(s) \in Nat /\ Len(t) \in Nat /\ Len(s) > 0 /\ Len(t) > 0
         /\ Len(s \o t) = Len(s) + Len(t)
         /\ \A i \in 1 .. Len(s) : (s \o t)[i] = s[i]
         /\ \A i \in 1 .. Len(t) : (s \o t)[Len(s) + i] = t[i]
<1>1. /\ s \o t \in Seq(S) /\ Len(s \o t) = Len(s) + Len(t)
      /\ \A i \in 1 .. Len(s) + Len(t) :
            (s \o t)[i] = IF i <= Len(s) THEN s[i] ELSE t[i - Len(s)]
  BY ConcatProperties
<1>2. Len(s) \in Nat /\ Len(t) \in Nat /\ Len(s) > 0 /\ Len(t) > 0
  BY EmptySeq, LenProperties
<1> DEFINE m == Len(s)
           n == Len(t)
           st == s \o t
<1>3. /\ m \in Nat /\ n \in Nat /\ Len(st) = m + n /\ m > 0
      /\ \A i \in 1 .. m + n : st[i] = IF i <= m THEN s[i] ELSE t[i - m]
  BY <1>1, <1>2
<1> HIDE DEF m, n, st
<1>4. \A i \in 1 .. m : st[i] = s[i]
  BY <1>3
<1>5. ASSUME NEW i \in 1 .. n PROVE st[m + i] = t[i]
  <2>1. m + i \in 1 .. m + n /\ ~(m + i <= m) /\ m + i - m = i
    BY <1>3
  <2> QED
    BY <1>3, <2>1
<1>6. st # <<>>
  BY <1>3
<1> QED
  BY <1>1, <1>2, <1>4, <1>5, <1>6 DEF m, n, st

LEMMA StepsJoined ==
  ASSUME NEW S, NEW s \in Seq(S), NEW t \in Seq(S), s # <<>>, t # <<>>,
         Steps(s), Steps(t), Path!Touch(Spot(s[Len(s)]), Spot(t[1]))
  PROVE  Steps(s \o t)
<1> DEFINE m == Len(s)
           n == Len(t)
           st == s \o t
<1>1. /\ m \in Nat /\ n \in Nat /\ m > 0 /\ n > 0 /\ Len(st) = m + n
      /\ \A i \in 1 .. m : st[i] = s[i]
      /\ \A i \in 1 .. n : st[m + i] = t[i]
  BY Joined
<1>2. /\ \A i \in 1 .. m : i > 1 => Path!Touch(Spot(s[i - 1]), Spot(s[i]))
      /\ \A i \in 1 .. n : i > 1 => Path!Touch(Spot(t[i - 1]), Spot(t[i]))
      /\ Path!Touch(Spot(s[m]), Spot(t[1]))
  BY DEF Steps
<1> SUFFICES ASSUME NEW i \in 1 .. Len(st), i > 1
             PROVE  Path!Touch(Spot(st[i - 1]), Spot(st[i]))
  BY DEF Steps
<1> HIDE DEF m, n, st
<1>3. CASE i <= m
  <2>1. i \in 1 .. m /\ i - 1 \in 1 .. m
    BY <1>1, <1>3
  <2>2. st[i] = s[i] /\ st[i - 1] = s[i - 1]
    BY <1>1, <2>1
  <2> QED
    BY <1>2, <2>1, <2>2
<1>4. CASE i = m + 1
  <2>1. i - 1 = m /\ m \in 1 .. m /\ 1 \in 1 .. n
    BY <1>1, <1>4
  <2>2. st[i] = t[1] /\ st[i - 1] = s[m]
    BY <1>1, <1>4, <2>1
  <2> QED
    BY <1>2, <2>2
<1>5. CASE i > m + 1
  <2> DEFINE j == i - m
  <2>1. j \in 1 .. n /\ j - 1 \in 1 .. n /\ j > 1 /\ i = m + j /\ i - 1 = m + (j - 1)
    BY <1>1, <1>5
  <2> HIDE DEF j
  <2>2. st[i] = t[j] /\ st[i - 1] = t[j - 1]
    BY <1>1, <2>1
  <2> QED
    BY <1>2, <2>1, <2>2
<1> QED
  BY <1>1, <1>3, <1>4, <1>5

(* The snake is a chain of steps over all of the box.                      *)
RowsOf(region) ==
    [j \in 1 .. Path!Bottom(region) - Path!Top(region) + 1 |->
        Path!SnakeRow(region, Path!Top(region) + j - 1)]

Laid(region, s, i) ==
    /\ s \in Seq(Path!Points) /\ s # <<>> /\ Steps(s)
    /\ s[Len(s)] = RowsOf(region)[i][Across(region)]
    /\ \A j \in 1 .. i : \A k \in 1 .. Across(region) :
          \E m \in 1 .. Len(s) : s[m] = RowsOf(region)[j][k]

LEMMA LaidRow ==
  ASSUME NEW region \in SUBSET Path!Pixels, region # {},
         NEW i \in 1 .. Path!Bottom(region) - Path!Top(region) + 1
  PROVE  LET row == RowsOf(region)[i]
         IN  /\ i = 1 => Laid(region, row, 1)
             /\ row \in Seq(Path!Points) /\ row # <<>> /\ Steps(row)
             /\ Len(row) = Across(region) /\ Len(row) > 0
<1> DEFINE t == Path!Top(region)
           b == Path!Bottom(region)
           y == t + i - 1
           row == RowsOf(region)[i]
           n == Across(region)
<1>1. t \in Int /\ b \in Int /\ i \in Int /\ i \in 1 .. (b - t) + 1
  BY Box
<1>2. y \in t .. b
  <2> HIDE DEF t, b
  <2> QED
    BY <1>1
<1>3. row = Path!SnakeRow(region, y)
  BY DEF RowsOf
<1> HIDE DEF y, row
<1>4. row \in Seq(Path!Points) /\ Len(row) = n /\ n \in Nat /\ n > 0
  BY <1>2, <1>3, RowOf
<1>5. Steps(row)
  BY <1>2, <1>3, RowSteps
<1>6. row # <<>>
  BY <1>4
<1>7. i = 1 => Laid(region, row, 1)
  <2> SUFFICES ASSUME i = 1 PROVE Laid(region, row, 1)
    OBVIOUS
  <2>1. row = RowsOf(region)[1]
    BY DEF row
  <2>2. row[Len(row)] = RowsOf(region)[1][n]
    BY <1>4, <2>1
  <2>3. \A j \in 1 .. 1 : \A k \in 1 .. n :
           \E m \in 1 .. Len(row) : row[m] = RowsOf(region)[j][k]
    <3>1. \A j \in 1 .. 1 : j = 1
      OBVIOUS
    <3>2. \A k \in 1 .. n : k \in 1 .. Len(row) /\ row[k] = RowsOf(region)[1][k]
      BY <1>4, <2>1
    <3> QED
      BY <3>1, <3>2
  <2> QED
    BY <1>4, <1>5, <1>6, <2>2, <2>3 DEF Laid
<1> QED
  BY <1>4, <1>5, <1>6, <1>7 DEF row


LEMMA LaidMore ==
  ASSUME NEW region \in SUBSET Path!Pixels, region # {},
         NEW i \in 1 .. Path!Bottom(region) - Path!Top(region),
         NEW s, Laid(region, s, i)
  PROVE  Laid(region, s \o RowsOf(region)[i + 1], i + 1)
<1> DEFINE t == Path!Top(region)
           b == Path!Bottom(region)
           n == Across(region)
           row == RowsOf(region)[i + 1]
           st == s \o row
<1>1. t \in Int /\ b \in Int /\ i \in Int /\ i \in 1 .. b - t
  BY Box
<1>2. /\ i \in 1 .. (b - t) + 1 /\ i + 1 \in 1 .. (b - t) + 1
      /\ t + i - 1 \in t .. b /\ (t + i - 1) + 1 \in t .. b
      /\ t + (i + 1) - 1 = (t + i - 1) + 1
  <2> HIDE DEF t, b
  <2> QED
    BY <1>1
<1>3. /\ row \in Seq(Path!Points) /\ row # <<>> /\ Steps(row)
      /\ Len(row) = n /\ Len(row) > 0
  BY <1>2, LaidRow
<1>4. /\ s \in Seq(Path!Points) /\ s # <<>> /\ Steps(s)
      /\ s[Len(s)] = RowsOf(region)[i][n]
      /\ \A j \in 1 .. i : \A k \in 1 .. n :
            \E m \in 1 .. Len(s) : s[m] = RowsOf(region)[j][k]
  BY DEF Laid
<1>5. Path!Touch(Spot(s[Len(s)]), Spot(row[1]))
  <2> DEFINE y == t + i - 1
  <2>1. RowsOf(region)[i] = Path!SnakeRow(region, y)
    BY <1>2 DEF RowsOf
  <2>2. row = Path!SnakeRow(region, y + 1)
    BY <1>2 DEF RowsOf
  <2>3. y \in t .. b /\ y + 1 \in t .. b
    BY <1>2
  <2> HIDE DEF y, row
  <2>4. Path!Touch(Spot(Path!SnakeRow(region, y)[n]), Spot(Path!SnakeRow(region, y + 1)[1]))
    BY <2>3, Turns
  <2> QED
    BY <1>4, <2>1, <2>2, <2>4
<1>r. row = RowsOf(region)[i + 1]
  OBVIOUS
<1> HIDE DEF row, n
<1>6. Steps(st) /\ st \in Seq(Path!Points) /\ st # <<>>
  BY <1>3, <1>4, <1>5, StepsJoined, Joined
<1>7. /\ Len(s) \in Nat /\ Len(row) \in Nat /\ Len(st) = Len(s) + Len(row)
      /\ \A m \in 1 .. Len(s) : st[m] = s[m]
      /\ \A m \in 1 .. Len(row) : st[Len(s) + m] = row[m]
  BY <1>3, <1>4, Joined
<1> HIDE DEF st
<1>8. st[Len(st)] = RowsOf(region)[i + 1][n]
  <2>1. Len(row) \in 1 .. Len(row)
    BY <1>3, <1>7
  <2> QED
    BY <1>3, <1>7, <1>r, <2>1
<1>9. ASSUME NEW j \in 1 .. i + 1, NEW k \in 1 .. n
      PROVE  \E m \in 1 .. Len(st) : st[m] = RowsOf(region)[j][k]
  <2>1. CASE j \in 1 .. i
    <3>1. PICK m \in 1 .. Len(s) : s[m] = RowsOf(region)[j][k]
      BY <1>4, <2>1
    <3>2. m \in 1 .. Len(st) /\ st[m] = s[m]
      BY <1>7
    <3> QED
      BY <3>1, <3>2
  <2>2. CASE j = i + 1
    <3>1. k \in 1 .. Len(row)
      BY <1>3
    <3>2. Len(s) + k \in 1 .. Len(st) /\ st[Len(s) + k] = row[k]
      BY <1>7, <3>1
    <3> QED
      BY <1>r, <2>2, <3>2
  <2>3. j \in 1 .. i \/ j = i + 1
    BY <1>1
  <2> QED
    BY <2>1, <2>2, <2>3
<1> QED
  BY <1>6, <1>8, <1>9 DEF Laid, n, st, row

LEMMA SnakeLaid ==
  ASSUME NEW region \in SUBSET Path!Pixels, region # {}
  PROVE  Laid(region, Path!SnakePath(region),
              Path!Bottom(region) - Path!Top(region) + 1)
<1> DEFINE R == Path!Bottom(region) - Path!Top(region) + 1
           rows == RowsOf(region)
<1>1. R \in Nat /\ R > 0
  BY Box, PathConstants
<1> HIDE DEF R
<1>2. Len(rows) = R /\ Path!SnakePath(region) = Path!FlattenSeq(rows)
  BY <1>1 DEF RowsOf, Path!SnakePath, R
<1> HIDE DEF rows
<1>3. PICK f : f = Flat(rows, f, R) /\ Path!FlattenSeq(rows) = f[R]
  BY <1>1, <1>2, FlattenIsDefined
<1> DEFINE G == {i \in 0 .. R : i = 0 \/ Laid(region, f[i], i)}
<1>e. \A k \in 1 .. R : f[k] = IF k = 1 THEN rows[k] ELSE f[k - 1] \o rows[k]
  BY <1>3 DEF Flat
<1>4. 0 \in G
  BY <1>1
<1>5. ASSUME NEW i \in 0 .. R - 1, i \in G PROVE i + 1 \in G
  <2>1. i + 1 \in 1 .. R /\ i + 1 \in 0 .. R
    BY <1>1
  <2>2. f[i + 1] = IF i + 1 = 1 THEN rows[i + 1] ELSE f[i + 1 - 1] \o rows[i + 1]
    BY <1>e, <2>1
  <2>3. CASE i = 0
    <3>1. 1 \in 1 .. Path!Bottom(region) - Path!Top(region) + 1
      BY <1>1 DEF R
    <3>2. Laid(region, rows[1], 1)
      BY <3>1, LaidRow DEF rows
    <3>3. f[1] = rows[1] /\ 0 + 1 = 1
      BY <2>2, <2>3
    <3> QED
      BY <2>1, <2>3, <3>2, <3>3
  <2>4. CASE i # 0
    <3>1. Laid(region, f[i], i)
      BY <1>5, <2>4
    <3>2. i \in 1 .. Path!Bottom(region) - Path!Top(region)
      <4>1. /\ Path!Bottom(region) \in Int /\ Path!Top(region) \in Int
            /\ R = (Path!Bottom(region) - Path!Top(region)) + 1
        BY Box DEF R
      <4> QED
        BY <1>1, <2>4, <4>1
    <3>3. Laid(region, f[i] \o rows[i + 1], i + 1)
      BY <3>1, <3>2, LaidMore DEF rows
    <3>4. f[i + 1] = f[i] \o rows[i + 1]
      <4>1. i + 1 # 1 /\ i + 1 - 1 = i
        BY <2>4
      <4> QED
        BY <2>2, <4>1
    <3> QED
      BY <2>1, <3>3, <3>4
  <2> QED
    BY <2>3, <2>4
<1>6. \A i \in 0 .. R : i \in G
  <2> HIDE DEF G
  <2> QED
    BY <1>1, <1>4, <1>5, CountUp
<1>7. Laid(region, f[R], R)
  BY <1>1, <1>6
<1> QED
  BY <1>2, <1>3, <1>7 DEF R

(* It lights each pixel of the region.                                     *)
LEMMA Snake ==
  ASSUME NEW region \in SUBSET Path!Pixels, region # {}
  PROVE  LET path == Path!SnakePath(region)
         IN  /\ path \in Seq(Path!Points) /\ path # <<>> /\ Steps(path)
             /\ \A p \in region \cap image :
                   \E i \in 1 .. Len(path) : Spot(path[i]) = p /\ path[i].laserOn
<1> DEFINE path == Path!SnakePath(region)
           R == Path!Bottom(region) - Path!Top(region) + 1
           n == Across(region)
           l == Path!Left(region)
           r == Path!Right(region)
           t == Path!Top(region)
           b == Path!Bottom(region)
<1>1. Laid(region, path, R)
  BY SnakeLaid
<1>2. ASSUME NEW p \in region, p \in image
      PROVE  \E i \in 1 .. Len(path) : Spot(path[i]) = p /\ path[i].laserOn
  <2> DEFINE x == p[1]
             y == p[2]
             j == (y - t) + 1
             k == IF Even(region, y) THEN (x - l) + 1 ELSE (r - x) + 1
  <2>1. p = <<x, y>>
    BY DEF Path!Pixels
  <2>2. x \in l .. r /\ y \in t .. b /\ l \in Int /\ r \in Int /\ t \in Int /\ b \in Int
    BY Box
  <2>3. n = (r - l) + 1 /\ R = (b - t) + 1
    BY DEF Across
  <2>y. y \in Path!Top(region) .. Path!Bottom(region)
    BY <2>2
  <2>4. Column(region, y, k) = x
    <3> DEFINE even == Even(region, y)
    <3>1. Column(region, y, k) = IF even THEN l + k - 1 ELSE r - k + 1
      BY DEF Column
    <3>2. k = IF even THEN (x - l) + 1 ELSE (r - x) + 1
      OBVIOUS
    <3> HIDE DEF even, k, x, l, r
    <3> QED
      BY <2>2, <3>1, <3>2
  <2>5. j \in 1 .. R /\ k \in 1 .. n /\ t + j - 1 = y
    <3> DEFINE even == Even(region, y)
    <3>1. k = IF even THEN (x - l) + 1 ELSE (r - x) + 1
      OBVIOUS
    <3>2. j = (y - t) + 1
      OBVIOUS
    <3> HIDE DEF even, k, j, x, y, l, r, t, b, n, R
    <3> QED
      BY <2>2, <2>3, <3>1, <3>2
  <2> HIDE DEF k, j, x, y
  <2>6. RowsOf(region)[j] = Path!SnakeRow(region, y)
    BY <2>5 DEF RowsOf
  <2> DEFINE point == RowsOf(region)[j][k]
  <2>7. /\ point.x = x /\ point.y = y
        /\ point.laserOn <=> Spot(point) \in image
    BY <2>y, <2>4, <2>5, <2>6, RowOf
  <2>8. Spot(point) = p /\ point.laserOn
    BY <1>2, <2>1, <2>7 DEF Spot
  <2>9. \E i \in 1 .. Len(path) : path[i] = point
    BY <1>1, <2>5 DEF Laid
  <2> HIDE DEF point
  <2> QED
    BY <2>8, <2>9
<1> QED
  BY <1>1, <1>2 DEF Laid


(* What the path lights, and where the laser may be on.                    *)
Exposed(path, p) ==
    \E i \in 1 .. Len(path) : Spot(path[i]) = p /\ path[i].laserOn

Careful(path) ==
    \A i \in 1 .. Len(path) :
        i > 1 /\ path[i].laserOn => Path!Touch(Spot(path[i - 1]), Spot(path[i]))

PathInv ==
    /\ image \subseteq Path!Pixels
    /\ regions \subseteq SUBSET image /\ {} \notin regions
    /\ ordered \in Seq(regions)
    /\ \A i, j \in 1 .. Len(ordered) : ordered[i] = ordered[j] => i = j
    /\ scanned \in 0 .. Len(ordered)
    /\ pathPc \in {"extract", "plan", "path", "done"}
    /\ pathPc = "extract" => ordered = <<>>
    /\ pathPc \in {"path", "done"} => regions = {ordered[i] : i \in 1 .. Len(ordered)}
    /\ pathPc = "done" => scanned = Len(ordered)
    /\ fullPath \in Seq(Path!Points) /\ Careful(fullPath)
    /\ \A n \in 1 .. scanned : \A p \in ordered[n] : Exposed(fullPath, p)

LEMMA InitPathInv ==
  ASSUME Path!Init
  PROVE  PathInv
<1>1. PICK binary \in SUBSET Path!Pixels : Path!InitWith(binary)
  BY DEF Path!Init
<1>2. /\ image = binary /\ regions = {} /\ ordered = <<>> /\ fullPath = <<>>
      /\ scanned = 0 /\ pathPc = "extract"
  BY <1>1 DEF Path!InitWith
<1>3. \A S : <<>> \in Seq(S) /\ Len(<<>>) = 0
  OBVIOUS
<1>4. \A i \in 1 .. 0 : FALSE
  OBVIOUS
<1>5. Careful(<<>>)
  BY <1>3, <1>4 DEF Careful
<1> QED
  BY <1>1, <1>2, <1>3, <1>4, <1>5 DEF PathInv

LEMMA ExtractKeepsInv ==
  ASSUME PathInv, Path!ExtractRegions
  PROVE  PathInv'
<1>1. /\ pathPc = "extract" /\ pathPc' = "plan"
      /\ regions' = {r \in Path!Components : Path!Area(r) >= MinArea}
      /\ image' = image /\ ordered' = ordered /\ fullPath' = fullPath
      /\ scanned' = scanned
  BY DEF Path!ExtractRegions
<1>2. ordered = <<>> /\ ordered' \in Seq(regions')
  BY <1>1 DEF PathInv
<1>3. regions' \subseteq SUBSET image
  <2>1. \A r \in Path!Components : r \subseteq image
    BY ComponentInImage DEF Path!Components
  <2> QED
    BY <1>1, <2>1
<1>4. {} \notin regions'
  <2>1. Path!Area({}) = 0
    BY PathNumbers, FS_EmptySet DEF Path!Area
  <2> QED
    BY <1>1, <2>1, PathConstants
<1>5. Careful(fullPath)' /\ \A p : Exposed(fullPath, p)' <=> Exposed(fullPath, p)
  BY <1>1 DEF PathInv, Careful, Exposed
<1> QED
  BY <1>1, <1>2, <1>3, <1>4, <1>5 DEF PathInv

(* A region that is not in the order yet may be put at its end.            *)
LEMMA OrderKeepsInv ==
  ASSUME PathInv, pathPc = "plan", NEW r \in regions,
         \A i \in 1 .. Len(ordered) : ordered[i] # r,
         ordered' = Append(ordered, r),
         UNCHANGED <<image, regions, fullPath, scanned, pathPc>>
  PROVE  PathInv'
<1>1. /\ ordered \in Seq(regions) /\ Len(ordered) \in Nat
      /\ scanned \in 0 .. Len(ordered)
      /\ \A i, j \in 1 .. Len(ordered) : ordered[i] = ordered[j] => i = j
  BY DEF PathInv
<1>2. /\ ordered' \in Seq(regions) /\ Len(ordered') = Len(ordered) + 1
      /\ \A i \in 1 .. Len(ordered) : ordered'[i] = ordered[i]
      /\ ordered'[Len(ordered) + 1] = r
  BY <1>1, AppendProperties
<1>3. \A i, j \in 1 .. Len(ordered') : ordered'[i] = ordered'[j] => i = j
  <2>1. \A i \in 1 .. Len(ordered') :
           i \in 1 .. Len(ordered) \/ i = Len(ordered) + 1
    BY <1>1, <1>2
  <2> QED
    BY <1>1, <1>2, <2>1
<1>4. Careful(fullPath)' /\ \A p : Exposed(fullPath, p)' <=> Exposed(fullPath, p)
  BY DEF PathInv, Careful, Exposed
<1>5. \A n \in 1 .. scanned : n \in 1 .. Len(ordered)
  BY <1>1
<1>6. scanned' \in 0 .. Len(ordered')
  BY <1>1, <1>2
<1>7. \A n \in 1 .. scanned : \A p \in ordered'[n] : Exposed(fullPath, p)'
  BY <1>2, <1>4, <1>5 DEF PathInv
<1> QED
  BY <1>2, <1>3, <1>4, <1>6, <1>7 DEF PathInv

LEMMA InOrder ==
  ASSUME PathInv
  PROVE  /\ Path!ToSet(ordered) = {ordered[i] : i \in 1 .. Len(ordered)}
         /\ \A r : r \in Path!Unused <=>
               r \in regions /\ \A i \in 1 .. Len(ordered) : ordered[i] # r
<1>1. DOMAIN ordered = 1 .. Len(ordered)
  BY DEF PathInv
<1> QED
  BY <1>1 DEF Path!Unused, Path!ToSet

LEMMA PlanKeepsInv ==
  ASSUME PathInv, Path!FirstRegion \/ Path!NearestRegion \/ Path!Planned
  PROVE  PathInv'
<1>1. CASE Path!FirstRegion
  <2>1. /\ pathPc = "plan" /\ ordered = <<>>
        /\ UNCHANGED <<image, regions, fullPath, scanned, pathPc>>
    BY <1>1 DEF Path!FirstRegion
  <2>2. PICK r \in regions : ordered' = <<r>>
    BY <1>1 DEF Path!FirstRegion
  <2>3. /\ ordered' = Append(ordered, r)
        /\ \A i \in 1 .. Len(ordered) : ordered[i] # r
    BY <2>1, <2>2
  <2> QED
    BY <2>1, <2>3, OrderKeepsInv
<1>2. CASE Path!NearestRegion
  <2>1. /\ pathPc = "plan"
        /\ UNCHANGED <<image, regions, fullPath, scanned, pathPc>>
    BY <1>2 DEF Path!NearestRegion
  <2>2. PICK r \in Path!Unused : ordered' = Append(ordered, r)
    BY <1>2 DEF Path!NearestRegion
  <2>3. r \in regions /\ \A i \in 1 .. Len(ordered) : ordered[i] # r
    BY InOrder
  <2> QED
    BY <2>1, <2>2, <2>3, OrderKeepsInv
<1>3. CASE Path!Planned
  <2>1. /\ pathPc = "plan" /\ Path!Unused = {} /\ pathPc' = "path"
        /\ UNCHANGED <<image, regions, ordered, fullPath, scanned>>
    BY <1>3 DEF Path!Planned
  <2>2. regions = {ordered[i] : i \in 1 .. Len(ordered)}
    <3>1. \A i \in 1 .. Len(ordered) : ordered[i] \in regions
      BY DEF PathInv
    <3>2. \A r \in regions : \E i \in 1 .. Len(ordered) : ordered[i] = r
      BY <2>1, InOrder
    <3> QED
      BY <3>1, <3>2
  <2>3. Careful(fullPath)' /\ \A p : Exposed(fullPath, p)' <=> Exposed(fullPath, p)
    BY <2>1 DEF PathInv, Careful, Exposed
  <2> QED
    BY <2>1, <2>2, <2>3 DEF PathInv
<1> QED
  BY <1>1, <1>2, <1>3

LEMMA FinishKeepsInv ==
  ASSUME PathInv, Path!Finished \/ UNCHANGED pathVars
  PROVE  PathInv'
<1>1. /\ UNCHANGED <<image, regions, ordered, fullPath, scanned>>
      /\ \/ pathPc = "path" /\ pathPc' = "done" /\ scanned = Len(ordered)
         \/ pathPc' = pathPc
  BY DEF Path!Finished, pathVars
<1>2. Careful(fullPath)' /\ \A p : Exposed(fullPath, p)' <=> Exposed(fullPath, p)
  BY <1>1 DEF PathInv, Careful, Exposed
<1> QED
  BY <1>1, <1>2 DEF PathInv


LEMMA CarefulJoined ==
  ASSUME NEW S, NEW s \in Seq(S), NEW t \in Seq(S), s # <<>>, t # <<>>,
         Careful(s), Careful(t),
         t[1].laserOn => Path!Touch(Spot(s[Len(s)]), Spot(t[1]))
  PROVE  /\ Careful(s \o t)
         /\ \A p : Exposed(s, p) \/ Exposed(t, p) => Exposed(s \o t, p)
<1> DEFINE m == Len(s)
           n == Len(t)
           st == s \o t
<1>1. /\ m \in Nat /\ n \in Nat /\ m > 0 /\ n > 0 /\ Len(st) = m + n
      /\ \A i \in 1 .. m : st[i] = s[i]
      /\ \A i \in 1 .. n : st[m + i] = t[i]
  BY Joined
<1>2. /\ \A i \in 1 .. m : i > 1 /\ s[i].laserOn =>
            Path!Touch(Spot(s[i - 1]), Spot(s[i]))
      /\ \A i \in 1 .. n : i > 1 /\ t[i].laserOn =>
            Path!Touch(Spot(t[i - 1]), Spot(t[i]))
      /\ t[1].laserOn => Path!Touch(Spot(s[m]), Spot(t[1]))
  BY DEF Careful
<1>3. ASSUME NEW i \in 1 .. Len(st), i > 1, st[i].laserOn
      PROVE  Path!Touch(Spot(st[i - 1]), Spot(st[i]))
  <2> HIDE DEF m, n, st
  <2>1. CASE i <= m
    <3>1. i \in 1 .. m /\ i - 1 \in 1 .. m
      BY <1>1, <1>3, <2>1
    <3>2. st[i] = s[i] /\ st[i - 1] = s[i - 1]
      BY <1>1, <3>1
    <3> QED
      BY <1>2, <1>3, <3>1, <3>2
  <2>2. CASE i = m + 1
    <3>1. i - 1 = m /\ m \in 1 .. m /\ 1 \in 1 .. n
      BY <1>1, <2>2
    <3>2. st[i] = t[1] /\ st[i - 1] = s[m]
      BY <1>1, <2>2, <3>1
    <3> QED
      BY <1>2, <1>3, <3>2
  <2>3. CASE i > m + 1
    <3> DEFINE j == i - m
    <3>1. j \in 1 .. n /\ j - 1 \in 1 .. n /\ j > 1 /\ i = m + j /\ i - 1 = m + (j - 1)
      BY <1>1, <2>3
    <3> HIDE DEF j
    <3>2. st[i] = t[j] /\ st[i - 1] = t[j - 1]
      BY <1>1, <3>1
    <3> QED
      BY <1>2, <1>3, <3>1, <3>2
  <2> QED
    BY <1>1, <1>3, <2>1, <2>2, <2>3
<1>4. ASSUME NEW p, Exposed(s, p) PROVE Exposed(st, p)
  <2>1. PICK i \in 1 .. m : Spot(s[i]) = p /\ s[i].laserOn
    BY <1>4 DEF Exposed
  <2> HIDE DEF m, n, st
  <2>2. i \in 1 .. Len(st) /\ st[i] = s[i]
    BY <1>1
  <2> QED
    BY <2>1, <2>2 DEF Exposed
<1>5. ASSUME NEW p, Exposed(t, p) PROVE Exposed(st, p)
  <2>1. PICK i \in 1 .. n : Spot(t[i]) = p /\ t[i].laserOn
    BY <1>5 DEF Exposed
  <2> HIDE DEF m, n, st
  <2>2. m + i \in 1 .. Len(st) /\ st[m + i] = t[i]
    BY <1>1
  <2> QED
    BY <2>1, <2>2 DEF Exposed
<1> QED
  BY <1>3, <1>4, <1>5 DEF Careful

LEMMA AppendKeepsInv ==
  ASSUME PathInv, Path!AppendRegion
  PROVE  PathInv'
<1> DEFINE r == ordered[scanned + 1]
           path == Path!SnakePath(r)
           jump == [Head(path) EXCEPT !.laserOn = FALSE]
<1>1. /\ pathPc = "path" /\ scanned < Len(ordered) /\ scanned' = scanned + 1
      /\ fullPath' = fullPath \o Path!Jump(path) \o path
      /\ UNCHANGED <<image, regions, ordered, pathPc>>
  BY DEF Path!AppendRegion
<1>2. /\ ordered \in Seq(regions) /\ Len(ordered) \in Nat /\ scanned \in Nat
      /\ scanned + 1 \in 1 .. Len(ordered)
      /\ fullPath \in Seq(Path!Points) /\ Careful(fullPath)
  BY <1>1 DEF PathInv
<1>3. r \in regions
  BY <1>2
<1>4. r \in SUBSET Path!Pixels /\ r # {} /\ r \subseteq image
  BY <1>3 DEF PathInv
<1> HIDE DEF r
<1>5. /\ path \in Seq(Path!Points) /\ path # <<>> /\ Steps(path)
      /\ \A p \in r : Exposed(path, p)
  BY <1>4, Snake DEF Exposed
<1> HIDE DEF path
<1>6. Careful(path)
  BY <1>5 DEF Steps, Careful
<1>7. /\ fullPath' \in Seq(Path!Points) /\ Careful(fullPath')
      /\ \A p : Exposed(fullPath, p) \/ Exposed(path, p) => Exposed(fullPath', p)
  <2>1. CASE fullPath = <<>>
    <3>1. Path!Jump(path) = <<>>
      BY <2>1 DEF Path!Jump
    <3>2. fullPath' = path
      BY <1>1, <1>5, <2>1, <3>1
    <3>3. \A p : ~Exposed(<<>>, p)
      <4>1. Len(<<>>) = 0 /\ \A i \in 1 .. 0 : FALSE
        OBVIOUS
      <4> QED
        BY <4>1 DEF Exposed
    <3> QED
      BY <1>5, <1>6, <2>1, <3>2, <3>3
  <2>2. CASE fullPath # <<>>
    <3> DEFINE off == <<jump>>
               moved == fullPath \o off
    <3>1. Path!Jump(path) = off
      BY <1>5, <2>2 DEF Path!Jump
    <3>2. Head(path) = path[1] /\ path[1] \in Path!Points
      <4>1. Len(path) \in Nat /\ Len(path) > 0
        BY <1>5, EmptySeq, LenProperties
      <4>2. 1 \in 1 .. Len(path)
        BY <4>1
      <4> QED
        BY <1>5, <4>2, ElementOfSeq
    <3>3. /\ jump \in Path!Points /\ ~jump.laserOn
          /\ jump.x = path[1].x /\ jump.y = path[1].y
          /\ path[1].x \in Int /\ path[1].y \in Int
      <4> DEFINE q == path[1]
      <4>1. jump = [q EXCEPT !.laserOn = FALSE] /\ q \in Path!Points
        BY <3>2
      <4> HIDE DEF q, jump
      <4>2. \E x \in 0 .. ImageWidth - 1, y \in 0 .. ImageHeight - 1, on \in BOOLEAN :
                q = [x |-> x, y |-> y, laserOn |-> on]
        BY <4>1 DEF Path!Points
      <4>3. PICK x \in 0 .. ImageWidth - 1, y \in 0 .. ImageHeight - 1, on \in BOOLEAN :
                q = [x |-> x, y |-> y, laserOn |-> on]
        BY <4>2
      <4>4. jump = [x |-> x, y |-> y, laserOn |-> FALSE]
        BY <4>1, <4>3
      <4>5. jump \in Path!Points /\ ~jump.laserOn /\ jump.x = q.x /\ jump.y = q.y
        BY <4>3, <4>4 DEF Path!Points
      <4>6. q.x \in Int /\ q.y \in Int
        BY <4>3, PathConstants
      <4> QED
        BY <4>5, <4>6 DEF q
    <3> HIDE DEF jump
    <3>4. off \in Seq(Path!Points) /\ off # <<>> /\ off[1] = jump /\ Len(off) = 1
      BY <3>3
    <3>5. Careful(off)
      <4>1. \A i \in 1 .. 1 : ~(i > 1)
        OBVIOUS
      <4> QED
        BY <3>4, <4>1 DEF Careful
    <3>6. ~off[1].laserOn
      BY <3>3, <3>4
    <3> HIDE DEF off
    <3>7. /\ Careful(moved)
          /\ \A p : Exposed(fullPath, p) => Exposed(moved, p)
      BY <1>2, <2>2, <3>4, <3>5, <3>6, CarefulJoined
    <3>8. /\ moved \in Seq(Path!Points) /\ moved # <<>>
          /\ moved[Len(moved)] = jump
      <4>1. /\ moved \in Seq(Path!Points) /\ moved # <<>>
            /\ Len(moved) = Len(fullPath) + Len(off)
            /\ \A i \in 1 .. Len(off) : moved[Len(fullPath) + i] = off[i]
        <5>1. fullPath \in Seq(Path!Points)
          BY <1>2
        <5>2. off \in Seq(Path!Points) /\ off # <<>>
          BY <3>4
        <5> QED
          BY ONLY <2>2, <5>1, <5>2, Joined
      <4>2. 1 \in 1 .. Len(off)
        BY <3>4
      <4> HIDE DEF moved
      <4> QED
        BY <3>4, <4>1, <4>2
    <3>9. fullPath' = moved \o path
      BY <1>1, <3>1
    <3> HIDE DEF moved
    <3>10. Path!Touch(Spot(moved[Len(moved)]), Spot(path[1]))
      <4> DEFINE x == path[1].x
                 y == path[1].y
      <4>1. /\ Spot(moved[Len(moved)]) = <<x, y>> /\ Spot(path[1]) = <<x, y>>
            /\ x \in Int /\ y \in Int
        BY <3>3, <3>8 DEF Spot
      <4> HIDE DEF x, y
      <4>2. Path!Distance(x, x) <= 1 /\ Path!Distance(y, y) <= 1
        BY <4>1 DEF Path!Distance
      <4>3. Path!Touch(<<x, y>>, <<x, y>>)
        BY <4>2 DEF Path!Touch
      <4> QED
        BY <4>1, <4>3
    <3>11. /\ Careful(fullPath')
           /\ \A p : Exposed(moved, p) \/ Exposed(path, p) => Exposed(fullPath', p)
      BY <1>5, <1>6, <3>7, <3>8, <3>9, <3>10, CarefulJoined
    <3>12. fullPath' \in Seq(Path!Points)
      BY <1>5, <3>8, <3>9, Joined
    <3> QED
      BY <3>7, <3>11, <3>12
  <2> QED
    BY <2>1, <2>2
<1>8. \A n \in 1 .. scanned' : \A p \in ordered[n] : Exposed(fullPath', p)
  <2> SUFFICES ASSUME NEW n \in 1 .. scanned', NEW p \in ordered[n]
               PROVE  Exposed(fullPath', p)
    OBVIOUS
  <2>1. n \in 1 .. scanned \/ n = scanned + 1
    BY <1>1, <1>2
  <2>2. CASE n \in 1 .. scanned
    BY <1>7, <2>2 DEF PathInv
  <2>3. CASE n = scanned + 1
    BY <1>5, <1>7, <2>3 DEF r
  <2> QED
    BY <2>1, <2>2, <2>3
<1>9. scanned' \in 0 .. Len(ordered)
  BY <1>1, <1>2
<1>10. /\ Careful(fullPath)' /\ \A n \in 1 .. scanned' : \A p \in ordered'[n] :
            Exposed(fullPath, p)'
  BY <1>1, <1>7, <1>8 DEF Careful, Exposed
<1>11. /\ image' \subseteq Path!Pixels
       /\ regions' \subseteq SUBSET image' /\ {} \notin regions'
       /\ ordered' \in Seq(regions')
       /\ \A i, j \in 1 .. Len(ordered') : ordered'[i] = ordered'[j] => i = j
  BY <1>1 DEF PathInv
<1>12. /\ pathPc' \in {"extract", "plan", "path", "done"}
       /\ pathPc' = "extract" => ordered' = <<>>
       /\ pathPc' \in {"path", "done"} => regions' = {ordered'[i] : i \in 1 .. Len(ordered')}
       /\ pathPc' = "done" => scanned' = Len(ordered')
  BY <1>1 DEF PathInv
<1>13. /\ scanned' \in 0 .. Len(ordered') /\ fullPath' \in Seq(Path!Points)
  BY <1>1, <1>7, <1>9
<1> QED
  BY <1>10, <1>11, <1>12, <1>13 DEF PathInv

LEMMA SpecPathInv ==
  Spec => [](part = "path" => PathInv)
<1> DEFINE I == part = "path" => PathInv
<1>1. Init => I
  BY InitPathInv DEF Init
<1>2. ASSUME I, [Next]_vars PROVE I'
  <2> SUFFICES ASSUME part' = "path" PROVE PathInv'
    OBVIOUS
  <2>1. part = "path" /\ PathInv
    BY <1>2 DEF Next, vars
  <2>2. CASE UNCHANGED pathVars
    BY <2>1, <2>2, FinishKeepsInv
  <2>3. CASE Path!Next
    <3>1. CASE Path!ExtractRegions
      BY <2>1, <3>1, ExtractKeepsInv
    <3>2. CASE Path!FirstRegion \/ Path!NearestRegion \/ Path!Planned
      BY <2>1, <3>2, PlanKeepsInv
    <3>3. CASE Path!AppendRegion
      BY <2>1, <3>3, AppendKeepsInv
    <3>4. CASE Path!Finished
      BY <2>1, <3>4, FinishKeepsInv
    <3> QED
      BY <2>3, <3>1, <3>2, <3>3, <3>4 DEF Path!Next
  <2> QED
    BY <1>2, <2>1, <2>2, <2>3 DEF Next, vars
<1> QED
  BY <1>1, <1>2, PTL DEF Spec

LEMMA PathTyped ==
  ASSUME PathInv
  PROVE  Path!TypeOK
<1>1. /\ image \in SUBSET Path!Pixels /\ regions \subseteq SUBSET image
      /\ ordered \in Seq(regions) /\ Len(ordered) \in Nat
      /\ \A i, j \in 1 .. Len(ordered) : ordered[i] = ordered[j] => i = j
  BY DEF PathInv
<1>2. IsFiniteSet(regions)
  <2>1. IsFiniteSet(image)
    BY <1>1, PixelsFinite
  <2>2. IsFiniteSet(SUBSET image)
    BY <2>1, FS_SUBSET
  <2> QED
    BY <1>1, <2>2, FS_Subset
<1>3. Len(ordered) <= Path!Cardinality(regions)
  <2> DEFINE D == 1 .. Len(ordered)
  <2>1. ordered \in [D -> regions]
    BY <1>1
  <2>2. ordered \in Injection(D, regions)
    BY <1>1, <2>1 DEF Injection, IsInjective
  <2>3. Cardinality(D) <= Cardinality(regions)
    BY <1>2, <2>2, FS_Injection
  <2>4. Cardinality(D) = Len(ordered)
    <3> DEFINE n == Len(ordered)
    <3>1. n \in Nat
      BY <1>1
    <3> HIDE DEF n
    <3>2. Cardinality(1 .. n) = n
      BY <3>1, FS_Interval
    <3> QED
      BY <3>2 DEF n
  <2> QED
    BY <2>3, <2>4, PathNumbers
<1> QED
  BY <1>1, <1>3 DEF PathInv, Path!TypeOK

(* The path exposes each pixel of each region that was kept; the laser is  *)
(* on only next to where it was; each region is visited once               *)
(* (opencv_demo.cc:56-156).                                                *)
THEOREM PathIsExposed == Spec => []PathCorrect
<1>1. ASSUME PathInv PROVE Path!PathCorrect
  <2>1. DOMAIN ordered = 1 .. Len(ordered) /\ DOMAIN fullPath = 1 .. Len(fullPath)
    BY <1>1 DEF PathInv
  <2>2. \A i : Path!At(i) = Spot(fullPath[i])
    BY DEF Path!At, Spot
  <2>3. Path!KeptPixelsExposed
    <3> SUFFICES ASSUME pathPc = "done", NEW r \in regions, NEW p \in r
                 PROVE  p \in {Path!At(i) : i \in Path!Lit}
      BY DEF Path!KeptPixelsExposed
    <3>1. PICK n \in 1 .. Len(ordered) : ordered[n] = r
      BY <1>1 DEF PathInv
    <3>2. Exposed(fullPath, p)
      BY <1>1, <3>1 DEF PathInv
    <3> QED
      BY <2>1, <2>2, <3>2 DEF Exposed, Path!Lit
  <2>4. Path!NoLightOnTheWay
    <3> SUFFICES ASSUME NEW i \in Path!Lit, i > 1
                 PROVE  Path!Touch(Path!At(i - 1), Path!At(i))
      BY DEF Path!NoLightOnTheWay
    <3>1. i \in 1 .. Len(fullPath) /\ fullPath[i].laserOn
      BY <2>1 DEF Path!Lit
    <3> QED
      BY <1>1, <2>2, <3>1 DEF PathInv, Careful
  <2>5. Path!VisitsEachOnce
    BY <1>1, <2>1, InOrder DEF PathInv, Path!VisitsEachOnce, Path!IsInjective
  <2> QED
    BY <1>1, <2>3, <2>4, <2>5, PathTyped DEF Path!PathCorrect
<1>2. (part = "path" => PathInv) => PathCorrect
  BY <1>1 DEF PathCorrect
<1> QED
  BY <1>2, SpecPathInv, PTL

-----------------------------------------------------------------------------
(* The signals of the spots.                                               *)
LEMMA SpotConstants ==
  /\ FrameWidth \in Nat /\ FrameWidth > 0 /\ FrameHeight \in Nat /\ FrameHeight > 0
  /\ BlockSize \in Nat /\ BlockSize > 0 /\ BorderWidth \in Nat /\ BorderWidth > 0
  /\ MaxValue \in Nat /\ SpotFrames \in Nat /\ SpotFrames > 0 /\ Radius \in Nat
  /\ \A s \in SpotCentres : s \in Spots!Pixels
  BY ResultConstants DEF Spots!FrameAssumption, Spots!Pixels

(* Buffers are linear: a pixel has its place, and a place its pixel.       *)
LEMMA Division ==
  ASSUME NEW w \in Nat, w > 0, NEW i \in Nat
  PROVE  /\ i \div w \in Nat /\ i % w \in 0 .. w - 1
         /\ (i \div w) * w + (i % w) = i
  OBVIOUS

LEMMA Quotient ==
  ASSUME NEW w \in Nat, w > 0, NEW x \in 0 .. w - 1, NEW y \in Nat
  PROVE  /\ y * w + x \in Nat
         /\ (y * w + x) \div w = y
         /\ (y * w + x) % w = x
<1> DEFINE i == y * w + x
           q == i \div w
           r == i % w
<1>1. y * w \in Nat /\ i \in Nat
  OBVIOUS
<1>i. i = y * w + x
  OBVIOUS
<1> HIDE DEF i
<1>2. q \in Nat /\ r \in 0 .. w - 1 /\ q * w + r = i
  BY <1>1, Division
<1> HIDE DEF q, r
<1>3. \A j, k \in Nat : j < k => j * w + w <= k * w
  <2> SUFFICES ASSUME NEW j \in Nat, NEW k \in Nat, j < k PROVE j * w + w <= k * w
    OBVIOUS
  <2>1. (j + 1) * w = j * w + w
    OBVIOUS
  <2>2. \A a, b, c \in Nat : a <= b => a * c <= b * c
    OBVIOUS
  <2>3. (j + 1) * w <= k * w
    BY <2>2
  <2> QED
    BY <2>1, <2>3
<1>4. q * w \in Nat
  BY <1>2
<1>5. ~(q < y)
  <2> SUFFICES ASSUME q < y PROVE FALSE
    OBVIOUS
  <2>1. q * w + w <= y * w
    BY <1>2, <1>3
  <2> QED
    BY <1>1, <1>i, <1>2, <1>4, <2>1
<1>6. ~(y < q)
  <2> SUFFICES ASSUME y < q PROVE FALSE
    OBVIOUS
  <2>1. y * w + w <= q * w
    BY <1>2, <1>3
  <2> QED
    BY <1>1, <1>i, <1>2, <1>4, <2>1
<1>7. q = y
  BY <1>2, <1>5, <1>6
<1>8. r = x
  BY <1>1, <1>i, <1>2, <1>7
<1> QED
  BY <1>1, <1>7, <1>8 DEF i, q, r

LEMMA PixelOfCell ==
  ASSUME NEW i \in Spots!Cells
  PROVE  /\ Spots!PixelAt(i) \in Spots!Pixels
         /\ Spots!Index(Spots!PixelAt(i)) = i
         /\ i \in Nat
<1> DEFINE w == FrameWidth
           h == FrameHeight
           x == i % w
           y == i \div w
<1>1. /\ w \in Nat /\ w > 0 /\ h \in Nat /\ h > 0
      /\ Spots!PixelAt(i) = <<x, y>> /\ Spots!Cells = 0 .. w * h - 1
  BY SpotConstants DEF Spots!PixelAt, Spots!Cells
<1> HIDE DEF w, h
<1>2. w * h \in Nat /\ i \in Nat /\ i < w * h
  BY <1>1
<1>3. y \in Nat /\ x \in 0 .. w - 1 /\ y * w + x = i
  BY <1>1, <1>2, Division
<1> HIDE DEF x, y
<1>4. y < h
  <2> SUFFICES ASSUME h <= y PROVE FALSE
    BY <1>1, <1>3
  <2>1. \A a, b, c \in Nat : a <= b => a * c <= b * c
    OBVIOUS
  <2>2. h * w <= y * w /\ h * w = w * h
    BY <1>1, <1>3, <2>1
  <2> QED
    BY <1>1, <1>2, <1>3, <2>2
<1>5. <<x, y>> \in (0 .. w - 1) \X (0 .. h - 1)
  BY <1>1, <1>3, <1>4
<1>6. Spots!Index(<<x, y>>) = y * w + x
  BY DEF Spots!Index, w
<1> QED
  BY <1>1, <1>2, <1>3, <1>5, <1>6 DEF Spots!Pixels, w, h

LEMMA CellOfPixel ==
  ASSUME NEW p \in Spots!Pixels
  PROVE  /\ Spots!Index(p) \in Spots!Cells
         /\ Spots!PixelAt(Spots!Index(p)) = p
         /\ p[1] \in 0 .. FrameWidth - 1 /\ p[2] \in 0 .. FrameHeight - 1
         /\ p = <<p[1], p[2]>>
<1> DEFINE w == FrameWidth
           h == FrameHeight
           x == p[1]
           y == p[2]
           i == Spots!Index(p)
<1>1. /\ w \in Nat /\ w > 0 /\ h \in Nat /\ h > 0
      /\ x \in 0 .. w - 1 /\ y \in 0 .. h - 1 /\ p = <<x, y>>
  BY SpotConstants DEF Spots!Pixels
<1>2. i = y * w + x
  BY DEF Spots!Index
<1>3. /\ Spots!PixelAt(i) = <<i % w, i \div w>> /\ Spots!Cells = 0 .. w * h - 1
  BY DEF Spots!PixelAt, Spots!Cells
<1> HIDE DEF w, h, x, y, i
<1>4. i \in Nat /\ i \div w = y /\ i % w = x
  BY <1>1, <1>2, Quotient
<1>5. i < w * h
  <2>1. \A a, b, c \in Nat : a <= b => a * c <= b * c
    OBVIOUS
  <2>2. (y + 1) * w <= h * w
    BY <1>1, <2>1
  <2>3. (y + 1) * w = y * w + w /\ h * w = w * h /\ y * w \in Nat /\ w * h \in Nat
    BY <1>1
  <2> QED
    BY <1>1, <1>2, <2>2, <2>3
<1>6. i \in 0 .. w * h - 1
  BY <1>1, <1>4, <1>5
<1> QED
  BY <1>1, <1>3, <1>4, <1>6 DEF w, h, x, y, i

(* Each place belongs to one block of the grid.                            *)
BlockOf(i) == <<Spots!PixelAt(i)[1] \div BlockSize, Spots!PixelAt(i)[2] \div BlockSize>>

LEMMA BlocksCover ==
  ASSUME NEW size \in Nat, NEW x \in 0 .. size - 1
  PROVE  x \div BlockSize \in 0 .. Spots!NumBlocks(size) - 1
<1> DEFINE b == BlockSize
           z == size + b - 1
           q == x \div b
           n == z \div b
<1>1. b \in Nat /\ b > 0 /\ Spots!NumBlocks(size) = n
  BY SpotConstants DEF Spots!NumBlocks
<1> HIDE DEF b
<1>2. z \in Nat /\ x \in Nat /\ x + b <= z
  BY <1>1
<1> HIDE DEF z
<1>3. q \in Nat /\ x % b \in 0 .. b - 1 /\ q * b + (x % b) = x
  BY <1>1, <1>2, Division
<1>4. n \in Nat /\ z % b \in 0 .. b - 1 /\ n * b + (z % b) = z
  BY <1>1, <1>2, Division
<1> DEFINE rx == x % b
           rz == z % b
<1>5. /\ rx \in 0 .. b - 1 /\ q * b + rx = x /\ rz \in 0 .. b - 1 /\ n * b + rz = z
      /\ q \in Nat /\ n \in Nat
  BY <1>3, <1>4
<1> HIDE DEF rx, rz, q, n
<1>6. q < n
  <2> SUFFICES ASSUME n <= q PROVE FALSE
    BY <1>5
  <2>1. \A i, j, k \in Nat : i <= j => i * k <= j * k
    OBVIOUS
  <2>2. n * b <= q * b /\ n * b \in Nat /\ q * b \in Nat
    BY <1>1, <1>5, <2>1
  <2> QED
    BY <1>1, <1>2, <1>5, <2>2
<1> QED
  BY <1>1, <1>5, <1>6 DEF q, b

LEMMA BlockOfCell ==
  ASSUME NEW i \in Spots!Cells
  PROVE  /\ BlockOf(i) \in Spots!Grid
         /\ \A b \in Spots!Grid : i \in Spots!IndicesOf(b) <=> b = BlockOf(i)
<1> DEFINE p == Spots!PixelAt(i)
<1>1. /\ p \in Spots!Pixels /\ Spots!Index(p) = i
      /\ p[1] \in 0 .. FrameWidth - 1 /\ p[2] \in 0 .. FrameHeight - 1
  BY PixelOfCell, CellOfPixel
<1>2. BlockOf(i) \in Spots!Grid
  BY <1>1, BlocksCover, SpotConstants DEF BlockOf, Spots!Grid
<1>3. ASSUME NEW b \in Spots!Grid PROVE i \in Spots!IndicesOf(b) <=> b = BlockOf(i)
  <2>1. b = <<b[1], b[2]>>
    BY DEF Spots!Grid
  <2>2. \A q \in Spots!Pixels : Spots!Index(q) = i => q = p
    BY CellOfPixel
  <2>3. i \in Spots!IndicesOf(b) <=> p \in Spots!PixelsOf(b)
    BY <1>1, <2>2 DEF Spots!IndicesOf, Spots!PixelsOf
  <2>4. p \in Spots!PixelsOf(b) <=>
           p[1] \div BlockSize = b[1] /\ p[2] \div BlockSize = b[2]
    BY <1>1 DEF Spots!PixelsOf
  <2> QED
    BY <2>1, <2>3, <2>4 DEF BlockOf
<1> QED
  BY <1>2, <1>3


(* The background is the one median of the border; brightness that is      *)
(* added to the frame is added to it.                                      *)
SpotFrame == [Spots!FramePixels -> Nat]

Median(f, v) ==
    LET middle == Cardinality(Spots!Border) \div 2
    IN  /\ v \in {f[p] : p \in Spots!Border}
        /\ Cardinality({p \in Spots!Border : f[p] < v}) <= middle
        /\ Cardinality({p \in Spots!Border : f[p] <= v}) > middle

LEMMA SpotNumbers ==
  /\ \A T : Spots!Min(T) = Picture!Min(T) /\ Spots!Max(T) = Picture!Max(T)
  /\ \A T : Spots!Cardinality(T) = Cardinality(T)
  /\ \A g : Spots!SumFunction(g) = SumFunctionOnSet(g, DOMAIN g)
  /\ Spots!FramePixels = Spots!Pixels
<1>1. \A T : Spots!Min(T) = Picture!Min(T) /\ Spots!Max(T) = Picture!Max(T)
  BY DEF Spots!Min, Picture!Min, Spots!Max, Picture!Max
<1>2. \A T : Spots!Cardinality(T) = Cardinality(T)
  BY DEF Spots!Cardinality, Cardinality, Spots!IsFiniteSet, IsFiniteSet
<1>3. \A g : Spots!SumFunction(g) = SumFunctionOnSet(g, DOMAIN g)
  BY DEF Spots!SumFunction, Spots!SumFunctionOnSet, SumFunctionOnSet,
         Spots!FoldFunction,
         Spots!FoldFunctionOnSet, FoldFunctionOnSet, Spots!MapThenFoldSet,
         MapThenFoldSet
<1>4. Spots!FramePixels = Spots!Pixels
  BY DEF Spots!FramePixels, Spots!Pixels
<1> QED
  BY <1>1, <1>2, <1>3, <1>4

LEMMA BorderIs ==
  /\ Spots!Border \subseteq Spots!FramePixels /\ Spots!Border # {}
  /\ IsFiniteSet(Spots!Pixels) /\ IsFiniteSet(Spots!Border)
  /\ Cardinality(Spots!Border) \in Nat /\ Cardinality(Spots!Border) > 0
<1>1. IsFiniteSet(Spots!Pixels)
  <2>1. IsFiniteSet(0 .. FrameWidth - 1) /\ IsFiniteSet(0 .. FrameHeight - 1)
    BY SpotConstants, FS_Interval
  <2> QED
    BY <2>1, FS_Product DEF Spots!Pixels
<1>2. Spots!Border \subseteq Spots!FramePixels
  BY DEF Spots!Border
<1>3. <<0, 0>> \in Spots!Border
  BY SpotConstants DEF Spots!Border, Spots!InBorder, Spots!FramePixels
<1>4. IsFiniteSet(Spots!Border)
  BY <1>1, <1>2, SpotNumbers, FS_Subset
<1>5. Cardinality(Spots!Border) \in Nat /\ Cardinality(Spots!Border) # 0
  BY <1>3, <1>4, FS_CardinalityType, FS_EmptySet
<1> QED
  BY <1>1, <1>2, <1>3, <1>4, <1>5

LEMMA BorderParts ==
  ASSUME NEW f \in SpotFrame, NEW v \in Nat
  PROVE  /\ IsFiniteSet({p \in Spots!Border : f[p] < v})
         /\ IsFiniteSet({p \in Spots!Border : f[p] <= v})
         /\ Cardinality({p \in Spots!Border : f[p] < v}) \in Nat
         /\ Cardinality({p \in Spots!Border : f[p] <= v}) \in Nat
  BY BorderIs, FS_Subset, FS_CardinalityType

LEMMA MedianIsOne ==
  ASSUME NEW f \in SpotFrame, NEW u, NEW v, Median(f, u), Median(f, v)
  PROVE  u = v
<1>1. \A p \in Spots!Border : f[p] \in Nat
  BY BorderIs DEF SpotFrame
<1>2. u \in Nat /\ v \in Nat
  BY <1>1 DEF Median
<1>3. ASSUME NEW a \in Nat, NEW b \in Nat, Median(f, a), Median(f, b), a < b
      PROVE  FALSE
  <2> DEFINE A == {p \in Spots!Border : f[p] <= a}
             B == {p \in Spots!Border : f[p] < b}
             m == Cardinality(Spots!Border) \div 2
  <2>1. A \subseteq B
    BY <1>1, <1>3
  <2>2. Cardinality(A) <= Cardinality(B)
    <3>1. IsFiniteSet(B)
      BY BorderParts
    <3> HIDE DEF A, B
    <3> QED
      BY <2>1, <3>1, FS_Subset
  <2>3. Cardinality(A) > m /\ Cardinality(B) <= m
    BY <1>3 DEF Median
  <2>4. Cardinality(A) \in Nat /\ Cardinality(B) \in Nat /\ m \in Nat
    <3>1. \A n \in Nat : n \div 2 \in Nat
      OBVIOUS
    <3>2. m \in Nat
      BY <3>1, BorderIs
    <3>3. Cardinality(A) \in Nat /\ Cardinality(B) \in Nat
      BY BorderParts
    <3> QED
      BY <3>2, <3>3
  <2> HIDE DEF A, B, m
  <2> QED
    BY <2>2, <2>3, <2>4
<1> QED
  BY <1>2, <1>3

LEMMA MedianExists ==
  ASSUME NEW f \in SpotFrame
  PROVE  \E v : Median(f, v)
<1> DEFINE V == {f[p] : p \in Spots!Border}
           m == Cardinality(Spots!Border) \div 2
           Above(v) == Cardinality({p \in Spots!Border : f[p] <= v}) > m
           H == {v \in V : Above(v)}
<1>1. \A p \in Spots!Border : f[p] \in Nat
  BY BorderIs DEF SpotFrame
<1>2. V \subseteq Nat /\ V # {} /\ \A v \in V : v \in Nat
  BY <1>1, BorderIs
<1>3. IsFiniteSet(V)
  <2> DEFINE g == [p \in Spots!Border |-> f[p]]
  <2>1. g \in Surjection(Spots!Border, V)
    BY DEF Surjection
  <2> HIDE DEF g, V
  <2> QED
    BY <2>1, BorderIs, FS_Surjection
<1>4. m \in Nat /\ Cardinality(Spots!Border) > m
  <2> DEFINE c == Cardinality(Spots!Border)
  <2>1. c \in Nat /\ c > 0
    BY BorderIs
  <2> HIDE DEF c
  <2>2. c \div 2 \in Nat /\ c > c \div 2
    BY <2>1
  <2> QED
    BY <2>2 DEF c
<1>5. H # {}
  <2> DEFINE t == Picture!Max(V)
  <2>1. t \in V /\ \A y \in V : t >= y
    <3> HIDE DEF V
    <3> QED
      BY <1>2, <1>3, Extremes
  <2> HIDE DEF t
  <2>2. {p \in Spots!Border : f[p] <= t} = Spots!Border
    BY <1>1, <1>2, <2>1
  <2>3. Above(t)
    BY <1>4, <2>2
  <2> QED
    BY <2>1, <2>3
<1>6. IsFiniteSet(H) /\ H \subseteq Nat
  <2> HIDE DEF V, Above
  <2> QED
    BY <1>2, <1>3, FS_Subset
<1> DEFINE v == Picture!Min(H)
<1>7. v \in H /\ \A y \in H : v <= y
  <2> HIDE DEF H
  <2> QED
    BY <1>5, <1>6, Extremes
<1> HIDE DEF v
<1>8. v \in V /\ v \in Nat /\ Above(v)
  BY <1>2, <1>7
<1> DEFINE L == {p \in Spots!Border : f[p] < v}
<1>9. Cardinality(L) <= m
  <2>1. CASE L = {}
    BY <1>4, <2>1, FS_EmptySet
  <2>2. CASE L # {}
    <3> DEFINE U == {u \in V : u < v}
               u == Picture!Max(U)
    <3>1. U # {} /\ U \subseteq Nat
      BY <1>2, <2>2
    <3>2. IsFiniteSet(U)
      <4> HIDE DEF V
      <4> QED
        BY <1>3, FS_Subset
    <3>3. u \in U /\ \A y \in U : u >= y
      <4> HIDE DEF U
      <4> QED
        BY <3>1, <3>2, Extremes
    <3> HIDE DEF u
    <3>4. u \in V /\ u < v /\ u \in Nat
      BY <1>2, <3>3
    <3>5. L = {p \in Spots!Border : f[p] <= u}
      BY <1>1, <1>8, <3>3, <3>4
    <3>6. ~Above(u)
      <4>1. u \notin H
        <5> HIDE DEF H, V
        <5> QED
          BY <1>7, <1>8, <3>4
      <4> HIDE DEF V
      <4> QED
        BY <3>4, <4>1
    <3>7. Cardinality(L) \in Nat
      BY <1>8, BorderParts
    <3> HIDE DEF L, m
    <3> QED
      BY <1>4, <3>5, <3>6, <3>7
  <2> QED
    BY <2>1, <2>2
<1>10. Median(f, v)
  BY <1>8, <1>9 DEF Median
<1> QED
  BY <1>10

LEMMA BackgroundIsMedian ==
  ASSUME NEW f \in SpotFrame
  PROVE  Median(f, Spots!Background(f)) /\ Spots!Background(f) \in Nat
<1>1. Spots!Background(f) = CHOOSE v : Median(f, v)
  <2>1. Spots!Background(f) =
          LET middle == Cardinality(Spots!Border) \div 2
          IN  CHOOSE v \in {f[p] : p \in Spots!Border} :
                 /\ Cardinality({p \in Spots!Border : f[p] < v}) <= middle
                 /\ Cardinality({p \in Spots!Border : f[p] <= v}) > middle
    BY BorderIs, SpotNumbers DEF Spots!Background
  <2> QED
    BY <2>1 DEF Median
<1>2. Median(f, Spots!Background(f))
  BY <1>1, MedianExists
<1>3. \A p \in Spots!Border : f[p] \in Nat
  BY BorderIs DEF SpotFrame
<1> QED
  BY <1>2, <1>3 DEF Median

LEMMA BackgroundBrighter ==
  ASSUME NEW f \in SpotFrame, NEW g \in SpotFrame, NEW c \in Nat,
         \A p \in Spots!FramePixels : g[p] = f[p] + c
  PROVE  Spots!Background(g) = Spots!Background(f) + c
<1> DEFINE v == Spots!Background(f)
<1>1. Median(f, v) /\ v \in Nat
  BY BackgroundIsMedian
<1> HIDE DEF v
<1>2. \A p \in Spots!Border : f[p] \in Nat /\ g[p] = f[p] + c
  BY BorderIs DEF SpotFrame
<1>3. /\ {p \in Spots!Border : g[p] < v + c} = {p \in Spots!Border : f[p] < v}
      /\ {p \in Spots!Border : g[p] <= v + c} = {p \in Spots!Border : f[p] <= v}
  BY <1>1, <1>2
<1>4. v + c \in {g[p] : p \in Spots!Border}
  <2>1. PICK p \in Spots!Border : f[p] = v
    BY <1>1 DEF Median
  <2> QED
    BY <1>2, <2>1
<1>5. Median(g, v + c)
  BY <1>1, <1>3, <1>4 DEF Median
<1>6. Median(g, Spots!Background(g))
  BY BackgroundIsMedian
<1>7. Spots!Background(g) = v + c
  BY <1>5, <1>6, MedianIsOne
<1> QED
  BY <1>7 DEF v


(* A sum does not change when its terms are renamed.                       *)
LEMMA SumRenamed ==
  ASSUME NEW T, IsFiniteSet(T), NEW U, IsFiniteSet(U),
         NEW g \in [T -> Int], NEW h \in [U -> Int], NEW b \in [T -> U],
         \A x, y \in T : b[x] = b[y] => x = y,
         \A x \in T : g[x] = h[b[x]]
  PROVE  \A S \in SUBSET T :
            SumFunctionOnSet(g, S) = SumFunctionOnSet(h, {b[x] : x \in S})
<1> DEFINE Image(S) == {b[x] : x \in S}
           G == {S \in SUBSET T : SumFunctionOnSet(g, S) = SumFunctionOnSet(h, Image(S))}
<1>1. ASSUME NEW S \in SUBSET T, \A R \in SUBSET S : R # S => R \in G
      PROVE  S \in G
  <2>1. CASE S = {}
    <3>1. Image(S) = {}
      BY <2>1
    <3> HIDE DEF Image
    <3>2. SumFunctionOnSet(g, S) = 0 /\ SumFunctionOnSet(h, Image(S)) = 0
      BY <2>1, <3>1, SumNothing
    <3> QED
      BY <3>2
  <2>2. CASE S # {}
    <3>1. /\ Chosen(S) \in S /\ Rest(S) \in SUBSET S /\ Rest(S) # S
          /\ Rest(S) = S \ {Chosen(S)}
      BY <2>2 DEF Chosen, Rest
    <3> DEFINE x == Chosen(S)
    <3>2. SumFunctionOnSet(g, S) = g[x] + SumFunctionOnSet(g, Rest(S))
      BY <2>2, SumEquation
    <3>3. Image(S) \in SUBSET U /\ b[x] \in Image(S)
      BY <3>1
    <3>4. Image(Rest(S)) = Image(S) \ {b[x]}
      BY <3>1
    <3> HIDE DEF Image, x
    <3>5. SumFunctionOnSet(h, Image(S))
             = h[b[x]] + SumFunctionOnSet(h, Image(S) \ {b[x]})
      BY <3>3, SumTake
    <3>6. SumFunctionOnSet(g, Rest(S)) = SumFunctionOnSet(h, Image(Rest(S)))
      BY <1>1, <3>1
    <3>7. g[x] = h[b[x]]
      BY <3>1 DEF x
    <3> QED
      BY <3>2, <3>4, <3>5, <3>6, <3>7
  <2> QED
    BY <2>1, <2>2
<1> HIDE DEF G
<1>2. \A S \in SUBSET T : S \in G
  BY <1>1, SubsetInduction
<1> QED
  BY <1>2 DEF G, Image

(* The weights of the kernel sum up to sixteen.                            *)
KernelOf == [d \in Spots!Offsets |-> Spots!KernelWeight(d[1], d[2])]

LEMMA Kernel ==
  ASSUME NEW d \in Spots!Offsets
  PROVE  /\ d[1] \in -1 .. 1 /\ d[2] \in -1 .. 1 /\ d = <<d[1], d[2]>>
         /\ KernelOf[d] = (2 - d[1] * d[1]) * (2 - d[2] * d[2])
         /\ KernelOf[d] = Spots!KernelWeight(d[1], d[2])
         /\ KernelOf[d] \in {1, 2, 4}
<1>1. d[1] \in -1 .. 1 /\ d[2] \in -1 .. 1 /\ d = <<d[1], d[2]>>
  BY DEF Spots!Offsets
<1>2. KernelOf[d] = Spots!KernelWeight(d[1], d[2])
  BY DEF KernelOf
<1> DEFINE x == d[1]
           y == d[2]
<1>3. x \in {-1, 0, 1} /\ y \in {-1, 0, 1}
  BY <1>1
<1> HIDE DEF x, y
<1>4. /\ Spots!KernelWeight(x, y) \in {1, 2, 4}
      /\ Spots!KernelWeight(x, y) = (2 - x * x) * (2 - y * y)
  <2>1. CASE x = 0
    BY <1>3, <2>1 DEF Spots!KernelWeight
  <2>2. CASE x = 1
    BY <1>3, <2>2 DEF Spots!KernelWeight
  <2>3. CASE x = -1
    BY <1>3, <2>3 DEF Spots!KernelWeight
  <2> QED
    BY <1>3, <2>1, <2>2, <2>3
<1> QED
  BY <1>1, <1>2, <1>4 DEF x, y

LEMMA OffsetsFinite ==
  IsFiniteSet(Spots!Offsets) /\ KernelOf \in [Spots!Offsets -> Int]
<1> DEFINE a == -1
<1>0. a \in Int /\ 1 \in Int
  OBVIOUS
<1> HIDE DEF a
<1>1. IsFiniteSet(a .. 1)
  BY <1>0, FS_Interval
<1>2. IsFiniteSet(Spots!Offsets)
  BY <1>1, FS_Product DEF Spots!Offsets, a
<1>3. \A d \in Spots!Offsets : KernelOf[d] \in Int
  BY Kernel
<1> QED
  BY <1>2, <1>3 DEF KernelOf

LEMMA KernelSum ==
  SumFunctionOnSet(KernelOf, Spots!Offsets) = 16
<1> DEFINE O == Spots!Offsets
           D(x, y) == <<x, y>>
           S1 == {} \cup {D(-1, -1)}
           S2 == S1 \cup {D(0, -1)}
           S3 == S2 \cup {D(1, -1)}
           S4 == S3 \cup {D(-1, 0)}
           S5 == S4 \cup {D(0, 0)}
           S6 == S5 \cup {D(1, 0)}
           S7 == S6 \cup {D(-1, 1)}
           S8 == S7 \cup {D(0, 1)}
           S9 == S8 \cup {D(1, 1)}
           Sum(S) == SumFunctionOnSet(KernelOf, S)
<1>1. \A x, y \in -1 .. 1 : D(x, y) \in O
  BY DEF Spots!Offsets
<1>2. O = S9
  <2>1. \A d \in O : d[1] \in {-1, 0, 1} /\ d[2] \in {-1, 0, 1} /\ d = <<d[1], d[2]>>
    BY Kernel
  <2>2. O \subseteq S9
    BY <2>1
  <2> QED
    BY <1>1, <2>2
<1>3. \A x, y \in -1 .. 1 : KernelOf[D(x, y)] = (2 - x * x) * (2 - y * y)
  BY <1>1, Kernel
<1>4. /\ KernelOf[D(-1, -1)] = 1 /\ KernelOf[D(0, -1)] = 2 /\ KernelOf[D(1, -1)] = 1
      /\ KernelOf[D(-1, 0)] = 2 /\ KernelOf[D(0, 0)] = 4 /\ KernelOf[D(1, 0)] = 2
      /\ KernelOf[D(-1, 1)] = 1 /\ KernelOf[D(0, 1)] = 2 /\ KernelOf[D(1, 1)] = 1
  BY <1>3
<1>5. /\ D(0, -1) \notin S1 /\ D(1, -1) \notin S2 /\ D(-1, 0) \notin S3
      /\ D(0, 0) \notin S4 /\ D(1, 0) \notin S5 /\ D(-1, 1) \notin S6
      /\ D(0, 1) \notin S7 /\ D(1, 1) \notin S8
  OBVIOUS
<1>6. /\ S1 \in SUBSET O /\ S2 \in SUBSET O /\ S3 \in SUBSET O /\ S4 \in SUBSET O
      /\ S5 \in SUBSET O /\ S6 \in SUBSET O /\ S7 \in SUBSET O /\ S8 \in SUBSET O
  BY <1>1
<1>7. /\ D(-1, -1) \in O /\ D(0, -1) \in O /\ D(1, -1) \in O /\ D(-1, 0) \in O
      /\ D(0, 0) \in O /\ D(1, 0) \in O /\ D(-1, 1) \in O /\ D(0, 1) \in O
      /\ D(1, 1) \in O
  BY <1>1
<1>8. ASSUME NEW S \in SUBSET O, NEW d \in O, d \notin S
      PROVE  Sum(S \cup {d}) = Sum(S) + KernelOf[d]
  <2> HIDE DEF O, D
  <2>1. IsFiniteSet(O) /\ KernelOf \in [O -> Int]
    BY OffsetsFinite DEF O
  <2> QED
    BY <1>8, <2>1, SumAdd
<1>9. Sum({}) = 0
  BY SumNothing
<1> HIDE DEF O, Sum
<1>10. {} \in SUBSET O /\ D(-1, -1) \notin {}
  OBVIOUS
<1>11. Sum(S1) = 1
  BY <1>4, <1>7, <1>8, <1>9, <1>10
<1> HIDE DEF S1
<1>12. Sum(S2) = 3
  BY <1>4, <1>5, <1>6, <1>7, <1>8, <1>11
<1> HIDE DEF S2
<1>13. Sum(S3) = 4
  BY <1>4, <1>5, <1>6, <1>7, <1>8, <1>12
<1> HIDE DEF S3
<1>14. Sum(S4) = 6
  BY <1>4, <1>5, <1>6, <1>7, <1>8, <1>13
<1> HIDE DEF S4
<1>15. Sum(S5) = 10
  BY <1>4, <1>5, <1>6, <1>7, <1>8, <1>14
<1> HIDE DEF S5
<1>16. Sum(S6) = 12
  BY <1>4, <1>5, <1>6, <1>7, <1>8, <1>15
<1> HIDE DEF S6
<1>17. Sum(S7) = 13
  BY <1>4, <1>5, <1>6, <1>7, <1>8, <1>16
<1> HIDE DEF S7
<1>18. Sum(S8) = 15
  BY <1>4, <1>5, <1>6, <1>7, <1>8, <1>17
<1> HIDE DEF S8
<1>19. Sum(S9) = 16
  BY <1>4, <1>5, <1>6, <1>7, <1>8, <1>18
<1> QED
  BY <1>2, <1>19 DEF O, Sum

(* The blur of a pixel inside: the terms of the kernel are those of its    *)
(* neighbours.                                                             *)
NeighbourOf(p) == [d \in Spots!Offsets |-> <<p[1] + d[1], p[2] + d[2]>>]

LEMMA Neighbours ==
  ASSUME NEW p \in Spots!Pixels, Spots!Inner(p)
  PROVE  /\ NeighbourOf(p) \in [Spots!Offsets -> Spots!Around(p)]
         /\ \A d, e \in Spots!Offsets : NeighbourOf(p)[d] = NeighbourOf(p)[e] => d = e
         /\ {NeighbourOf(p)[d] : d \in Spots!Offsets} = Spots!Around(p)
         /\ \A d \in Spots!Offsets :
              /\ Spots!Index(NeighbourOf(p)[d]) = (p[2] + d[2]) * FrameWidth + p[1] + d[1]
              /\ NeighbourOf(p)[d][1] - p[1] = d[1]
              /\ NeighbourOf(p)[d][2] - p[2] = d[2]
<1> DEFINE N == NeighbourOf(p)
           x == p[1]
           y == p[2]
<1>1. /\ x \in 0 .. FrameWidth - 1 /\ y \in 0 .. FrameHeight - 1
      /\ x >= 1 /\ x < FrameWidth - 1 /\ y >= 1 /\ y < FrameHeight - 1
      /\ FrameWidth \in Nat /\ FrameHeight \in Nat
  BY CellOfPixel, SpotConstants DEF Spots!Inner
<1>2. ASSUME NEW d \in Spots!Offsets
      PROVE  /\ d[1] \in -1 .. 1 /\ d[2] \in -1 .. 1 /\ d = <<d[1], d[2]>>
             /\ N[d] = <<x + d[1], y + d[2]>>
  BY Kernel DEF NeighbourOf
<1>3. ASSUME NEW d \in Spots!Offsets
      PROVE  /\ N[d] \in Spots!Around(p)
             /\ Spots!Index(N[d]) = (y + d[2]) * FrameWidth + x + d[1]
             /\ N[d][1] - x = d[1] /\ N[d][2] - y = d[2]
  <2> DEFINE u == d[1]
             v == d[2]
  <2>1. u \in -1 .. 1 /\ v \in -1 .. 1 /\ N[d] = <<x + u, y + v>>
    BY <1>2
  <2> HIDE DEF u, v
  <2>2. x + u \in 0 .. FrameWidth - 1 /\ y + v \in 0 .. FrameHeight - 1
    BY <1>1, <2>1
  <2>3. N[d] \in Spots!Pixels
    BY <2>1, <2>2 DEF Spots!Pixels
  <2>4. N[d][1] - x = u /\ N[d][2] - y = v
    BY <1>1, <2>1
  <2>5. N[d] \in Spots!Around(p)
    BY <2>1, <2>3, <2>4 DEF Spots!Around
  <2>6. Spots!Index(N[d]) = (y + v) * FrameWidth + (x + u)
    BY <2>1 DEF Spots!Index
  <2>7. (y + v) * FrameWidth + (x + u) = (y + v) * FrameWidth + x + u
    <3>1. (y + v) * FrameWidth \in Int
      BY <1>1, <2>1
    <3> DEFINE z == (y + v) * FrameWidth
    <3>2. z \in Int
      BY <3>1
    <3> HIDE DEF z
    <3>3. z + (x + u) = z + x + u
      BY <1>1, <2>1, <3>2
    <3> QED
      BY <3>3 DEF z
  <2> QED
    BY <2>4, <2>5, <2>6, <2>7 DEF u, v
<1>4. \A d, e \in Spots!Offsets : N[d] = N[e] => d = e
  <2> SUFFICES ASSUME NEW d \in Spots!Offsets, NEW e \in Spots!Offsets, N[d] = N[e]
               PROVE  d = e
    OBVIOUS
  <2>1. d[1] = e[1] /\ d[2] = e[2]
    BY <1>3
  <2> QED
    BY <1>2, <2>1
<1>5. Spots!Around(p) \subseteq {N[d] : d \in Spots!Offsets}
  <2> SUFFICES ASSUME NEW q \in Spots!Around(p) PROVE \E d \in Spots!Offsets : q = N[d]
    OBVIOUS
  <2>1. /\ q \in Spots!Pixels /\ q[1] - x \in -1 .. 1 /\ q[2] - y \in -1 .. 1
    BY DEF Spots!Around
  <2>2. q[1] \in Int /\ q[2] \in Int /\ q = <<q[1], q[2]>>
    BY <2>1, CellOfPixel
  <2> DEFINE d == <<q[1] - x, q[2] - y>>
  <2>3. d \in Spots!Offsets
    BY <2>1 DEF Spots!Offsets
  <2>4. x + (q[1] - x) = q[1] /\ y + (q[2] - y) = q[2]
    BY <1>1, <2>2
  <2>5. N[d] = q
    BY <1>2, <2>2, <2>3, <2>4
  <2> QED
    BY <2>3, <2>5
<1>6. N \in [Spots!Offsets -> Spots!Around(p)]
  BY <1>3 DEF NeighbourOf
<1> QED
  BY <1>3, <1>4, <1>5, <1>6

LEMMA CleanType ==
  ASSUME NEW f \in SpotFrame, NEW p \in Spots!Pixels
  PROVE  Spots!Clean(f, p) \in Nat /\ Spots!Clean(f, p) <= f[p] /\ f[p] \in Nat
<1>1. f[p] \in Nat /\ Spots!Background(f) \in Nat
  BY SpotNumbers, BackgroundIsMedian DEF SpotFrame
<1> QED
  BY <1>1 DEF Spots!Clean, Spots!Ramp

LEMMA AroundFinite ==
  ASSUME NEW p \in Spots!Pixels
  PROVE  Spots!Around(p) \subseteq Spots!Pixels /\ IsFiniteSet(Spots!Around(p))
<1>1. Spots!Around(p) \subseteq Spots!Pixels
  BY DEF Spots!Around
<1> QED
  BY <1>1, BorderIs, FS_Subset

(* The blur as a sum over the places of the kernel.                        *)
Weighted(f, p) == [d \in Spots!Offsets |-> KernelOf[d] * Spots!Clean(f, NeighbourOf(p)[d])]

LEMMA WeightedType ==
  ASSUME NEW f \in SpotFrame, NEW p \in Spots!Pixels, Spots!Inner(p)
  PROVE  /\ Weighted(f, p) \in [Spots!Offsets -> Int]
         /\ \A d \in Spots!Offsets :
              /\ Weighted(f, p)[d] = KernelOf[d] * Spots!Clean(f, NeighbourOf(p)[d])
              /\ Spots!Clean(f, NeighbourOf(p)[d]) \in Nat
              /\ NeighbourOf(p)[d] \in Spots!Pixels
              /\ KernelOf[d] \in Nat
<1>1. ASSUME NEW d \in Spots!Offsets
      PROVE  /\ NeighbourOf(p)[d] \in Spots!Pixels
             /\ Spots!Clean(f, NeighbourOf(p)[d]) \in Nat
             /\ KernelOf[d] \in Nat
  <2>1. NeighbourOf(p)[d] \in Spots!Pixels
    BY Neighbours, AroundFinite
  <2>2. KernelOf[d] \in Nat
    BY Kernel
  <2> QED
    BY <2>1, <2>2, CleanType
<1>2. \A d \in Spots!Offsets : KernelOf[d] * Spots!Clean(f, NeighbourOf(p)[d]) \in Int
  <2>1. \A a, b \in Nat : a * b \in Int
    OBVIOUS
  <2> QED
    BY <1>1, <2>1
<1> QED
  BY <1>1, <1>2 DEF Weighted

LEMMA SmoothOverOffsets ==
  ASSUME NEW f \in SpotFrame, NEW p \in Spots!Pixels
  PROVE  Spots!Smooth(f, p) =
            IF Spots!Inner(p) THEN SumFunctionOnSet(Weighted(f, p), Spots!Offsets)
            ELSE 16 * Spots!Clean(f, p)
<1>1. CASE ~Spots!Inner(p)
  BY <1>1 DEF Spots!Smooth
<1>2. CASE Spots!Inner(p)
  <2> DEFINE A == Spots!Around(p)
             T == Spots!Offsets
             b == NeighbourOf(p)
             g == Weighted(f, p)
             h == [q \in A |-> LET dx == q[1] - p[1] dy == q[2] - p[2]
                               IN  (2 - dx * dx) * (2 - dy * dy) * Spots!Clean(f, q)]
  <2>1. Spots!Smooth(f, p) = SumFunctionOnSet(h, A)
    <3>1. Spots!Smooth(f, p) = Spots!SumFunction(h)
      BY <1>2 DEF Spots!Smooth
    <3> QED
      BY <3>1, SpotNumbers
  <2>2. /\ b \in [T -> A] /\ \A d, e \in T : b[d] = b[e] => d = e
        /\ {b[d] : d \in T} = A
    BY <1>2, Neighbours
  <2>3. g \in [T -> Int] /\ IsFiniteSet(T) /\ IsFiniteSet(A)
    BY <1>2, WeightedType, OffsetsFinite, AroundFinite
  <2>4. ASSUME NEW d \in T
        PROVE  g[d] = h[b[d]]
    <3>1. b[d] \in A /\ b[d][1] - p[1] = d[1] /\ b[d][2] - p[2] = d[2]
      BY <1>2, <2>2, Neighbours
    <3>2. h[b[d]] = (2 - d[1] * d[1]) * (2 - d[2] * d[2]) * Spots!Clean(f, b[d])
      BY <3>1
    <3> HIDE DEF h
    <3> QED
      BY <1>2, <3>2, Kernel, WeightedType
  <2>5. h \in [A -> Int]
    <3>1. ASSUME NEW q \in A PROVE h[q] \in Int
      <4>1. PICK d \in T : b[d] = q
        BY <2>2
      <4> HIDE DEF g, h, b
      <4>2. g[d] \in Int
        BY <2>3
      <4> QED
        BY <2>4, <4>1, <4>2
    <3> QED
      BY <3>1
  <2> HIDE DEF A, T, b, g, h
  <2>6. SumFunctionOnSet(g, T) = SumFunctionOnSet(h, {b[d] : d \in T})
    BY <2>2, <2>3, <2>4, <2>5, SumRenamed
  <2> QED
    BY <1>2, <2>1, <2>2, <2>6 DEF g, T
<1> QED
  BY <1>1, <1>2

(* What the thread of a pixel writes is its blur, when the buffer it reads *)
(* holds what the first kernel is to write.                                *)
IsClean(buffer, f) ==
    /\ DOMAIN buffer = Spots!Cells
    /\ \A i \in Spots!Cells : buffer[i] = Spots!Clean(f, Spots!PixelAt(i))

LEMMA BlurredIsSmooth ==
  ASSUME NEW f \in SpotFrame, NEW p \in Spots!Pixels, NEW buffer, IsClean(buffer, f)
  PROVE  Spots!Blurred(buffer, p) = Spots!Smooth(f, p)
<1>1. ASSUME NEW q \in Spots!Pixels
      PROVE  buffer[Spots!Index(q)] = Spots!Clean(f, q)
  BY CellOfPixel DEF IsClean
<1>2. CASE ~Spots!Inner(p)
  BY <1>1, <1>2 DEF Spots!Blurred, Spots!Smooth
<1>3. CASE Spots!Inner(p)
  <2> DEFINE k == [d \in Spots!Offsets |->
                     buffer[(p[2] + d[2]) * FrameWidth + p[1] + d[1]]
                       * Spots!KernelWeight(d[1], d[2])]
  <2>1. Spots!Blurred(buffer, p) = SumFunctionOnSet(k, Spots!Offsets)
    <3>1. Spots!Blurred(buffer, p) = Spots!SumFunction(k)
      BY <1>3 DEF Spots!Blurred
    <3> QED
      BY <3>1, SpotNumbers
  <2>2. ASSUME NEW d \in Spots!Offsets
        PROVE  k[d] = Weighted(f, p)[d]
    <3> DEFINE q == NeighbourOf(p)[d]
    <3>1. q \in Spots!Pixels
          /\ Spots!Index(q) = (p[2] + d[2]) * FrameWidth + p[1] + d[1]
      BY <1>3, WeightedType, Neighbours
    <3>2. k[d] = Spots!Clean(f, q) * KernelOf[d]
      BY <1>1, <3>1, Kernel
    <3>3. Weighted(f, p)[d] = KernelOf[d] * Spots!Clean(f, q)
          /\ Spots!Clean(f, q) \in Nat /\ KernelOf[d] \in Nat
      BY <1>3, WeightedType
    <3> HIDE DEF q, k
    <3> QED
      BY <3>2, <3>3
  <2>3. k = Weighted(f, p)
    BY <2>2 DEF Weighted
  <2> QED
    BY <1>3, <2>1, <2>3, SmoothOverOffsets
<1> QED
  BY <1>2, <1>3

(* The blur lies between the least and the greatest value around.          *)
LEMMA SmoothBetween ==
  ASSUME NEW f \in SpotFrame, NEW p \in Spots!Pixels, NEW a \in Nat, NEW b \in Nat,
         \A q \in Spots!Pixels : a <= Spots!Clean(f, q) /\ Spots!Clean(f, q) <= b
  PROVE  /\ Spots!Smooth(f, p) \in Nat
         /\ 16 * a <= Spots!Smooth(f, p) /\ Spots!Smooth(f, p) <= 16 * b
<1>1. CASE ~Spots!Inner(p)
  <2>1. Spots!Smooth(f, p) = 16 * Spots!Clean(f, p) /\ Spots!Clean(f, p) \in Nat
    BY <1>1, SmoothOverOffsets, CleanType
  <2> DEFINE c == Spots!Clean(f, p)
  <2>2. a <= c /\ c <= b /\ c \in Nat
    BY <2>1
  <2> HIDE DEF c
  <2>3. 16 * c \in Nat /\ 16 * a <= 16 * c /\ 16 * c <= 16 * b
    BY <2>2
  <2> QED
    BY <2>1, <2>3 DEF c
<1>2. CASE Spots!Inner(p)
  <2> DEFINE T == Spots!Offsets
             g == Weighted(f, p)
             S(h) == SumFunctionOnSet(h, T)
             Times16(n) == [d \in T |-> n * KernelOf[d]]
  <2>1. Spots!Smooth(f, p) = S(g)
    BY <1>2, SmoothOverOffsets
  <2>2. IsFiniteSet(T) /\ g \in [T -> Int] /\ KernelOf \in [T -> Int]
    BY <1>2, WeightedType, OffsetsFinite
  <2>3. ASSUME NEW n \in Nat
        PROVE  Times16(n) \in [T -> Int] /\ S(Times16(n)) = 16 * n
    <3>1. n \in Int
      OBVIOUS
    <3>2. Times16(n) \in [T -> Int]
      <4>1. \A d \in T : KernelOf[d] \in Int
        BY <2>2
      <4>2. \A d \in T : n * KernelOf[d] \in Int
        BY <3>1, <4>1
      <4> QED
        BY <4>2
    <3>3. S(Times16(n)) = n * S(KernelOf)
      BY <2>2, <3>1, SumScale
    <3>4. S(KernelOf) = 16
      BY KernelSum
    <3> HIDE DEF S, Times16
    <3> QED
      BY <3>2, <3>3, <3>4
  <2>4. ASSUME NEW d \in T
        PROVE  Times16(a)[d] <= g[d] /\ g[d] <= Times16(b)[d]
    <3> DEFINE c == Spots!Clean(f, NeighbourOf(p)[d])
               k == KernelOf[d]
    <3>1. c \in Nat /\ k \in Nat /\ a <= c /\ c <= b /\ g[d] = k * c
      BY <1>2, WeightedType
    <3>2. Times16(a)[d] = a * k /\ Times16(b)[d] = b * k
      OBVIOUS
    <3> HIDE DEF c, k
    <3>3. \A i, j, m \in Nat : i <= j => i * m <= j * m
      OBVIOUS
    <3>4. a * k <= c * k /\ c * k <= b * k /\ k * c = c * k
      BY <3>1, <3>3
    <3> QED
      BY <3>1, <3>2, <3>4
  <2>5. S(Times16(a)) <= S(g) /\ S(g) <= S(Times16(b))
    <3> HIDE DEF Times16, g, T
    <3>1. T \in SUBSET T
      OBVIOUS
    <3>2. Times16(a) \in [T -> Int] /\ Times16(b) \in [T -> Int]
      BY <2>3
    <3>3. (\A d \in T : Times16(a)[d] <= g[d]) /\ (\A d \in T : g[d] <= Times16(b)[d])
      BY <2>4
    <3> QED
      BY <2>2, <3>1, <3>2, <3>3, SumBound
  <2>6. S(g) \in Int
    BY <2>2, SumType
  <2>7. S(Times16(a)) = 16 * a /\ S(Times16(b)) = 16 * b
    BY <2>3
  <2> HIDE DEF S
  <2> QED
    BY <2>1, <2>5, <2>6, <2>7
<1> QED
  BY <1>1, <1>2

(* What the signals of a frame are to be.                                  *)
MeansOf(f) ==
    [s \in SpotCentres |->
       [sum   |-> Spots!SumFunction([p \in Spots!Roi(s) |-> Spots!Smooth(f, p)]),
        count |-> Cardinality(Spots!Roi(s))]]
PossibleFrames == [Spots!FramePixels -> Spots!Values]
SignalRecords == {[frame |-> f, means |-> MeansOf(f)] : f \in PossibleFrames}

(* The strengthening of SignalsCorrect.  The background is that of the     *)
(* frame from the moment it was estimated; a block that is not to run any  *)
(* more has left in its places of a buffer what its kernel is to write,    *)
(* whatever the frame before left in the others.                           *)
SpotTypes ==
    /\ number \in 1 .. SpotFrames
    /\ spotPc \in {"estimate", "upload", "preprocess", "blur", "pop"}
    /\ frame \in [Spots!FramePixels -> 0 .. MaxValue + number - 1]
    /\ bg \in Spots!Values
    /\ input \in [Spots!Cells -> Spots!Values \cup {-1}]
    /\ temp \in [Spots!Cells -> Spots!Values \cup {-1}]
    /\ output \in [Spots!Cells -> {-1} \cup 0 .. 16 * (MaxValue + SpotFrames)]
    /\ blocks \in SUBSET Spots!Grid

Uploaded(buffer, f) == \A i \in Spots!Cells : buffer[i] = f[Spots!PixelAt(i)]
CleanOutside(buffer, f, grid) ==
    \A i \in Spots!Cells :
        BlockOf(i) \notin grid => buffer[i] = Spots!Clean(f, Spots!PixelAt(i))
SmoothOutside(buffer, f, grid) ==
    \A i \in Spots!Cells :
        BlockOf(i) \notin grid => buffer[i] = Spots!Smooth(f, Spots!PixelAt(i))

SpotBuffers ==
    /\ spotPc # "estimate" => bg = Spots!Background(frame)
    /\ spotPc = "preprocess" => /\ Uploaded(input, frame)
                                /\ CleanOutside(temp, frame, blocks)
    /\ spotPc = "blur" => /\ IsClean(temp, frame)
                          /\ SmoothOutside(output, frame, blocks)

SpotRecords ==
    /\ spotSignals \in Seq(SignalRecords)
    /\ Len(spotSignals) = IF spotPc = "pop" THEN number ELSE number - 1

SpotInv == SpotTypes /\ SpotBuffers /\ SpotRecords

LEMMA SpotValues ==
  /\ Spots!Values = 0 .. MaxValue + SpotFrames
  /\ 0 \in Spots!Values
  /\ PossibleFrames \subseteq SpotFrame
  /\ \A f \in PossibleFrames : Spots!Background(f) \in Spots!Values
  /\ \A f \in PossibleFrames : \A p \in Spots!Pixels :
        Spots!Clean(f, p) \in Spots!Values
  /\ \A f \in PossibleFrames : \A p \in Spots!Pixels :
        Spots!Smooth(f, p) \in 0 .. 16 * (MaxValue + SpotFrames)
<1> DEFINE m == MaxValue + SpotFrames
<1>1. m \in Nat /\ Spots!Values = 0 .. m
  BY SpotConstants DEF Spots!Values
<1> HIDE DEF m
<1>2. PossibleFrames \subseteq SpotFrame
  BY <1>1 DEF PossibleFrames, SpotFrame
<1>3. ASSUME NEW f \in PossibleFrames PROVE Spots!Background(f) \in Spots!Values
  <2>1. Spots!Background(f) \in {f[p] : p \in Spots!Border}
    BY <1>2, BackgroundIsMedian DEF Median
  <2> QED
    BY <2>1, BorderIs DEF PossibleFrames
<1>4. ASSUME NEW f \in PossibleFrames, NEW p \in Spots!Pixels
      PROVE  Spots!Clean(f, p) \in 0 .. m
  <2>1. Spots!Clean(f, p) \in Nat /\ Spots!Clean(f, p) <= f[p]
    BY <1>2, CleanType
  <2>2. f[p] \in 0 .. m
    BY <1>1, SpotNumbers DEF PossibleFrames
  <2> QED
    BY <1>1, <2>1, <2>2
<1>5. ASSUME NEW f \in PossibleFrames, NEW p \in Spots!Pixels
      PROVE  Spots!Smooth(f, p) \in 0 .. 16 * m
  <2>1. \A q \in Spots!Pixels : 0 <= Spots!Clean(f, q) /\ Spots!Clean(f, q) <= m
    BY <1>4
  <2>2. Spots!Smooth(f, p) \in Nat /\ Spots!Smooth(f, p) <= 16 * m
    <3>1. 0 \in Nat
      OBVIOUS
    <3> QED
      BY <1>1, <1>2, <2>1, <3>1, SmoothBetween
  <2> QED
    BY <1>1, <2>2
<1> QED
  BY <1>1, <1>2, <1>3, <1>4, <1>5 DEF m

LEMMA FrameTyped ==
  ASSUME SpotTypes
  PROVE  frame \in PossibleFrames /\ frame \in SpotFrame
<1>1. 0 .. MaxValue + number - 1 \subseteq Spots!Values
  BY SpotConstants, SpotValues DEF SpotTypes
<1> QED
  BY <1>1, SpotValues DEF SpotTypes, PossibleFrames

LEMMA InitSpotInv ==
  ASSUME Spots!Init
  PROVE  SpotInv
<1>1. PICK first \in Spots!FirstFrames : Spots!InitWith(first)
  BY DEF Spots!Init
<1>2. SpotTypes
  <2>1. 0 .. MaxValue + 1 - 1 = 0 .. MaxValue
    BY SpotConstants
  <2>2. 1 \in 1 .. SpotFrames
    BY SpotConstants
  <2> QED
    BY <1>1, <2>1, <2>2, SpotValues
       DEF Spots!FirstFrames, Spots!InitWith, SpotTypes
<1>3. SpotBuffers
  BY <1>1 DEF Spots!InitWith, SpotBuffers
<1>4. SpotRecords
  BY <1>1 DEF Spots!InitWith, SpotRecords
<1> QED
  BY <1>2, <1>3, <1>4 DEF SpotInv

LEMMA EstimateKeepsInv ==
  ASSUME SpotInv, Spots!EstimateBackground
  PROVE  SpotInv'
<1>1. Spots!Background(frame) \in Spots!Values
  BY FrameTyped, SpotValues DEF SpotInv
<1>2. SpotTypes'
  BY <1>1 DEF SpotInv, SpotTypes, Spots!EstimateBackground
<1>3. SpotBuffers'
  BY DEF SpotBuffers, Spots!EstimateBackground
<1>4. SpotRecords'
  BY DEF SpotInv, SpotRecords, Spots!EstimateBackground
<1> QED
  BY <1>2, <1>3, <1>4 DEF SpotInv

LEMMA UploadKeepsInv ==
  ASSUME SpotInv, Spots!Upload
  PROVE  SpotInv'
<1>1. \A i \in Spots!Cells : /\ input'[i] = frame[Spots!PixelAt(i)]
                             /\ frame[Spots!PixelAt(i)] \in Spots!Values
  <2>1. \A i \in Spots!Cells : Spots!PixelAt(i) \in Spots!FramePixels
    BY PixelOfCell, SpotNumbers
  <2>2. \A p \in Spots!FramePixels : frame[p] \in Spots!Values
    BY FrameTyped DEF SpotInv, PossibleFrames
  <2> QED
    BY <2>1, <2>2 DEF Spots!Upload, Spots!PixelAt
<1>2. input' \in [Spots!Cells -> Spots!Values \cup {-1}]
  <2>1. DOMAIN input' = Spots!Cells /\ input' = [i \in Spots!Cells |-> input'[i]]
    BY DEF Spots!Upload
  <2> QED
    BY <1>1, <2>1
<1>3. SpotTypes'
  BY <1>2 DEF SpotInv, SpotTypes, Spots!Upload
<1>4. SpotBuffers'
  <2>1. Uploaded(input', frame)
    BY <1>1 DEF Uploaded
  <2>2. CleanOutside(temp, frame, Spots!Grid)
    BY BlockOfCell DEF CleanOutside
  <2> QED
    BY <2>1, <2>2 DEF SpotInv, SpotBuffers, Spots!Upload
<1>5. SpotRecords'
  BY DEF SpotInv, SpotRecords, Spots!Upload
<1> QED
  BY <1>3, <1>4, <1>5 DEF SpotInv

LEMMA PreprocessKeepsInv ==
  ASSUME SpotInv, Spots!PreprocessBlock
  PROVE  SpotInv'
<1>1. /\ spotPc = "preprocess" /\ spotPc' = spotPc /\ frame' = frame /\ number' = number
      /\ bg' = bg /\ input' = input /\ output' = output /\ spotSignals' = spotSignals
  BY DEF Spots!PreprocessBlock
<1>2. PICK b \in blocks :
         /\ temp' = [i \in Spots!Cells |->
                       IF i \in Spots!IndicesOf(b) THEN Spots!Ramp(input[i] - bg)
                       ELSE temp[i]]
         /\ blocks' = blocks \ {b}
  BY DEF Spots!PreprocessBlock
<1>3. /\ bg = Spots!Background(frame) /\ Uploaded(input, frame)
      /\ CleanOutside(temp, frame, blocks)
  BY <1>1 DEF SpotInv, SpotBuffers
<1>4. b \in Spots!Grid /\ temp \in [Spots!Cells -> Spots!Values \cup {-1}]
  BY DEF SpotInv, SpotTypes
<1>5. ASSUME NEW i \in Spots!Cells
      PROVE  /\ BlockOf(i) = b => temp'[i] = Spots!Clean(frame, Spots!PixelAt(i))
             /\ BlockOf(i) # b => temp'[i] = temp[i]
  BY <1>2, <1>3, <1>4, BlockOfCell DEF Uploaded, Spots!Clean
<1>6. temp' \in [Spots!Cells -> Spots!Values \cup {-1}]
  <2>1. \A i \in Spots!Cells : temp'[i] \in Spots!Values \cup {-1}
    <3> SUFFICES ASSUME NEW i \in Spots!Cells
                 PROVE  temp'[i] \in Spots!Values \cup {-1}
      OBVIOUS
    <3>1. Spots!Clean(frame, Spots!PixelAt(i)) \in Spots!Values
      BY FrameTyped, SpotValues, PixelOfCell DEF SpotInv
    <3>2. temp[i] \in Spots!Values \cup {-1}
      BY <1>4
    <3> QED
      BY <1>5, <3>1, <3>2
  <2>2. temp' = [i \in Spots!Cells |-> temp'[i]]
    BY <1>2
  <2> QED
    BY <2>1, <2>2
<1>7. SpotTypes'
  BY <1>1, <1>2, <1>6 DEF SpotInv, SpotTypes
<1>8. CleanOutside(temp', frame, blocks \ {b})
  BY <1>3, <1>5 DEF CleanOutside
<1>9. SpotBuffers'
  BY <1>1, <1>2, <1>3, <1>8 DEF SpotBuffers
<1>10. SpotRecords'
  BY <1>1 DEF SpotInv, SpotRecords
<1> QED
  BY <1>7, <1>9, <1>10 DEF SpotInv

LEMMA SynchronizeKeepsInv ==
  ASSUME SpotInv, Spots!Synchronize
  PROVE  SpotInv'
<1>1. SpotTypes'
  BY DEF SpotInv, SpotTypes, Spots!Synchronize
<1>2. SpotBuffers'
  <2>1. IsClean(temp, frame)
    BY DEF SpotInv, SpotTypes, SpotBuffers, CleanOutside, IsClean, Spots!Synchronize
  <2>2. SmoothOutside(output, frame, Spots!Grid)
    BY BlockOfCell DEF SmoothOutside
  <2> QED
    BY <2>1, <2>2 DEF SpotInv, SpotBuffers, Spots!Synchronize
<1>3. SpotRecords'
  BY DEF SpotInv, SpotRecords, Spots!Synchronize
<1> QED
  BY <1>1, <1>2, <1>3 DEF SpotInv

LEMMA BlurKeepsInv ==
  ASSUME SpotInv, Spots!BlurBlock
  PROVE  SpotInv'
<1>1. /\ spotPc = "blur" /\ spotPc' = spotPc /\ frame' = frame /\ number' = number
      /\ bg' = bg /\ input' = input /\ temp' = temp /\ spotSignals' = spotSignals
  BY DEF Spots!BlurBlock
<1>2. PICK b \in blocks :
         /\ output' = [i \in Spots!Cells |->
                         IF i \in Spots!IndicesOf(b)
                         THEN Spots!Blurred(temp, Spots!PixelAt(i)) ELSE output[i]]
         /\ blocks' = blocks \ {b}
  BY DEF Spots!BlurBlock
<1>3. /\ bg = Spots!Background(frame) /\ IsClean(temp, frame)
      /\ SmoothOutside(output, frame, blocks)
  BY <1>1 DEF SpotInv, SpotBuffers
<1> DEFINE Sixteenths == {-1} \cup 0 .. 16 * (MaxValue + SpotFrames)
<1>4. b \in Spots!Grid /\ output \in [Spots!Cells -> Sixteenths]
  BY DEF SpotInv, SpotTypes
<1>5. ASSUME NEW i \in Spots!Cells
      PROVE  /\ BlockOf(i) = b => output'[i] = Spots!Smooth(frame, Spots!PixelAt(i))
             /\ BlockOf(i) # b => output'[i] = output[i]
  <2>1. Spots!Blurred(temp, Spots!PixelAt(i)) = Spots!Smooth(frame, Spots!PixelAt(i))
    BY <1>3, FrameTyped, PixelOfCell, BlurredIsSmooth DEF SpotInv
  <2> QED
    BY <1>2, <1>4, <2>1, BlockOfCell
<1>6. output' \in [Spots!Cells -> Sixteenths]
  <2>1. \A i \in Spots!Cells : output'[i] \in Sixteenths
    <3> SUFFICES ASSUME NEW i \in Spots!Cells PROVE output'[i] \in Sixteenths
      OBVIOUS
    <3>1. Spots!Smooth(frame, Spots!PixelAt(i)) \in Sixteenths
      BY FrameTyped, SpotValues, PixelOfCell DEF SpotInv
    <3>2. output[i] \in Sixteenths
      BY <1>4
    <3> HIDE DEF Sixteenths
    <3> QED
      BY <1>5, <3>1, <3>2
  <2>2. output' = [i \in Spots!Cells |-> output'[i]]
    BY <1>2
  <2> HIDE DEF Sixteenths
  <2> QED
    BY <2>1, <2>2
<1>7. SpotTypes'
  BY <1>1, <1>2, <1>6 DEF SpotInv, SpotTypes
<1>8. SmoothOutside(output', frame, blocks \ {b})
  BY <1>3, <1>5 DEF SmoothOutside
<1>9. SpotBuffers'
  BY <1>1, <1>2, <1>3, <1>8 DEF SpotBuffers
<1>10. SpotRecords'
  BY <1>1 DEF SpotInv, SpotRecords
<1> QED
  BY <1>7, <1>9, <1>10 DEF SpotInv

LEMMA ExtractedAreMeans ==
  ASSUME SpotInv, spotPc = "blur", blocks = {}
  PROVE  [s \in SpotCentres |-> Spots!RoiMean(output, s)] = MeansOf(frame)
<1>1. ASSUME NEW p \in Spots!Pixels
      PROVE  output[Spots!Index(p)] = Spots!Smooth(frame, p)
  BY CellOfPixel DEF SpotInv, SpotBuffers, SmoothOutside
<1>2. ASSUME NEW s \in SpotCentres
      PROVE  [p \in Spots!Roi(s) |-> output[Spots!Index(p)]]
               = [p \in Spots!Roi(s) |-> Spots!Smooth(frame, p)]
  <2>1. Spots!Roi(s) \subseteq Spots!Pixels
    BY DEF Spots!Roi
  <2> QED
    BY <1>1, <2>1
<1>3. ASSUME NEW s \in SpotCentres
      PROVE  Spots!RoiMean(output, s) = MeansOf(frame)[s]
  BY <1>2, SpotNumbers DEF Spots!RoiMean, MeansOf
<1> QED
  BY <1>3 DEF MeansOf

LEMMA ExtractKeepsSpots ==
  ASSUME SpotInv, Spots!Extract
  PROVE  SpotInv'
<1>1. SpotTypes'
  BY DEF SpotInv, SpotTypes, Spots!Extract
<1>2. SpotBuffers'
  BY DEF SpotInv, SpotBuffers, Spots!Extract
<1>3. SpotRecords'
  <2> DEFINE r == [frame |-> frame, means |-> MeansOf(frame)]
  <2>1. spotSignals' = Append(spotSignals, r)
    BY ExtractedAreMeans DEF Spots!Extract
  <2>2. r \in SignalRecords
    BY FrameTyped DEF SpotInv, SignalRecords
  <2>3. /\ spotPc = "blur" /\ spotPc' = "pop" /\ number' = number
        /\ number \in 1 .. SpotFrames
        /\ spotSignals \in Seq(SignalRecords) /\ Len(spotSignals) = number - 1
    BY DEF Spots!Extract, SpotInv, SpotTypes, SpotRecords
  <2> HIDE DEF r
  <2>4. /\ spotSignals' \in Seq(SignalRecords)
        /\ Len(spotSignals') = Len(spotSignals) + 1
    BY <2>1, <2>2, <2>3
  <2>5. (number - 1) + 1 = number
    BY <2>3
  <2> QED
    BY <2>3, <2>4, <2>5 DEF SpotRecords
<1> QED
  BY <1>1, <1>2, <1>3 DEF SpotInv

LEMMA PopKeepsInv ==
  ASSUME SpotInv, Spots!PopFrame
  PROVE  SpotInv'
<1>1. /\ spotPc = "pop" /\ spotPc' = "estimate" /\ number' = number + 1
      /\ bg' = bg /\ input' = input /\ temp' = temp /\ output' = output
      /\ blocks' = blocks /\ spotSignals' = spotSignals
      /\ number < SpotFrames /\ frame' \in Spots!NextFrames
  BY DEF Spots!PopFrame
<1>2. number' \in 1 .. SpotFrames
  BY <1>1, SpotConstants DEF SpotInv, SpotTypes
<1>3. frame' \in [Spots!FramePixels -> 0 .. MaxValue + number' - 1]
  <2> DEFINE P == Spots!FramePixels
             f == frame
             n == number
             m == MaxValue
  <2>1. m \in Nat /\ n \in Nat /\ n >= 1 /\ f \in [P -> 0 .. m + n - 1]
    BY SpotConstants DEF SpotInv, SpotTypes
  <2>2. \/ frame' = [p \in P |-> f[p] + 1]
        \/ frame' = [p \in P |-> m + n - f[p]]
    BY <1>1 DEF Spots!NextFrames
  <2> HIDE DEF P, f, n, m
  <2>3. \A v \in 0 .. m + n - 1 :
           v + 1 \in 0 .. m + (n + 1) - 1 /\ m + n - v \in 0 .. m + (n + 1) - 1
    BY <2>1
  <2>4. \A p \in P : /\ f[p] + 1 \in 0 .. m + (n + 1) - 1
                     /\ m + n - f[p] \in 0 .. m + (n + 1) - 1
    BY <2>1, <2>3
  <2>5. frame' \in [P -> 0 .. m + (n + 1) - 1]
    BY <2>2, <2>4
  <2> QED
    BY <1>1, <2>5 DEF P, n, m
<1>4. SpotTypes'
  BY <1>1, <1>2, <1>3 DEF SpotInv, SpotTypes
<1>5. SpotBuffers'
  BY <1>1 DEF SpotBuffers
<1>6. SpotRecords'
  <2>1. (number + 1) - 1 = number
    BY DEF SpotInv, SpotTypes
  <2> QED
    BY <1>1, <2>1 DEF SpotInv, SpotRecords
<1> QED
  BY <1>4, <1>5, <1>6 DEF SpotInv

LEMMA StutterSpotInv ==
  ASSUME SpotInv, UNCHANGED spotVars
  PROVE  SpotInv'
<1>1. /\ frame' = frame /\ number' = number /\ bg' = bg /\ input' = input
      /\ temp' = temp /\ output' = output /\ spotPc' = spotPc /\ blocks' = blocks
      /\ spotSignals' = spotSignals
  BY DEF spotVars
<1>2. SpotTypes' /\ SpotBuffers' /\ SpotRecords'
  BY <1>1 DEF SpotInv, SpotTypes, SpotBuffers, SpotRecords
<1> QED
  BY <1>2 DEF SpotInv

LEMMA SpecSpotInv ==
  Spec => [](part = "spots" => SpotInv)
<1> DEFINE I == part = "spots" => SpotInv
<1>1. Init => I
  BY InitSpotInv DEF Init
<1>2. ASSUME I, [Next]_vars PROVE I'
  <2> SUFFICES ASSUME part' = "spots" PROVE SpotInv'
    OBVIOUS
  <2>1. part = "spots" /\ SpotInv
    BY <1>2 DEF Next, vars
  <2>2. CASE UNCHANGED spotVars
    BY <2>1, <2>2, StutterSpotInv
  <2>3. CASE Spots!Next
    <3>1. CASE Spots!EstimateBackground
      BY <2>1, <3>1, EstimateKeepsInv
    <3>2. CASE Spots!Upload
      BY <2>1, <3>2, UploadKeepsInv
    <3>3. CASE Spots!PreprocessBlock
      BY <2>1, <3>3, PreprocessKeepsInv
    <3>4. CASE Spots!Synchronize
      BY <2>1, <3>4, SynchronizeKeepsInv
    <3>5. CASE Spots!BlurBlock
      BY <2>1, <3>5, BlurKeepsInv
    <3>6. CASE Spots!Extract
      BY <2>1, <3>6, ExtractKeepsSpots
    <3>7. CASE Spots!PopFrame
      BY <2>1, <3>7, PopKeepsInv
    <3> QED
      BY <2>3, <3>1, <3>2, <3>3, <3>4, <3>5, <3>6, <3>7 DEF Spots!Next
  <2> QED
    BY <1>2, <2>1, <2>2, <2>3 DEF Next, vars
<1> QED
  BY <1>1, <1>2, PTL DEF Spec

LEMMA RoiIs ==
  ASSUME NEW s \in SpotCentres
  PROVE  /\ Spots!Roi(s) \subseteq Spots!Pixels /\ IsFiniteSet(Spots!Roi(s))
         /\ Cardinality(Spots!Roi(s)) \in Nat /\ Cardinality(Spots!Roi(s)) > 0
<1>1. Spots!Roi(s) \subseteq Spots!Pixels
  BY DEF Spots!Roi
<1>2. IsFiniteSet(Spots!Roi(s))
  BY <1>1, BorderIs, FS_Subset
<1>3. s \in Spots!Roi(s)
  <2>1. s \in Spots!Pixels /\ s[1] \in Int /\ s[2] \in Int /\ Radius \in Nat
    BY SpotConstants, CellOfPixel
  <2>2. s[1] - s[1] = 0 /\ s[2] - s[2] = 0
    BY <2>1
  <2>3. Radius * Radius \in Nat
    BY <2>1
  <2>4. 0 * 0 + 0 * 0 <= Radius * Radius
    BY <2>3
  <2> QED
    BY <2>1, <2>2, <2>4 DEF Spots!Roi
<1>4. Cardinality(Spots!Roi(s)) \in Nat /\ Cardinality(Spots!Roi(s)) # 0
  BY <1>2, <1>3, FS_CardinalityType, FS_EmptySet
<1> QED
  BY <1>1, <1>2, <1>4

(* The sum of a spot lies between as many times the least value of its     *)
(* frame and as many times the greatest.                                   *)
LEMMA MeansBetween ==
  ASSUME NEW f \in SpotFrame, NEW s \in SpotCentres
  PROVE  LET clean == {16 * Spots!Clean(f, p) : p \in Spots!Pixels}
             sum   == MeansOf(f)[s].sum
             count == MeansOf(f)[s].count
         IN  /\ count \in Nat /\ count > 0 /\ sum \in Int
             /\ count * Picture!Min(clean) <= sum
             /\ sum <= count * Picture!Max(clean)
<1> DEFINE P == Spots!Pixels
           c(p) == Spots!Clean(f, p)
           clean == {16 * c(p) : p \in P}
           R == Spots!Roi(s)
           g == [p \in R |-> Spots!Smooth(f, p)]
           lo == Picture!Min(clean)
           hi == Picture!Max(clean)
<1>1. /\ MeansOf(f)[s].sum = SumFunctionOnSet(g, R)
      /\ MeansOf(f)[s].count = Cardinality(R)
  <2>1. MeansOf(f)[s].sum = Spots!SumFunction(g)
    BY DEF MeansOf
  <2>2. MeansOf(f)[s].count = Cardinality(R)
    BY DEF MeansOf
  <2> QED
    BY <2>1, <2>2, SpotNumbers
<1>2. \A p \in P : c(p) \in Nat
  BY CleanType
<1>3. /\ R \subseteq P /\ IsFiniteSet(R)
      /\ Cardinality(R) \in Nat /\ Cardinality(R) > 0
  BY RoiIs
<1>4. IsFiniteSet(P) /\ P # {}
  BY BorderIs, SpotNumbers
<1>5. /\ lo \in clean /\ \A v \in clean : lo <= v
      /\ hi \in clean /\ \A v \in clean : hi >= v
  <2>1. IsFiniteSet(clean)
    <3> DEFINE k == [p \in P |-> 16 * c(p)]
    <3>1. k \in Surjection(P, clean)
      BY DEF Surjection
    <3> HIDE DEF k, clean
    <3> QED
      BY <1>4, <3>1, FS_Surjection
  <2>2. clean # {} /\ clean \subseteq Nat
    <3>1. \A n \in Nat : 16 * n \in Nat
      OBVIOUS
    <3> HIDE DEF c
    <3> QED
      BY <1>2, <1>4, <3>1
  <2> HIDE DEF clean
  <2> QED
    BY <2>1, <2>2, Extremes
<1> HIDE DEF lo, hi
<1>6. PICK u \in P : lo = 16 * c(u)
  BY <1>5
<1>7. PICK w \in P : hi = 16 * c(w)
  BY <1>5
<1>8. ASSUME NEW p \in P PROVE c(u) <= c(p) /\ c(p) <= c(w)
  <2>1. lo <= 16 * c(p) /\ hi >= 16 * c(p)
    BY <1>5
  <2>2. c(p) \in Nat /\ c(u) \in Nat /\ c(w) \in Nat
    BY <1>2
  <2> HIDE DEF c
  <2> QED
    BY <1>6, <1>7, <2>1, <2>2
<1>9. ASSUME NEW p \in P
      PROVE  Spots!Smooth(f, p) \in Int /\ lo <= Spots!Smooth(f, p) /\ Spots!Smooth(f, p) <= hi
  <2> DEFINE a == c(u)
             b == c(w)
  <2>1. a \in Nat /\ b \in Nat
    BY <1>2
  <2>2. \A q \in Spots!Pixels : a <= Spots!Clean(f, q) /\ Spots!Clean(f, q) <= b
    BY <1>8
  <2> HIDE DEF a, b
  <2>3. /\ Spots!Smooth(f, p) \in Nat
        /\ 16 * a <= Spots!Smooth(f, p) /\ Spots!Smooth(f, p) <= 16 * b
    BY <2>1, <2>2, SmoothBetween
  <2> QED
    BY <1>6, <1>7, <2>3 DEF a, b
<1>10. lo \in Int /\ hi \in Int
  <2>1. c(u) \in Nat /\ c(w) \in Nat
    BY <1>2
  <2> HIDE DEF c
  <2> QED
    BY <1>6, <1>7, <2>1
<1>11. /\ g \in [R -> Int]
       /\ \A p \in R : lo <= g[p] /\ g[p] <= hi
  BY <1>3, <1>9
<1> HIDE DEF R, g, clean
<1>12. /\ Cardinality(R) * lo <= SumFunctionOnSet(g, R)
       /\ SumFunctionOnSet(g, R) <= Cardinality(R) * hi
       /\ SumFunctionOnSet(g, R) \in Int
  <2>1. R \in SUBSET R
    OBVIOUS
  <2>2. /\ Cardinality(R) * lo <= SumFunctionOnSet(g, R)
        /\ SumFunctionOnSet(g, R) <= Cardinality(R) * hi
    BY <1>3, <1>10, <1>11, <2>1, SumBetween
  <2>3. SumFunctionOnSet(g, R) \in Int
    BY <1>3, <1>11, <2>1, SumType
  <2> QED
    BY <2>2, <2>3
<1> QED
  BY <1>1, <1>3, <1>12 DEF lo, hi, clean

(* Brightness that is added to a frame leaves its means as they are.       *)
LEMMA MeansBrighter ==
  ASSUME NEW f \in SpotFrame, NEW g \in SpotFrame, NEW c \in Nat,
         \A p \in Spots!FramePixels : g[p] = f[p] + c
  PROVE  MeansOf(g) = MeansOf(f)
<1>1. ASSUME NEW p \in Spots!Pixels PROVE Spots!Clean(g, p) = Spots!Clean(f, p)
  <2> DEFINE v == Spots!Background(f)
             x == f[p]
  <2>1. v \in Nat /\ x \in Nat
    BY BackgroundIsMedian, CleanType
  <2>2. Spots!Background(g) = v + c /\ g[p] = x + c
    BY BackgroundBrighter, SpotNumbers
  <2> HIDE DEF v, x
  <2>3. (x + c) - (v + c) = x - v
    BY <2>1
  <2>4. Spots!Ramp(g[p] - Spots!Background(g)) = Spots!Ramp(x - v)
    BY <2>2, <2>3
  <2> QED
    BY <2>4 DEF Spots!Clean, x, v
<1>2. ASSUME NEW p \in Spots!Pixels PROVE Spots!Smooth(g, p) = Spots!Smooth(f, p)
  <2>1. \A q \in Spots!Around(p) : Spots!Clean(g, q) = Spots!Clean(f, q)
    BY <1>1, AroundFinite
  <2> DEFINE H(k) == [q \in Spots!Around(p) |->
                        LET dx == q[1] - p[1] dy == q[2] - p[2]
                        IN  (2 - dx * dx) * (2 - dy * dy) * Spots!Clean(k, q)]
  <2>2. H(g) = H(f)
    BY <2>1
  <2>3. \A k : Spots!Smooth(k, p) = IF ~Spots!Inner(p) THEN 16 * Spots!Clean(k, p)
                                   ELSE Spots!SumFunction(H(k))
    BY DEF Spots!Smooth
  <2> HIDE DEF H
  <2> QED
    BY <1>1, <2>2, <2>3
<1>3. ASSUME NEW s \in SpotCentres
      PROVE  [p \in Spots!Roi(s) |-> Spots!Smooth(g, p)]
               = [p \in Spots!Roi(s) |-> Spots!Smooth(f, p)]
  BY <1>2, RoiIs
<1> QED
  BY <1>3 DEF MeansOf

LEMMA RecordOf ==
  ASSUME SpotInv, NEW n \in DOMAIN spotSignals
  PROVE  /\ spotSignals[n].frame \in SpotFrame
         /\ spotSignals[n].means = MeansOf(spotSignals[n].frame)
<1>1. spotSignals[n] \in SignalRecords
  BY DEF SpotInv, SpotRecords
<1>2. PICK f \in PossibleFrames : spotSignals[n] = [frame |-> f, means |-> MeansOf(f)]
  BY <1>1 DEF SignalRecords
<1> QED
  BY <1>2, SpotValues

LEMMA SpotsTyped ==
  ASSUME SpotInv
  PROVE  Spots!TypeOK
<1>1. frame \in [Spots!FramePixels -> Spots!Values]
  BY FrameTyped DEF SpotInv, PossibleFrames
<1>2. Len(spotSignals) <= SpotFrames
  <2>1. number \in Int /\ number <= SpotFrames /\ SpotFrames \in Int
    BY SpotConstants DEF SpotInv, SpotTypes
  <2>2. Len(spotSignals) = number \/ Len(spotSignals) = number - 1
    BY DEF SpotInv, SpotRecords
  <2> QED
    BY <2>1, <2>2
<1>3. ASSUME NEW n \in DOMAIN spotSignals
      PROVE  spotSignals[n].means \in [SpotCentres -> [sum : Int, count : Nat]]
  <2> DEFINE f == spotSignals[n].frame
  <2>1. f \in SpotFrame /\ spotSignals[n].means = MeansOf(f)
    BY RecordOf
  <2> HIDE DEF f
  <2>2. ASSUME NEW s \in SpotCentres
        PROVE  MeansOf(f)[s] \in [sum : Int, count : Nat]
    <3>1. MeansOf(f)[s].sum \in Int /\ MeansOf(f)[s].count \in Nat
      BY <2>1, MeansBetween
    <3>2. MeansOf(f)[s] = [sum |-> MeansOf(f)[s].sum, count |-> MeansOf(f)[s].count]
      BY DEF MeansOf
    <3> QED
      BY <3>1, <3>2
  <2>3. MeansOf(f) = [s \in SpotCentres |-> MeansOf(f)[s]]
    BY DEF MeansOf
  <2> QED
    BY <2>1, <2>2, <2>3
<1> QED
  BY <1>1, <1>2, <1>3 DEF SpotInv, SpotTypes, Spots!TypeOK

(* The signal of a spot is the mean over its circle of its own smoothed    *)
(* frame, in whatever order the blocks of the kernels ran; brightness that *)
(* is added to a frame does not show in it; and it lies between the least  *)
(* and the greatest value of the frame (main.cpp:150-189).                 *)
THEOREM SignalsAreOfOwnFrame == Spec => []SignalsCorrect
<1>1. ASSUME SpotInv PROVE Spots!SignalsCorrect
  <2>1. Spots!SignalsOfOwnFrame
    <3> SUFFICES ASSUME NEW n \in DOMAIN spotSignals, NEW s \in SpotCentres
                 PROVE  spotSignals[n].means[s].sum =
                          Spots!SumFunction([p \in Spots!Roi(s) |->
                            Spots!Smooth(spotSignals[n].frame, p)])
      BY DEF Spots!SignalsOfOwnFrame
    <3>1. spotSignals[n].means = MeansOf(spotSignals[n].frame)
      BY <1>1, RecordOf
    <3> QED
      BY <3>1 DEF MeansOf
  <2>2. Spots!BrightnessCancels
    <3> SUFFICES ASSUME NEW m \in DOMAIN spotSignals, NEW n \in DOMAIN spotSignals,
                        NEW c \in Spots!Values,
                        \A p \in Spots!FramePixels :
                           spotSignals[n].frame[p] = spotSignals[m].frame[p] + c
                 PROVE  spotSignals[n].means = spotSignals[m].means
      BY DEF Spots!BrightnessCancels
    <3>1. c \in Nat
      BY SpotValues
    <3> DEFINE f == spotSignals[m].frame
               g == spotSignals[n].frame
    <3>2. /\ f \in SpotFrame /\ g \in SpotFrame
          /\ spotSignals[m].means = MeansOf(f) /\ spotSignals[n].means = MeansOf(g)
          /\ \A p \in Spots!FramePixels : g[p] = f[p] + c
      BY <1>1, RecordOf
    <3> HIDE DEF f, g
    <3>3. MeansOf(g) = MeansOf(f)
      BY <3>1, <3>2, MeansBrighter
    <3> QED
      BY <3>2, <3>3
  <2>3. Spots!MeansWithinFrame
    <3> SUFFICES ASSUME NEW n \in DOMAIN spotSignals, NEW s \in SpotCentres
                 PROVE  LET mean == spotSignals[n].means[s]
                            clean == {16 * Spots!Clean(spotSignals[n].frame, p) :
                                        p \in Spots!Pixels}
                        IN  /\ mean.count > 0
                            /\ mean.count * Spots!Min(clean) <= mean.sum
                            /\ mean.sum <= mean.count * Spots!Max(clean)
      BY DEF Spots!MeansWithinFrame
    <3> DEFINE f == spotSignals[n].frame
    <3>1. f \in SpotFrame /\ spotSignals[n].means = MeansOf(f)
      BY <1>1, RecordOf
    <3> HIDE DEF f
    <3>2. LET clean == {16 * Spots!Clean(f, p) : p \in Spots!Pixels}
              mean == MeansOf(f)[s]
          IN  /\ mean.count > 0
              /\ mean.count * Spots!Min(clean) <= mean.sum
              /\ mean.sum <= mean.count * Spots!Max(clean)
      BY <3>1, MeansBetween, SpotNumbers
    <3> QED
      BY <3>1, <3>2 DEF f
  <2> QED
    BY <1>1, <2>1, <2>2, <2>3, SpotsTyped DEF Spots!SignalsCorrect
<1>2. (part = "spots" => SpotInv) => SignalsCorrect
  BY <1>1 DEF SignalsCorrect
<1> QED
  BY <1>2, SpecSpotInv, PTL
=============================================================================
