------------------------ MODULE ResumeSession_proofs ------------------------
(***************************************************************************)
(* Theorems about ResumeSession, for every number of frames, every size,   *)
(* every limit and every number of crashes.                                *)
(***************************************************************************)
EXTENDS ResumeSession, FiniteSetTheorems, TLAPS

USE DEF Ids

(* The constructor's sum is a natural number.                              *)
LEMMA DiskBytesType == DiskBytes \in Nat
<1>1. IsFiniteSet(Ids)
  BY FS_Interval, SpoolAssumption
<1>2. Pending \in SUBSET Ids /\ Torn \in SUBSET Ids
  BY DEF Pending, Torn
<1>3. Cardinality(Pending) \in Nat /\ Cardinality(Torn) \in Nat
  BY <1>1, <1>2, FS_Subset, FS_CardinalityType
<1> QED
  BY <1>3, SpoolAssumption DEF DiskBytes

(* size_t arithmetic stays in Nat.                                         *)
LEMMA SizeArithmetic ==
  ASSUME NEW a \in Nat, NEW id, SpoolTypeOK
  PROVE  /\ Plus(a, FrameBytes) \in Nat
         /\ Minus(a, SizeOf(id)) \in Nat
<1>1. SizeOf(id) \in Nat /\ FrameBytes \in Nat /\ SizeOf(id) <= FrameBytes
  BY SpoolAssumption DEF SizeOf
<1>2. FrameBytes * (MaxFrame + 1) >= FrameBytes
  BY SpoolAssumption
<1>3. SizeMod \in Nat /\ FrameBytes <= SizeMod
  BY <1>2, SpoolAssumption
<1> QED
  BY <1>1, <1>3 DEF Plus, Minus

(* Removing a file keeps the spool's type.                                 *)
LEMMA RemoveType ==
  ASSUME NEW id \in Ids, SpoolTypeOK, RemoveFrame(id)
  PROVE  SpoolTypeOK'
  BY SizeArithmetic DEF SpoolTypeOK, RemoveFrame, FileStates

(* Messages are what the session sends.                                    *)
LEMMA MessageTypes ==
  /\ Hello \in Messages /\ Request \in Messages
  /\ \A id \in Ids : Frame(id) \in Messages
  BY DEF Messages

-----------------------------------------------------------------------------
(* Type correctness.  A call that has a frame argument keeps it until it   *)
(* returns; only sendFrame() has one.                                      *)
CallShape ==
    /\ pc \in {"write", "dispatch", "send", "remove"} => op = "sendFrame"
    /\ op = "sendFrame" /\ pc \notin {"idle", "down"} => frame \in Ids
    /\ pc \in {"connect", "hello"} => op \in {"start", "sendFrame"}
    /\ pc \in {"request", "reply", "prune"} => op # "replayPendingFrames"
    /\ pc = "replay" => op # "requestResume"
    /\ pc = "down" => ~connected

TInv == TypeOK /\ CallShape

LEMMA InitTInv == Init => TInv
<1> SUFFICES ASSUME Init PROVE TInv
  OBVIOUS
<1>1. SpoolTypeOK
  BY DEF Init, SpoolInit, SpoolTypeOK, FileStates
<1>2. stream \in Seq(Messages) /\ Len(stream) <= SocketCap
  BY SessionAssumption DEF Init
<1>3. NetTypeOK
  BY <1>2 DEF Init, NetTypeOK, Replies
<1>4. highest \in 0 .. MaxFrame /\ crashes \in 0 .. MaxCrash
  BY SpoolAssumption, SessionAssumption DEF Init
<1> QED
  BY <1>1, <1>3, <1>4
  DEF Init, TInv, TypeOK, CallShape, Steps, Operations, SessionStates

(* The socket operations keep the types of the connection's variables.     *)
LEMMA SendType ==
  ASSUME NetTypeOK, NEW m \in Messages, SendSucceeds(m)
  PROVE  NetTypeOK'
<1>1. CASE link = "up" /\ Len(stream) < SocketCap /\ stream' = Append(stream, m)
  <2>1. stream' \in Seq(Messages) /\ Len(stream') = Len(stream) + 1
    BY <1>1 DEF NetTypeOK
  <2>2. Len(stream') <= SocketCap
    BY <1>1, <2>1, SessionAssumption DEF NetTypeOK
  <2> QED
    BY <2>1, <2>2 DEF NetTypeOK, SendSucceeds
<1>2. CASE UNCHANGED stream
  BY <1>2 DEF NetTypeOK, SendSucceeds
<1> QED
  BY <1>1, <1>2 DEF SendSucceeds

LEMMA CloseType ==
  ASSUME CloseConnection
  PROVE  NetTypeOK' /\ sentHere' = {} /\ ~connected'
<1>1. /\ connected' \in BOOLEAN /\ ~connected' /\ sentHere' = {}
      /\ link' \in {"up", "cut", "reset", "down"}
      /\ phase' \in {"new", "greeted", "resumed"}
  BY DEF CloseConnection
<1>2. stream' \in Seq(Messages) /\ Len(stream') <= SocketCap
  BY SessionAssumption DEF CloseConnection
<1>3. reply' \in Replies
  BY DEF CloseConnection, Replies
<1> QED
  BY <1>1, <1>2, <1>3 DEF NetTypeOK

LEMMA ReadType ==
  ASSUME NetTypeOK, NEW m, ServerReads(m)
  PROVE  stream' \in Seq(Messages) /\ Len(stream') <= SocketCap
<1>1. stream' \in Seq(Messages) /\ Len(stream') = Len(stream) - 1
  BY DEF ServerReads, NetTypeOK
<1>2. Len(stream) \in Nat
  BY DEF NetTypeOK
<1> QED
  BY <1>1, <1>2, SessionAssumption DEF NetTypeOK

LEMMA NextTInv == TInv /\ [Next]_vars => TInv'
<1> SUFFICES ASSUME TInv, [Next]_vars PROVE TInv'
  OBVIOUS
<1> USE DEF TInv, TypeOK, CallShape, Steps, Operations, vars,
            callVars, sessionVars, netVars, histVars, spoolVars
<1>1. CASE CallStart
  BY <1>1 DEF NetTypeOK, CallStart, SpoolTypeOK, SessionStates
<1>2. CASE CallRequestResume
  BY <1>2 DEF NetTypeOK, CallRequestResume, SpoolTypeOK, SessionStates
<1>3. CASE CallReplayPendingFrames
  BY <1>3
  DEF NetTypeOK, CallReplayPendingFrames, Pending, SpoolTypeOK,
      SessionStates
<1>4. CASE PersistFail
  BY <1>4
  DEF NetTypeOK, PersistFail, FailWrite, Return, SpoolTypeOK, SessionStates
<1>5. CASE Dispatch
  BY <1>5 DEF NetTypeOK, Dispatch, SpoolTypeOK, SessionStates
<1>6. CASE ConnectAlready
  BY <1>6 DEF NetTypeOK, ConnectAlready, SpoolTypeOK, SessionStates
<1>7. CASE ConnectFails
  BY <1>7 DEF NetTypeOK, ConnectFails, Return, SpoolTypeOK, SessionStates
<1>8. CASE HelloFails
  BY <1>8, CloseType
  DEF HelloFails, SendFails, Return, SpoolTypeOK, SessionStates
<1>9. CASE RequestFails
  BY <1>9, CloseType
  DEF RequestFails, ResumeFailed, SendFails, Return, SpoolTypeOK, SessionStates
<1>10. CASE ReplyFails
  BY <1>10, CloseType
  DEF ReplyFails, ResumeFailed, RecvFails, Return, SpoolTypeOK, SessionStates
<1>11. CASE ReplyRejected
  <2>1. NetTypeOK'
    BY <1>11, CloseType DEF ReplyRejected, NetTypeOK, Replies
  <2>2. pc' = "idle" /\ frame' = 0 /\ todo' = {} /\ ret' = FALSE /\ op' = op
        /\ state' \in SessionStates
    BY <1>11 DEF ReplyRejected, ResumeFailed, Return, SessionStates
  <2>3. UNCHANGED <<spoolVars, highest, saved, accepted, reported, handed,
                    crashes>> /\ sentHere' \in SUBSET Ids
    BY <1>11 DEF ReplyRejected, ResumeFailed, CloseConnection
  <2> QED
    BY <2>1, <2>2, <2>3 DEF SpoolTypeOK
<1>12. CASE ReplyRead
  <2>1. NetTypeOK'
    BY <1>12 DEF ReplyRead, NetTypeOK, Replies
  <2>2. highest' \in 0 .. MaxFrame
    BY <1>12 DEF ReplyRead, NetTypeOK, Replies, NoReply, BadReply
  <2> QED
    BY <1>12, <2>1, <2>2 DEF ReplyRead, Pending, SpoolTypeOK
<1>13. CASE PruneDone
  BY <1>13
  DEF NetTypeOK, PruneDone, Pending, Return, SpoolTypeOK, SessionStates
<1>14. CASE ReplayFails
  BY <1>14, CloseType
  DEF ReplayFails, SendFails, Return, SpoolTypeOK, SessionStates
<1>15. CASE ReplayDone
  BY <1>15 DEF NetTypeOK, ReplayDone, Return, SpoolTypeOK, SessionStates
<1>16. CASE FrameFails
  BY <1>16, CloseType
  DEF FrameFails, SendFails, Return, SpoolTypeOK, SessionStates
<1>17. CASE \E id \in Ids : CallSendFrame(id)
  BY <1>17
  DEF NetTypeOK, CallSendFrame, Return, OpenTruncated, SpoolTypeOK,
      FileStates
<1>18. CASE PersistFinish
  BY <1>18, SizeArithmetic
  DEF NetTypeOK, PersistFinish, FinishWrite, SpoolTypeOK, FileStates
<1>19. CASE ConnectSucceeds
  <2>1. stream' \in Seq(Messages) /\ Len(stream') <= SocketCap
    BY <1>19, SessionAssumption DEF ConnectSucceeds
  <2>2. NetTypeOK'
    BY <1>19, <2>1 DEF ConnectSucceeds, NetTypeOK, Replies
  <2> QED
    BY <1>19, <2>2 DEF ConnectSucceeds, SessionStates, SpoolTypeOK
<1>20. CASE HelloSent
  <2>1. NetTypeOK'
    BY <1>20, SendType, MessageTypes DEF HelloSent
  <2> QED
    BY <1>20, <2>1 DEF HelloSent, SendSucceeds, SpoolTypeOK
<1>21. CASE RequestSent
  <2>1. NetTypeOK'
    BY <1>21, SendType, MessageTypes DEF RequestSent
  <2> QED
    BY <1>21, <2>1 DEF RequestSent, SendSucceeds, SpoolTypeOK
<1>22. CASE PruneOne
  BY <1>22, RemoveType DEF NetTypeOK, PruneOne, Smallest
<1>23. CASE \E id \in Ids : ReplayOne(id)
  <2>1. NetTypeOK'
    BY <1>23, SendType, MessageTypes DEF ReplayOne
  <2> QED
    BY <1>23, <2>1 DEF ReplayOne, SendSucceeds, SpoolTypeOK
<1>24. CASE FrameSent
  <2>1. NetTypeOK'
    BY <1>24, SendType, MessageTypes DEF FrameSent
  <2> QED
    BY <1>24, <2>1 DEF FrameSent, SendSucceeds, SpoolTypeOK
<1>25. CASE FrameRemoved
  BY <1>25, RemoveType DEF NetTypeOK, FrameRemoved, Return
<1>26. CASE Crash
  <2>1. SpoolTypeOK'
    BY <1>26 DEF Crash, KillDuringWrite, SpoolTypeOK, FileStates
  <2>2. crashes' \in 0 .. MaxCrash
    BY <1>26, SessionAssumption DEF Crash
  <2> QED
    BY <1>26, <2>1, <2>2, CloseType DEF Crash
<1>27. CASE Restart
  BY <1>27, DiskBytesType, SpoolAssumption
  DEF NetTypeOK, Restart, RecountBytes, SpoolTypeOK, SessionStates
<1>28. CASE ServerReadsHello
  <2>1. stream' \in Seq(Messages) /\ Len(stream') <= SocketCap
    BY <1>28, ReadType DEF ServerReadsHello
  <2>2. NetTypeOK'
    BY <1>28, <2>1 DEF ServerReadsHello, NetTypeOK
  <2> QED
    BY <1>28, <2>2 DEF ServerReadsHello, SpoolTypeOK
<1>29. CASE ServerAnswers
  <2>1. stream' \in Seq(Messages) /\ Len(stream') <= SocketCap
    BY <1>29, ReadType DEF ServerAnswers
  <2>2. NetTypeOK'
    BY <1>29, <2>1 DEF ServerAnswers, NetTypeOK, Replies, BadReply
  <2> QED
    BY <1>29, <2>2 DEF ServerAnswers, SpoolTypeOK
<1>30. CASE \E id \in Ids : ServerSaves(id)
  <2>1. stream' \in Seq(Messages) /\ Len(stream') <= SocketCap
    BY <1>30, ReadType DEF ServerSaves
  <2>2. NetTypeOK'
    BY <1>30, <2>1 DEF ServerSaves, NetTypeOK
  <2> QED
    BY <1>30, <2>2 DEF ServerSaves, SpoolTypeOK
<1>31. CASE ConnectionCut
  <2>1. stream' \in Seq(Messages) /\ Len(stream') <= SocketCap
    BY <1>31, SessionAssumption DEF ConnectionCut
  <2>2. NetTypeOK'
    BY <1>31, <2>1 DEF ConnectionCut, NetTypeOK, Replies
  <2> QED
    BY <1>31, <2>2 DEF ConnectionCut, SpoolTypeOK
<1>32. CASE ResetArrives
  <2>1. NetTypeOK'
    BY <1>32 DEF ResetArrives, NetTypeOK, Replies
  <2> QED
    BY <1>32, <2>1 DEF ResetArrives, SpoolTypeOK
<1>33. CASE UNCHANGED vars
  BY <1>33 DEF NetTypeOK, SpoolTypeOK
<1> QED
  BY <1>1, <1>2, <1>3, <1>4, <1>5, <1>6, <1>7, <1>8, <1>9, <1>10, <1>11,
     <1>12, <1>13, <1>14, <1>15, <1>16, <1>17, <1>18, <1>19, <1>20, <1>21,
     <1>22, <1>23, <1>24, <1>25, <1>26, <1>27, <1>28, <1>29, <1>30, <1>31,
     <1>32, <1>33
  DEF Next, Call, Step, Server

(* Every variable keeps its type in every reachable state.                 *)
THEOREM TypeCorrect == Spec => []TypeOK
<1>1. TInv => TypeOK
  BY DEF TInv
<1> QED
  BY <1>1, InitTInv, NextTInv, PTL DEF Spec

-----------------------------------------------------------------------------
(* No frame is lost before its handover.  What the proof needs beyond the  *)
(* property: where a frame may be that the server has (it was handed over) *)
(* or reports (it has it), and what the loops and the end of sendFrame()   *)
(* may count on when they remove a file.                                   *)
DataInv ==
    /\ accepted \subseteq Pending \cup handed
    /\ Pending \subseteq accepted
    /\ saved \subseteq handed
    /\ \A i \in 1 .. Len(stream) :
          stream[i].type = "frame" => stream[i].id \in handed
    /\ 1 .. highest \subseteq saved
    /\ reply >= 0 => 1 .. reply \subseteq saved

StepInv ==
    /\ pc = "write" => frame \notin accepted
    /\ pc = "prune" => todo \subseteq Pending \cap saved
    /\ pc = "replay" => todo \subseteq Pending
    /\ pc = "remove" => frame \in handed
    /\ op = "sendFrame" /\ pc \in {"dispatch", "connect", "hello", "request",
                                   "reply", "prune", "replay", "send"}
          => frame \in Pending \cup saved

FrameInv == DataInv /\ StepInv

LEMMA InitFrameInv == Init => FrameInv
<1> SUFFICES ASSUME Init PROVE FrameInv
  OBVIOUS
<1>1. Pending = {}
  BY DEF Init, SpoolInit, Pending
<1>2. Len(stream) = 0
  BY DEF Init
<1>3. 1 .. highest = {} /\ ~(reply >= 0)
  BY DEF Init, NoReply
<1> QED
  BY <1>1, <1>2, <1>3 DEF Init, FrameInv, DataInv, StepInv

(* The pending frames after each kind of change to a file.                 *)
LEMMA PendingSame == UNCHANGED file => Pending' = Pending
  BY DEF Pending

LEMMA PendingAfter ==
  ASSUME NEW id \in Ids, NEW s \in FileStates, SpoolTypeOK,
         file' = [file EXCEPT ![id] = s]
  PROVE  Pending' = IF s = "complete" THEN Pending \cup {id}
                                      ELSE Pending \ {id}
  BY DEF Pending, SpoolTypeOK

(* A step that touches no file and no frame, and at most loses messages.   *)
LEMMA DataQuiet ==
  ASSUME DataInv, UNCHANGED <<file, saved, accepted, handed, highest>>,
         stream' \in {stream, <<>>}, reply' \in {reply, NoReply}
  PROVE  DataInv' /\ Pending' = Pending
<1>1. Pending' = Pending
  BY PendingSame
<1>2. Len(<<>>) = 0
  OBVIOUS
<1>3. ASSUME NEW i \in 1 .. Len(stream'), stream'[i].type = "frame"
      PROVE  stream'[i].id \in handed
  BY <1>2, <1>3 DEF DataInv
<1>4. reply' >= 0 => 1 .. reply' \subseteq saved
  BY DEF DataInv, NoReply
<1> QED
  BY <1>1, <1>3, <1>4 DEF DataInv

(* A message is sent; if it is a frame, it counts as handed over.          *)
LEMMA DataSend ==
  ASSUME DataInv, NetTypeOK, NEW m \in Messages, SendSucceeds(m),
         UNCHANGED <<file, saved, accepted, highest>>,
         handed \subseteq handed', m.type = "frame" => m.id \in handed'
  PROVE  DataInv' /\ Pending' = Pending
<1>1. Pending' = Pending
  BY PendingSame
<1>2. ASSUME NEW i \in 1 .. Len(stream'), stream'[i].type = "frame"
      PROVE  stream'[i].id \in handed'
  <2>1. CASE stream' = Append(stream, m)
    <3>1. Len(stream') = Len(stream) + 1 /\ Len(stream) \in Nat
      BY <2>1 DEF NetTypeOK
    <3>2. CASE i = Len(stream) + 1
      BY <1>2, <2>1, <3>2 DEF NetTypeOK
    <3>3. CASE i \in 1 .. Len(stream)
      <4>1. stream'[i] = stream[i]
        BY <2>1, <3>3 DEF NetTypeOK
      <4> QED
        BY <1>2, <3>3, <4>1 DEF DataInv
    <3> QED
      BY <3>1, <3>2, <3>3
  <2>2. CASE UNCHANGED stream
    BY <1>2, <2>2 DEF DataInv
  <2> QED
    BY <2>1, <2>2 DEF SendSucceeds
<1>3. UNCHANGED reply
  BY DEF SendSucceeds
<1> QED
  BY <1>1, <1>2, <1>3 DEF DataInv

(* The server takes a message off the connection.                          *)
LEMMA StreamRead ==
  ASSUME DataInv, NetTypeOK, NEW m, ServerReads(m)
  PROVE  /\ m.type = "frame" => m.id \in handed
         /\ \A i \in 1 .. Len(stream') :
               stream'[i].type = "frame" => stream'[i].id \in handed
<1>1. /\ stream # <<>> /\ m = stream[1] /\ Len(stream') = Len(stream) - 1
      /\ \A i \in 1 .. Len(stream') : stream'[i] = stream[i + 1]
      /\ Len(stream) \in Nat
  BY DEF ServerReads, NetTypeOK
<1>2. Len(stream) >= 1
  BY <1>1 DEF NetTypeOK
<1> QED
  BY <1>1, <1>2 DEF DataInv

(* Frames are never lost when no frame is offered twice and every reply is *)
(* about the session's own task.                                           *)
LEMMA NextFrameInv ==
  ASSUME ~Retries, ~ForeignReply, TInv, FrameInv, [Next]_vars
  PROVE  FrameInv'
<1> USE DEF TInv, TypeOK, CallShape, FrameInv, StepInv, vars, callVars,
            sessionVars, netVars, histVars, spoolVars, FileStates
<1>1. CASE CallStart
  <2>1. DataInv' /\ Pending' = Pending
    BY <1>1, DataQuiet DEF CallStart
  <2> QED
    BY <1>1, <2>1 DEF CallStart
<1>2. CASE CallRequestResume
  <2>1. DataInv' /\ Pending' = Pending
    BY <1>2, DataQuiet DEF CallRequestResume
  <2> QED
    BY <1>2, <2>1 DEF CallRequestResume
<1>3. CASE CallReplayPendingFrames
  <2>1. DataInv' /\ Pending' = Pending
    BY <1>3, DataQuiet DEF CallReplayPendingFrames
  <2> QED
    BY <1>3, <2>1 DEF CallReplayPendingFrames
<1>4. CASE \E id \in Ids : CallSendFrame(id)
  <2> PICK id \in Ids : CallSendFrame(id)
    BY <1>4
  <2>1. CASE UNCHANGED spoolVars
    <3>1. DataInv' /\ Pending' = Pending
      BY <2>1, DataQuiet DEF CallSendFrame
    <3> QED
      BY <2>1, <3>1 DEF CallSendFrame, Return, OpenTruncated
  <2>2. CASE OpenTruncated(id) /\ pc' = "write" /\ frame' = id
    <3>1. id \notin accepted
      BY DEF CallSendFrame
    <3>2. Pending' = Pending \ {id}
      BY <2>2, PendingAfter DEF OpenTruncated
    <3>3. Pending' = Pending
      BY <3>1, <3>2 DEF DataInv
    <3>4. DataInv'
      BY <2>2, <3>3 DEF DataInv, CallSendFrame
    <3> QED
      BY <2>2, <3>1, <3>4 DEF CallSendFrame
  <2> QED
    BY <2>1, <2>2 DEF CallSendFrame
<1>5. CASE PersistFinish
  <2>1. Pending' = Pending \cup {frame}
    BY <1>5, PendingAfter DEF PersistFinish, FinishWrite
  <2>2. DataInv'
    BY <1>5, <2>1 DEF PersistFinish, DataInv
  <2> QED
    BY <1>5, <2>1, <2>2 DEF PersistFinish
<1>6. CASE PersistFail
  <2>1. DataInv' /\ Pending' = Pending
    BY <1>6, DataQuiet DEF PersistFail, FailWrite, Return
  <2> QED
    BY <1>6, <2>1 DEF PersistFail, FailWrite, Return
<1>7. CASE Dispatch
  <2>1. DataInv' /\ Pending' = Pending
    BY <1>7, DataQuiet DEF Dispatch
  <2> QED
    BY <1>7, <2>1 DEF Dispatch
<1>8. CASE ConnectAlready
  <2>1. DataInv' /\ Pending' = Pending
    BY <1>8, DataQuiet DEF ConnectAlready
  <2> QED
    BY <1>8, <2>1 DEF ConnectAlready
<1>9. CASE ConnectSucceeds
  <2>1. DataInv' /\ Pending' = Pending
    BY <1>9, DataQuiet DEF ConnectSucceeds
  <2> QED
    BY <1>9, <2>1 DEF ConnectSucceeds
<1>10. CASE ConnectFails
  <2>1. DataInv' /\ Pending' = Pending
    BY <1>10, DataQuiet DEF ConnectFails, Return
  <2> QED
    BY <1>10, <2>1 DEF ConnectFails, Return
<1>11. CASE HelloFails
  <2>1. DataInv' /\ Pending' = Pending
    BY <1>11, DataQuiet DEF HelloFails, SendFails, CloseConnection, Return
  <2> QED
    BY <1>11, <2>1 DEF HelloFails, SendFails, CloseConnection, Return
<1>12. CASE RequestFails
  <2>1. DataInv' /\ Pending' = Pending
    BY <1>12, DataQuiet
    DEF RequestFails, ResumeFailed, SendFails, CloseConnection, Return
  <2> QED
    BY <1>12, <2>1
    DEF RequestFails, ResumeFailed, SendFails, CloseConnection, Return
<1>13. CASE ReplyFails
  <2>1. DataInv' /\ Pending' = Pending
    BY <1>13, DataQuiet
    DEF ReplyFails, ResumeFailed, RecvFails, CloseConnection, Return
  <2> QED
    BY <1>13, <2>1
    DEF ReplyFails, ResumeFailed, RecvFails, CloseConnection, Return
<1>14. CASE ReplyRejected
  <2>1. DataInv' /\ Pending' = Pending
    BY <1>14, DataQuiet
    DEF ReplyRejected, ResumeFailed, CloseConnection, Return
  <2> QED
    BY <1>14, <2>1 DEF ReplyRejected, ResumeFailed, CloseConnection, Return
<1>15. CASE ReplayFails
  <2>1. DataInv' /\ Pending' = Pending
    BY <1>15, DataQuiet DEF ReplayFails, SendFails, CloseConnection, Return
  <2> QED
    BY <1>15, <2>1 DEF ReplayFails, SendFails, CloseConnection, Return
<1>16. CASE ReplayDone
  <2>1. DataInv' /\ Pending' = Pending
    BY <1>16, DataQuiet DEF ReplayDone, Return
  <2> QED
    BY <1>16, <2>1 DEF ReplayDone, Return
<1>17. CASE FrameFails
  <2>1. DataInv' /\ Pending' = Pending
    BY <1>17, DataQuiet DEF FrameFails, SendFails, CloseConnection, Return
  <2> QED
    BY <1>17, <2>1 DEF FrameFails, SendFails, CloseConnection, Return
<1>18. CASE PruneDone
  <2>1. DataInv' /\ Pending' = Pending
    BY <1>18, DataQuiet DEF PruneDone, Return
  <2> QED
    BY <1>18, <2>1 DEF PruneDone, Return
<1>19. CASE HelloSent
  <2>1. Hello \in Messages /\ Hello.type # "frame"
    BY MessageTypes DEF Hello
  <2>2. DataInv' /\ Pending' = Pending
    BY <1>19, <2>1, DataSend DEF HelloSent
  <2> QED
    BY <1>19, <2>2 DEF HelloSent
<1>20. CASE RequestSent
  <2>1. Request \in Messages /\ Request.type # "frame"
    BY MessageTypes DEF Request
  <2>2. DataInv' /\ Pending' = Pending
    BY <1>20, <2>1, DataSend DEF RequestSent
  <2> QED
    BY <1>20, <2>2 DEF RequestSent
<1>21. CASE ReplyRead
  <2>1. Pending' = Pending /\ 1 .. reply \subseteq saved
    BY <1>21, PendingSame DEF ReplyRead, DataInv
  <2>2. todo' \subseteq 1 .. reply /\ todo' \subseteq Pending
    BY <1>21 DEF ReplyRead, Pending, NetTypeOK, Replies, NoReply, BadReply
  <2>3. DataInv'
    BY <1>21, <2>1 DEF ReplyRead, DataInv, NoReply
  <2> QED
    BY <1>21, <2>1, <2>2, <2>3 DEF ReplyRead
<1>22. CASE PruneOne
  <2> PICK id \in Smallest(todo) : RemoveFrame(id) /\ todo' = todo \ {id}
    BY <1>22 DEF PruneOne
  <2>1. id \in todo /\ id \in Ids /\ id \in Pending \cap saved
    BY <1>22 DEF PruneOne, Smallest
  <2>2. Pending' = Pending \ {id}
    BY <2>1, PendingAfter DEF RemoveFrame
  <2>3. DataInv'
    BY <1>22, <2>1, <2>2 DEF PruneOne, DataInv
  <2> QED
    BY <1>22, <2>1, <2>2, <2>3 DEF PruneOne
<1>23. CASE \E id \in Ids : ReplayOne(id)
  <2> PICK id \in Ids : ReplayOne(id)
    BY <1>23
  <2>1. Frame(id) \in Messages /\ Frame(id).id = id
    BY MessageTypes DEF Frame
  <2>2. DataInv' /\ Pending' = Pending
    BY <2>1, DataSend DEF ReplayOne
  <2> QED
    BY <2>2 DEF ReplayOne
<1>24. CASE FrameSent
  <2>1. Frame(frame) \in Messages /\ Frame(frame).id = frame
    BY <1>24, MessageTypes DEF FrameSent, Frame
  <2>2. DataInv' /\ Pending' = Pending
    BY <1>24, <2>1, DataSend DEF FrameSent
  <2> QED
    BY <1>24, <2>2 DEF FrameSent
<1>25. CASE FrameRemoved
  <2>1. Pending' = Pending \ {frame}
    BY <1>25, PendingAfter DEF FrameRemoved, RemoveFrame
  <2>2. DataInv'
    BY <1>25, <2>1 DEF FrameRemoved, DataInv
  <2> QED
    BY <1>25, <2>2 DEF FrameRemoved, Return
<1>26. CASE Crash
  <2>1. stream' = <<>> /\ reply' = NoReply /\ pc' = "down"
    BY <1>26 DEF Crash, CloseConnection
  <2>2. Pending \subseteq Pending'
    <3>1. CASE pc = "write"
      <4>1. frame \in Ids /\ KillDuringWrite(frame) /\ frame \notin accepted
        BY <1>26, <3>1 DEF Crash
      <4>2. Pending' = Pending \cup {frame} \/ Pending' = Pending \ {frame}
        BY <4>1, PendingAfter DEF KillDuringWrite
      <4> QED
        BY <4>1, <4>2 DEF DataInv
    <3>2. CASE pc # "write"
      BY <1>26, <3>2, PendingSame DEF Crash
    <3> QED
      BY <3>1, <3>2
  <2>3. accepted' = accepted \cup Pending'
    BY <1>26 DEF Crash, Pending
  <2>4. Len(<<>>) = 0 /\ ~(NoReply >= 0)
    BY DEF NoReply
  <2>5. DataInv'
    <3>1. UNCHANGED <<saved, handed, highest>>
      BY <1>26 DEF Crash
    <3>2. \A i \in 1 .. Len(stream') :
             stream'[i].type = "frame" => stream'[i].id \in handed'
      BY <2>1, <2>4
    <3>3. reply' >= 0 => 1 .. reply' \subseteq saved'
      BY <2>1, <2>4
    <3> QED
      BY <2>2, <2>3, <3>1, <3>2, <3>3 DEF DataInv
  <2> QED
    BY <2>1, <2>5
<1>27. CASE Restart
  <2>1. Pending' = Pending /\ pc' = "idle" /\ 1 .. highest' = {}
    BY <1>27, PendingSame DEF Restart
  <2>2. DataInv'
    BY <1>27, <2>1 DEF Restart, DataInv
  <2> QED
    BY <2>1, <2>2
<1>28. CASE ServerReadsHello
  <2>1. Pending' = Pending
    BY <1>28, PendingSame DEF ServerReadsHello
  <2>2. DataInv'
    BY <1>28, <2>1, StreamRead DEF ServerReadsHello, DataInv
  <2> QED
    BY <1>28, <2>1, <2>2 DEF ServerReadsHello
<1>29. CASE ServerAnswers
  <2>1. Pending' = Pending
    BY <1>29, PendingSame DEF ServerAnswers
  <2>2. reply' >= 0 => 1 .. reply' \subseteq saved
    BY <1>29 DEF ServerAnswers, BadReply
  <2>3. DataInv'
    BY <1>29, <2>1, <2>2, StreamRead DEF ServerAnswers, DataInv
  <2> QED
    BY <1>29, <2>1, <2>3 DEF ServerAnswers
<1>30. CASE \E id \in Ids : ServerSaves(id)
  <2> PICK id \in Ids : ServerSaves(id)
    BY <1>30
  <2>1. Pending' = Pending
    BY PendingSame DEF ServerSaves
  <2>2. id \in handed
    BY StreamRead DEF ServerSaves, Frame
  <2>3. DataInv'
    BY <2>1, <2>2, StreamRead DEF ServerSaves, DataInv
  <2> QED
    BY <2>1, <2>3 DEF ServerSaves
<1>31. CASE ConnectionCut
  <2>1. DataInv' /\ Pending' = Pending
    BY <1>31, DataQuiet DEF ConnectionCut
  <2> QED
    BY <1>31, <2>1 DEF ConnectionCut
<1>32. CASE ResetArrives
  <2>1. DataInv' /\ Pending' = Pending
    BY <1>32, DataQuiet DEF ResetArrives
  <2> QED
    BY <1>32, <2>1 DEF ResetArrives
<1>33. CASE UNCHANGED vars
  <2>1. DataInv' /\ Pending' = Pending
    BY <1>33, DataQuiet
  <2> QED
    BY <1>33, <2>1
<1> QED
  BY <1>1, <1>2, <1>3, <1>4, <1>5, <1>6, <1>7, <1>8, <1>9, <1>10, <1>11,
      <1>12, <1>13, <1>14, <1>15, <1>16, <1>17, <1>18, <1>19, <1>20, <1>21,
      <1>22, <1>23, <1>24, <1>25, <1>26, <1>27, <1>28, <1>29, <1>30, <1>31,
      <1>32, <1>33
  DEF Next, Call, Step, Server

(* A frame the spool has held completely is in the spool or was handed to  *)
(* a socket, through every failure, crash and restart.                     *)
THEOREM FramesNotLost ==
  ASSUME ~Retries, ~ForeignReply
  PROVE  Spec => []NoLossBeforeHandover
<1>1. Init => TInv /\ FrameInv
  BY InitTInv, InitFrameInv
<1>2. (TInv /\ FrameInv) /\ [Next]_vars => (TInv /\ FrameInv)'
  BY NextTInv, NextFrameInv
<1>3. TInv /\ FrameInv => NoLossBeforeHandover
  BY DEF FrameInv, DataInv, NoLossBeforeHandover
<1> QED
  BY <1>1, <1>2, <1>3, PTL DEF Spec
-----------------------------------------------------------------------------
(* What a step does to the frame lifecycle.  Most steps touch neither the  *)
(* files nor what was handed over or saved.                                *)
LEMMA LifecycleStep ==
  ASSUME TInv, FrameInv, [Next]_vars, ~Retries, ~ForeignReply
  PROVE  [Delivery!Next]_(Delivery!dvars)
<1> USE DEF TInv, TypeOK, CallShape, FrameInv, StepInv, vars, callVars,
            sessionVars, netVars, histVars, spoolVars
<1>0. ASSUME UNCHANGED <<Pending, handed, saved>>
      PROVE  UNCHANGED Delivery!dvars
  BY <1>0 DEF Delivery!dvars
<1>1. ASSUME NEW id \in Ids, Pending' = Pending \cup {id},
             UNCHANGED <<handed, saved>>
      PROVE  Delivery!Next
  BY <1>1 DEF Delivery!Next, Delivery!Accept
<1>2. ASSUME NEW id \in Ids, id \in Pending \cup saved,
             handed' = handed \cup {id}, UNCHANGED <<file, saved>>
      PROVE  [Delivery!Next]_(Delivery!dvars)
  <2>1. CASE id \in Pending
    BY <1>2, <2>1, PendingSame DEF Delivery!Next, Delivery!HandOver
  <2>2. CASE id \in saved
    BY <1>0, <1>2, <2>2, PendingSame DEF DataInv
  <2> QED
    BY <1>2, <2>1, <2>2
<1>3. ASSUME NEW id \in Ids, id \in handed, RemoveFrame(id),
             UNCHANGED <<handed, saved>>
      PROVE  [Delivery!Next]_(Delivery!dvars)
  <2>1. Pending' = Pending \ {id}
    BY <1>3, PendingAfter DEF RemoveFrame, FileStates
  <2>2. CASE id \in Pending
    BY <1>3, <2>1, <2>2 DEF Delivery!Next, Delivery!Forget
  <2>3. CASE id \notin Pending
    BY <1>0, <1>3, <2>1, <2>3
  <2> QED
    BY <2>2, <2>3
<1>4. CASE \E id \in Ids : CallSendFrame(id)
  <2> PICK id \in Ids : CallSendFrame(id)
    BY <1>4
  <2>1. CASE OpenTruncated(id)
    <3>1. Pending' = Pending \ {id} /\ id \notin Pending
      BY <2>1, PendingAfter
      DEF OpenTruncated, FileStates, CallSendFrame, DataInv
    <3> QED
      BY <1>0, <3>1 DEF CallSendFrame
  <2>2. CASE UNCHANGED file
    BY <1>0, <2>2, PendingSame DEF CallSendFrame
  <2> QED
    BY <2>1, <2>2 DEF CallSendFrame
<1>5. CASE PersistFinish
  <2>1. Pending' = Pending \cup {frame} /\ frame \in Ids
    BY <1>5, PendingAfter DEF PersistFinish, FinishWrite, FileStates
  <2> QED
    BY <1>1, <1>5, <2>1 DEF PersistFinish
<1>6. CASE PruneOne
  <2> PICK id \in Smallest(todo) : RemoveFrame(id)
    BY <1>6 DEF PruneOne
  <2>1. id \in Ids /\ id \in handed
    BY <1>6 DEF PruneOne, Smallest, DataInv
  <2> QED
    BY <1>3, <1>6, <2>1 DEF PruneOne
<1>7. CASE \E id \in Ids : ReplayOne(id)
  <2> PICK id \in Ids : ReplayOne(id)
    BY <1>7
  <2>1. id \in Pending
    BY DEF ReplayOne, Smallest
  <2> QED
    BY <1>2, <2>1 DEF ReplayOne
<1>8. CASE FrameSent
  <2>1. frame \in Ids /\ frame \in Pending \cup saved
    BY <1>8 DEF FrameSent
  <2> QED
    BY <1>2, <1>8, <2>1 DEF FrameSent
<1>9. CASE FrameRemoved
  <2>1. frame \in Ids /\ frame \in handed
    BY <1>9 DEF FrameRemoved
  <2> QED
    BY <1>3, <1>9, <2>1 DEF FrameRemoved
<1>10. CASE Crash
  <2>1. CASE pc = "write"
    <3>1. frame \in Ids /\ frame \notin Pending /\ KillDuringWrite(frame)
      BY <1>10, <2>1 DEF Crash, DataInv
    <3>2. Pending' = Pending \cup {frame} \/ Pending' = Pending \ {frame}
      BY <3>1, PendingAfter DEF KillDuringWrite, FileStates
    <3> QED
      BY <1>0, <1>1, <1>10, <3>1, <3>2 DEF Crash
  <2>2. CASE UNCHANGED file
    BY <1>0, <1>10, <2>2, PendingSame DEF Crash
  <2> QED
    BY <1>10, <2>1, <2>2 DEF Crash
<1>11. CASE \E id \in Ids : ServerSaves(id)
  <2> PICK id \in Ids : ServerSaves(id)
    BY <1>11
  <2>1. id \in handed
    BY StreamRead DEF ServerSaves, Frame
  <2> QED
    BY <2>1, PendingSame DEF ServerSaves, Delivery!Next, Delivery!Save
<1>12. CASE CallStart \/ CallRequestResume \/ CallReplayPendingFrames
  BY <1>0, <1>12, PendingSame
  DEF CallStart, CallRequestResume, CallReplayPendingFrames
<1>13. CASE PersistFail \/ Dispatch \/ ConnectAlready \/ ConnectSucceeds
            \/ ConnectFails
  BY <1>0, <1>13, PendingSame
  DEF PersistFail, FailWrite, Dispatch, ConnectAlready, ConnectSucceeds,
      ConnectFails
<1>14. CASE HelloSent \/ HelloFails \/ RequestSent \/ RequestFails
            \/ ReplyFails \/ ReplyRejected \/ ReplyRead
  BY <1>0, <1>14, PendingSame
  DEF HelloSent, HelloFails, RequestSent, RequestFails, ReplyFails,
      ReplyRejected, ReplyRead, ResumeFailed
<1>15. CASE PruneDone \/ ReplayFails \/ ReplayDone \/ FrameFails
  BY <1>0, <1>15, PendingSame
  DEF PruneDone, ReplayFails, ReplayDone, FrameFails
<1>16. CASE Restart \/ ServerReadsHello \/ ServerAnswers \/ ConnectionCut
            \/ ResetArrives
  BY <1>0, <1>16, PendingSame
  DEF Restart, ServerReadsHello, ServerAnswers, ConnectionCut, ResetArrives
<1>17. CASE UNCHANGED vars
  BY <1>0, <1>17, PendingSame
<1> QED
  BY <1>4, <1>5, <1>6, <1>7, <1>8, <1>9, <1>10, <1>11, <1>12, <1>13, <1>14,
     <1>15, <1>16, <1>17
  DEF Next, Call, Step, Server

(* The session keeps what FrameDelivery promises for each frame, through   *)
(* every failure, crash and restart: a frame is handed over while it is    *)
(* pending, made durable only after that and forgotten only after that.    *)
THEOREM SessionDelivers ==
  ASSUME ~Retries, ~ForeignReply
  PROVE  Spec => ImplementsDelivery
<1>1. Init => TInv /\ FrameInv
  BY InitTInv, InitFrameInv
<1>2. (TInv /\ FrameInv) /\ [Next]_vars => (TInv /\ FrameInv)'
  BY NextTInv, NextFrameInv
<1>3. Init => Delivery!Init
  BY SpoolAssumption DEF Init, SpoolInit, Delivery!Init, Pending
<1>4. TInv /\ FrameInv /\ [Next]_vars => [Delivery!Next]_(Delivery!dvars)
  BY LifecycleStep
<1> QED
  BY <1>1, <1>2, <1>3, <1>4, PTL
  DEF Spec, ImplementsDelivery, Delivery!Spec

(* What the pruning loop of requestResume() removes, the server has made   *)
(* durable.                                                                *)
THEOREM PrunedIsDurable ==
  ASSUME ~Retries, ~ForeignReply
  PROVE  Spec => ReplyPrunesDurable
<1>1. Init => TInv /\ FrameInv
  BY InitTInv, InitFrameInv
<1>2. (TInv /\ FrameInv) /\ [Next]_vars => (TInv /\ FrameInv)'
  BY NextTInv, NextFrameInv
<1>3. ASSUME TInv, FrameInv, [Next]_vars, pc = "prune"
      PROVE  Pending \subseteq Pending' \cup saved
  <2>1. CASE PruneOne
    <3> PICK id \in Smallest(todo) : RemoveFrame(id)
      BY <2>1 DEF PruneOne
    <3>1. id \in Ids /\ id \in saved
      BY <1>3 DEF Smallest, TInv, TypeOK, FrameInv, StepInv
    <3>2. Pending' = Pending \ {id}
      BY <1>3, <3>1, PendingAfter
      DEF RemoveFrame, FileStates, TInv, TypeOK
    <3> QED
      BY <3>1, <3>2
  <2>2. CASE UNCHANGED file
    BY <2>2, PendingSame
  <2>3. UNCHANGED file \/ PruneOne
    BY <1>3
    DEF Next, Call, Step, Server, vars, spoolVars, CallStart,
        CallRequestResume, CallReplayPendingFrames, CallSendFrame,
        PersistFinish, PersistFail, Dispatch, ConnectAlready,
        ConnectSucceeds, ConnectFails, HelloSent, HelloFails, RequestSent,
        RequestFails, ReplyFails, ReplyRejected, ReplyRead, ResumeFailed,
        PruneDone, ReplayOne, ReplayFails, ReplayDone, FrameSent, FrameFails,
        FrameRemoved, Crash, Restart, ServerReadsHello, ServerAnswers,
        ServerSaves, ConnectionCut, ResetArrives
  <2> QED
    BY <2>1, <2>2, <2>3
<1>4. TInv /\ FrameInv /\ [Next]_vars
         => [pc = "prune" => \A id \in Pending : id \in Pending' \cup saved]_vars
  BY <1>3
<1> QED
  BY <1>1, <1>2, <1>4, PTL DEF Spec, ReplyPrunesDurable

-----------------------------------------------------------------------------
(* The byte counter of the spool, with a limit set.  Whole is what the     *)
(* complete files take.                                                    *)
Whole == FrameBytes * Cardinality(Pending)

LEMMA Products ==
  ASSUME NEW a \in Nat, NEW m \in Nat, NEW n \in Nat
  PROVE  /\ a * n \in Nat /\ a * (n + 1) = a * n + a
         /\ m <= n => a * m <= a * n
  OBVIOUS

LEMMA FilesCounted ==
  /\ IsFiniteSet(Pending) /\ IsFiniteSet(Torn)
  /\ Cardinality(Pending) \in Nat /\ Cardinality(Torn) \in Nat
  /\ Cardinality(Pending) + Cardinality(Torn) <= MaxFrame
<1>1. IsFiniteSet(Ids) /\ Cardinality(Ids) = MaxFrame
  BY FS_Interval, SpoolAssumption
<1>2. /\ Pending \in SUBSET Ids /\ Torn \in SUBSET Ids
      /\ Pending \cup Torn \in SUBSET Ids /\ Pending \cap Torn = {}
  BY DEF Pending, Torn
<1>3. IsFiniteSet(Pending) /\ IsFiniteSet(Torn)
  BY <1>1, <1>2, FS_Subset
<1>4. Cardinality(Pending \cup Torn) <= MaxFrame
  BY <1>1, <1>2, FS_Subset
<1>5. Cardinality(Pending \cup Torn)
        = Cardinality(Pending) + Cardinality(Torn) - Cardinality({})
  BY <1>2, <1>3, FS_Union
<1> QED
  BY <1>3, <1>4, <1>5, FS_EmptySet, FS_CardinalityType

LEMMA WholeType == Whole \in Nat
  BY FilesCounted, Products, SpoolAssumption DEF Whole

LEMMA WholeNextType == (Whole \in Nat)'
  BY WholeType, PTL

(* The constructor counts the complete files and torn ones, and no more    *)
(* than a complete file for each frame.                                    *)
LEMMA Recounted == Whole <= DiskBytes /\ DiskBytes <= FrameBytes * MaxFrame
<1> DEFINE p == Cardinality(Pending)
           t == Cardinality(Torn)
<1>1. /\ p \in Nat /\ t \in Nat /\ p + t <= MaxFrame /\ MaxFrame \in Nat
      /\ FrameBytes \in Nat /\ TornBytes \in Nat /\ TornBytes <= FrameBytes
  BY FilesCounted, SpoolAssumption
<1> HIDE DEF p, t
<1>2. TornBytes * t \in Nat /\ TornBytes * t <= FrameBytes * t
  BY <1>1
<1>3. FrameBytes * p + FrameBytes * t = FrameBytes * (p + t)
  BY <1>1
<1>4. FrameBytes * (p + t) <= FrameBytes * MaxFrame
  BY <1>1
<1>5. FrameBytes * p \in Nat /\ FrameBytes * t \in Nat
  BY <1>1
<1>6. FrameBytes * MaxFrame \in Nat
  BY <1>1
<1>7. /\ FrameBytes * p <= FrameBytes * p + TornBytes * t
      /\ FrameBytes * p + TornBytes * t <= FrameBytes * MaxFrame
  BY <1>2, <1>3, <1>4, <1>5, <1>6
<1> QED
  BY <1>7 DEF Whole, DiskBytes, p, t

(* A complete file more, and one less.                                     *)
LEMMA WholeGrows ==
  ASSUME NEW id \in Ids, id \notin Pending, Pending' = Pending \cup {id}
  PROVE  Whole' = Whole + FrameBytes
<1>1. Cardinality(Pending') = Cardinality(Pending) + 1
  BY FilesCounted, FS_AddElement
<1> QED
  BY <1>1, FilesCounted, Products, SpoolAssumption DEF Whole

LEMMA WholeShrinks ==
  ASSUME NEW id \in Pending, Pending' = Pending \ {id}
  PROVE  Whole' = Whole - FrameBytes /\ Whole >= FrameBytes
<1>1. Cardinality(Pending') = Cardinality(Pending) - 1
  BY FilesCounted, FS_RemoveElement
<1>2. Cardinality(Pending) # 0
  BY FilesCounted, FS_EmptySet
<1>3. PICK n \in Nat : Cardinality(Pending) = n + 1 /\ Cardinality(Pending') = n
  BY <1>1, <1>2, FilesCounted
<1>4. FrameBytes * (n + 1) = FrameBytes * n + FrameBytes
      /\ FrameBytes * n \in Nat
  BY Products, SpoolAssumption
<1> QED
  BY <1>3, <1>4, SpoolAssumption DEF Whole

(* The counter is never below what is complete, and what is complete never *)
(* above the limit, as canPersist() has looked at the counter before the   *)
(* only step that can add a complete file.  A death in that step leaves a  *)
(* counter that is too low, and the recount corrects it.                   *)
SpoolInv ==
    /\ Whole <= MaxSpoolBytes
    /\ pc # "down" => Whole <= bytesUsed
    /\ bytesUsed <= MaxSpoolBytes + FrameBytes * MaxFrame
    /\ pc = "write" => /\ bytesUsed + FrameBytes <= MaxSpoolBytes
                       /\ frame \notin Pending
    /\ op = "sendFrame" /\ pc \notin {"idle", "down", "write"}
          => frame \notin Torn
    /\ pc = "prune" => todo \subseteq Pending

LEMMA InitSpoolInv == Init => SpoolInv
<1> SUFFICES ASSUME Init PROVE SpoolInv
  OBVIOUS
<1>1. Pending = {}
  BY DEF Init, SpoolInit, Pending
<1>2. Whole = 0
  BY <1>1, FS_EmptySet, SpoolAssumption DEF Whole
<1>3. FrameBytes * MaxFrame \in Nat
  BY Products, SpoolAssumption
<1> QED
  BY <1>2, <1>3, SpoolAssumption DEF Init, SpoolInit, SpoolInv

(* The width of size_t does not show in the counter.                       *)
LEMMA NoWrap ==
  ASSUME SpoolTypeOK, SpoolInv
  PROVE  Plus(bytesUsed, FrameBytes) = bytesUsed + FrameBytes
<1>1. FrameBytes * (MaxFrame + 1) = FrameBytes * MaxFrame + FrameBytes
      /\ FrameBytes * MaxFrame \in Nat
  BY Products, SpoolAssumption
<1> QED
  BY <1>1, SpoolAssumption DEF SpoolTypeOK, SpoolInv, Plus

(* What removeFrame() subtracts was counted.                               *)
LEMMA Removed ==
  ASSUME SpoolTypeOK, SpoolInv, pc # "down",
         NEW id \in Ids, id \notin Torn, RemoveFrame(id)
  PROVE  /\ Whole' <= Whole /\ Whole' <= bytesUsed' /\ bytesUsed' <= bytesUsed
         /\ Pending' = Pending \ {id} /\ Torn' = Torn
<1>1. Pending' = Pending \ {id} /\ Torn' = Torn
  BY PendingAfter DEF RemoveFrame, FileStates, Torn, SpoolTypeOK
<1>2. CASE id \in Pending
  <2>1. Whole' = Whole - FrameBytes /\ Whole >= FrameBytes
    BY <1>1, <1>2, WholeShrinks
  <2>2. bytesUsed' = Minus(bytesUsed, FrameBytes)
    BY <1>2 DEF RemoveFrame, SizeOf, Pending
  <2>3. bytesUsed' = bytesUsed - FrameBytes
    BY <2>1, <2>2, WholeType, SpoolAssumption DEF Minus, SpoolInv, SpoolTypeOK
  <2> QED
    BY <1>1, <2>1, <2>3, WholeType, SpoolAssumption DEF SpoolInv, SpoolTypeOK
<1>3. CASE id \notin Pending
  <2>1. file[id] = "absent" /\ Pending' = Pending
    BY <1>1, <1>3 DEF Pending, Torn, SpoolTypeOK, FileStates
  <2>2. bytesUsed' = bytesUsed /\ Whole' = Whole
    BY <2>1 DEF RemoveFrame, Whole
  <2> QED
    BY <1>1, <2>2, WholeType DEF SpoolInv, SpoolTypeOK
<1> QED
  BY <1>2, <1>3

LEMMA NextSpoolInv ==
  ASSUME MaxSpoolBytes > 0, TInv, SpoolInv, [Next]_vars
  PROVE  SpoolInv'
<1> USE DEF TInv, TypeOK, CallShape, Operations, Steps, vars, callVars,
            sessionVars, netVars, histVars, spoolVars
<1>0. /\ Whole \in Nat /\ FrameBytes * MaxFrame \in Nat
      /\ bytesUsed \in Nat /\ FrameBytes \in Nat /\ MaxSpoolBytes \in Nat
  BY WholeType, Products, SpoolAssumption DEF SpoolTypeOK
<1>1. ASSUME UNCHANGED spoolVars
      PROVE  Pending' = Pending /\ Torn' = Torn /\ Whole' = Whole
  BY <1>1 DEF Pending, Torn, Whole
<1>2. ASSUME UNCHANGED spoolVars,
             pc' = "down" \/ pc # "down", pc' # "write",
             op' = "sendFrame" /\ pc' \notin {"idle", "down"}
                => /\ frame' = frame /\ op = "sendFrame"
                   /\ pc \notin {"idle", "down", "write"},
             pc' = "prune" => todo' \subseteq todo \cup Pending,
             pc' = "prune" /\ todo' # todo => todo' \subseteq Pending,
             pc' = "prune" /\ todo' = todo => pc = "prune"
      PROVE  SpoolInv'
  BY <1>1, <1>2 DEF SpoolInv
<1>3. CASE \E id \in Ids : CallSendFrame(id)
  <2> PICK id \in Ids : CallSendFrame(id)
    BY <1>3
  <2>1. CASE UNCHANGED spoolVars /\ Return(FALSE)
    BY <1>2, <2>1 DEF CallSendFrame, Return
  <2>2. CASE CanPersist /\ OpenTruncated(id) /\ pc' = "write" /\ frame' = id
    <3>1. bytesUsed + FrameBytes <= MaxSpoolBytes
      BY <2>2, NoWrap, SpoolAssumption DEF CanPersist
    <3>2. Pending' = Pending \ {id} /\ bytesUsed' = bytesUsed
      BY <2>2, PendingAfter DEF OpenTruncated, FileStates
    <3>3. Whole' <= Whole
      <4>1. CASE id \in Pending
        BY <1>0, <3>2, <4>1, WholeShrinks
      <4>2. CASE id \notin Pending
        <5>1. Pending' = Pending
          BY <3>2, <4>2
        <5> QED
          BY <1>0, <5>1 DEF Whole
      <4> QED
        BY <4>1, <4>2
    <3> QED
      BY <1>0, <2>2, <3>1, <3>2, <3>3, WholeNextType DEF SpoolInv, CallSendFrame
  <2> QED
    BY <2>1, <2>2 DEF CallSendFrame
<1>4. CASE PersistFinish
  <2>1. Pending' = Pending \cup {frame} /\ frame \in Ids
    BY <1>4, PendingAfter DEF PersistFinish, FinishWrite, FileStates
  <2>2. Whole' = Whole + FrameBytes
    BY <1>4, <2>1, WholeGrows DEF SpoolInv, PersistFinish
  <2>3. bytesUsed' = bytesUsed + FrameBytes
    BY <1>4, NoWrap DEF PersistFinish, FinishWrite
  <2>4. frame \notin Torn'
    BY <1>4, <2>1 DEF PersistFinish, FinishWrite, Torn, SpoolTypeOK
  <2> QED
    BY <1>0, <1>4, <2>2, <2>3, <2>4 DEF SpoolInv, PersistFinish
<1>5. CASE PruneOne
  <2> PICK id \in Smallest(todo) : RemoveFrame(id) /\ todo' = todo \ {id}
    BY <1>5 DEF PruneOne
  <2>1. id \in Ids /\ id \in Pending /\ id \notin Torn
    BY <1>5 DEF PruneOne, Smallest, SpoolInv, Pending, Torn
  <2>2. /\ Whole' <= Whole /\ Whole' <= bytesUsed' /\ bytesUsed' <= bytesUsed
        /\ Pending' = Pending \ {id} /\ Torn' = Torn
    BY <1>5, <2>1, Removed DEF PruneOne
  <2>3. Whole' \in Nat /\ bytesUsed' \in Nat
    BY <2>1, RemoveType, WholeNextType DEF SpoolTypeOK
  <2>4. /\ pc = "prune" /\ todo' = todo \ {id} /\ todo \subseteq Pending
        /\ UNCHANGED <<pc, op, frame>>
    BY <1>5 DEF PruneOne, SpoolInv
  <2>5. todo' \subseteq Pending' /\ (op = "sendFrame" => frame' \notin Torn')
    BY <2>2, <2>4 DEF SpoolInv
  <2>6. /\ Whole' <= MaxSpoolBytes
        /\ bytesUsed' <= MaxSpoolBytes + FrameBytes * MaxFrame
    BY <1>0, <2>2, <2>3 DEF SpoolInv
  <2> QED
    BY <2>2, <2>4, <2>5, <2>6 DEF SpoolInv
<1>6. CASE FrameRemoved
  <2>1. frame \in Ids /\ frame \notin Torn /\ RemoveFrame(frame)
    BY <1>6 DEF FrameRemoved, SpoolInv
  <2>2. /\ Whole' <= Whole /\ Whole' <= bytesUsed' /\ bytesUsed' <= bytesUsed
    BY <1>6, <2>1, Removed DEF FrameRemoved
  <2>3. Whole' \in Nat /\ bytesUsed' \in Nat
    BY <2>1, RemoveType, WholeNextType DEF SpoolTypeOK
  <2> QED
    BY <1>0, <1>6, <2>2, <2>3 DEF SpoolInv, FrameRemoved, Return
<1>7. CASE Crash
  <2>1. CASE pc = "write"
    <3>1. frame \in Ids /\ frame \notin Pending /\ KillDuringWrite(frame)
      BY <1>7, <2>1 DEF Crash, SpoolInv
    <3>2. Pending' = Pending \cup {frame} \/ Pending' = Pending \ {frame}
      BY <3>1, PendingAfter DEF KillDuringWrite, FileStates
    <3>3. Whole' = Whole + FrameBytes \/ Whole' = Whole
      BY <3>1, <3>2, WholeGrows DEF Whole
    <3> QED
      BY <1>0, <1>7, <2>1, <3>1, <3>3
      DEF Crash, SpoolInv, KillDuringWrite
  <2>2. CASE pc # "write"
    BY <1>2, <1>7, <2>2 DEF Crash
  <2> QED
    BY <2>1, <2>2
<1>8. CASE Restart
  <2>1. Pending' = Pending /\ bytesUsed' = DiskBytes /\ Whole' = Whole
    BY <1>8, PendingSame DEF Restart, RecountBytes, Whole
  <2> QED
    BY <1>0, <1>8, <2>1, Recounted, DiskBytesType DEF SpoolInv, Restart
<1>9. CASE CallStart \/ CallRequestResume \/ CallReplayPendingFrames
  BY <1>2, <1>9 DEF CallStart, CallRequestResume, CallReplayPendingFrames
<1>10. CASE PersistFail \/ Dispatch \/ ConnectAlready \/ ConnectSucceeds
            \/ ConnectFails
  BY <1>2, <1>10
  DEF PersistFail, FailWrite, Dispatch, ConnectAlready, ConnectSucceeds,
      ConnectFails, Return
<1>11. CASE HelloSent \/ HelloFails \/ RequestSent \/ RequestFails
            \/ ReplyFails \/ ReplyRejected
  BY <1>2, <1>11
  DEF HelloSent, HelloFails, RequestSent, RequestFails,
      ReplyFails, ReplyRejected, ResumeFailed, Return
<1>12. CASE ReplyRead
  BY <1>1, <1>12 DEF SpoolInv, ReplyRead
<1>13. CASE PruneDone \/ ReplayFails \/ ReplayDone \/ FrameSent \/ FrameFails
            \/ \E id \in Ids : ReplayOne(id)
  BY <1>2, <1>13
  DEF PruneDone, ReplayFails, ReplayDone, FrameSent, FrameFails, ReplayOne,
      Return
<1>14. CASE Server \/ ConnectionCut \/ ResetArrives \/ UNCHANGED vars
  BY <1>1, <1>14
  DEF SpoolInv, Server, ServerReadsHello, ServerAnswers, ServerSaves,
      ConnectionCut, ResetArrives
<1> QED
  BY <1>3, <1>4, <1>5, <1>6, <1>7, <1>8, <1>9, <1>10, <1>11, <1>12, <1>13,
     <1>14
  DEF Next, Call, Step

(* With a limit set, the complete frames never take more than the limit,   *)
(* through failed writes, frames that are offered again, removals, deaths  *)
(* in the middle of a write and restarts.                                  *)
THEOREM SpoolKeepsLimit == Spec => []SpoolWithinLimit
<1>1. CASE MaxSpoolBytes > 0
  <2>1. Init => TInv /\ SpoolInv
    BY InitTInv, InitSpoolInv
  <2>2. (TInv /\ SpoolInv) /\ [Next]_vars => (TInv /\ SpoolInv)'
    BY <1>1, NextTInv, NextSpoolInv
  <2>3. TInv /\ SpoolInv => SpoolWithinLimit
    BY DEF SpoolInv, Whole, SpoolWithinLimit
  <2> QED
    BY <2>1, <2>2, <2>3, PTL DEF Spec
<1>2. CASE ~(MaxSpoolBytes > 0)
  <2>1. SpoolWithinLimit
    BY <1>2 DEF SpoolWithinLimit
  <2> QED
    BY <2>1, PTL
<1> QED
  BY <1>1, <1>2

(* With a limit set, the subtraction in removeFrame() never wraps, which   *)
(* max<size_t>(0, ...) does not prevent.                                   *)
THEOREM RemovalNeverWraps ==
  ASSUME MaxSpoolBytes > 0
  PROVE  Spec => RemovalFreesSpace
<1>1. Init => TInv /\ SpoolInv
  BY InitTInv, InitSpoolInv
<1>2. (TInv /\ SpoolInv) /\ [Next]_vars => (TInv /\ SpoolInv)'
  BY NextTInv, NextSpoolInv
<1>3. ASSUME TInv, SpoolInv, [Next]_vars, NEW id \in Ids,
             file[id] # "absent", file'[id] = "absent"
      PROVE  bytesUsed' <= bytesUsed
  <2> USE DEF TInv, TypeOK, CallShape, Steps
  <2>1. CASE PruneOne
    <3> PICK i \in Smallest(todo) : RemoveFrame(i)
      BY <2>1 DEF PruneOne
    <3>1. i \in Ids /\ i \notin Torn
      BY <1>3, <2>1 DEF PruneOne, Smallest, SpoolInv, Pending, Torn
    <3> QED
      BY <1>3, <2>1, <3>1, Removed DEF PruneOne
  <2>2. CASE FrameRemoved
    <3>1. frame \in Ids /\ frame \notin Torn /\ RemoveFrame(frame)
      BY <1>3, <2>2 DEF FrameRemoved, SpoolInv
    <3> QED
      BY <1>3, <2>2, <3>1, Removed DEF FrameRemoved
  <2>3. CASE \/ \E i \in Ids : CallSendFrame(i) /\ OpenTruncated(i)
             \/ PersistFinish
             \/ Crash /\ pc = "write"
    BY <1>3, <2>3
    DEF OpenTruncated, PersistFinish, FinishWrite, Crash, KillDuringWrite,
        SpoolTypeOK, FileStates
  <2>4. CASE UNCHANGED file
    BY <1>3, <2>4
  <2> QED
    BY <1>3, <2>1, <2>2, <2>3, <2>4
    DEF Next, Call, Step, Server, vars, spoolVars, CallStart,
        CallRequestResume, CallReplayPendingFrames, CallSendFrame,
        PersistFail, FailWrite, Dispatch, ConnectAlready,
        ConnectSucceeds, ConnectFails, HelloSent, HelloFails, RequestSent,
        RequestFails, ReplyFails, ReplyRejected, ReplyRead, ResumeFailed,
        PruneDone, ReplayOne, ReplayFails, ReplayDone, FrameSent, FrameFails,
        Crash, Restart, ServerReadsHello, ServerAnswers,
        ServerSaves, ConnectionCut, ResetArrives
<1>4. TInv /\ SpoolInv /\ [Next]_vars
         => [\A id \in Ids : file[id] # "absent" /\ file'[id] = "absent"
                               => bytesUsed' <= bytesUsed]_spoolVars
  BY <1>3
<1> QED
  BY <1>1, <1>2, <1>4, PTL DEF Spec, RemovalFreesSpace

-----------------------------------------------------------------------------
(* The connection that a call of ResumeSession leaves to the next one: it  *)
(* belongs to a session that is Ready, it has carried every frame of the   *)
(* spool, and frames followed the handshake on it.  None of this depends   *)
(* on what the server replies or callers retry.                            *)

HIDE DEF Ids

(* reconnectAndResume() has not finished the handshake yet.                *)
InHandshake ==
    /\ op \in {"start", "sendFrame"}
    /\ pc \in {"connect", "hello", "request", "reply", "prune"}

-----------------------------------------------------------------------------
(* The state of the session follows the connection.                        *)
ReadyInv ==
    connected /\ ~InHandshake
        => \/ state = "Ready"
           \/ pc = "replay" /\ op \in {"start", "sendFrame"}

LEMMA InitReadyInv == Init => ReadyInv
  BY DEF Init, ReadyInv

LEMMA NextReadyInv == TInv /\ ReadyInv /\ [Next]_vars => ReadyInv'
<1> SUFFICES ASSUME TInv, ReadyInv, [Next]_vars PROVE ReadyInv'
  OBVIOUS
<1> USE DEF TInv, TypeOK, NetTypeOK, CallShape, Operations, Steps, ReadyInv,
            InHandshake, vars, callVars, sessionVars, netVars, histVars
<1>1. CASE Call
  BY <1>1 DEF Call, CallStart, CallRequestResume, CallReplayPendingFrames,
              CallSendFrame, Return
<1>2. CASE PersistFinish \/ PersistFail \/ Dispatch
  BY <1>2 DEF PersistFinish, PersistFail, Dispatch, Return
<1>3. CASE ConnectAlready \/ ConnectSucceeds \/ ConnectFails
  BY <1>3 DEF ConnectAlready, ConnectSucceeds, ConnectFails, Return
<1>4. CASE HelloSent \/ HelloFails \/ RequestSent
  BY <1>4 DEF HelloSent, HelloFails, RequestSent, SendSucceeds, SendFails,
              CloseConnection, Return
<1>5. CASE RequestFails \/ ReplyFails \/ ReplyRejected
  BY <1>5 DEF RequestFails, ReplyFails, ReplyRejected, ResumeFailed,
              SendFails, RecvFails, CloseConnection, Return
<1>6. CASE ReplyRead \/ PruneOne \/ PruneDone
  BY <1>6 DEF ReplyRead, PruneOne, PruneDone, Return
<1>7. CASE \E id \in Ids : ReplayOne(id)
  BY <1>7 DEF ReplayOne, SendSucceeds
<1>8. CASE ReplayFails \/ ReplayDone
  BY <1>8 DEF ReplayFails, ReplayDone, SendFails, CloseConnection, Return
<1>9. CASE FrameSent \/ FrameFails \/ FrameRemoved
  BY <1>9 DEF FrameSent, FrameFails, FrameRemoved, SendSucceeds, SendFails,
              CloseConnection, Return
<1>10. CASE Crash \/ Restart
  BY <1>10 DEF Crash, Restart, CloseConnection
<1>11. CASE Server
  BY <1>11 DEF Server, ServerReadsHello, ServerAnswers, ServerSaves
<1>12. CASE ConnectionCut \/ ResetArrives
  BY <1>12 DEF ConnectionCut, ResetArrives
<1>13. CASE UNCHANGED vars
  BY <1>13
<1> QED
  BY <1>1, <1>2, <1>3, <1>4, <1>5, <1>6, <1>7, <1>8, <1>9, <1>10, <1>11,
     <1>12, <1>13 DEF Next, Step

(* Between two calls an open connection is that of a Ready session: every  *)
(* failure on the way to Ready has closed it.                              *)
THEOREM OpenMeansReady == Spec => []ConnectedMeansReady
<1>1. Init => TInv /\ ReadyInv
  BY InitTInv, InitReadyInv
<1>2. (TInv /\ ReadyInv) /\ [Next]_vars => (TInv /\ ReadyInv)'
  BY NextTInv, NextReadyInv
<1>3. TInv /\ ReadyInv => ConnectedMeansReady
  BY DEF ReadyInv, InHandshake, ConnectedMeansReady
<1> QED
  BY <1>1, <1>2, <1>3, PTL DEF Spec

-----------------------------------------------------------------------------
(* Frames and the connection: outside the handshake each pending frame has *)
(* been sent on the open connection, is still to be replayed or is the one *)
(* that the call is about.                                                 *)
SentInv ==
    /\ pc \notin {"prune", "replay"} => todo = {}
    /\ frame # 0 => op = "sendFrame" /\ pc \notin {"idle", "down"}
    /\ pc = "write" => frame \notin Pending
    /\ connected /\ ~InHandshake
          => Pending \subseteq sentHere \cup todo \cup {frame}

LEMMA InitSentInv == Init => SentInv
  BY DEF Init, SentInv

LEMMA NextSentInv == TInv /\ SentInv /\ [Next]_vars => SentInv'
<1> SUFFICES ASSUME TInv, SentInv, [Next]_vars PROVE SentInv'
  OBVIOUS
<1> USE DEF TInv, TypeOK, NetTypeOK, CallShape, Operations, Steps, SentInv,
            InHandshake, vars, callVars, sessionVars, netVars, histVars,
            spoolVars
<1>0. UNCHANGED file => Pending' = Pending
  BY PendingSame
<1>1. CASE CallStart \/ CallRequestResume \/ CallReplayPendingFrames
  BY <1>0, <1>1 DEF CallStart, CallRequestResume, CallReplayPendingFrames
<1>2. CASE \E id \in Ids : CallSendFrame(id)
  <2> PICK id \in Ids : CallSendFrame(id)
    BY <1>2
  <2>1. CASE Return(FALSE) /\ UNCHANGED spoolVars
    BY <1>0, <2>1 DEF CallSendFrame, Return
  <2>2. CASE OpenTruncated(id) /\ pc' = "write" /\ frame' = id
    <3>1. Pending' = Pending \ {id}
      BY <2>2, PendingAfter DEF OpenTruncated, FileStates
    <3>2. frame \notin Pending
      BY SpoolAssumption DEF CallSendFrame, Pending, Ids
    <3>3. connected => Pending \subseteq sentHere
      BY <3>2 DEF CallSendFrame
    <3>4. /\ pc' = "write" /\ frame' = id /\ op' = "sendFrame"
          /\ todo' = {} /\ sentHere' = sentHere /\ connected' = connected
      BY <2>2 DEF CallSendFrame, Return
    <3>5. frame' \notin Pending'
      BY <3>1, <3>4
    <3>6. connected' => Pending' \subseteq sentHere' \cup todo' \cup {frame'}
      BY <3>1, <3>3, <3>4
    <3> QED
      BY <3>4, <3>5, <3>6
  <2> QED
    BY <2>1, <2>2 DEF CallSendFrame, Return
<1>3. CASE PersistFinish
  <2>1. Pending' = Pending \cup {frame}
    BY <1>3, PendingAfter DEF PersistFinish, FinishWrite, FileStates
  <2> QED
    BY <1>3, <2>1 DEF PersistFinish
<1>4. CASE PersistFail \/ Dispatch
  BY <1>0, <1>4 DEF PersistFail, FailWrite, Dispatch, Return
<1>5. CASE ConnectAlready \/ ConnectSucceeds \/ ConnectFails
  BY <1>0, <1>5 DEF ConnectAlready, ConnectSucceeds, ConnectFails, Return
<1>6. CASE HelloSent \/ HelloFails \/ RequestSent
  BY <1>0, <1>6 DEF HelloSent, HelloFails, RequestSent, SendSucceeds,
                    SendFails, CloseConnection, Return
<1>7. CASE RequestFails \/ ReplyFails \/ ReplyRejected
  BY <1>0, <1>7 DEF RequestFails, ReplyFails, ReplyRejected, ResumeFailed,
                    SendFails, RecvFails, CloseConnection, Return
<1>8. CASE ReplyRead
  BY <1>0, <1>8 DEF ReplyRead
<1>9. CASE PruneOne
  <2> PICK id \in Smallest(todo) : RemoveFrame(id) /\ todo' = todo \ {id}
    BY <1>9 DEF PruneOne
  <2>1. id \in Ids
    BY DEF Smallest
  <2>2. Pending' = Pending \ {id}
    BY <2>1, PendingAfter DEF RemoveFrame, FileStates
  <2> QED
    BY <1>9, <2>2 DEF PruneOne
<1>10. CASE PruneDone
  BY <1>0, <1>10 DEF PruneDone, Return
<1>11. CASE \E id \in Ids : ReplayOne(id)
  BY <1>0, <1>11 DEF ReplayOne, SendSucceeds
<1>12. CASE ReplayFails \/ ReplayDone
  BY <1>0, <1>12 DEF ReplayFails, ReplayDone, SendFails, CloseConnection,
                     Return
<1>13. CASE FrameSent \/ FrameFails
  BY <1>0, <1>13 DEF FrameSent, FrameFails, SendSucceeds, SendFails,
                     CloseConnection, Return
<1>14. CASE FrameRemoved
  <2>1. Pending' = Pending \ {frame}
    BY <1>14, PendingAfter DEF FrameRemoved, RemoveFrame, FileStates
  <2> QED
    BY <1>14, <2>1 DEF FrameRemoved, Return
<1>15. CASE Crash \/ Restart
  BY <1>15 DEF Crash, Restart, CloseConnection
<1>16. CASE Server
  BY <1>0, <1>16 DEF Server, ServerReadsHello, ServerAnswers, ServerSaves
<1>17. CASE ConnectionCut \/ ResetArrives
  BY <1>0, <1>17 DEF ConnectionCut, ResetArrives
<1>18. CASE UNCHANGED vars
  BY <1>0, <1>18
<1> QED
  BY <1>1, <1>2, <1>3, <1>4, <1>5, <1>6, <1>7, <1>8, <1>9, <1>10, <1>11,
     <1>12, <1>13, <1>14, <1>15, <1>16, <1>17, <1>18 DEF Next, Call, Step

(* Between two calls each complete frame of the spool has been sent on the *)
(* connection that is open.                                                *)
THEOREM PendingWasSent == Spec => []NothingLeftBehind
<1>1. Init => TInv /\ SentInv
  BY InitTInv, InitSentInv
<1>2. (TInv /\ SentInv) /\ [Next]_vars => (TInv /\ SentInv)'
  BY NextTInv, NextSentInv
<1>3. TInv /\ SentInv => NothingLeftBehind
  BY SpoolAssumption DEF TInv, TypeOK, CallShape, SentInv, InHandshake,
                         NothingLeftBehind, Pending, Ids
<1> QED
  BY <1>1, <1>2, <1>3, PTL DEF Spec
-----------------------------------------------------------------------------
(* The messages on the connection.  reconnectAndResume() has not read the  *)
(* reply to its request yet.                                               *)
HelloAhead ==
    /\ op \in {"start", "sendFrame"}
    /\ pc \in {"connect", "hello", "request", "reply"}

Holds(type) == \E i \in 1 .. Len(stream) : stream[i].type = type

(* Nothing follows a request before its reply is read, and no frame        *)
(* follows a hello: it is the request that does.                           *)
StreamOrder ==
    /\ \A i \in 1 .. Len(stream) : stream[i].type = "resumeRequest"
          => i = Len(stream) /\ pc = "reply" /\ reply = NoReply
    /\ \A i, j \in 1 .. Len(stream) :
          i < j /\ stream[i].type = "hello" => stream[j].type # "frame"

HandshakeInv ==
    /\ FramesAfterHandshake
    /\ StreamOrder
    /\ reply # NoReply => pc = "reply" /\ stream = <<>>
    /\ reply # NoReply /\ link = "up" => phase = "resumed"
    /\ link = "up" /\ ~HelloAhead => phase = "resumed" /\ ~Holds("hello")
    /\ link # "up" => stream = <<>>
    /\ connected <=> link # "down"

LEMMA MessageType ==
  /\ Hello.type = "hello" /\ Request.type = "resumeRequest"
  /\ \A id : Frame(id).type = "frame"
  BY DEF Hello, Request, Frame

LEMMA EmptyStream ==
  ASSUME stream = <<>>
  PROVE  FramesAfterHandshake /\ StreamOrder /\ ~Holds("hello")
<1>1. 1 .. Len(stream) = {}
  OBVIOUS
<1> QED
  BY <1>1 DEF FramesAfterHandshake, StreamOrder, Holds

LEMMA InitHandshakeInv == Init => HandshakeInv
  BY EmptyStream DEF Init, HandshakeInv, HelloAhead

(* A message that is read was the first.                                   *)
LEMMA MessageRead ==
  ASSUME NetTypeOK, NEW m, ServerReads(m)
  PROVE  /\ Len(stream) \in Nat \ {0} /\ stream[1] = m
         /\ Len(stream') = Len(stream) - 1
         /\ \A i \in 1 .. Len(stream') :
               stream'[i] = stream[i + 1] /\ i + 1 \in 1 .. Len(stream)
  BY DEF ServerReads, NetTypeOK

(* A message that is sent becomes the last, or is lost.                    *)
LEMMA MessageSent ==
  ASSUME NetTypeOK, NEW m \in Messages, SendSucceeds(m)
  PROVE  \/ UNCHANGED stream
         \/ /\ link = "up" /\ Len(stream) \in Nat
            /\ Len(stream') = Len(stream) + 1 /\ stream'[Len(stream) + 1] = m
            /\ \A i \in 1 .. Len(stream) : stream'[i] = stream[i]
  BY DEF SendSucceeds, NetTypeOK

LEMMA OrderRead ==
  ASSUME NetTypeOK, StreamOrder, NEW m, ServerReads(m), UNCHANGED <<pc, reply>>
  PROVE  StreamOrder'
<1>1. ASSUME NEW i \in 1 .. Len(stream'), stream'[i].type = "resumeRequest"
      PROVE  i = Len(stream') /\ pc = "reply" /\ reply = NoReply
  <2>1. i + 1 \in 1 .. Len(stream) /\ stream[i + 1].type = "resumeRequest"
    BY <1>1, MessageRead
  <2>2. i + 1 = Len(stream) /\ pc = "reply" /\ reply = NoReply
    BY <2>1 DEF StreamOrder
  <2> QED
    BY <2>2, MessageRead
<1>2. ASSUME NEW i \in 1 .. Len(stream'), NEW j \in 1 .. Len(stream'), i < j,
             stream'[i].type = "hello"
      PROVE  stream'[j].type # "frame"
  <2>1. /\ i + 1 \in 1 .. Len(stream) /\ j + 1 \in 1 .. Len(stream)
        /\ i + 1 < j + 1 /\ stream[i + 1].type = "hello"
        /\ stream'[j] = stream[j + 1]
    BY <1>2, MessageRead
  <2> QED
    BY <2>1 DEF StreamOrder
<1> QED
  BY <1>1, <1>2 DEF StreamOrder

LEMMA NextHandshakeInv == TInv /\ HandshakeInv /\ [Next]_vars => HandshakeInv'
<1> SUFFICES ASSUME TInv, HandshakeInv, [Next]_vars PROVE HandshakeInv'
  OBVIOUS
<1> USE DEF TInv, TypeOK, CallShape, Operations, Steps, HandshakeInv,
            vars, callVars, sessionVars, netVars, histVars
<1>0. NetTypeOK
  OBVIOUS
<1>1. ASSUME CloseConnection PROVE HandshakeInv'
  <2>1. stream' = <<>> /\ 1 .. Len(stream') = {}
    BY <1>1 DEF CloseConnection
  <2>2. (FramesAfterHandshake /\ StreamOrder /\ ~Holds("hello"))'
    BY <2>1 DEF FramesAfterHandshake, StreamOrder, Holds
  <2> QED
    BY <1>1, <2>2 DEF CloseConnection
<1>2. ASSUME UNCHANGED <<connected, netVars>>,
             pc = "reply" => pc' = "reply",
             HelloAhead' \/ ~HelloAhead
      PROVE  HandshakeInv'
  BY <1>2 DEF FramesAfterHandshake, StreamOrder, Holds
<1>3. CASE Call \/ PersistFinish \/ PersistFail \/ Dispatch \/ ConnectAlready
  BY <1>2, <1>3
  DEF Call, CallStart, CallRequestResume, CallReplayPendingFrames,
      CallSendFrame, PersistFinish, PersistFail, Dispatch, ConnectAlready,
      Return, HelloAhead
<1>4. CASE ConnectSucceeds
  <2>1. stream' = <<>> /\ 1 .. Len(stream') = {}
    BY <1>4 DEF ConnectSucceeds
  <2>2. (FramesAfterHandshake /\ StreamOrder /\ ~Holds("hello"))'
    BY <2>1 DEF FramesAfterHandshake, StreamOrder, Holds
  <2> QED
    BY <1>4, <2>2 DEF ConnectSucceeds, HelloAhead
<1>5. CASE ConnectFails
  BY <1>5, EmptyStream
  DEF ConnectFails, Return, FramesAfterHandshake, StreamOrder, Holds
<1>6. CASE HelloFails \/ RequestFails \/ ReplyFails \/ ReplayFails
           \/ FrameFails \/ Crash
  BY <1>1, <1>6 DEF HelloFails, RequestFails, ReplyFails, ReplayFails,
     FrameFails, Crash, SendFails, RecvFails
<1>7. CASE HelloSent
  <2>1. Hello \in Messages /\ SendSucceeds(Hello)
    BY <1>7, MessageTypes DEF HelloSent
  <2>2. /\ pc = "hello" /\ pc' = "request" /\ HelloAhead' /\ reply = NoReply
        /\ UNCHANGED <<connected, link, reply, phase>>
    BY <1>7, <2>1 DEF HelloSent, SendSucceeds, HelloAhead
  <2>3. FramesAfterHandshake'
    BY <1>0, <2>1, <2>2, MessageSent, MessageType DEF FramesAfterHandshake
  <2>4. StreamOrder'
    BY <1>0, <2>1, <2>2, MessageSent, MessageType DEF StreamOrder
  <2>5. link' # "up" => stream' = <<>>
    BY <2>1 DEF SendSucceeds
  <2> QED
    BY <2>2, <2>3, <2>4, <2>5
<1>8. CASE RequestSent
  <2>1. Request \in Messages /\ SendSucceeds(Request)
    BY <1>8, MessageTypes DEF RequestSent
  <2>2. /\ pc = "request" /\ pc' = "reply" /\ reply = NoReply /\ op' = op
        /\ UNCHANGED <<connected, link, reply, phase>>
    BY <1>8, <2>1 DEF RequestSent, SendSucceeds
  <2>3. FramesAfterHandshake'
    BY <1>0, <2>1, <2>2, MessageSent, MessageType DEF FramesAfterHandshake
  <2>4. StreamOrder'
    <3>1. \A i \in 1 .. Len(stream) : stream[i].type # "resumeRequest"
      BY <2>2 DEF StreamOrder
    <3>2. CASE UNCHANGED stream
      BY <2>2, <3>1, <3>2 DEF StreamOrder
    <3>3. CASE ~UNCHANGED stream
      <4>1. /\ Len(stream) \in Nat /\ Len(stream') = Len(stream) + 1
            /\ stream'[Len(stream) + 1].type = "resumeRequest"
            /\ \A i \in 1 .. Len(stream) : stream'[i] = stream[i]
        BY <1>0, <2>1, <3>3, MessageSent, MessageType
      <4>2. \A i \in 1 .. Len(stream') :
               i \in 1 .. Len(stream) \/ i = Len(stream) + 1
        BY <4>1
      <4> QED
        BY <2>2, <3>1, <4>1, <4>2 DEF StreamOrder
    <3> QED
      BY <3>2, <3>3
  <2>5. link' # "up" => stream' = <<>>
    BY <2>1 DEF SendSucceeds
  <2>6. ~Holds("hello") => ~Holds("hello")'
    BY <1>0, <2>1, <2>2, MessageSent, MessageType DEF Holds
  <2> QED
    BY <2>2, <2>3, <2>4, <2>5, <2>6 DEF HelloAhead
<1>9. CASE ReplyRejected
  <2>1. CASE op # "requestResume"
    BY <1>1, <1>9, <2>1 DEF ReplyRejected
  <2>2. CASE op = "requestResume"
    <3>1. /\ stream = <<>> /\ ~HelloAhead /\ pc' = "idle" /\ reply' = NoReply
          /\ UNCHANGED <<connected, link, stream, phase>>
      BY <1>9, <2>2 DEF ReplyRejected, ResumeFailed, Return, HelloAhead,
         BadReply, NoReply
    <3>2. (FramesAfterHandshake /\ StreamOrder /\ ~Holds("hello"))'
      BY <3>1, EmptyStream DEF FramesAfterHandshake, StreamOrder, Holds
    <3> QED
      BY <3>1, <3>2
  <2> QED
    BY <2>1, <2>2
<1>10. CASE ReplyRead
  <2>1. /\ stream = <<>> /\ reply # NoReply /\ reply' = NoReply
        /\ UNCHANGED <<connected, link, stream, phase>>
    BY <1>10 DEF ReplyRead, NoReply
  <2>2. (FramesAfterHandshake /\ StreamOrder /\ ~Holds("hello"))'
    BY <2>1 DEF FramesAfterHandshake, StreamOrder, Holds
  <2> QED
    BY <2>1, <2>2
<1>11. CASE PruneOne \/ PruneDone \/ ReplayDone \/ FrameRemoved
  BY <1>2, <1>11 DEF PruneOne, PruneDone, ReplayDone, FrameRemoved, Return,
     HelloAhead
<1>12. ASSUME NEW id \in Ids, SendSucceeds(Frame(id)),
              pc \in {"replay", "send"}, pc' # "reply", ~HelloAhead'
       PROVE  HandshakeInv'
  <2>1. Frame(id) \in Messages
    BY MessageTypes
  <2>2. /\ reply = NoReply /\ UNCHANGED <<connected, link, reply, phase>>
        /\ link = "up" => phase = "resumed" /\ ~Holds("hello")
    BY <1>12 DEF SendSucceeds, HelloAhead
  <2>3. FramesAfterHandshake'
    BY <1>0, <1>12, <2>1, <2>2, MessageSent, MessageType
    DEF FramesAfterHandshake
  <2>4. StreamOrder'
    BY <1>0, <1>12, <2>1, <2>2, MessageSent, MessageType
    DEF StreamOrder, Holds
  <2>5. link' # "up" => stream' = <<>>
    BY <1>12 DEF SendSucceeds
  <2>6. link = "up" => ~Holds("hello")'
    BY <1>0, <1>12, <2>1, <2>2, MessageSent, MessageType DEF Holds
  <2> QED
    BY <2>2, <2>3, <2>4, <2>5, <2>6
<1>13. CASE (\E id \in Ids : ReplayOne(id)) \/ FrameSent
  BY <1>12, <1>13 DEF ReplayOne, FrameSent, HelloAhead
<1>14. CASE Restart
  BY <1>2, <1>14 DEF Restart, HelloAhead
<1>15. CASE ServerReadsHello
  <2>1. ServerReads(Hello) /\ link = "up"
    BY <1>15 DEF ServerReadsHello, ServerReads
  <2>2. Holds("hello") /\ HelloAhead /\ reply = NoReply
    BY <1>0, <2>1, MessageRead, MessageType DEF Holds, ServerReads
  <2>3. ASSUME NEW i \in 1 .. Len(stream'), stream'[i].type = "frame"
        PROVE  FALSE
    <3>1. /\ 1 \in 1 .. Len(stream) /\ stream[1].type = "hello"
          /\ i + 1 \in 1 .. Len(stream) /\ stream[i + 1].type = "frame"
          /\ 1 < i + 1
      BY <1>0, <2>1, <2>3, MessageRead, MessageType
    <3> QED
      BY <3>1 DEF StreamOrder
  <2>4. FramesAfterHandshake'
    BY <2>3 DEF FramesAfterHandshake
  <2>5. StreamOrder'
    BY <1>0, <1>15, <2>1, OrderRead DEF ServerReadsHello
  <2> QED
    BY <1>15, <2>1, <2>2, <2>4, <2>5 DEF ServerReadsHello, HelloAhead
<1>16. CASE ServerAnswers
  <2>1. ServerReads(Request) /\ link = "up" /\ phase' = "resumed"
    BY <1>16 DEF ServerAnswers, ServerReads
  <2>2. Len(stream) = 1 /\ pc = "reply" /\ Len(stream') = 0
    <3>1. 1 \in 1 .. Len(stream) /\ stream[1].type = "resumeRequest"
      BY <1>0, <2>1, MessageRead, MessageType
    <3>2. 1 = Len(stream) /\ pc = "reply"
      BY <3>1 DEF StreamOrder
    <3>3. Len(stream') = Len(stream) - 1
      BY <1>0, <2>1, MessageRead
    <3> QED
      BY <3>2, <3>3
  <2>3. stream' = <<>>
    BY <1>0, <2>2, <2>1 DEF NetTypeOK, ServerReads
  <2>4. (FramesAfterHandshake /\ StreamOrder /\ ~Holds("hello"))'
    BY <2>2 DEF FramesAfterHandshake, StreamOrder, Holds
  <2> QED
    BY <1>16, <2>1, <2>2, <2>3, <2>4 DEF ServerAnswers
<1>17. CASE \E id \in Ids : ServerSaves(id)
  <2> PICK id \in Ids : ServerSaves(id)
    BY <1>17
  <2>1. ServerReads(Frame(id)) /\ link = "up" /\ reply = NoReply
    BY DEF ServerSaves, ServerReads
  <2>2. FramesAfterHandshake'
    BY <1>0, <2>1, MessageRead DEF FramesAfterHandshake, ServerSaves
  <2>3. StreamOrder'
    BY <1>0, <2>1, OrderRead DEF ServerSaves
  <2>4. ~Holds("hello") => ~Holds("hello")'
    BY <1>0, <2>1, MessageRead DEF Holds
  <2> QED
    BY <2>1, <2>2, <2>3, <2>4 DEF ServerSaves, HelloAhead
<1>18. CASE ConnectionCut
  <2>1. /\ stream' = <<>> /\ link' = "cut" /\ reply' \in {reply, NoReply}
        /\ UNCHANGED <<connected, phase, pc, op>> /\ link = "up"
    BY <1>18 DEF ConnectionCut
  <2>2. (FramesAfterHandshake /\ StreamOrder)'
    BY <2>1 DEF FramesAfterHandshake, StreamOrder
  <2> QED
    BY <2>1, <2>2
<1>19. CASE ResetArrives
  <2>1. /\ stream = <<>> /\ stream' = <<>> /\ link = "cut" /\ link' = "reset"
        /\ reply' = NoReply /\ UNCHANGED <<connected, phase, pc, op>>
    BY <1>19 DEF ResetArrives
  <2>2. (FramesAfterHandshake /\ StreamOrder)'
    BY <2>1 DEF FramesAfterHandshake, StreamOrder
  <2> QED
    BY <2>1, <2>2
<1>20. CASE UNCHANGED vars
  BY <1>2, <1>20 DEF HelloAhead
<1> QED
  BY <1>3, <1>4, <1>5, <1>6, <1>7, <1>8, <1>9, <1>10, <1>11, <1>13, <1>14,
     <1>15, <1>16, <1>17, <1>18, <1>19, <1>20 DEF Next, Step, Server

(* The server never meets a frame on a connection on which it has not      *)
(* answered a resume request, whichever public calls follow each other on  *)
(* an open connection and whatever is sent again.                          *)
THEOREM HandshakeComesFirst == Spec => []FramesAfterHandshake
<1>1. Init => TInv /\ HandshakeInv
  BY InitTInv, InitHandshakeInv
<1>2. (TInv /\ HandshakeInv) /\ [Next]_vars => (TInv /\ HandshakeInv)'
  BY NextTInv, NextHandshakeInv
<1>3. TInv /\ HandshakeInv => FramesAfterHandshake
  BY DEF HandshakeInv
<1> QED
  BY <1>1, <1>2, <1>3, PTL DEF Spec

-----------------------------------------------------------------------------
(* The two loops after a reply: what the first has still to prune is all   *)
(* that is pending and durable; the second finds none of it.               *)
PrunedInv ==
    /\ pc = "prune" => \A id \in Pending : id <= highest => id \in todo
    /\ pc = "replay" /\ op # "replayPendingFrames"
          => \A id \in todo : id \in Ids /\ id > highest

LEMMA NextPrunedInv == TInv /\ PrunedInv /\ [Next]_vars => PrunedInv'
<1> SUFFICES ASSUME TInv, PrunedInv, [Next]_vars PROVE PrunedInv'
  OBVIOUS
<1> USE DEF TInv, TypeOK, CallShape, Operations, Steps, PrunedInv,
            vars, callVars, sessionVars, netVars, histVars, spoolVars
<1>1. CASE ReplyRead
  BY <1>1, PendingSame DEF ReplyRead
<1>2. CASE PruneOne
  <2> PICK id \in Smallest(todo) : RemoveFrame(id) /\ todo' = todo \ {id}
    BY <1>2 DEF PruneOne
  <2>1. Pending' = Pending \ {id}
    BY <1>2, PendingAfter DEF RemoveFrame, FileStates, Smallest
  <2> QED
    BY <1>2, <2>1 DEF PruneOne
<1>3. CASE PruneDone
  <2>1. \A id \in Pending : id \in Ids /\ ~(id <= highest)
    BY <1>3 DEF PruneDone, Pending
  <2>2. \A id \in Pending : id > highest
    BY <2>1, SpoolAssumption DEF Ids
  <2> QED
    BY <1>3, <2>1, <2>2 DEF PruneDone, Return
<1>4. CASE \E id \in Ids : ReplayOne(id)
  BY <1>4 DEF ReplayOne
<1>5. CASE Server \/ ConnectionCut \/ ResetArrives \/ UNCHANGED vars
  BY <1>5, PendingSame DEF Server, ServerReadsHello, ServerAnswers,
     ServerSaves, ConnectionCut, ResetArrives
<1>6. CASE Call
  BY <1>6 DEF Call, CallStart, CallRequestResume, CallReplayPendingFrames,
     CallSendFrame, Return
<1>7. CASE PersistFinish \/ PersistFail \/ Dispatch \/ ConnectAlready
           \/ ConnectSucceeds \/ ConnectFails
  BY <1>7 DEF PersistFinish, PersistFail, Dispatch, ConnectAlready,
     ConnectSucceeds, ConnectFails, Return
<1>8. CASE HelloSent \/ HelloFails \/ RequestSent \/ RequestFails
           \/ ReplyFails \/ ReplyRejected
  BY <1>8 DEF HelloSent, HelloFails, RequestSent, RequestFails, ReplyFails,
     ReplyRejected, ResumeFailed, Return
<1>9. CASE ReplayFails \/ ReplayDone \/ FrameSent \/ FrameFails
           \/ FrameRemoved \/ Crash \/ Restart
  BY <1>9 DEF ReplayFails, ReplayDone, FrameSent, FrameFails, FrameRemoved,
     Crash, Restart, Return
<1> QED
  BY <1>1, <1>2, <1>3, <1>4, <1>5, <1>6, <1>7, <1>8, <1>9 DEF Next, Step

(* A reconnection never replays what the reply has just reported durable.  *)
THEOREM DurableNotReplayed == Spec => []ReplaySkipsDurable
<1>1. Init => TInv /\ PrunedInv
  BY InitTInv DEF Init, PrunedInv
<1>2. (TInv /\ PrunedInv) /\ [Next]_vars => (TInv /\ PrunedInv)'
  BY NextTInv, NextPrunedInv
<1>3. TInv /\ PrunedInv => ReplaySkipsDurable
  BY DEF PrunedInv, ReplaySkipsDurable
<1> QED
  BY <1>1, <1>2, <1>3, PTL DEF Spec
=============================================================================
