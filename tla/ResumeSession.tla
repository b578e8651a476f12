---------------------------- MODULE ResumeSession ----------------------------
(***************************************************************************)
(* The sender's resumable session                                          *)
(* (capture_and_network/src/network/ResumeSession.cpp) over TcpClient,     *)
(* RawFrameSender and SenderSpool, one thread of calls, and the server at  *)
(* the other end of the connection, which is external.                     *)
(*                                                                         *)
(* pc says where the call in progress stands: a step is one operation on   *)
(* a file or on the socket, so that the process may die and the connection *)
(* may break between any two of them.  A frame is its id; RawFrameSender   *)
(* sends its header and its chunks with sendAll, and the server has the    *)
(* frame only when it has the last of them, so one message stands for all. *)
(***************************************************************************)
EXTENDS SenderSpool, Sequences

CONSTANTS Retries,      \* may a caller offer again a frame already spooled?
          ForeignReply, \* may the reply be about another task of the server?
          SocketCap,    \* messages the socket buffers hold
          MaxCrash      \* bound on the number of times the process dies

ASSUME SessionAssumption ==
    /\ Retries \in BOOLEAN
    /\ ForeignReply \in BOOLEAN
    /\ SocketCap \in Nat \ {0}
    /\ MaxCrash \in Nat

VARIABLES
    pc,         \* next operation of the call in progress; "idle", "down"
    op,         \* the public operation that was called last
    frame,      \* the argument of sendFrame, 0 outside it
    todo,       \* frames of a loaded snapshot that a loop has still to visit
    ret,        \* what the last call returned
    state,      \* state_
    highest,    \* highestDurableFrameSeq_
    connected,  \* TcpClient::connected_
    link,       \* the connection: "up", "cut" (lost, sender's kernel unaware),
                \* "reset" (the kernel knows), "down" (no socket)
    stream,     \* messages sent and not yet read by the server
    reply,      \* a ResumeReply not yet read by the sender
    phase,      \* what the server has seen on this connection
    saved,      \* frames the server has made durable
    accepted,   \* history: ids of which the spool has had a complete file
    reported,   \* history: ids for which sendFrame() has returned true
    handed,     \* history: ids whose last byte was handed to a socket
    sentHere,   \* history: those handed to the connection that is open now
    crashes     \* number of deaths of the process

callVars    == <<pc, op, frame, todo, ret>>
sessionVars == <<state, highest, connected>>
netVars     == <<link, stream, reply, phase>>
histVars    == <<accepted, reported, handed, sentHere, crashes>>
vars == <<spoolVars, callVars, sessionVars, netVars, saved, histVars>>

SessionStates == {"Disconnected", "Connecting", "Handshaking", "Recovering",
                  "Ready", "Failed"}
Steps == {"idle", "down", "write", "dispatch", "connect", "hello", "request",
          "reply", "prune", "replay", "send", "remove"}
Operations == {"start", "sendFrame", "requestResume", "replayPendingFrames"}

Hello    == [type |-> "hello", id |-> 0]
Request  == [type |-> "resumeRequest", id |-> 0]
Frame(i) == [type |-> "frame", id |-> i]
Messages == {Hello, Request} \cup {Frame(i) : i \in Ids}

NoReply  == -1
BadReply == -2     \* not a ResumeReply, or of another protocol version
Replies  == {NoReply, BadReply} \cup 0 .. MaxFrame

Smallest(S) == {i \in S : \A j \in S : i <= j}

Init ==
    /\ SpoolInit
    /\ pc = "idle" /\ op = "start" /\ frame = 0 /\ todo = {} /\ ret = TRUE
    /\ state = "Disconnected" /\ highest = 0 /\ connected = FALSE
    /\ link = "down" /\ stream = <<>> /\ reply = NoReply /\ phase = "new"
    /\ saved = {} /\ accepted = {} /\ reported = {} /\ handed = {}
    /\ sentHere = {} /\ crashes = 0

-----------------------------------------------------------------------------
(* TcpClient.                                                              *)

(* closeConnection(): what was in flight is taken to be lost; what the     *)
(* server would still read it may have read before.                        *)
CloseConnection ==
    /\ connected' = FALSE
    /\ link' = "down" /\ stream' = <<>> /\ reply' = NoReply /\ phase' = "new"
    /\ sentHere' = {}

(* Mutant: no bound on what the socket buffers take.                       *)
SendUnbounded(m) ==
    /\ connected
    /\ \/ link = "up" /\ stream' = Append(stream, m)
       \/ link = "cut" /\ UNCHANGED stream
    /\ UNCHANGED <<connected, link, reply, phase>>

(* sendAll() succeeds when the kernel takes the bytes, also when they will *)
(* never arrive.                                                           *)
SendSucceeds(m) ==
    /\ connected
    /\ \/ link = "up" /\ Len(stream) < SocketCap /\ stream' = Append(stream, m)
       \/ link = "cut" /\ UNCHANGED stream
    /\ UNCHANGED <<connected, link, reply, phase>>

(* Mutant: a failed sendAll() leaves the connection open.                  *)
SendFailsStaysOpen ==
    /\ ~connected \/ link # "up" \/ Len(stream) = SocketCap
    /\ UNCHANGED <<connected, netVars, sentHere>>

(* sendAll() fails: no connection, a connection the kernel knows to be     *)
(* gone, or 10 s with full buffers.  It closes the connection.             *)
SendFails ==
    /\ ~connected \/ link # "up" \/ Len(stream) = SocketCap
    /\ CloseConnection

(* Mutant: a recvAll() that times out leaves the connection open.          *)
RecvTimesOutOpen ==
    /\ reply = NoReply
    /\ IF link = "reset" THEN CloseConnection
       ELSE UNCHANGED <<connected, netVars, sentHere>>

(* Mutant: no receive timeout is set on the socket.                        *)
RecvBlocks == reply = NoReply /\ link \in {"reset", "down"} /\ CloseConnection

(* recvAll() fails: no connection, an error, or 10 s without an answer.    *)
RecvFails == reply = NoReply /\ CloseConnection

-----------------------------------------------------------------------------
(* The calls.                                                              *)

Return(r) == pc' = "idle" /\ ret' = r /\ frame' = 0 /\ todo' = {}

(* start() and reconnectAndResume().                                       *)
CallStart ==
    /\ pc = "idle"
    /\ op' = "start" /\ pc' = "connect" /\ state' = "Connecting"
    /\ UNCHANGED <<spoolVars, frame, todo, ret, highest, connected, netVars,
                   saved, histVars>>

(* requestResume(), public, on whatever connection there is.               *)
CallRequestResume ==
    /\ pc = "idle"
    /\ op' = "requestResume" /\ pc' = "request"
    /\ UNCHANGED <<spoolVars, frame, todo, ret, sessionVars, netVars, saved,
                   histVars>>

(* replayPendingFrames(), public, on whatever connection there is.         *)
CallReplayPendingFrames ==
    /\ pc = "idle"
    /\ op' = "replayPendingFrames" /\ pc' = "replay" /\ todo' = Pending
    /\ UNCHANGED <<spoolVars, frame, ret, sessionVars, netVars, saved,
                   histVars>>

(* sendFrame(): persist() fails when the spool is full, before anything is *)
(* tried on the network, or when it cannot open the file.                  *)
CallSendFrame(id) ==
    /\ pc = "idle"
    /\ id \notin (IF Retries THEN reported ELSE accepted)
    /\ op' = "sendFrame"
    /\ \/ /\ Return(FALSE)
          /\ UNCHANGED spoolVars
       \/ /\ CanPersist
          /\ OpenTruncated(id)
          /\ pc' = "write" /\ frame' = id
          /\ UNCHANGED <<todo, ret>>
    /\ UNCHANGED <<sessionVars, netVars, saved, histVars>>

PersistFinish ==
    /\ pc = "write"
    /\ FinishWrite(frame)
    /\ accepted' = accepted \cup {frame}
    /\ pc' = "dispatch"
    /\ UNCHANGED <<op, frame, todo, ret, sessionVars, netVars, saved, reported,
                   handed, sentHere, crashes>>

PersistFail ==
    /\ pc = "write"
    /\ FailWrite(frame)
    /\ Return(FALSE)
    /\ UNCHANGED <<op, sessionVars, netVars, saved, histVars>>

(* sendFrame(): isConnected() decides whether to reconnect first.          *)
Dispatch ==
    /\ pc = "dispatch"
    /\ \/ connected /\ pc' = "send" /\ UNCHANGED state
       \/ ~connected /\ pc' = "connect" /\ state' = "Connecting"
    /\ UNCHANGED <<spoolVars, op, frame, todo, ret, highest, connected,
                   netVars, saved, histVars>>

-----------------------------------------------------------------------------
(* reconnectAndResume() and requestResume().                               *)

ConnectAlready ==
    /\ pc = "connect" /\ connected
    /\ state' = "Handshaking" /\ pc' = "hello"
    /\ UNCHANGED <<spoolVars, op, frame, todo, ret, highest, connected,
                   netVars, saved, histVars>>

ConnectSucceeds ==
    /\ pc = "connect" /\ ~connected
    /\ connected' = TRUE
    /\ link' = "up" /\ stream' = <<>> /\ reply' = NoReply /\ phase' = "new"
    /\ sentHere' = {}
    /\ state' = "Handshaking" /\ pc' = "hello"
    /\ UNCHANGED <<spoolVars, op, frame, todo, ret, highest, saved, accepted,
                   reported, handed, crashes>>

ConnectFails ==
    /\ pc = "connect" /\ ~connected
    /\ state' = "Disconnected"
    /\ Return(FALSE)
    /\ UNCHANGED <<spoolVars, op, highest, connected, netVars, saved, histVars>>

HelloSent ==
    /\ pc = "hello"
    /\ SendSucceeds(Hello)
    /\ pc' = "request"
    /\ UNCHANGED <<spoolVars, op, frame, todo, ret, state, highest, saved,
                   histVars>>

HelloFails ==
    /\ pc = "hello"
    /\ SendFails
    /\ state' = "Failed"
    /\ Return(FALSE)
    /\ UNCHANGED <<spoolVars, op, highest, saved, accepted, reported,
                   handed, crashes>>

RequestSent ==
    /\ pc = "request"
    /\ SendSucceeds(Request)
    /\ pc' = "reply"
    /\ UNCHANGED <<spoolVars, op, frame, todo, ret, state, highest, saved,
                   histVars>>

(* What a failed requestResume() leaves: the caller of reconnectAndResume  *)
(* finds Failed, a direct caller the state it had.                         *)
ResumeFailed ==
    /\ state' = IF op = "requestResume" THEN state ELSE "Failed"
    /\ Return(FALSE)
    /\ UNCHANGED <<spoolVars, op, highest, saved, accepted, reported,
                   handed, crashes>>

RequestFails ==
    /\ pc = "request"
    /\ SendFails
    /\ ResumeFailed

ReplyFails ==
    /\ pc = "reply"
    /\ RecvFails
    /\ ResumeFailed

(* Mutant: a rejected reply does not close the connection.                 *)
ReplyRejectedStaysOpen ==
    /\ pc = "reply" /\ reply = BadReply
    /\ reply' = NoReply
    /\ ResumeFailed
    /\ UNCHANGED <<connected, link, stream, phase, sentHere>>

(* parseResumeReply() refuses the reply: reconnectAndResume() closes the   *)
(* connection, a direct call of requestResume() leaves it open.            *)
ReplyRejected ==
    /\ pc = "reply" /\ reply = BadReply
    /\ IF op = "requestResume"
       THEN /\ reply' = NoReply
            /\ UNCHANGED <<connected, link, stream, phase, sentHere>>
       ELSE CloseConnection
    /\ ResumeFailed

(* Mutant: the loop also takes the frame after the durable ones.           *)
ReplyReadOffByOne ==
    /\ pc = "reply" /\ reply >= 0
    /\ highest' = reply /\ reply' = NoReply
    /\ todo' = {id \in Pending : id <= reply + 1}
    /\ pc' = "prune"
    /\ UNCHANGED <<spoolVars, op, frame, ret, state, connected, link, stream,
                   phase, saved, histVars>>

(* Mutant: the loop leaves the highest durable frame in the spool.         *)
ReplyReadStrict ==
    /\ pc = "reply" /\ reply >= 0
    /\ highest' = reply /\ reply' = NoReply
    /\ todo' = {id \in Pending : id < reply}
    /\ pc' = "prune"
    /\ UNCHANGED <<spoolVars, op, frame, ret, state, connected, link, stream,
                   phase, saved, histVars>>

(* The reply is read; its task id is not compared with taskId_.            *)
ReplyRead ==
    /\ pc = "reply" /\ reply >= 0
    /\ highest' = reply /\ reply' = NoReply
    /\ todo' = {id \in Pending : id <= reply}
    /\ pc' = "prune"
    /\ UNCHANGED <<spoolVars, op, frame, ret, state, connected, link, stream,
                   phase, saved, histVars>>

PruneOne ==
    /\ pc = "prune"
    /\ \E id \in Smallest(todo) : RemoveFrame(id) /\ todo' = todo \ {id}
    /\ UNCHANGED <<pc, op, frame, ret, sessionVars, netVars, saved, histVars>>

(* Mutant: reconnectAndResume() forgets to replay.                         *)
PruneDoneNoReplay ==
    /\ pc = "prune" /\ todo = {}
    /\ \/ op = "requestResume" /\ Return(TRUE) /\ UNCHANGED state
       \/ /\ op # "requestResume"
          /\ state' = "Recovering" /\ pc' = "replay" /\ todo' = {}
          /\ UNCHANGED <<frame, ret>>
    /\ UNCHANGED <<spoolVars, op, highest, connected, netVars, saved, histVars>>

(* requestResume() returns true; reconnectAndResume() loads the frames     *)
(* that are left and starts to replay them.                                *)
PruneDone ==
    /\ pc = "prune" /\ todo = {}
    /\ \/ op = "requestResume" /\ Return(TRUE) /\ UNCHANGED state
       \/ /\ op # "requestResume"
          /\ state' = "Recovering" /\ pc' = "replay" /\ todo' = Pending
          /\ UNCHANGED <<frame, ret>>
    /\ UNCHANGED <<spoolVars, op, highest, connected, netVars, saved, histVars>>

(* One turn of the replay loop.  The frame stays in the spool.             *)
ReplayOne(id) ==
    /\ pc = "replay" /\ id \in Smallest(todo)
    /\ SendSucceeds(Frame(id))
    /\ todo' = todo \ {id}
    /\ handed' = handed \cup {id}
    /\ sentHere' = sentHere \cup {id}
    /\ UNCHANGED <<spoolVars, pc, op, frame, ret, state, highest, saved,
                   accepted, reported, crashes>>

ReplayFails ==
    /\ pc = "replay" /\ todo # {}
    /\ SendFails
    /\ state' = IF op = "replayPendingFrames" THEN state ELSE "Failed"
    /\ Return(FALSE)
    /\ UNCHANGED <<spoolVars, op, highest, saved, accepted, reported,
                   handed, crashes>>

(* Nothing is left to replay: the session is Ready, and sendFrame goes on  *)
(* to send its own frame, which the replay has just sent.                  *)
ReplayDone ==
    /\ pc = "replay" /\ todo = {}
    /\ \/ op = "replayPendingFrames" /\ Return(TRUE) /\ UNCHANGED state
       \/ op = "start" /\ Return(TRUE) /\ state' = "Ready"
       \/ /\ op = "sendFrame"
          /\ state' = "Ready" /\ pc' = "send"
          /\ UNCHANGED <<frame, todo, ret>>
    /\ UNCHANGED <<spoolVars, op, highest, connected, netVars, saved, histVars>>

-----------------------------------------------------------------------------
(* The end of sendFrame().                                                 *)

FrameSent ==
    /\ pc = "send"
    /\ SendSucceeds(Frame(frame))
    /\ handed' = handed \cup {frame}
    /\ sentHere' = sentHere \cup {frame}
    /\ pc' = "remove"
    /\ UNCHANGED <<spoolVars, op, frame, todo, ret, state, highest, saved,
                   accepted, reported, crashes>>

(* Mutant: the spool file is removed although the send failed.             *)
FrameFailsRemoves ==
    /\ pc = "send"
    /\ SendFails
    /\ RemoveFrame(frame)
    /\ state' = "Failed"
    /\ Return(FALSE)
    /\ UNCHANGED <<op, highest, saved, accepted, reported,
                   handed, crashes>>

FrameFails ==
    /\ pc = "send"
    /\ SendFails
    /\ state' = "Failed"
    /\ Return(FALSE)
    /\ UNCHANGED <<spoolVars, op, highest, saved, accepted, reported,
                   handed, crashes>>

(* The spool file goes as soon as the kernel has the frame.                *)
FrameRemoved ==
    /\ pc = "remove"
    /\ RemoveFrame(frame)
    /\ Return(TRUE)
    /\ reported' = reported \cup {frame}
    /\ UNCHANGED <<op, sessionVars, netVars, saved, accepted, handed, sentHere,
                   crashes>>

-----------------------------------------------------------------------------
(* The process dies, and a new one constructs a ResumeSession on the same  *)
(* spool directory.                                                        *)

Crash ==
    /\ pc # "down" /\ crashes < MaxCrash
    /\ crashes' = crashes + 1
    /\ IF pc = "write" THEN KillDuringWrite(frame) ELSE UNCHANGED spoolVars
    /\ pc' = "down" /\ frame' = 0 /\ todo' = {}
    /\ accepted' = accepted \cup {id \in Ids : file'[id] = "complete"}
    /\ CloseConnection
    /\ UNCHANGED <<op, ret, state, highest, saved, reported, handed>>

Restart ==
    /\ pc = "down"
    /\ RecountBytes /\ UNCHANGED file
    /\ pc' = "idle" /\ ret' = TRUE
    /\ state' = "Disconnected" /\ highest' = 0
    /\ UNCHANGED <<op, frame, todo, connected, netVars, saved, histVars>>

-----------------------------------------------------------------------------
(* The server and the network.                                             *)

ServerReads(m) ==
    /\ link = "up" /\ stream # <<>> /\ Head(stream) = m
    /\ stream' = Tail(stream)

ServerReadsHello ==
    /\ ServerReads(Hello)
    /\ phase' = "greeted"
    /\ UNCHANGED <<spoolVars, callVars, sessionVars, link, reply, saved,
                   histVars>>

(* The server answers with a frame up to which it has made every frame     *)
(* durable (the test's server always says 0), or with something that is no *)
(* ResumeReply; if ForeignReply, also with the answer of another task.     *)
ServerAnswers ==
    /\ ServerReads(Request)
    /\ phase' = "resumed"
    /\ reply' = BadReply \/ \E h \in 0 .. MaxFrame :
                               /\ reply' = h
                               /\ ForeignReply \/ 1 .. h \subseteq saved
    /\ UNCHANGED <<spoolVars, callVars, sessionVars, link, saved, histVars>>

ServerSaves(id) ==
    /\ ServerReads(Frame(id))
    /\ saved' = saved \cup {id}
    /\ UNCHANGED <<spoolVars, callVars, sessionVars, link, reply, phase,
                   histVars>>

(* The connection is lost with everything in flight.                       *)
ConnectionCut ==
    /\ link = "up"
    /\ link' = "cut" /\ stream' = <<>>
    /\ reply' \in {reply, NoReply}
    /\ UNCHANGED <<spoolVars, callVars, sessionVars, phase, saved, histVars>>

ResetArrives ==
    /\ link = "cut"
    /\ link' = "reset" /\ reply' = NoReply
    /\ UNCHANGED <<spoolVars, callVars, sessionVars, stream, phase, saved,
                   histVars>>

-----------------------------------------------------------------------------
Call ==
    \/ CallStart \/ CallRequestResume \/ CallReplayPendingFrames
    \/ \E id \in Ids : CallSendFrame(id)

Step ==
    \/ PersistFinish \/ PersistFail \/ Dispatch
    \/ ConnectAlready \/ ConnectSucceeds \/ ConnectFails
    \/ HelloSent \/ HelloFails \/ RequestSent \/ RequestFails
    \/ ReplyFails \/ ReplyRejected \/ ReplyRead
    \/ PruneOne \/ PruneDone
    \/ \E id \in Ids : ReplayOne(id)
    \/ ReplayFails \/ ReplayDone
    \/ FrameSent \/ FrameFails \/ FrameRemoved

Server == ServerReadsHello \/ ServerAnswers
          \/ \E id \in Ids : ServerSaves(id)

Next == Call \/ Step \/ Crash \/ Restart \/ Server \/ ConnectionCut
        \/ ResetArrives

Spec == Init /\ [][Next]_vars
-----------------------------------------------------------------------------
NetTypeOK ==
    /\ connected \in BOOLEAN
    /\ link \in {"up", "cut", "reset", "down"}
    /\ stream \in Seq(Messages) /\ Len(stream) <= SocketCap
    /\ reply \in Replies /\ phase \in {"new", "greeted", "resumed"}

(* Every variable has its type; the socket buffers hold no more than they  *)
(* can.                                                                    *)
TypeOK ==
    /\ SpoolTypeOK /\ NetTypeOK
    /\ pc \in Steps /\ op \in Operations /\ frame \in {0} \cup Ids
    /\ todo \in SUBSET Ids /\ ret \in BOOLEAN
    /\ state \in SessionStates /\ highest \in 0 .. MaxFrame
    /\ saved \in SUBSET Ids /\ accepted \in SUBSET Ids
    /\ reported \in SUBSET Ids /\ handed \in SUBSET Ids
    /\ sentHere \in SUBSET Ids /\ crashes \in 0 .. MaxCrash

(* A frame that the spool has held completely is still there, complete,    *)
(* unless its last byte was handed to a socket: no failed handshake, no    *)
(* failed send, no pruning after a reply and no crash between two steps    *)
(* takes it away before.  (It may be lost after: see DurableBeforeForget.) *)
NoLossBeforeHandover == accepted \subseteq Pending \cup handed

(* Between two calls an open connection belongs to a session that has      *)
(* completed the handshake and the replay on it: whatever failed has       *)
(* closed the connection, replayPendingFrames() by way of sendAll().       *)
ConnectedMeansReady == pc = "idle" /\ connected => state = "Ready"

(* Between two calls, each complete frame in the spool has been sent on    *)
(* the connection that is open: a frame is not left behind because a later *)
(* call found the connection still open and did not replay.                *)
NothingLeftBehind == pc = "idle" /\ connected => Pending \subseteq sentHere

(* The server never meets a frame on a connection on which it has not      *)
(* answered a resume request.                                              *)
FramesAfterHandshake ==
    \A i \in 1 .. Len(stream) : stream[i].type = "frame" => phase = "resumed"

(* A reconnection does not replay what the reply has just reported durable *)
(* (requestResume() has removed exactly those).                            *)
ReplaySkipsDurable ==
    pc = "replay" /\ op # "replayPendingFrames"
        => \A id \in todo : id > highest

(* With a limit set, complete frames never take more than the limit:       *)
(* bytesUsed_ may count too much after a retry, and nothing of what a      *)
(* failed write left, but never less than what is complete, over failed    *)
(* writes, removals, deaths in the middle of a write and restarts.         *)
SpoolWithinLimit ==
    MaxSpoolBytes > 0 => FrameBytes * Cardinality(Pending) <= MaxSpoolBytes

(* Pruning after the answer to a resume request removes only frames that   *)
(* the server has made durable (when the answer is about this task: the    *)
(* code does not compare the task id of the reply).                        *)
ReplyPrunesDurable ==
    [][pc = "prune" => \A id \in Pending : id \in Pending' \cup saved]_vars

(* The frame lifecycle that the session promises, whatever fails.          *)
Delivery == INSTANCE FrameDelivery WITH Frames <- Ids, pending <- Pending
ImplementsDelivery == Delivery!Spec

-----------------------------------------------------------------------------
(* What plan.md and the code's comments say, and the code does not do.     *)

(* plan.md: a spool file is deleted after the durable ACK of its frame.    *)
DurableBeforeForget ==
    [][\A id \in Pending : id \in Pending' \cup saved]_vars

-----------------------------------------------------------------------------
(* A caller that goes on calling start(), and a network and a server that  *)
(* are good in the end: the connection is not lost any more, the server    *)
(* speaks the protocol, and no timeout is always faster than the server.   *)
GoodEnvironment ==
    /\ <>[][~ConnectionCut /\ ~ReplyRejected]_vars
    /\ WF_vars(Step) /\ SF_vars(CallStart) /\ SF_vars(ConnectSucceeds)
    /\ SF_vars(ReplyRead) /\ \A id \in Ids : SF_vars(ReplayOne(id))
    /\ SF_vars(ServerReadsHello) /\ SF_vars(ServerAnswers)
    /\ \A id \in Ids : SF_vars(ServerSaves(id))
FairSpec == Spec /\ GoodEnvironment

(* Every call comes back: a silent server is left after the 10 s timeouts, *)
(* a server that does not read any more after those of the sends.          *)
CallsReturn == pc \notin {"idle", "down"} ~> pc \in {"idle", "down"}

(* Then no frame stays in the spool undelivered: each is made durable, or  *)
(* has gone from the spool after its handover.                             *)
PendingIsDelivered ==
    \A id \in Ids : id \in Pending ~> id \in saved \/ id \notin Pending
=============================================================================
