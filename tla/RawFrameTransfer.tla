-------------------------- MODULE RawFrameTransfer --------------------------
(***************************************************************************)
(* A frame on the wire: RawFrameSender cuts it into a frame header and     *)
(* fragments, each a chunk header and its bytes, and hands each of them to *)
(* TcpClient::sendAll(); the test server (apps/server/test_server.cpp)     *)
(* reads them back with its recvAll(), puts the bytes in their places and  *)
(* saves the frame.  One connection, as the server accepts only one.       *)
(*                                                                         *)
(* The wire carries items, in order; a sendAll() that fails half way       *)
(* leaves a part of an item ("cut"), on which a recvAll() fails in turn.   *)
(* The images are abstracted to the places of their bytes.                 *)
(***************************************************************************)
EXTENDS Integers, Sequences

CONSTANTS MaxFrame,       \* frame ids are 1 .. MaxFrame
          Sizes,          \* the sizes in bytes that frames have
          FragmentSize,   \* fragmentSize_
          CountMod,       \* 2^w, for the width w of fragmentCount
          MaxBytes,       \* the largest frame the server takes
          WireCap         \* items the socket buffers hold

TransferAssumption ==
    /\ MaxFrame \in Nat /\ FragmentSize \in Nat \ {0} /\ MaxBytes \in Nat
    /\ Sizes \subseteq 1 .. MaxBytes /\ WireCap \in Nat \ {0}
    /\ CountMod \in Nat /\ CountMod > MaxBytes

VARIABLES
    frame,      \* the frame in sendFrame(), or NoFrame
    part,       \* what it sends next: "header", "chunk" or "bytes"
    index,      \* of the fragment
    connected,  \* TcpClient::connected_
    offered,    \* history: the frames given to sendFrame()
    returned,   \* history: those for which it has returned true
    wire,
    lost,       \* history: the network has dropped the connection
    serverPc,   \* what the server reads next, or "exit"
    header,     \* its frameHeader
    chunk,      \* its chunkHeader
    count,      \* its loop variable i
    rawBuffer,  \* the places of rawBuffer that have been filled
    saved       \* the files it has saved

senderVars == <<frame, part, index, connected, offered, returned>>
serverVars == <<serverPc, header, chunk, count, rawBuffer, saved>>
vars == <<senderVars, wire, lost, serverVars>>

Frames  == [id : 1 .. MaxFrame, size : Sizes]
NoFrame == [id |-> 0, size |-> 0]

Header(f, n)   == [kind |-> "header", id |-> f.id, a |-> f.size, b |-> n]
Chunk(f, o, n) == [kind |-> "chunk", id |-> f.id, a |-> o, b |-> n]
Bytes(f, o, n) == [kind |-> "bytes", id |-> f.id, a |-> o, b |-> n]
Cut == [kind |-> "cut", id |-> 0, a |-> 0, b |-> 0]

Init ==
    /\ frame = NoFrame /\ part = "header" /\ index = 0 /\ connected = TRUE
    /\ offered = <<>> /\ returned = {} /\ wire = <<>> /\ lost = FALSE
    /\ serverPc = "header" /\ header = Header(NoFrame, 0)
    /\ chunk = Chunk(NoFrame, 0, 0) /\ count = 0 /\ rawBuffer = {}
    /\ saved = <<>>

-----------------------------------------------------------------------------
(* The sender.                                                             *)

(* Mutant: the division rounds down.                                       *)
FragmentCountDown(size) == (size \div FragmentSize) % CountMod

FragmentCount(size) == ((size + FragmentSize - 1) \div FragmentSize) % CountMod

Offset(i) == i * FragmentSize

(* Mutant: the last fragment is as long as the others.                     *)
PayloadSizeFull(size, i) == FragmentSize

PayloadSize(size, i) == IF size - Offset(i) < FragmentSize
                        THEN size - Offset(i) ELSE FragmentSize

Item ==
    CASE part = "header" -> Header(frame, FragmentCount(frame.size))
      [] part = "chunk"  -> Chunk(frame, Offset(index), PayloadSize(frame.size, index))
      [] part = "bytes"  -> Bytes(frame, Offset(index), PayloadSize(frame.size, index))

(* sendFrame() is called; ids grow, and some frames never get here.        *)
SendFrame(f) ==
    /\ frame = NoFrame /\ connected
    /\ \A i \in 1 .. Len(offered) : f.id > offered[i].id
    /\ frame' = f /\ part' = "header" /\ index' = 0
    /\ offered' = Append(offered, f)
    /\ UNCHANGED <<connected, returned, wire, lost, serverVars>>

(* The fragment is the last of its frame.                                  *)
Last == index + 1 >= FragmentCount(frame.size)

SendAllSucceeds ==
    /\ frame # NoFrame /\ Len(wire) < WireCap
    /\ wire' = IF lost \/ serverPc = "exit" THEN wire ELSE Append(wire, Item)
    /\ IF part = "bytes" /\ Last
       THEN frame' = NoFrame /\ returned' = returned \cup {frame.id}
       ELSE UNCHANGED <<frame, returned>>
    /\ part' = IF part = "chunk" THEN "bytes" ELSE "chunk"
    /\ index' = IF part = "bytes" /\ ~Last THEN index + 1 ELSE index
    /\ UNCHANGED <<connected, offered, lost, serverVars>>

(* Mutant: sendFrame() fails, and leaves the connection open.              *)
SendAllFailsOpen ==
    /\ frame # NoFrame
    /\ lost \/ serverPc = "exit" \/ Len(wire) = WireCap
    /\ frame' = NoFrame
    /\ UNCHANGED <<part, index, connected, offered, returned, wire, lost,
                   serverVars>>

(* sendAll() fails, perhaps after a part of the item, because the          *)
(* connection is gone or the buffers stay full for 10 s; it closes the     *)
(* connection, and sendFrame() returns false.                              *)
SendAllFails ==
    /\ frame # NoFrame
    /\ lost \/ serverPc = "exit" \/ Len(wire) = WireCap
    /\ frame' = NoFrame /\ connected' = FALSE
    /\ wire' \in {wire, Append(wire, Cut)}
    /\ UNCHANGED <<part, index, offered, returned, lost, serverVars>>

(* closeConnection() of a sender that stops between two frames.            *)
CloseConnection ==
    /\ frame = NoFrame /\ connected
    /\ connected' = FALSE
    /\ UNCHANGED <<frame, part, index, offered, returned, wire, lost, serverVars>>

(* The network drops the connection and what is in flight, or all of it    *)
(* but the first items.                                                    *)
ConnectionLost ==
    /\ ~lost
    /\ lost' = TRUE
    /\ \E n \in 0 .. Len(wire) : wire' = SubSeq(wire, 1, n)
    /\ UNCHANGED <<senderVars, serverVars>>

-----------------------------------------------------------------------------
(* The server.                                                             *)

Reads(kind) == serverPc = kind /\ wire # <<>> /\ Head(wire).kind # "cut"
Consume == wire' = Tail(wire)

SaveFrame(h, filled) ==
    saved' = Append(saved, [id |-> h.id, size |-> h.a, filled |-> filled])

(* A frame header of another kind or an impossible size ends the server;   *)
(* a frame without fragments is saved at once.                             *)
ReadFrameHeader ==
    /\ Reads("header") /\ Consume
    /\ LET h == Head(wire)
           ok == h.kind = "header" /\ h.a \in 1 .. MaxBytes
       IN /\ header' = h
          /\ serverPc' = IF ~ok THEN "exit"
                         ELSE IF h.b > 0 THEN "chunk" ELSE "header"
          /\ IF ok /\ h.b = 0 THEN SaveFrame(h, {}) ELSE UNCHANGED saved
    /\ rawBuffer' = {} /\ count' = 0
    /\ UNCHANGED <<chunk, senderVars, lost>>

(* A chunk of another frame or out of bounds ends the loop over the        *)
(* fragments, and the frame is saved as it is.                             *)
ReadChunkHeader ==
    /\ Reads("chunk") /\ Consume
    /\ LET c == Head(wire)
           ok == c.id = header.id /\ c.a + c.b <= header.a
       IN /\ chunk' = c
          /\ serverPc' = IF c.kind # "chunk" THEN "exit"
                         ELSE IF ok THEN "bytes" ELSE "header"
          /\ IF c.kind = "chunk" /\ ~ok THEN SaveFrame(header, rawBuffer)
                                        ELSE UNCHANGED saved
    /\ UNCHANGED <<header, count, rawBuffer, senderVars, lost>>

(* The bytes go to the place the chunk header names; after the last        *)
(* fragment the frame is saved.                                            *)
ReadBytes ==
    /\ Reads("bytes") /\ Consume
    /\ rawBuffer' = rawBuffer \cup (chunk.a .. (chunk.a + chunk.b - 1))
    /\ count' = count + 1
    /\ IF count' = header.b
       THEN serverPc' = "header" /\ SaveFrame(header, rawBuffer')
       ELSE serverPc' = "chunk" /\ UNCHANGED saved
    /\ UNCHANGED <<header, chunk, senderVars, lost>>

(* recvAll() fails on a part of an item, or when the connection has ended. *)
RecvAllFails ==
    /\ serverPc # "exit"
    /\ \/ wire # <<>> /\ Head(wire).kind = "cut"
       \/ wire = <<>> /\ (lost \/ ~connected)
    /\ serverPc' = "exit"
    /\ UNCHANGED <<header, chunk, count, rawBuffer, saved, senderVars, wire, lost>>

Server == ReadFrameHeader \/ ReadChunkHeader \/ ReadBytes \/ RecvAllFails

Next ==
    \/ \E f \in Frames : SendFrame(f)
    \/ SendAllSucceeds \/ SendAllFails \/ CloseConnection \/ ConnectionLost
    \/ Server

Spec == Init /\ [][Next]_vars

(* The server reads.                                                       *)
FairSpec == Spec /\ WF_vars(Server)

-----------------------------------------------------------------------------
Items == [kind : {"header", "chunk", "bytes", "cut"}, id : 0 .. MaxFrame,
          a : 0 .. MaxBytes, b : 0 .. MaxBytes]

TypeOK ==
    /\ frame \in Frames \cup {NoFrame} /\ part \in {"header", "chunk", "bytes"}
    /\ index \in 0 .. MaxBytes /\ connected \in BOOLEAN /\ lost \in BOOLEAN
    /\ offered \in Seq(Frames) /\ returned \in SUBSET (1 .. MaxFrame)
    /\ wire \in Seq(Items) /\ Len(wire) <= WireCap + 1
    /\ serverPc \in {"header", "chunk", "bytes", "exit"}
    /\ header \in Items /\ chunk \in Items /\ count \in 0 .. MaxBytes
    /\ rawBuffer \in SUBSET (0 .. MaxBytes)
    /\ saved \in Seq([id : 1 .. MaxFrame, size : Sizes,
                      filled : SUBSET (0 .. MaxBytes)])

(* A frame that the server saves has all its bytes, each in its place,     *)
(* however the connection ends and whatever the size of the last fragment: *)
(* the fragments cover the frame and their number is the one announced.    *)
SavedWhole ==
    \A i \in 1 .. Len(saved) : saved[i].filled = 0 .. (saved[i].size - 1)

(* The server reads the kind of item that is there: it never takes image   *)
(* bytes for a header.                                                     *)
InStep ==
    serverPc # "exit" /\ wire # <<>> => Head(wire).kind \in {serverPc, "cut"}

(* The frames are delivered whole and in order; it is this that lets       *)
(* ResumeSession send a frame as one message.                              *)
Delivered == [i \in 1 .. Len(saved) |-> [id |-> saved[i].id, size |-> saved[i].size]]
Stream == INSTANCE FrameStream WITH delivered <- Delivered
ImplementsStream == Stream!Spec

(* A frame for which sendFrame() returned true is saved, unless the        *)
(* network drops the connection.                                           *)
ReturnedIsSaved ==
    \A i \in 1 .. MaxFrame :
        i \in returned ~> lost \/ \E j \in 1 .. Len(saved) : saved[j].id = i

(* Server and sender agree on where a frame begins and ends, and what is  *)
(* saved is whole (test_server.cpp:140-222).                              *)
ServerInStep == TypeOK /\ InStep /\ SavedWhole
=============================================================================
