---------------------------- MODULE MessageStream ----------------------------
(***************************************************************************)
(* The messages of ProtocolV2.h on the wire: a header of magic, version,   *)
(* type and length of the body, then the numbers of the body, each with    *)
(* its bytes in the order of a uint16_t, uint32_t or uint64_t, highest     *)
(* first.  A peer writes messages, the last one perhaps only in part; the  *)
(* receiver reads the bytes of a ResumeReply or of a TaskCheckpoint and    *)
(* parses them, as ResumeSession does for the reply.                       *)
(***************************************************************************)
EXTENDS Naturals, Sequences, SequencesExt

CONSTANTS Base,         \* values of a byte, 256 in the code
          Magic,        \* kMagic
          Samples,      \* the numbers of 4 and of 8 bytes that a peer sends
          MaxMessages,  \* bound on the messages of a peer
          CutPoints     \* bytes of the last message that arrive

Version == 2

Type == [Hello |-> 1, ResumeRequest |-> 2, ResumeReply |-> 3,
         LineBegin |-> 10, LineCommit |-> 11, LineAbort |-> 12,
         TaskCheckpoint |-> 41]

(* The widths of the numbers in the body of each message.                  *)
Layout == [Hello          |-> <<8>>,
           ResumeRequest  |-> <<8>>,
           ResumeReply    |-> <<8, 8>>,
           LineBegin      |-> <<8, 4, 4, 8>>,
           LineCommit     |-> <<8, 4, 4, 8>>,
           LineAbort      |-> <<8, 4, 4>>,
           TaskCheckpoint |-> <<8, 4, 4, 8, 8, 4>>]

Names == DOMAIN Layout

(* Values of k bytes.                                                      *)
Place[k \in 0 .. 8] == IF k = 0 THEN 1 ELSE Base * Place[k - 1]

StreamAssumption ==
    /\ Base \in Nat \ {0, 1} /\ Magic \in 0 .. Place[4] - 1
    /\ \A k \in Names : Type[k] < Place[2]
    /\ Samples \in [{4, 8} -> SUBSET Nat]
    /\ \A w \in {4, 8} : \A n \in Samples[w] : n < Place[w]
    /\ MaxMessages \in Nat /\ CutPoints \subseteq Nat

-----------------------------------------------------------------------------
(* appendUint16(), appendUint32() and appendUint64().                      *)
Bytes(n, w) == [i \in 1 .. w |-> (n \div Place[w - i]) % Base]

(* The shifts of the parsers.                                              *)
Number(data) ==
    LET value[i \in 0 .. Len(data)] ==
            IF i = 0 THEN 0 ELSE value[i - 1] * Base + data[i]
    IN  value[Len(data)]

(* Where the first i numbers of a body end.                                *)
Ends(widths) ==
    LET end[i \in 0 .. Len(widths)] == IF i = 0 THEN 0 ELSE end[i - 1] + widths[i]
    IN  end

HeaderSize == 12
BodySize(name) == Ends(Layout[name])[Len(Layout[name])]
Size(name) == HeaderSize + BodySize(name)

MakeMessageHeader(type, length) ==
    Bytes(Magic, 4) \o Bytes(Version, 2) \o Bytes(type, 2) \o Bytes(length, 4)

(* make...Message() of a message with these numbers.                       *)
Encode(m) ==
    LET body == FlattenSeq([i \in DOMAIN m.fields |->
                               Bytes(m.fields[i], Layout[m.name][i])])
    IN  MakeMessageHeader(Type[m.name], Len(body)) \o body

(* The numbers of a body, read one after the other.                        *)
Fields(name, data) ==
    LET widths == Layout[name]
        end == Ends(widths)
    IN  [i \in DOMAIN widths |->
            Number(SubSeq(data, HeaderSize + end[i - 1] + 1, HeaderSize + end[i]))]

(* Mutant: magic and length are tested, version and type are not.          *)
AcceptsAnyType(name, data) ==
    /\ Len(data) >= Size(name)
    /\ Number(SubSeq(data, 1, 4)) = Magic

(* Mutant: the length is compared with that of the whole message.          *)
AcceptsWholeLength(name, data) ==
    /\ Len(data) >= Size(name)
    /\ SubSeq(data, 1, HeaderSize) = MakeMessageHeader(Type[name], Size(name))

(* The tests of parseResumeReply() and parseTaskCheckpoint().              *)
Accepts(name, data) ==
    /\ Len(data) >= Size(name)
    /\ Number(SubSeq(data, 1, 4)) = Magic
    /\ Number(SubSeq(data, 5, 6)) = Version
    /\ Number(SubSeq(data, 7, 8)) = Type[name]
    /\ Number(SubSeq(data, 9, 12)) = BodySize(name)

-----------------------------------------------------------------------------
VARIABLES sent,      \* the messages the peer has written
          bytes,     \* what is on the connection
          cut,       \* the peer has died in the middle of a message
          received,  \* the messages the receiver has parsed
          refused    \* what it had asked for when it closed the connection

vars == <<sent, bytes, cut, received, refused>>

(* What makeTaskCheckpointMessage() writes last is a flag.                 *)
MessagesOf(name) ==
    IF name = "TaskCheckpoint"
    THEN {[name |-> name, fields |-> <<t, l, a, s, k, z>>] :
             t \in Samples[8], l \in Samples[4], a \in Samples[4],
             s \in Samples[8], k \in Samples[8], z \in {0, 1}}
    ELSE {[name |-> name, fields |-> f] :
             f \in {g \in [DOMAIN Layout[name] -> Samples[4] \cup Samples[8]] :
                      \A i \in DOMAIN g : g[i] \in Samples[Layout[name][i]]}}

Messages == UNION {MessagesOf(name) : name \in Names}

Parsers == {"ResumeReply", "TaskCheckpoint"}

Init == sent = <<>> /\ bytes = <<>> /\ cut = FALSE /\ received = <<>> /\ refused = {}

Write(m) ==
    /\ ~cut /\ refused = {} /\ Len(sent) < MaxMessages
    /\ sent' = Append(sent, m)
    /\ bytes' = bytes \o Encode(m)
    /\ UNCHANGED <<cut, received, refused>>

WritePart(m) ==
    /\ ~cut /\ refused = {} /\ Len(sent) < MaxMessages
    /\ \E n \in CutPoints :
          /\ n < Len(Encode(m))
          /\ bytes' = bytes \o SubSeq(Encode(m), 1, n)
    /\ cut' = TRUE
    /\ UNCHANGED <<sent, received, refused>>

(* recvAll() of the size of the message, and the parser.                   *)
Receive(name) ==
    /\ refused = {} /\ Len(bytes) >= Size(name)
    /\ LET data == SubSeq(bytes, 1, Size(name))
       IN  IF Accepts(name, data)
           THEN /\ received' = Append(received, [name |-> name,
                                                 fields |-> Fields(name, data)])
                /\ bytes' = SubSeq(bytes, Size(name) + 1, Len(bytes))
                /\ UNCHANGED refused
           ELSE refused' = {name} /\ UNCHANGED <<bytes, received>>
    /\ UNCHANGED <<sent, cut>>

Next == (\E m \in Messages : Write(m) \/ WritePart(m))
        \/ (\E name \in Parsers : Receive(name))

Spec == Init /\ [][Next]_vars

-----------------------------------------------------------------------------
(* What a parser accepts is the message that the peer wrote next, number   *)
(* for number: never the head of a longer message, never part of one with  *)
(* the next behind it, and the bytes that stay begin with a message.       *)
ReceivesWhatWasSent == IsPrefix(received, sent)

(* A receiver that asks for the message that comes next is not refused.    *)
AcceptsItsOwn ==
    refused # {} /\ Len(received) < Len(sent)
        => sent[Len(received) + 1].name \notin refused

(* A parser accepts the message it waits for, and nothing else            *)
(* (ProtocolV2.h:456-581).                                                *)
ParsersExact == ReceivesWhatWasSent /\ AcceptsItsOwn
=============================================================================
