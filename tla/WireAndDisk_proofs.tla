-------------------------- MODULE WireAndDisk_proofs --------------------------
(***************************************************************************)
(* Theorems about the transfer of frames, about the scan on disk and about *)
(* the messages, for any number and sizes of frames, fragments, buffers    *)
(* and queues, any numbers in the messages, and whatever becomes of the    *)
(* connection, of the peer and of the generator.                           *)
(***************************************************************************)
EXTENDS WireAndDisk, Integers, SequenceTheorems, WellFoundedInduction, TLAPS

-----------------------------------------------------------------------------
(* The transfer.  A position in the stream of items: fragment i of frame k *)
(* of those offered; and what the protocol has there and behind it.        *)
Positions == [k : Nat, part : {"header", "chunk", "bytes"}, i : Nat]

Fragments(f) == Transfer!FragmentCount(f.size)

At(k, kind, i) == [k |-> k, part |-> kind, i |-> i]

Valid(p, o) ==
    /\ p.k \in 1 .. Len(o) /\ p.i < Fragments(o[p.k])
    /\ p.part = "header" => p.i = 0

ItemAt(p, o) ==
    LET f == o[p.k]
        payload == Transfer!PayloadSize(f.size, p.i)
    IN  CASE p.part = "header" -> Transfer!Header(f, Fragments(f))
          [] p.part = "chunk"  -> Transfer!Chunk(f, Transfer!Offset(p.i), payload)
          [] p.part = "bytes"  -> Transfer!Bytes(f, Transfer!Offset(p.i), payload)

After(p, o) ==
    CASE p.part = "header" -> At(p.k, "chunk", 0)
      [] p.part = "chunk"  -> At(p.k, "bytes", p.i)
      [] p.part = "bytes"  -> IF p.i + 1 < Fragments(o[p.k])
                              THEN At(p.k, "chunk", p.i + 1)
                              ELSE At(p.k + 1, "header", 0)

(* The items w are those from position P[1] on, one after the other, and   *)
(* perhaps a part of one at the end.                                       *)
Chain(P, w, o) ==
    /\ P \in [1 .. Len(w) + 1 -> Positions]
    /\ \A j \in 1 .. Len(w) :
          \/ Valid(P[j], o) /\ w[j] = ItemAt(P[j], o) /\ P[j + 1] = After(P[j], o)
          \/ j = Len(w) /\ w[j] = Transfer!Cut

Whole(w) == \A j \in 1 .. Len(w) : w[j] # Transfer!Cut

(* Where the server and the sender are in the stream.                      *)
ServerAt == At(Len(saved) + 1, serverPc, IF serverPc = "header" THEN 0 ELSE count)

SenderAt == IF frame = Transfer!NoFrame THEN At(Len(offered) + 1, "header", 0)
            ELSE At(Len(offered), item, index)

SenderOK ==
    frame # Transfer!NoFrame =>
        /\ connected /\ Len(offered) > 0 /\ frame = offered[Len(offered)]
        /\ index < Fragments(frame) /\ (item = "header" => index = 0)

SavedOK ==
    /\ Len(saved) <= Len(offered)
    /\ \A i \in 1 .. Len(saved) :
          /\ saved[i].id = offered[i].id /\ saved[i].size = offered[i].size
          /\ saved[i].filled = 0 .. saved[i].size - 1

Receiving(f) ==
    /\ Len(saved) < Len(offered)
    /\ header = Transfer!Header(f, Fragments(f))
    /\ count < Fragments(f) /\ rawBuffer = 0 .. Transfer!Offset(count) - 1
    /\ serverPc = "bytes" =>
          chunk = Transfer!Chunk(f, Transfer!Offset(count),
                                 Transfer!PayloadSize(f.size, count))

OnTheWire ==
    \E P : /\ Chain(P, wire, offered) /\ P[1] = ServerAt
           /\ connected /\ ~lost => P[Len(wire) + 1] = SenderAt

TransferInv ==
    /\ Transfer!TypeOK /\ SenderOK /\ SavedOK
    /\ connected => Whole(wire) /\ Len(wire) <= WireCap
    /\ serverPc # "exit" => OnTheWire
    /\ serverPc \in {"chunk", "bytes"} => Receiving(offered[Len(saved) + 1])

(* The fragments of a frame: they begin in the frame, follow each other    *)
(* and end with it, and their number fits the field of the header.         *)
LEMMA FragmentsCover ==
  ASSUME NEW f \in Transfer!Frames
  PROVE  /\ f.size \in 1 .. MaxBytes /\ f.id \in 1 .. MaxFrame
         /\ Fragments(f) \in 1 .. MaxBytes
         /\ \A i \in Nat : i < Fragments(f) =>
               /\ Transfer!Offset(i) \in 0 .. MaxBytes
               /\ Transfer!PayloadSize(f.size, i) \in 1 .. MaxBytes
               /\ i + 1 < Fragments(f) =>
                     Transfer!Offset(i) + Transfer!PayloadSize(f.size, i)
                        = Transfer!Offset(i + 1)
               /\ ~(i + 1 < Fragments(f)) =>
                     Transfer!Offset(i) + Transfer!PayloadSize(f.size, i) = f.size
               /\ Transfer!Offset(i) + Transfer!PayloadSize(f.size, i) <= f.size
         /\ Transfer!Offset(0) = 0
<1> DEFINE z == f.size
           N == (z + FragmentSize - 1) \div FragmentSize
<1>1. /\ z \in 1 .. MaxBytes /\ f.id \in 1 .. MaxFrame
      /\ MaxBytes \in Nat /\ FragmentSize \in Nat \ {0}
      /\ CountMod \in Nat /\ CountMod > MaxBytes
  BY WireAndDiskConstants DEF Transfer!TransferAssumption, Transfer!Frames
<1>2. /\ N \in Nat /\ FragmentSize * N <= z + FragmentSize - 1
      /\ z + FragmentSize - 1 < FragmentSize * N + FragmentSize
  BY <1>1
<1>3. N >= 1
  BY <1>1, <1>2
<1>4. N <= z
  BY <1>1, <1>2
<1>5. Fragments(f) = N
  BY <1>1, <1>2, <1>4 DEF Fragments, Transfer!FragmentCount
<1> HIDE DEF N
<1>6. ASSUME NEW i \in Nat, i < N
      PROVE  /\ i * FragmentSize \in Nat
             /\ (i + 1) * FragmentSize = i * FragmentSize + FragmentSize
             /\ i + 1 < N => i * FragmentSize + FragmentSize < z
             /\ ~(i + 1 < N) => z <= i * FragmentSize + FragmentSize
             /\ i * FragmentSize < z
  BY <1>1, <1>2, <1>6
<1>7. ASSUME NEW i \in Nat, i < Fragments(f)
      PROVE  /\ Transfer!Offset(i) \in 0 .. MaxBytes
             /\ Transfer!PayloadSize(f.size, i) \in 1 .. MaxBytes
             /\ i + 1 < Fragments(f) =>
                   Transfer!Offset(i) + Transfer!PayloadSize(f.size, i)
                      = Transfer!Offset(i + 1)
             /\ ~(i + 1 < Fragments(f)) =>
                   Transfer!Offset(i) + Transfer!PayloadSize(f.size, i) = f.size
             /\ Transfer!Offset(i) + Transfer!PayloadSize(f.size, i) <= f.size
  <2> DEFINE a == i * FragmentSize
             b == (i + 1) * FragmentSize
  <2>1. /\ a \in Nat /\ b = a + FragmentSize
        /\ i + 1 < N => a + FragmentSize < z
        /\ ~(i + 1 < N) => z <= a + FragmentSize
        /\ a < z
    BY <1>5, <1>6, <1>7
  <2>2. Transfer!Offset(i) = a /\ Transfer!Offset(i + 1) = b
    BY DEF Transfer!Offset
  <2>3. Transfer!PayloadSize(z, i) = IF z - a < FragmentSize THEN z - a
                                     ELSE FragmentSize
    BY <2>2 DEF Transfer!PayloadSize
  <2> HIDE DEF a, b, z
  <2>4. /\ a \in 0 .. MaxBytes /\ Transfer!PayloadSize(z, i) \in 1 .. MaxBytes
        /\ i + 1 < N => a + Transfer!PayloadSize(z, i) = b
        /\ ~(i + 1 < N) => a + Transfer!PayloadSize(z, i) = z
        /\ a + Transfer!PayloadSize(z, i) <= z
    BY <1>1, <2>1, <2>3
  <2> QED
    BY <1>5, <2>2, <2>4 DEF z
<1>8. Transfer!Offset(0) = 0
  BY <1>1 DEF Transfer!Offset
<1> QED
  <2>1. z \in 1 .. MaxBytes /\ f.id \in 1 .. MaxFrame /\ Fragments(f) \in 1 .. MaxBytes
    <3> HIDE DEF z
    <3> QED BY <1>1, <1>2, <1>3, <1>4, <1>5
  <2> QED
    BY <2>1, <1>7, <1>8 DEF z

(* What is at a valid position is an item, and not a part of one; behind   *)
(* it is a position.                                                       *)
LEMMA ItemsAreItems ==
  ASSUME NEW o \in Seq(Transfer!Frames), NEW p \in Positions, Valid(p, o)
  PROVE  /\ o[p.k] \in Transfer!Frames
         /\ ItemAt(p, o) \in Transfer!Items /\ ItemAt(p, o).kind = p.part
         /\ ItemAt(p, o) # Transfer!Cut
         /\ After(p, o) \in Positions
<1>1. o[p.k] \in Transfer!Frames
  BY DEF Valid
<1>2. MaxBytes \in Nat /\ MaxFrame \in Nat
  BY WireAndDiskConstants DEF Transfer!TransferAssumption
<1> DEFINE f == o[p.k]
<1>3. /\ f.size \in 1 .. MaxBytes /\ f.id \in 1 .. MaxFrame
      /\ Fragments(f) \in 1 .. MaxBytes
      /\ Transfer!Offset(p.i) \in 0 .. MaxBytes
      /\ Transfer!PayloadSize(f.size, p.i) \in 1 .. MaxBytes
  BY <1>1, FragmentsCover DEF Valid, Positions
<1> DEFINE a == Transfer!Offset(p.i)
           b == Transfer!PayloadSize(f.size, p.i)
<1>4. p.part \in {"header", "chunk", "bytes"} /\ p.k \in Nat /\ p.i \in Nat
  BY DEF Positions
<1>5. ItemAt(p, o) = [kind |-> p.part, id |-> f.id,
                      a |-> IF p.part = "header" THEN f.size ELSE a,
                      b |-> IF p.part = "header" THEN Fragments(f) ELSE b]
  BY <1>4 DEF ItemAt, Transfer!Header, Transfer!Chunk, Transfer!Bytes
<1>6. After(p, o) \in Positions
  BY <1>4 DEF After, At, Positions
<1> HIDE DEF a, b, f
<1> QED
  BY <1>1, <1>2, <1>3, <1>4, <1>5, <1>6 DEF Transfer!Items, Transfer!Cut, f, a, b

(* Frames that are offered later change nothing of a chain.                *)
LEMMA ChainOfMore ==
  ASSUME NEW o \in Seq(Transfer!Frames), NEW f \in Transfer!Frames,
         NEW w \in Seq(Transfer!Items), NEW P, Chain(P, w, o)
  PROVE  Chain(P, w, Append(o, f))
<1>1. ASSUME NEW p \in Positions, Valid(p, o)
      PROVE  /\ Valid(p, Append(o, f))
             /\ ItemAt(p, Append(o, f)) = ItemAt(p, o)
             /\ After(p, Append(o, f)) = After(p, o)
  <2>1. Append(o, f)[p.k] = o[p.k] /\ p.k \in 1 .. Len(Append(o, f))
    BY <1>1 DEF Valid
  <2> QED
    BY <2>1, <1>1 DEF Valid, ItemAt, After
<1>2. \A j \in 1 .. Len(w) : P[j] \in Positions
  BY DEF Chain
<1> QED
  BY <1>1, <1>2 DEF Chain

(* The sender appends the item of the position behind the last.            *)
LEMMA ChainAppend ==
  ASSUME NEW o \in Seq(Transfer!Frames), NEW w \in Seq(Transfer!Items),
         NEW P, Chain(P, w, o), Whole(w), Valid(P[Len(w) + 1], o)
  PROVE  LET p == P[Len(w) + 1]
             v == Append(w, ItemAt(p, o))
         IN  \E Q : /\ Chain(Q, v, o) /\ Q[1] = P[1] /\ Q[Len(v) + 1] = After(p, o)
<1> DEFINE p == P[Len(w) + 1]
           v == Append(w, ItemAt(p, o))
           Q == [j \in 1 .. Len(w) + 2 |-> IF j = Len(w) + 2 THEN After(p, o) ELSE P[j]]
<1>1. Len(w) \in Nat /\ P \in [1 .. Len(w) + 1 -> Positions] /\ p \in Positions
  BY DEF Chain
<1>2. After(p, o) \in Positions /\ ItemAt(p, o) \in Transfer!Items
  BY <1>1, ItemsAreItems
<1>3. /\ v \in Seq(Transfer!Items) /\ Len(v) = Len(w) + 1
      /\ \A j \in 1 .. Len(w) : v[j] = w[j]
      /\ v[Len(w) + 1] = ItemAt(p, o)
  BY <1>2
<1>4. Q \in [1 .. Len(v) + 1 -> Positions]
  BY <1>1, <1>2, <1>3
<1>5. ASSUME NEW j \in 1 .. Len(v)
      PROVE  Valid(Q[j], o) /\ v[j] = ItemAt(Q[j], o) /\ Q[j + 1] = After(Q[j], o)
  <2>1. CASE j = Len(w) + 1
    BY <1>1, <1>3, <2>1
  <2>2. CASE j \in 1 .. Len(w)
    <3>1. /\ Valid(P[j], o) /\ w[j] = ItemAt(P[j], o) /\ P[j + 1] = After(P[j], o)
      BY <2>2 DEF Chain, Whole
    <3>2. Q[j] = P[j] /\ Q[j + 1] = P[j + 1] /\ v[j] = w[j]
      BY <1>1, <1>3, <2>2
    <3> QED
      BY <3>1, <3>2
  <2> QED
    BY <1>1, <1>3, <2>1, <2>2
<1>6. Q[1] = P[1] /\ Q[Len(v) + 1] = After(p, o)
  BY <1>1, <1>3
<1>7. Chain(Q, v, o)
  BY <1>4, <1>5 DEF Chain
<1> QED
  BY <1>6, <1>7

(* Or a part of an item,                                                   *)
LEMMA ChainCut ==
  ASSUME NEW o \in Seq(Transfer!Frames), NEW w \in Seq(Transfer!Items),
         NEW P, Chain(P, w, o), Whole(w)
  PROVE  \E Q : Chain(Q, Append(w, Transfer!Cut), o) /\ Q[1] = P[1]
<1> DEFINE v == Append(w, Transfer!Cut)
           Q == [j \in 1 .. Len(w) + 2 |-> IF j = Len(w) + 2 THEN P[1] ELSE P[j]]
<1>1. Len(w) \in Nat /\ P \in [1 .. Len(w) + 1 -> Positions]
  BY DEF Chain
<1>2. Transfer!Cut \in Transfer!Items
  BY WireAndDiskConstants DEF Transfer!Cut, Transfer!Items, Transfer!TransferAssumption
<1>3. /\ Len(v) = Len(w) + 1 /\ v[Len(w) + 1] = Transfer!Cut
      /\ \A j \in 1 .. Len(w) : v[j] = w[j]
  BY <1>2
<1>4. Q \in [1 .. Len(v) + 1 -> Positions]
  BY <1>1, <1>3
<1>5. ASSUME NEW j \in 1 .. Len(v)
      PROVE  \/ Valid(Q[j], o) /\ v[j] = ItemAt(Q[j], o) /\ Q[j + 1] = After(Q[j], o)
             \/ j = Len(v) /\ v[j] = Transfer!Cut
  <2>1. CASE j = Len(w) + 1
    BY <1>1, <1>3, <2>1
  <2>2. CASE j \in 1 .. Len(w)
    <3>1. /\ Valid(P[j], o) /\ w[j] = ItemAt(P[j], o) /\ P[j + 1] = After(P[j], o)
      BY <2>2 DEF Chain, Whole
    <3>2. Q[j] = P[j] /\ Q[j + 1] = P[j + 1] /\ v[j] = w[j]
      BY <1>1, <1>3, <2>2
    <3> QED
      BY <3>1, <3>2
  <2> QED
    BY <1>1, <1>3, <2>1, <2>2
<1>6. Q[1] = P[1]
  BY <1>1
<1>7. Chain(Q, v, o)
  BY <1>4, <1>5 DEF Chain
<1> QED
  BY <1>6, <1>7

(* the server takes the first,                                             *)
LEMMA ChainTail ==
  ASSUME NEW o \in Seq(Transfer!Frames), NEW w \in Seq(Transfer!Items),
         NEW P, Chain(P, w, o), w # <<>>, Head(w).kind # "cut"
  PROVE  /\ P[1] \in Positions /\ Valid(P[1], o) /\ Head(w) = ItemAt(P[1], o)
         /\ \E Q : /\ Chain(Q, Tail(w), o) /\ Q[1] = After(P[1], o)
                   /\ Q[Len(Tail(w)) + 1] = P[Len(w) + 1]
<1> DEFINE v == Tail(w)
           Q == [j \in 1 .. Len(w) |-> P[j + 1]]
<1>1. /\ Len(w) \in Nat \ {0} /\ P \in [1 .. Len(w) + 1 -> Positions]
      /\ Head(w) = w[1] /\ Len(v) = Len(w) - 1
      /\ \A j \in 1 .. Len(v) : v[j] = w[j + 1]
  BY DEF Chain
<1>2. w[1] # Transfer!Cut
  BY <1>1 DEF Transfer!Cut
<1>3. Valid(P[1], o) /\ w[1] = ItemAt(P[1], o) /\ P[2] = After(P[1], o)
  <2>1. 1 \in 1 .. Len(w) /\ 1 + 1 = 2
    BY <1>1
  <2> QED
    BY <1>2, <2>1 DEF Chain
<1>4. Q \in [1 .. Len(v) + 1 -> Positions]
  BY <1>1
<1>5. ASSUME NEW j \in 1 .. Len(v)
      PROVE  \/ Valid(Q[j], o) /\ v[j] = ItemAt(Q[j], o) /\ Q[j + 1] = After(Q[j], o)
             \/ j = Len(v) /\ v[j] = Transfer!Cut
  <2>1. /\ j + 1 \in 1 .. Len(w) /\ Q[j] = P[j + 1] /\ Q[j + 1] = P[(j + 1) + 1]
        /\ v[j] = w[j + 1] /\ (j + 1 = Len(w) => j = Len(v))
    <3>1. j \in 1 .. Len(w) - 1 /\ v[j] = w[j + 1]
      BY <1>1
    <3>2. Q[j] = P[j + 1] /\ Q[j + 1] = P[(j + 1) + 1]
      BY <1>1, <3>1
    <3>3. Len(w) \in Nat /\ Len(v) = Len(w) - 1
      BY <1>1
    <3> HIDE DEF v
    <3>4. j + 1 \in 1 .. Len(w)
      BY <3>1, <3>3
    <3>5. j + 1 = Len(w) => j = Len(v)
      BY <3>1, <3>3
    <3> QED
      BY <3>1, <3>2, <3>4, <3>5
  <2>2. \/ /\ Valid(P[j + 1], o) /\ w[j + 1] = ItemAt(P[j + 1], o)
           /\ P[(j + 1) + 1] = After(P[j + 1], o)
        \/ j + 1 = Len(w) /\ w[j + 1] = Transfer!Cut
    BY <2>1 DEF Chain
  <2> HIDE DEF Q, v
  <2> QED
    BY <2>1, <2>2
<1>6. Q[1] = After(P[1], o) /\ Q[Len(v) + 1] = P[Len(w) + 1]
  BY <1>1, <1>3
<1>7. Chain(Q, v, o)
  BY <1>4, <1>5 DEF Chain
<1>8. P[1] \in Positions
  BY <1>1
<1> HIDE DEF Q
<1> QED
  BY <1>1, <1>3, <1>6, <1>7, <1>8

(* and the network keeps the first few.                                    *)
LEMMA ChainPrefix ==
  ASSUME NEW o \in Seq(Transfer!Frames), NEW w \in Seq(Transfer!Items),
         NEW P, Chain(P, w, o), NEW n \in 0 .. Len(w)
  PROVE  \E Q : Chain(Q, SubSeq(w, 1, n), o) /\ Q[1] = P[1]
<1> DEFINE v == SubSeq(w, 1, n)
           Q == [j \in 1 .. n + 1 |-> P[j]]
<1>1. /\ Len(w) \in Nat /\ P \in [1 .. Len(w) + 1 -> Positions]
      /\ Len(v) = n /\ \A j \in 1 .. n : v[j] = w[j]
  BY DEF Chain
<1>2. Q \in [1 .. Len(v) + 1 -> Positions]
  BY <1>1
<1>3. ASSUME NEW j \in 1 .. Len(v)
      PROVE  \/ Valid(Q[j], o) /\ v[j] = ItemAt(Q[j], o) /\ Q[j + 1] = After(Q[j], o)
             \/ j = Len(v) /\ v[j] = Transfer!Cut
  <2>1. /\ j \in 1 .. Len(w) /\ Q[j] = P[j] /\ Q[j + 1] = P[j + 1] /\ v[j] = w[j]
        /\ (j = Len(w) => j = Len(v))
    BY <1>1
  <2> QED
    BY <2>1 DEF Chain
<1>4. Chain(Q, v, o)
  BY <1>2, <1>3 DEF Chain
<1> QED
  BY <1>1, <1>4

-----------------------------------------------------------------------------
(* The types that a step of the sender and one of the server read.         *)
LEMMA Parameters ==
  /\ MaxFrame \in Nat /\ MaxBytes \in Nat /\ FragmentSize \in Nat \ {0}
  /\ WireCap \in Nat \ {0}
BY WireAndDiskConstants DEF Transfer!TransferAssumption

(* No frame is no frame, and its header is an item.                        *)
LEMMA NoFrames ==
  /\ Transfer!NoFrame \notin Transfer!Frames
  /\ Transfer!Header(Transfer!NoFrame, 0) \in Transfer!Items
  /\ Transfer!Chunk(Transfer!NoFrame, 0, 0) \in Transfer!Items
  /\ Transfer!Cut \in Transfer!Items
BY Parameters DEF Transfer!NoFrame, Transfer!Frames, Transfer!Items, Transfer!Header,
                  Transfer!Chunk, Transfer!Cut

(* The sender in the middle of a frame is at a valid position, and what it *)
(* is about to send is what belongs there.                                 *)
LEMMA SendsItsItem ==
  ASSUME TransferInv, frame # Transfer!NoFrame
  PROVE  /\ frame \in Transfer!Frames /\ connected
         /\ SenderAt \in Positions /\ Valid(SenderAt, offered)
         /\ Transfer!Item = ItemAt(SenderAt, offered)
<1>1. /\ frame \in Transfer!Frames /\ connected /\ Len(offered) \in Nat \ {0}
      /\ frame = offered[Len(offered)] /\ index \in Nat /\ index < Fragments(frame)
      /\ item \in {"header", "chunk", "bytes"} /\ (item = "header" => index = 0)
  BY Parameters DEF TransferInv, SenderOK, Transfer!TypeOK
<1>2. SenderAt = [k |-> Len(offered), part |-> item, i |-> index]
  BY DEF SenderAt, At
<1>3. SenderAt \in Positions /\ Valid(SenderAt, offered)
  BY <1>1, <1>2 DEF Positions, Valid
<1>4. Transfer!Item = ItemAt(SenderAt, offered)
  BY <1>1, <1>2 DEF Transfer!Item, ItemAt, Fragments
<1> QED
  BY <1>1, <1>3, <1>4

LEMMA TransferBegins ==
  ASSUME Transfer!Init
  PROVE  TransferInv
<1>1. Transfer!TypeOK
  <2>1. /\ wire = <<>> /\ Len(wire) = 0 /\ wire \in Seq(Transfer!Items)
        /\ offered = <<>> /\ offered \in Seq(Transfer!Frames)
        /\ saved \in Seq([id : 1 .. MaxFrame, size : Sizes,
                          filled : SUBSET (0 .. MaxBytes)])
    BY DEF Transfer!Init
  <2>2. /\ header \in Transfer!Items /\ chunk \in Transfer!Items
        /\ frame \in Transfer!Frames \cup {Transfer!NoFrame}
    BY NoFrames DEF Transfer!Init
  <2>3. /\ index \in 0 .. MaxBytes /\ count \in 0 .. MaxBytes
        /\ Len(wire) <= WireCap + 1
    BY <2>1, Parameters DEF Transfer!Init
  <2> QED
    BY <2>1, <2>2, <2>3 DEF Transfer!Init, Transfer!TypeOK
<1>2. SenderOK /\ SavedOK /\ Whole(wire)
  BY DEF Transfer!Init, SenderOK, SavedOK, Whole
<1>3. OnTheWire
  <2> DEFINE P == [j \in 1 .. 1 |-> At(1, "header", 0)]
  <2>1. Len(wire) = 0 /\ wire = <<>> /\ ServerAt = At(1, "header", 0)
        /\ SenderAt = At(1, "header", 0)
    BY DEF Transfer!Init, ServerAt, SenderAt
  <2>2. P \in [1 .. 1 -> Positions] /\ P[1] = At(1, "header", 0)
    BY DEF At, Positions
  <2>3. Chain(P, wire, offered)
    BY <2>1, <2>2 DEF Chain
  <2> QED
    BY <2>1, <2>2, <2>3 DEF OnTheWire
<1> QED
  BY <1>1, <1>2, <1>3, Parameters DEF TransferInv, Transfer!Init

LEMMA SendFrameStep ==
  ASSUME TransferInv, NEW f \in Transfer!Frames, Transfer!SendFrame(f)
  PROVE  TransferInv'
<1>1. /\ offered \in Seq(Transfer!Frames) /\ wire \in Seq(Transfer!Items)
      /\ saved \in Seq([id : 1 .. MaxFrame, size : Sizes, filled : SUBSET (0 .. MaxBytes)])
  BY DEF TransferInv, Transfer!TypeOK
<1>2. /\ offered' = Append(offered, f) /\ Len(offered') = Len(offered) + 1
      /\ offered' \in Seq(Transfer!Frames) /\ offered'[Len(offered) + 1] = f
      /\ \A i \in 1 .. Len(offered) : offered'[i] = offered[i]
  BY <1>1 DEF Transfer!SendFrame
<1>3. frame = Transfer!NoFrame /\ frame' = f /\ connected /\ item' = "header" /\ index' = 0
      /\ f # Transfer!NoFrame
  BY NoFrames DEF Transfer!SendFrame
<1>4. UNCHANGED <<connected, returned, wire, lost, serverPc, header, chunk, count,
                  rawBuffer, saved>>
  BY DEF Transfer!SendFrame, Transfer!serverVars
<1>5. Transfer!TypeOK'
  BY <1>2, <1>3, <1>4, Parameters DEF TransferInv, Transfer!TypeOK
<1>6. SenderOK'
  <2>1. Fragments(f) \in 1 .. MaxBytes
    BY FragmentsCover
  <2>2. 0 < Fragments(f)
    BY <2>1, Parameters
  <2>3. Len(offered') > 0 /\ f = offered'[Len(offered')]
    BY <1>1, <1>2
  <2> QED
    BY <1>3, <1>4, <2>2, <2>3 DEF SenderOK
<1>7. SavedOK'
  BY <1>1, <1>2, <1>4 DEF TransferInv, SavedOK
<1>8. (connected => Whole(wire) /\ Len(wire) <= WireCap)'
  BY <1>4 DEF TransferInv, Whole
<1>9. ASSUME serverPc' # "exit"
      PROVE  OnTheWire'
  <2>1. PICK P : /\ Chain(P, wire, offered) /\ P[1] = ServerAt
                 /\ connected /\ ~lost => P[Len(wire) + 1] = SenderAt
    BY <1>4, <1>9 DEF TransferInv, OnTheWire
  <2>2. Chain(P, wire', offered')
    BY <1>1, <1>2, <1>4, <2>1, ChainOfMore
  <2>3. ServerAt' = ServerAt /\ SenderAt' = SenderAt
    BY <1>1, <1>2, <1>3, <1>4 DEF ServerAt, SenderAt, At
  <2> QED
    BY <1>4, <2>1, <2>2, <2>3 DEF OnTheWire
<1>10. ASSUME serverPc' \in {"chunk", "bytes"}
       PROVE  Receiving(offered[Len(saved) + 1])'
  <2>1. Receiving(offered[Len(saved) + 1])
    BY <1>4, <1>10 DEF TransferInv
  <2>2. Len(saved) + 1 \in 1 .. Len(offered)
    BY <1>1, <2>1 DEF Receiving
  <2>3. offered'[Len(saved') + 1] = offered[Len(saved) + 1]
    BY <1>2, <1>4, <2>2
  <2> QED
    BY <1>1, <1>2, <1>4, <2>1, <2>3 DEF Receiving
<1> QED
  BY <1>5, <1>6, <1>7, <1>8, <1>9, <1>10 DEF TransferInv

LEMMA SendAllSucceedsStep ==
  ASSUME TransferInv, Transfer!SendAllSucceeds
  PROVE  TransferInv'
<1>1. /\ offered \in Seq(Transfer!Frames) /\ wire \in Seq(Transfer!Items)
      /\ Len(offered) \in Nat \ {0} /\ frame = offered[Len(offered)]
      /\ index \in Nat /\ index < Fragments(frame) /\ (item = "header" => index = 0)
      /\ item \in {"header", "chunk", "bytes"} /\ frame # Transfer!NoFrame
      /\ Whole(wire)
  BY Parameters DEF TransferInv, SenderOK, Transfer!TypeOK, Transfer!SendAllSucceeds
<1>2. UNCHANGED <<connected, offered, lost, serverPc, header, chunk, count, rawBuffer, saved>>
  BY DEF Transfer!SendAllSucceeds, Transfer!serverVars
<1>3. /\ frame \in Transfer!Frames /\ connected
      /\ SenderAt \in Positions /\ Valid(SenderAt, offered)
      /\ Transfer!Item = ItemAt(SenderAt, offered)
  BY <1>1, SendsItsItem
<1>4. Fragments(frame) \in 1 .. MaxBytes
  BY <1>3, FragmentsCover
<1>5. Transfer!Last <=> ~(index + 1 < Fragments(frame))
  BY <1>1, <1>4, Parameters DEF Transfer!Last, Fragments
<1>6. /\ frame' = IF item = "bytes" /\ Transfer!Last THEN Transfer!NoFrame ELSE frame
      /\ item' = IF item = "chunk" THEN "bytes" ELSE "chunk"
      /\ index' = IF item = "bytes" /\ ~Transfer!Last THEN index + 1 ELSE index
      /\ returned' \in SUBSET (1 .. MaxFrame)
  <2>1. frame.id \in 1 .. MaxFrame
    BY <1>3, FragmentsCover
  <2> QED
    BY <2>1 DEF Transfer!SendAllSucceeds, TransferInv, Transfer!TypeOK
<1>7. ItemAt(SenderAt, offered) \in Transfer!Items
      /\ ItemAt(SenderAt, offered) # Transfer!Cut
  BY <1>1, <1>3, ItemsAreItems
<1>8. /\ wire' \in Seq(Transfer!Items) /\ Len(wire') <= WireCap /\ Whole(wire')
      /\ lost \/ serverPc = "exit" => wire' = wire
      /\ ~lost /\ serverPc # "exit" =>
            wire' = Append(wire, ItemAt(SenderAt, offered))
  <2>1. Len(wire) < WireCap /\ Len(wire) \in Nat
        /\ wire' = IF lost \/ serverPc = "exit" THEN wire
                   ELSE Append(wire, ItemAt(SenderAt, offered))
    BY <1>1, <1>3 DEF Transfer!SendAllSucceeds
  <2>2. CASE wire' = wire
    BY <1>1, <2>1, <2>2, Parameters
  <2>3. CASE wire' = Append(wire, ItemAt(SenderAt, offered))
    <3>1. /\ Len(wire') = Len(wire) + 1 /\ wire' \in Seq(Transfer!Items)
          /\ \A j \in 1 .. Len(wire) : wire'[j] = wire[j]
          /\ wire'[Len(wire) + 1] = ItemAt(SenderAt, offered)
      BY <1>1, <1>7, <2>3
    <3>2. Whole(wire')
      BY <1>1, <1>7, <2>1, <3>1 DEF Whole
    <3> QED
      BY <2>1, <3>1, <3>2, Parameters
  <2> QED
    BY <2>1, <2>2, <2>3
<1>9. SenderAt' = After(SenderAt, offered)
  <2>1. SenderAt = [k |-> Len(offered), part |-> item, i |-> index]
    BY <1>1 DEF SenderAt, At
  <2>2. CASE item = "bytes" /\ Transfer!Last
    BY <1>1, <1>2, <1>5, <1>6, <2>1, <2>2 DEF SenderAt, After, At
  <2>3. CASE ~(item = "bytes" /\ Transfer!Last)
    BY <1>1, <1>2, <1>5, <1>6, <2>1, <2>3 DEF SenderAt, After, At
  <2> QED
    BY <2>2, <2>3
<1>10. Transfer!TypeOK'
  <2>1. index' \in 0 .. MaxBytes
    BY <1>1, <1>4, <1>5, <1>6, Parameters
  <2>2. frame' \in Transfer!Frames \cup {Transfer!NoFrame}
        /\ item' \in {"header", "chunk", "bytes"}
    BY <1>3, <1>6
  <2>3. Len(wire') <= WireCap + 1
    BY <1>8, Parameters
  <2> QED
    BY <1>2, <1>6, <1>8, <2>1, <2>2, <2>3 DEF TransferInv, Transfer!TypeOK
<1>11. SenderOK'
  BY <1>1, <1>2, <1>3, <1>4, <1>5, <1>6, Parameters DEF SenderOK
<1>12. SavedOK'
  BY <1>2 DEF TransferInv, SavedOK
<1>13. ASSUME serverPc' # "exit"
       PROVE  OnTheWire'
  <2>1. PICK P : /\ Chain(P, wire, offered) /\ P[1] = ServerAt
                 /\ connected /\ ~lost => P[Len(wire) + 1] = SenderAt
    BY <1>2, <1>13 DEF TransferInv, OnTheWire
  <2>2. ServerAt' = ServerAt
    BY <1>2 DEF ServerAt
  <2>3. CASE lost
    BY <1>2, <1>8, <2>1, <2>2, <2>3 DEF OnTheWire
  <2>4. CASE ~lost
    <3>1. wire' = Append(wire, ItemAt(SenderAt, offered))
          /\ P[Len(wire) + 1] = SenderAt
      BY <1>2, <1>3, <1>8, <1>13, <2>1, <2>4
    <3>2. \E Q : /\ Chain(Q, wire', offered) /\ Q[1] = P[1]
                 /\ Q[Len(wire') + 1] = After(SenderAt, offered)
      BY <1>1, <1>3, <2>1, <3>1, ChainAppend
    <3> QED
      BY <1>2, <1>9, <2>1, <2>2, <3>2 DEF OnTheWire
  <2> QED
    BY <2>3, <2>4
<1>14. ASSUME serverPc' \in {"chunk", "bytes"}
       PROVE  Receiving(offered[Len(saved) + 1])'
  BY <1>2, <1>14 DEF TransferInv, Receiving
<1> QED
  BY <1>8, <1>10, <1>11, <1>12, <1>13, <1>14 DEF TransferInv

LEMMA SendAllFailsStep ==
  ASSUME TransferInv, Transfer!SendAllFails
  PROVE  TransferInv'
<1>1. /\ offered \in Seq(Transfer!Frames) /\ wire \in Seq(Transfer!Items)
      /\ frame # Transfer!NoFrame
  BY DEF TransferInv, Transfer!TypeOK, Transfer!SendAllFails
<1>2. Whole(wire) /\ Len(wire) <= WireCap
  BY <1>1 DEF TransferInv, SenderOK
<1>3. /\ frame' = Transfer!NoFrame /\ connected' = FALSE
      /\ wire' \in {wire, Append(wire, Transfer!Cut)}
      /\ UNCHANGED <<item, index, offered, returned, lost, serverPc, header, chunk,
                     count, rawBuffer, saved>>
  BY DEF Transfer!SendAllFails, Transfer!serverVars
<1>4. wire' \in Seq(Transfer!Items) /\ Len(wire') <= WireCap + 1
  BY <1>1, <1>2, <1>3, NoFrames, Parameters
<1>5. Transfer!TypeOK'
  BY <1>3, <1>4 DEF TransferInv, Transfer!TypeOK
<1>6. SenderOK' /\ SavedOK'
  BY <1>3 DEF TransferInv, SenderOK, SavedOK
<1>7. ASSUME serverPc' # "exit"
      PROVE  OnTheWire'
  <2>1. PICK P : Chain(P, wire, offered) /\ P[1] = ServerAt
    BY <1>3, <1>7 DEF TransferInv, OnTheWire
  <2>2. ServerAt' = ServerAt
    BY <1>3 DEF ServerAt
  <2>3. \E Q : Chain(Q, wire', offered') /\ Q[1] = P[1]
    <3>1. CASE wire' = wire
      BY <1>3, <2>1, <3>1
    <3>2. CASE wire' = Append(wire, Transfer!Cut)
      BY <1>1, <1>2, <1>3, <2>1, <3>2, ChainCut
    <3> QED
      BY <1>3, <3>1, <3>2
  <2> QED
    BY <1>3, <2>1, <2>2, <2>3 DEF OnTheWire
<1>8. ASSUME serverPc' \in {"chunk", "bytes"}
      PROVE  Receiving(offered[Len(saved) + 1])'
  BY <1>3, <1>8 DEF TransferInv, Receiving
<1> QED
  BY <1>3, <1>5, <1>6, <1>7, <1>8 DEF TransferInv

LEMMA CloseConnectionStep ==
  ASSUME TransferInv, Transfer!CloseConnection
  PROVE  TransferInv'
<1>1. /\ frame = Transfer!NoFrame /\ connected' = FALSE
      /\ UNCHANGED <<frame, item, index, offered, returned, wire, lost, serverPc,
                     header, chunk, count, rawBuffer, saved>>
  BY DEF Transfer!CloseConnection, Transfer!serverVars
<1>2. Transfer!TypeOK' /\ SenderOK' /\ SavedOK'
  BY <1>1 DEF TransferInv, Transfer!TypeOK, SenderOK, SavedOK
<1>3. ASSUME serverPc' # "exit"
      PROVE  OnTheWire'
  <2>1. OnTheWire /\ ServerAt' = ServerAt
    BY <1>1, <1>3 DEF TransferInv, ServerAt
  <2> QED
    BY <1>1, <2>1 DEF OnTheWire
<1> QED
  BY <1>1, <1>2, <1>3 DEF TransferInv, Receiving

LEMMA ConnectionLostStep ==
  ASSUME TransferInv, Transfer!ConnectionLost
  PROVE  TransferInv'
<1>1. PICK n \in 0 .. Len(wire) : wire' = SubSeq(wire, 1, n)
  BY DEF Transfer!ConnectionLost
<1>2. /\ lost' = TRUE
      /\ UNCHANGED <<frame, item, index, connected, offered, returned, serverPc,
                     header, chunk, count, rawBuffer, saved>>
  BY DEF Transfer!ConnectionLost, Transfer!senderVars, Transfer!serverVars
<1>3. /\ wire \in Seq(Transfer!Items) /\ wire' \in Seq(Transfer!Items)
      /\ Len(wire') = n /\ n \in Nat /\ n <= Len(wire) /\ Len(wire) <= WireCap + 1
      /\ Len(wire) \in Nat /\ \A j \in 1 .. n : wire'[j] = wire[j]
      /\ offered \in Seq(Transfer!Frames)
  BY <1>1 DEF TransferInv, Transfer!TypeOK
<1>4. Transfer!TypeOK'
  BY <1>2, <1>3, Parameters DEF TransferInv, Transfer!TypeOK
<1>5. SenderOK' /\ SavedOK'
  BY <1>2 DEF TransferInv, SenderOK, SavedOK
<1>6. (connected => Whole(wire) /\ Len(wire) <= WireCap)'
  BY <1>2, <1>3, Parameters DEF TransferInv, Whole
<1>7. ASSUME serverPc' # "exit"
      PROVE  OnTheWire'
  <2>1. PICK P : Chain(P, wire, offered) /\ P[1] = ServerAt
    BY <1>2, <1>7 DEF TransferInv, OnTheWire
  <2>2. ServerAt' = ServerAt
    BY <1>2 DEF ServerAt
  <2>3. \E Q : Chain(Q, wire', offered') /\ Q[1] = P[1]
    BY <1>1, <1>2, <1>3, <2>1, ChainPrefix
  <2> QED
    BY <1>2, <2>1, <2>2, <2>3 DEF OnTheWire
<1>8. ASSUME serverPc' \in {"chunk", "bytes"}
      PROVE  Receiving(offered[Len(saved) + 1])'
  BY <1>2, <1>8 DEF TransferInv, Receiving
<1> QED
  BY <1>4, <1>5, <1>6, <1>7, <1>8 DEF TransferInv

(* What the server finds at the head of the wire is what belongs where it  *)
(* is, and it leaves the chain behind it.                                  *)
LEMMA ServerReads ==
  ASSUME TransferInv, serverPc # "exit", wire # <<>>, Head(wire).kind # "cut",
         wire' = Tail(wire), UNCHANGED <<frame, item, index, connected, offered, lost>>
  PROVE  LET f == offered[Len(saved) + 1]
             p == At(Len(saved) + 1, serverPc, IF serverPc = "header" THEN 0 ELSE count)
         IN  /\ Len(saved) < Len(offered) /\ f \in Transfer!Frames
             /\ p.i < Fragments(f) /\ Head(wire) = ItemAt(p, offered)
             /\ wire' \in Seq(Transfer!Items) /\ Len(wire') <= WireCap + 1
             /\ (connected => Whole(wire) /\ Len(wire) <= WireCap)'
             /\ ServerAt' = After(p, offered) => OnTheWire'
<1> DEFINE f == offered[Len(saved) + 1]
           p == At(Len(saved) + 1, serverPc, IF serverPc = "header" THEN 0 ELSE count)
<1>1. /\ offered \in Seq(Transfer!Frames) /\ wire \in Seq(Transfer!Items)
      /\ Len(saved) \in Nat /\ Len(wire) <= WireCap + 1
  BY DEF TransferInv, Transfer!TypeOK
<1>2. PICK P : /\ Chain(P, wire, offered) /\ P[1] = p
               /\ connected /\ ~lost => P[Len(wire) + 1] = SenderAt
  BY DEF TransferInv, OnTheWire, ServerAt
<1>3. /\ p \in Positions /\ Valid(p, offered) /\ Head(wire) = ItemAt(p, offered)
      /\ \E Q : /\ Chain(Q, wire', offered) /\ Q[1] = After(p, offered)
                /\ Q[Len(wire') + 1] = P[Len(wire) + 1]
  BY <1>1, <1>2, ChainTail
<1>4. Len(saved) < Len(offered) /\ f \in Transfer!Frames /\ p.i < Fragments(f)
  <2>1. p.k = Len(saved) + 1
    BY DEF At
  <2>2. Len(saved) + 1 \in 1 .. Len(offered) /\ p.i < Fragments(f)
    BY <1>3, <2>1 DEF Valid
  <2> QED
    BY <1>1, <2>2
<1>5. /\ wire' \in Seq(Transfer!Items) /\ Len(wire') = Len(wire) - 1
      /\ Len(wire) \in Nat \ {0} /\ \A j \in 1 .. Len(wire') : wire'[j] = wire[j + 1]
  BY <1>1
<1>6. Len(wire') <= WireCap + 1
  BY <1>1, <1>5, Parameters
<1>7. (connected => Whole(wire) /\ Len(wire) <= WireCap)'
  <2> SUFFICES ASSUME connected
               PROVE  Whole(wire') /\ Len(wire') <= WireCap
    OBVIOUS
  <2>1. Whole(wire) /\ Len(wire) <= WireCap
    BY DEF TransferInv
  <2>2. ASSUME NEW j \in 1 .. Len(wire')
        PROVE  wire'[j] # Transfer!Cut
    <3>1. j + 1 \in 1 .. Len(wire)
      BY <1>5
    <3> QED
      BY <1>5, <2>1, <3>1 DEF Whole
  <2> QED
    BY <1>5, <2>1, <2>2, Parameters DEF Whole
<1>8. ASSUME ServerAt' = After(p, offered)
      PROVE  OnTheWire'
  <2>1. SenderAt' = SenderAt
    BY DEF SenderAt
  <2> QED
    BY <1>2, <1>3, <1>8, <2>1 DEF OnTheWire
<1> QED
  BY <1>3, <1>4, <1>5, <1>6, <1>7, <1>8

LEMMA ReadFrameHeaderStep ==
  ASSUME TransferInv, Transfer!ReadFrameHeader
  PROVE  TransferInv'
<1> DEFINE f == offered[Len(saved) + 1]
<1>1. /\ serverPc = "header" /\ wire # <<>> /\ Head(wire).kind # "cut" /\ wire' = Tail(wire)
      /\ UNCHANGED <<frame, item, index, connected, offered, returned, lost, chunk>>
      /\ rawBuffer' = {} /\ count' = 0 /\ header' = Head(wire)
  BY DEF Transfer!ReadFrameHeader, Transfer!Reads, Transfer!Consume, Transfer!senderVars
<1>2. /\ Len(saved) < Len(offered) /\ f \in Transfer!Frames /\ 0 < Fragments(f)
      /\ Head(wire) = Transfer!Header(f, Fragments(f))
      /\ wire' \in Seq(Transfer!Items) /\ Len(wire') <= WireCap + 1
      /\ (connected => Whole(wire) /\ Len(wire) <= WireCap)'
      /\ ServerAt' = At(Len(saved) + 1, "chunk", 0) => OnTheWire'
  BY <1>1, ServerReads DEF At, ItemAt, After
<1>3. /\ f.size \in 1 .. MaxBytes /\ f.id \in 1 .. MaxFrame
      /\ Fragments(f) \in 1 .. MaxBytes /\ Transfer!Offset(0) = 0
  BY <1>2, FragmentsCover
<1>4. Head(wire) = [kind |-> "header", id |-> f.id, a |-> f.size, b |-> Fragments(f)]
  BY <1>2 DEF Transfer!Header
<1>5. Head(wire).b > 0 /\ Head(wire).b # 0
  BY <1>3, <1>4, Parameters
<1>6. serverPc' = "chunk" /\ saved' = saved
  BY <1>3, <1>4, <1>5 DEF Transfer!ReadFrameHeader
<1>7. Transfer!TypeOK'
  <2>1. header' \in Transfer!Items /\ 0 \in 0 .. MaxBytes
    BY <1>1, <1>3, <1>4, Parameters DEF Transfer!Items
  <2> QED
    BY <1>1, <1>2, <1>6, <2>1 DEF TransferInv, Transfer!TypeOK
<1>8. SenderOK' /\ SavedOK'
  BY <1>1, <1>6 DEF TransferInv, SenderOK, SavedOK
<1>9. OnTheWire'
  BY <1>1, <1>2, <1>6 DEF ServerAt
<1>10. Receiving(offered[Len(saved) + 1])'
  BY <1>1, <1>2, <1>3, <1>6 DEF Receiving
<1> QED
  BY <1>2, <1>7, <1>8, <1>9, <1>10 DEF TransferInv

LEMMA ReadChunkHeaderStep ==
  ASSUME TransferInv, Transfer!ReadChunkHeader
  PROVE  TransferInv'
<1> DEFINE f == offered[Len(saved) + 1]
           payload == Transfer!PayloadSize(f.size, count)
<1>1. /\ serverPc = "chunk" /\ wire # <<>> /\ Head(wire).kind # "cut" /\ wire' = Tail(wire)
      /\ UNCHANGED <<frame, item, index, connected, offered, returned, lost, header,
                     count, rawBuffer>>
      /\ chunk' = Head(wire)
  BY DEF Transfer!ReadChunkHeader, Transfer!Reads, Transfer!Consume, Transfer!senderVars
<1>2. /\ Len(saved) < Len(offered) /\ f \in Transfer!Frames /\ count < Fragments(f)
      /\ Head(wire) = Transfer!Chunk(f, Transfer!Offset(count), payload)
      /\ wire' \in Seq(Transfer!Items) /\ Len(wire') <= WireCap + 1
      /\ (connected => Whole(wire) /\ Len(wire) <= WireCap)'
      /\ ServerAt' = At(Len(saved) + 1, "bytes", count) => OnTheWire'
  BY <1>1, ServerReads DEF At, ItemAt, After
<1>3. count \in Nat /\ Receiving(f)
  BY <1>1, Parameters DEF TransferInv, Transfer!TypeOK
<1>4. /\ f.id \in 1 .. MaxFrame /\ Transfer!Offset(count) \in 0 .. MaxBytes
      /\ payload \in 1 .. MaxBytes /\ Transfer!Offset(count) + payload <= f.size
  BY <1>2, <1>3, FragmentsCover
<1>5. header.id = f.id /\ header.a = f.size
  BY <1>3 DEF Receiving, Transfer!Header
<1>6. Head(wire) = [kind |-> "chunk", id |-> f.id, a |-> Transfer!Offset(count), b |-> payload]
  BY <1>2 DEF Transfer!Chunk
<1>7. serverPc' = "bytes" /\ saved' = saved
  BY <1>4, <1>5, <1>6 DEF Transfer!ReadChunkHeader
<1>8. Transfer!TypeOK'
  <2>1. chunk' \in Transfer!Items
    BY <1>1, <1>4, <1>6, Parameters DEF Transfer!Items
  <2> QED
    BY <1>1, <1>2, <1>7, <2>1 DEF TransferInv, Transfer!TypeOK
<1>9. SenderOK' /\ SavedOK'
  BY <1>1, <1>7 DEF TransferInv, SenderOK, SavedOK
<1>10. OnTheWire'
  BY <1>1, <1>2, <1>7 DEF ServerAt
<1>11. Receiving(offered[Len(saved) + 1])'
  BY <1>1, <1>2, <1>3, <1>7 DEF Receiving
<1> QED
  BY <1>2, <1>8, <1>9, <1>10, <1>11 DEF TransferInv

LEMMA ReadBytesStep ==
  ASSUME TransferInv, Transfer!ReadBytes
  PROVE  TransferInv'
<1> DEFINE f == offered[Len(saved) + 1]
           start == Transfer!Offset(count)
           payload == Transfer!PayloadSize(f.size, count)
<1>1. /\ serverPc = "bytes" /\ wire # <<>> /\ Head(wire).kind # "cut" /\ wire' = Tail(wire)
      /\ UNCHANGED <<frame, item, index, connected, offered, returned, lost, header, chunk>>
      /\ rawBuffer' = rawBuffer \cup (chunk.a .. (chunk.a + chunk.b - 1))
      /\ count' = count + 1
  BY DEF Transfer!ReadBytes, Transfer!Reads, Transfer!Consume, Transfer!senderVars
<1>2. /\ Len(saved) < Len(offered) /\ f \in Transfer!Frames /\ count < Fragments(f)
      /\ wire' \in Seq(Transfer!Items) /\ Len(wire') <= WireCap + 1
      /\ (connected => Whole(wire) /\ Len(wire) <= WireCap)'
      /\ ServerAt' = (IF count + 1 < Fragments(f) THEN At(Len(saved) + 1, "chunk", count + 1)
                      ELSE At(Len(saved) + 2, "header", 0)) => OnTheWire'
  <2>1. Len(saved) + 1 + 1 = Len(saved) + 2
    BY DEF TransferInv, Transfer!TypeOK
  <2> QED
    BY <1>1, <2>1, ServerReads DEF At, After
<1>3. count \in Nat /\ Receiving(f)
  BY <1>1, Parameters DEF TransferInv, Transfer!TypeOK
<1>4. /\ f.id \in 1 .. MaxFrame /\ f.size \in 1 .. MaxBytes /\ Fragments(f) \in 1 .. MaxBytes
      /\ start \in 0 .. MaxBytes /\ payload \in 1 .. MaxBytes
      /\ count + 1 < Fragments(f) => start + payload = Transfer!Offset(count + 1)
      /\ ~(count + 1 < Fragments(f)) => start + payload = f.size
      /\ start + payload <= f.size
  BY <1>2, <1>3, FragmentsCover
<1>5. header.id = f.id /\ header.a = f.size /\ header.b = Fragments(f)
  BY <1>3 DEF Receiving, Transfer!Header
<1>6. rawBuffer' = 0 .. start + payload - 1
  <2>1. chunk.a = start /\ chunk.b = payload /\ rawBuffer = 0 .. start - 1
    BY <1>1, <1>3 DEF Receiving, Transfer!Chunk
  <2> HIDE DEF start, payload
  <2>2. (0 .. start - 1) \cup (start .. (start + payload - 1)) = 0 .. start + payload - 1
    BY <1>4, Parameters
  <2> QED
    BY <1>1, <2>1, <2>2
<1> HIDE DEF f, start, payload
<1>7. count + 1 < Fragments(f) \/ count + 1 = Fragments(f)
  BY <1>2, <1>3, <1>4, Parameters
<1>8. rawBuffer' \in SUBSET (0 .. MaxBytes) /\ count' \in 0 .. MaxBytes
  <2>1. start + payload - 1 <= MaxBytes
    BY <1>4, Parameters
  <2>2. rawBuffer' \in SUBSET (0 .. MaxBytes)
    BY <1>4, <1>6, <2>1, Parameters
  <2> QED
    BY <1>1, <1>3, <1>4, <1>7, <2>2, Parameters
<1>9. SenderOK'
  BY <1>1 DEF TransferInv, SenderOK
<1>10. CASE count + 1 < Fragments(f)
  <2>1. serverPc' = "chunk" /\ saved' = saved
    BY <1>1, <1>3, <1>4, <1>5, <1>10, Parameters DEF Transfer!ReadBytes
  <2>2. Transfer!TypeOK'
    BY <1>1, <1>2, <1>8, <2>1 DEF TransferInv, Transfer!TypeOK
  <2>3. SavedOK'
    BY <1>1, <2>1 DEF TransferInv, SavedOK
  <2>4. OnTheWire'
    BY <1>1, <1>2, <1>10, <2>1 DEF ServerAt
  <2>5. Receiving(offered[Len(saved) + 1])'
    BY <1>1, <1>3, <1>4, <1>6, <1>10, <2>1 DEF Receiving, f
  <2> QED
    BY <1>2, <1>9, <2>2, <2>3, <2>4, <2>5 DEF TransferInv
<1>11. CASE count + 1 = Fragments(f)
  <2>1. /\ serverPc' = "header"
        /\ saved' = Append(saved, [id |-> f.id, size |-> f.size,
                                   filled |-> 0 .. f.size - 1])
    <3>1. rawBuffer' = 0 .. f.size - 1
      BY <1>3, <1>4, <1>6, <1>11, Parameters
    <3> QED
      BY <1>1, <1>5, <1>11, <3>1 DEF Transfer!ReadBytes, Transfer!SaveFrame
  <2>2. /\ saved \in Seq([id : 1 .. MaxFrame, size : Sizes, filled : SUBSET (0 .. MaxBytes)])
        /\ f.size \in Sizes /\ 0 .. f.size - 1 \in SUBSET (0 .. MaxBytes)
        /\ Len(saved) \in Nat
    <3>1. saved \in Seq([id : 1 .. MaxFrame, size : Sizes, filled : SUBSET (0 .. MaxBytes)])
      BY DEF TransferInv, Transfer!TypeOK
    <3>2. f.size \in Sizes
      BY <1>2 DEF Transfer!Frames
    <3>3. 0 .. f.size - 1 \in SUBSET (0 .. MaxBytes)
      <4>1. MaxBytes \in Nat /\ f.size \in 1 .. MaxBytes
        BY <1>4, Parameters
      <4> QED
        BY ONLY <4>1
    <3>4. Len(saved) \in Nat
      BY <3>1
    <3> QED
      BY <3>1, <3>2, <3>3, <3>4
  <2>3. /\ saved' \in Seq([id : 1 .. MaxFrame, size : Sizes, filled : SUBSET (0 .. MaxBytes)])
        /\ Len(saved') = Len(saved) + 1
        /\ \A i \in 1 .. Len(saved) : saved'[i] = saved[i]
        /\ saved'[Len(saved) + 1] = [id |-> f.id, size |-> f.size, filled |-> 0 .. f.size - 1]
    BY <1>4, <2>1, <2>2
  <2>4. Transfer!TypeOK'
    BY <1>1, <1>2, <1>8, <2>1, <2>3 DEF TransferInv, Transfer!TypeOK
  <2>5. SavedOK'
    <3>1. /\ Len(offered) \in Nat /\ Len(saved) < Len(offered) /\ offered' = offered
          /\ f = offered[Len(saved) + 1] /\ SavedOK
      BY <1>1, <1>2 DEF TransferInv, Transfer!TypeOK, f
    <3>2. ASSUME NEW i \in 1 .. Len(saved')
          PROVE  /\ saved'[i].id = offered'[i].id /\ saved'[i].size = offered'[i].size
                 /\ saved'[i].filled = 0 .. saved'[i].size - 1
      <4>1. i \in 1 .. Len(saved) \/ i = Len(saved) + 1
        BY <2>2, <2>3
      <4>2. CASE i \in 1 .. Len(saved)
        BY <2>3, <3>1, <4>2 DEF SavedOK
      <4>3. CASE i = Len(saved) + 1
        BY <2>3, <3>1, <4>3
      <4> QED
        BY <4>1, <4>2, <4>3
    <3>3. Len(saved') <= Len(offered')
      BY <2>2, <2>3, <3>1
    <3> QED
      BY <3>2, <3>3 DEF SavedOK
  <2>6. OnTheWire'
    <3>1. Len(saved') + 1 = Len(saved) + 2 /\ ~(count + 1 < Fragments(f))
      BY <1>3, <1>11, <2>2, <2>3
    <3> QED
      BY <1>1, <1>2, <2>1, <3>1 DEF ServerAt
  <2> QED
    BY <1>2, <1>9, <2>1, <2>4, <2>5, <2>6 DEF TransferInv
<1> QED
  BY <1>7, <1>10, <1>11

LEMMA RecvAllFailsStep ==
  ASSUME TransferInv, Transfer!RecvAllFails
  PROVE  TransferInv'
<1>1. /\ serverPc' = "exit"
      /\ UNCHANGED <<frame, item, index, connected, offered, returned, wire, lost,
                     header, chunk, count, rawBuffer, saved>>
  BY DEF Transfer!RecvAllFails, Transfer!senderVars
<1>2. Transfer!TypeOK' /\ SenderOK' /\ SavedOK'
  BY <1>1 DEF TransferInv, Transfer!TypeOK, SenderOK, SavedOK
<1> QED
  BY <1>1, <1>2 DEF TransferInv

(* Every step of the transfer keeps its invariant.                         *)
LEMMA TransferStep ==
  ASSUME TransferInv, Transfer!Next
  PROVE  TransferInv'
<1>1. CASE \E f \in Transfer!Frames : Transfer!SendFrame(f)
  BY <1>1, SendFrameStep
<1>2. CASE Transfer!SendAllSucceeds
  BY <1>2, SendAllSucceedsStep
<1>3. CASE Transfer!SendAllFails
  BY <1>3, SendAllFailsStep
<1>4. CASE Transfer!CloseConnection
  BY <1>4, CloseConnectionStep
<1>5. CASE Transfer!ConnectionLost
  BY <1>5, ConnectionLostStep
<1>6. CASE Transfer!Server
  BY <1>6, ReadFrameHeaderStep, ReadChunkHeaderStep, ReadBytesStep, RecvAllFailsStep
     DEF Transfer!Server
<1> QED
  BY <1>1, <1>2, <1>3, <1>4, <1>5, <1>6 DEF Transfer!Next

-----------------------------------------------------------------------------
(* In every behaviour of WireAndDisk.                                      *)
LEMMA TransferInvariant == Spec => []TransferInv
<1>1. Init => TransferInv
  BY TransferBegins DEF Init
<1>2. TransferInv /\ [Next]_vars => TransferInv'
  <2> SUFFICES ASSUME TransferInv, [Next]_vars
               PROVE  TransferInv'
    OBVIOUS
  <2>1. CASE Transfers /\ Transfer!Next
    BY <2>1, TransferStep
  <2>2. CASE UNCHANGED transferVars
    <3>1. UNCHANGED <<frame, item, index, connected, offered, returned, wire, lost,
                      serverPc, header, chunk, count, rawBuffer, saved>>
      BY <2>2 DEF transferVars
    <3>2. Transfer!TypeOK' /\ SenderOK' /\ SavedOK'
      BY <3>1 DEF TransferInv, Transfer!TypeOK, SenderOK, SavedOK
    <3>3. ServerAt' = ServerAt /\ SenderAt' = SenderAt
      BY <3>1 DEF ServerAt, SenderAt
    <3> QED
      BY <3>1, <3>2, <3>3 DEF TransferInv, OnTheWire, Receiving
  <2> QED
    BY <2>1, <2>2 DEF Next, Talks, Scans, vars
<1> QED
  BY <1>1, <1>2, PTL DEF Spec

(* Server and sender agree on where a frame begins and ends, and a frame   *)
(* that the server saves has every byte in its place: a server that        *)
(* follows the headers needs no marker to find the next frame, whatever    *)
(* the sizes of frames and fragments and however the connection ends       *)
(* (RawFrameSender.cpp:15-110, test_server.cpp:140-222).                   *)
THEOREM TransferInStep == Spec => []ServerInStep
<1>1. TransferInv => ServerInStep
  <2> SUFFICES ASSUME TransferInv
               PROVE  ServerInStep
    OBVIOUS
  <2>1. Transfer!TypeOK /\ Transfer!SavedWhole
    BY DEF TransferInv, SavedOK, Transfer!SavedWhole
  <2>2. ASSUME serverPc # "exit", wire # <<>>
        PROVE  Head(wire).kind \in {serverPc, "cut"}
    <3>1. wire \in Seq(Transfer!Items) /\ offered \in Seq(Transfer!Frames)
      BY DEF TransferInv, Transfer!TypeOK
    <3>2. PICK P : Chain(P, wire, offered) /\ P[1] = ServerAt
      BY <2>2 DEF TransferInv, OnTheWire
    <3>3. ASSUME Head(wire).kind # "cut"
          PROVE  Head(wire).kind = serverPc
      <4>1. P[1] \in Positions /\ Valid(P[1], offered) /\ Head(wire) = ItemAt(P[1], offered)
        BY <2>2, <3>1, <3>2, <3>3, ChainTail
      <4>2. Head(wire).kind = P[1].part
        BY <3>1, <4>1, ItemsAreItems
      <4> QED
        BY <3>2, <4>2 DEF ServerAt, At
    <3> QED
      BY <3>3
  <2> QED
    BY <2>1, <2>2 DEF ServerInStep, Transfer!ServerInStep, Transfer!InStep
<1> QED
  BY <1>1, TransferInvariant, PTL

(* A function from 1 .. m is a sequence of length m.                       *)
LEMMA FunctionIsSequence ==
  ASSUME NEW S, NEW m \in Nat, NEW e \in [1 .. m -> S]
  PROVE  e \in Seq(S) /\ Len(e) = m
OBVIOUS

(* A step of the transfer is one of FrameStream or changes nothing there.  *)
LEMMA TransferImplements ==
  ASSUME TransferInv, TransferInv', Transfer!Next
  PROVE  [Transfer!Stream!Next]_Transfer!Stream!svars
<1>1. CASE \E f \in Transfer!Frames : Transfer!SendFrame(f)
  <2>1. PICK f \in Transfer!Frames : Transfer!SendFrame(f)
    BY <1>1
  <2>2. offered' = Append(offered, f) /\ saved' = saved
    BY <2>1 DEF Transfer!SendFrame, Transfer!serverVars
  <2>3. Transfer!Delivered' = Transfer!Delivered
    BY <2>2 DEF Transfer!Delivered
  <2> QED
    BY <2>2, <2>3 DEF Transfer!Stream!Next, Transfer!Stream!Offer
<1>2. CASE UNCHANGED <<offered, saved>>
  BY <1>2 DEF Transfer!Stream!svars, Transfer!Delivered
<1>3. CASE Transfer!Server /\ saved' # saved
  <2>1. offered' = offered
    BY <1>3 DEF Transfer!Server, Transfer!ReadFrameHeader, Transfer!ReadChunkHeader,
                Transfer!ReadBytes, Transfer!RecvAllFails, Transfer!senderVars
  <2>2. PICK r : saved' = Append(saved, r)
    BY <1>3 DEF Transfer!Server, Transfer!ReadFrameHeader, Transfer!ReadChunkHeader,
                Transfer!ReadBytes, Transfer!RecvAllFails, Transfer!SaveFrame
  <2> DEFINE R == [id : 1 .. MaxFrame, size : Sizes, filled : SUBSET (0 .. MaxBytes)]
             n == Len(saved)
  <2>3. /\ saved \in Seq(R) /\ saved' \in Seq(R) /\ offered \in Seq(Transfer!Frames)
        /\ n \in Nat /\ Len(offered) \in Nat
    BY DEF TransferInv, Transfer!TypeOK
  <2> HIDE DEF R
  <2>4. Len(saved') = n + 1 /\ \A i \in 1 .. n : saved'[i] = saved[i]
    BY <2>2, <2>3
  <2>5. /\ n < Len(offered) /\ saved'[n + 1].id = offered[n + 1].id
        /\ saved'[n + 1].size = offered[n + 1].size
        /\ offered[n + 1] \in Transfer!Frames
    <3>1. n + 1 <= Len(offered) /\ n + 1 \in 1 .. Len(saved')
      BY <2>1, <2>3, <2>4 DEF TransferInv, SavedOK
    <3> QED
      BY <2>1, <2>3, <3>1 DEF TransferInv, SavedOK
  <2>6. offered[n + 1] = [id |-> saved'[n + 1].id, size |-> saved'[n + 1].size]
    BY <2>5 DEF Transfer!Frames
  <2> DEFINE D == Transfer!Delivered
             E == [i \in 1 .. n + 1 |-> [id |-> saved'[i].id, size |-> saved'[i].size]]
  <2>7. D' = E
    BY <2>4 DEF Transfer!Delivered
  <2>8. /\ D \in Seq(Transfer!Frames) /\ Len(D) = n
        /\ \A i \in 1 .. n : D[i] = [id |-> saved[i].id, size |-> saved[i].size]
    <3>1. \A i \in 1 .. n : [id |-> saved[i].id, size |-> saved[i].size] \in Transfer!Frames
      <4>1. \A i \in 1 .. n : saved[i] \in R
        BY <2>3
      <4> QED
        BY <4>1 DEF R, Transfer!Frames
    <3>2. D = [i \in 1 .. n |-> [id |-> saved[i].id, size |-> saved[i].size]]
      BY DEF Transfer!Delivered
    <3> HIDE DEF D, n
    <3>3. D \in [1 .. n -> Transfer!Frames]
      BY <3>1, <3>2
    <3> QED
      BY <2>3, <3>2, <3>3, FunctionIsSequence
  <2>9. E = Append(D, offered[n + 1])
    BY <2>3, <2>4, <2>5, <2>6, <2>8
  <2> HIDE DEF D, E
  <2>10. Transfer!Stream!Deliver
    BY <2>1, <2>5, <2>7, <2>8, <2>9 DEF Transfer!Stream!Deliver, D
  <2> QED
    BY <2>10 DEF Transfer!Stream!Next
<1>4. Transfer!Server => offered' = offered
  BY DEF Transfer!Server, Transfer!ReadFrameHeader, Transfer!ReadChunkHeader,
         Transfer!ReadBytes, Transfer!RecvAllFails, Transfer!senderVars
<1>5. Transfer!SendAllSucceeds \/ Transfer!SendAllFails \/ Transfer!CloseConnection
      \/ Transfer!ConnectionLost => UNCHANGED <<offered, saved>>
  BY DEF Transfer!SendAllSucceeds, Transfer!SendAllFails, Transfer!CloseConnection,
         Transfer!ConnectionLost, Transfer!senderVars, Transfer!serverVars
<1> QED
  BY <1>1, <1>2, <1>3, <1>4, <1>5 DEF Transfer!Next

(* The transfer implements FrameStream: whole frames, in the order in      *)
(* which they were given to sendFrame(), each at most once, and none after *)
(* the first that does not arrive.                                         *)
THEOREM TransferImplementsStream == Spec => ImplementsStream
<1>1. Init => Transfer!Stream!Init
  BY DEF Init, Transfer!Init, Transfer!Stream!Init, Transfer!Delivered
<1>2. TransferInv /\ TransferInv' /\ [Next]_vars
         => [Transfer!Stream!Next]_Transfer!Stream!svars
  <2> SUFFICES ASSUME TransferInv, TransferInv', [Next]_vars
               PROVE  [Transfer!Stream!Next]_Transfer!Stream!svars
    OBVIOUS
  <2>1. CASE Transfers /\ Transfer!Next
    BY <2>1, TransferImplements
  <2>2. CASE UNCHANGED transferVars
    BY <2>2 DEF transferVars, Transfer!Stream!svars, Transfer!Delivered
  <2> QED
    BY <2>1, <2>2 DEF Next, Talks, Scans, vars
<1> QED
  BY <1>1, <1>2, TransferInvariant, PTL
     DEF Spec, ImplementsStream, Transfer!ImplementsStream, Transfer!Stream!Spec

-----------------------------------------------------------------------------
(* The scan on disk.  Induction over the naturals, for a set: the library  *)
(* has it for an operator only.                                            *)
Less == {x \in Nat \X Nat : x[1] < x[2]}

LEMMA LessIsWellFounded == IsWellFoundedOn(Less, Nat)
BY NatLessThanWellFounded DEF OpToRel, Less

LEMMA SetInduction ==
  ASSUME NEW S, 0 \in S, \A n \in Nat : n \in S => n + 1 \in S
  PROVE  \A n \in Nat : n \in S
<1> DEFINE T == Nat \ S
<1>1. SUFFICES ASSUME T # {} PROVE FALSE
  OBVIOUS
<1>2. PICK x \in T : \A y \in T : ~(<<y, x>> \in Less)
  BY <1>1, LessIsWellFounded, WFMin
<1>3. x \in Nat \ {0} /\ x \notin S
  OBVIOUS
<1>4. x - 1 \in Nat /\ x - 1 < x
  BY <1>3
<1>5. x - 1 \in S
  BY <1>2, <1>4 DEF Less
<1>6. (x - 1) + 1 \in S
  BY <1>4, <1>5
<1> QED
  BY <1>3, <1>6

(* The recursion of Kept() defines a function.                             *)
LEMMA KeptIsDefined ==
  ASSUME NEW S, NEW s \in Seq(S), NEW T
  PROVE  Dataset!Kept(s, T) =
           [i \in 0 .. Len(s) |->
              IF i = 0 THEN <<>>
              ELSE IF s[i] \in T THEN Append(Dataset!Kept(s, T)[i - 1], s[i])
                   ELSE Dataset!Kept(s, T)[i - 1]]
<1> DEFINE Body(f, i) == IF i = 0 THEN <<>>
                         ELSE IF s[i] \in T THEN Append(f[i - 1], s[i]) ELSE f[i - 1]
           Good == {n \in Nat : \E f : f = [i \in 0 .. n |-> Body(f, i)]}
<1>1. 0 \in Good
  <2> DEFINE f == [i \in 0 .. 0 |-> <<>>]
  <2>1. f = [i \in 0 .. 0 |-> Body(f, i)]
    OBVIOUS
  <2> QED
    BY <2>1
<1>2. ASSUME NEW n \in Nat, n \in Good
      PROVE  n + 1 \in Good
  <2>1. PICK f : f = [i \in 0 .. n |-> Body(f, i)]
    <3> HIDE DEF Body
    <3> QED
      BY <1>2
  <2>2. DOMAIN f = 0 .. n /\ \A i \in 0 .. n : f[i] = Body(f, i)
    <3> HIDE DEF Body
    <3> QED
      BY <2>1
  <2> DEFINE g == [i \in 0 .. n + 1 |-> IF i <= n THEN f[i] ELSE Body(f, n + 1)]
  <2>3. ASSUME NEW i \in 0 .. n + 1
        PROVE  g[i] = Body(g, i)
    <3>1. CASE i = 0
      BY <2>2, <3>1
    <3>2. CASE i \in 1 .. n
      BY <2>2, <3>2
    <3>3. CASE i = n + 1
      BY <2>2, <3>3
    <3> QED
      BY <3>1, <3>2, <3>3
  <2>4. g = [i \in 0 .. n + 1 |-> Body(g, i)]
    BY <2>3
  <2> HIDE DEF Body, g
  <2>5. \E h : h = [i \in 0 .. n + 1 |-> Body(h, i)]
    BY <2>4
  <2> QED
    BY <2>5
<1>3. \A n \in Nat : n \in Good
  <2> HIDE DEF Good
  <2> QED
    BY <1>1, <1>2, SetInduction
<1>4. \E f : f = [i \in 0 .. Len(s) |-> Body(f, i)]
  BY <1>3
<1>5. Dataset!Kept(s, T) = CHOOSE f : f = [i \in 0 .. Len(s) |-> Body(f, i)]
  BY DEF Dataset!Kept
<1> HIDE DEF Body
<1>6. Dataset!Kept(s, T) = [i \in 0 .. Len(s) |-> Body(Dataset!Kept(s, T), i)]
  BY <1>4, <1>5
<1> QED
  BY <1>6 DEF Body

(* Value by value.                                                         *)
LEMMA KeptSteps ==
  ASSUME NEW S, NEW s \in Seq(S), NEW T
  PROVE  /\ Dataset!Kept(s, T)[0] = <<>>
         /\ \A i \in 1 .. Len(s) :
               Dataset!Kept(s, T)[i] = IF s[i] \in T
                                       THEN Append(Dataset!Kept(s, T)[i - 1], s[i])
                                       ELSE Dataset!Kept(s, T)[i - 1]
<1> DEFINE k == Dataset!Kept(s, T)
<1>1. k = [i \in 0 .. Len(s) |->
              IF i = 0 THEN <<>>
              ELSE IF s[i] \in T THEN Append(k[i - 1], s[i]) ELSE k[i - 1]]
  BY KeptIsDefined
<1> HIDE DEF k
<1>2. k[0] = <<>> /\ \A i \in 1 .. Len(s) : k[i] = IF s[i] \in T
                                                  THEN Append(k[i - 1], s[i]) ELSE k[i - 1]
  <2>1. 0 \in 0 .. Len(s) /\ \A i \in 1 .. Len(s) : i \in 0 .. Len(s) /\ i # 0
    OBVIOUS
  <2> QED
    BY <1>1, <2>1
<1> QED
  BY <1>2 DEF k

(* It keeps some of the elements, and no more than it has seen;            *)
LEMMA KeptType ==
  ASSUME NEW S, NEW s \in Seq(S), NEW T
  PROVE  \A i \in 0 .. Len(s) : /\ Dataset!Kept(s, T)[i] \in Seq(S \cap T)
                                /\ Len(Dataset!Kept(s, T)[i]) <= i
<1> DEFINE k == Dataset!Kept(s, T)
           Good == {n \in Nat : n <= Len(s) => k[n] \in Seq(S \cap T) /\ Len(k[n]) <= n}
<1>1. k[0] = <<>> /\ \A i \in 1 .. Len(s) : k[i] = IF s[i] \in T
                                                  THEN Append(k[i - 1], s[i]) ELSE k[i - 1]
  BY KeptSteps
<1> HIDE DEF k
<1>2. 0 \in Good
  <2>1. k[0] \in Seq(S \cap T) /\ Len(k[0]) <= 0
    BY <1>1
  <2> QED
    BY <2>1
<1>3. ASSUME NEW n \in Nat, n \in Good
      PROVE  n + 1 \in Good
  <2> SUFFICES ASSUME n + 1 <= Len(s)
               PROVE  k[n + 1] \in Seq(S \cap T) /\ Len(k[n + 1]) <= n + 1
    OBVIOUS
  <2>1. k[n] \in Seq(S \cap T) /\ Len(k[n]) <= n /\ n + 1 \in 1 .. Len(s) /\ s[n + 1] \in S
    BY <1>3
  <2>2. k[n + 1] = IF s[n + 1] \in T THEN Append(k[n], s[n + 1]) ELSE k[n]
    BY <1>1, <2>1
  <2> QED
    BY <2>1, <2>2
<1>4. \A n \in Nat : n \in Good
  <2> HIDE DEF Good
  <2> QED
    BY <1>2, <1>3, SetInduction
<1> QED
  BY <1>4 DEF k

(* as long as it leaves nothing out, it has what it has seen;              *)
LEMMA KeptAll ==
  ASSUME NEW S, NEW s \in Seq(S), NEW T, NEW m \in 0 .. Len(s),
         \A i \in 1 .. m : s[i] \in T
  PROVE  Dataset!Kept(s, T)[m] = SubSeq(s, 1, m)
<1> DEFINE k == Dataset!Kept(s, T)
           Good == {n \in Nat : n <= m => k[n] = SubSeq(s, 1, n)}
<1>1. k[0] = <<>> /\ \A i \in 1 .. Len(s) : k[i] = IF s[i] \in T
                                                  THEN Append(k[i - 1], s[i]) ELSE k[i - 1]
  BY KeptSteps
<1> HIDE DEF k
<1>2. 0 \in Good
  <2>1. SubSeq(s, 1, 0) = <<>>
    OBVIOUS
  <2> QED
    BY <1>1, <2>1
<1>3. ASSUME NEW n \in Nat, n \in Good
      PROVE  n + 1 \in Good
  <2> SUFFICES ASSUME n + 1 <= m
               PROVE  k[n + 1] = SubSeq(s, 1, n + 1)
    OBVIOUS
  <2>1. k[n] = SubSeq(s, 1, n) /\ n + 1 \in 1 .. Len(s) /\ s[n + 1] \in T
    BY <1>3
  <2>2. k[n + 1] = Append(k[n], s[n + 1])
    <3>1. (n + 1) - 1 = n
      OBVIOUS
    <3> QED
      BY <1>1, <2>1, <3>1
  <2> QED
    BY <2>1, <2>2
<1>4. \A n \in Nat : n \in Good
  <2> HIDE DEF Good
  <2> QED
    BY <1>2, <1>3, SetInduction
<1> QED
  BY <1>4 DEF k

(* and what it has kept stays as it is.                                    *)
LEMMA KeptGrows ==
  ASSUME NEW S, NEW s \in Seq(S), NEW T, NEW m \in Nat, NEW n \in Nat,
         m <= n, n <= Len(s)
  PROVE  /\ Len(Dataset!Kept(s, T)[m]) <= Len(Dataset!Kept(s, T)[n])
         /\ \A j \in 1 .. Len(Dataset!Kept(s, T)[m]) :
               Dataset!Kept(s, T)[n][j] = Dataset!Kept(s, T)[m][j]
<1> DEFINE k == Dataset!Kept(s, T)
           Good == {d \in Nat : m + d <= Len(s) =>
                       /\ Len(k[m]) <= Len(k[m + d])
                       /\ \A j \in 1 .. Len(k[m]) : k[m + d][j] = k[m][j]}
<1>1. /\ \A i \in 1 .. Len(s) : k[i] = IF s[i] \in T THEN Append(k[i - 1], s[i]) ELSE k[i - 1]
      /\ \A i \in 0 .. Len(s) : k[i] \in Seq(S \cap T)
  <2>1. \A i \in 1 .. Len(s) : k[i] = IF s[i] \in T THEN Append(k[i - 1], s[i]) ELSE k[i - 1]
    BY KeptSteps
  <2>2. \A i \in 0 .. Len(s) : k[i] \in Seq(S \cap T) /\ Len(k[i]) <= i
    BY KeptType
  <2> HIDE DEF k
  <2> QED
    BY <2>1, <2>2
<1> HIDE DEF k
<1>2. 0 \in Good
  BY <1>1
<1>3. ASSUME NEW d \in Nat, d \in Good
      PROVE  d + 1 \in Good
  <2> SUFFICES ASSUME m + (d + 1) <= Len(s)
               PROVE  /\ Len(k[m]) <= Len(k[m + (d + 1)])
                      /\ \A j \in 1 .. Len(k[m]) : k[m + (d + 1)][j] = k[m][j]
    OBVIOUS
  <2> DEFINE a == m + d
             b == m + (d + 1)
  <2>1. /\ a \in 0 .. Len(s) /\ b \in 1 .. Len(s) /\ b - 1 = a
        /\ Len(k[m]) <= Len(k[a]) /\ \A j \in 1 .. Len(k[m]) : k[a][j] = k[m][j]
    BY <1>3
  <2> HIDE DEF a, b
  <2>2. /\ k[a] \in Seq(S \cap T) /\ k[m] \in Seq(S \cap T) /\ s[b] \in S
        /\ k[b] = IF s[b] \in T THEN Append(k[a], s[b]) ELSE k[a]
    <3>1. m \in 0 .. Len(s)
      OBVIOUS
    <3>2. s[b] \in S
      BY ONLY <2>1, s \in Seq(S), ElementOfSeq
    <3> QED
      BY ONLY <1>1, <2>1, <3>1, <3>2
  <2>3. Len(k[m]) <= Len(k[b]) /\ \A j \in 1 .. Len(k[m]) : k[b][j] = k[m][j]
    <3>1. CASE s[b] \in T
      <4>1. s[b] \in S \cap T /\ k[b] = Append(k[a], s[b])
        BY <2>2, <3>1
      <4>2. /\ Len(k[b]) = Len(k[a]) + 1 /\ Len(k[a]) \in Nat /\ Len(k[m]) \in Nat
            /\ \A j \in 1 .. Len(k[a]) : k[b][j] = k[a][j]
        BY ONLY <2>2, <4>1
      <4> QED
        BY ONLY <2>1, <4>2
    <3>2. CASE s[b] \notin T
      <4>1. k[b] = k[a]
        BY ONLY <2>2, <3>2
      <4> QED
        BY ONLY <2>1, <4>1
    <3> QED
      BY <3>1, <3>2
  <2> QED
    BY <2>3 DEF b
<1>4. \A d \in Nat : d \in Good
  <2> HIDE DEF Good
  <2> QED
    BY <1>2, <1>3, SetInduction
<1>5. n - m \in Nat /\ m + (n - m) = n
  OBVIOUS
<1>6. n - m \in Good
  BY <1>4, <1>5
<1>7. Len(k[m]) <= Len(k[n]) /\ \A j \in 1 .. Len(k[m]) : k[n][j] = k[m][j]
  BY <1>5, <1>6
<1> QED
  BY <1>7 DEF k

-----------------------------------------------------------------------------
(* The generator: how far it has come, and what is on disk behind it.      *)
Generated ==
    /\ written = genFrame - 1 /\ Len(csv) <= written
    /\ genPc \in {"imwrite", "row"} => genFrame <= MaxFrames
    /\ \A i \in 1 .. Len(csv) :
          csv[i].frame = i /\ (i < Len(csv) => csv[i].parts = Dataset!Parts)
    /\ \A i \in 1 .. written : file[i] = "whole" \/ i \in failed
    /\ genPc = "row" => file[genFrame] = "whole" \/ genFrame \in failed

(* What the reader has kept of the positions it has come to,               *)
KeptSoFar == Dataset!Kept(positions, Dataset!Present)[next - 1]

(* and what of it is in the queue, before the marker if that is there.     *)
Pending ==
    LET m == IF readerPc = "ended" THEN Len(queue) - 1 ELSE Len(queue)
    IN  /\ Len(sentFrames) + m = Len(KeptSoFar) /\ m >= 0
        /\ \A j \in 1 .. m : queue[j] # None /\ queue[j] = KeptSoFar[Len(sentFrames) + j]
        /\ readerPc = "ended" => queue[m + 1] = None

Sending ==
    /\ senderPc # "none" => genPc \in {"dead", "closed"}
    /\ senderPc \in {"none", "connect"} => /\ readerPc = "none" /\ queue = <<>>
                                           /\ sentFrames = <<>> /\ next = 1
    /\ senderPc = "none" => positions = <<>>
    /\ Len(positions) <= MaxFrames
    /\ \A i \in 1 .. Len(positions) : positions[i].exact \/ i = Len(positions)
    /\ Len(KeptSoFar) + missing = next - 1
    /\ Len(sentFrames) <= Len(KeptSoFar)
    /\ \A j \in 1 .. Len(sentFrames) : sentFrames[j] = KeptSoFar[j]
    /\ readerPc = "ended" => next = Len(positions) + 1
    /\ senderPc = "send" => readerPc \in {"read", "ended"} /\ Pending
    /\ senderPc = "complete" => /\ Len(sentFrames) = Len(KeptSoFar)
                               /\ next = Len(positions) + 1

DatasetInv == Dataset!TypeOK /\ Generated /\ Sending

LEMMA ScanParameters ==
  /\ MaxFrames \in Nat \ {0} /\ QueueCapacity \in Nat \ {0} /\ MaxRuns \in Nat \ {0}
  /\ None \notin Dataset!Entries
BY WireAndDiskConstants DEF Dataset!DatasetAssumption, Dataset!Entries, Dataset!Frames

(* Nothing has been kept of an empty list.                                 *)
LEMMA NothingKept ==
  ASSUME positions = <<>>, next = 1
  PROVE  KeptSoFar = <<>>
<1>1. positions \in Seq(Dataset!Entries)
  BY ONLY positions = <<>>
<1>2. Dataset!Kept(positions, Dataset!Present)[0] = <<>>
  BY <1>1, KeptSteps
<1> QED
  BY <1>2 DEF KeptSoFar

LEMMA DatasetBegins ==
  ASSUME Dataset!Init
  PROVE  DatasetInv
<1>1. Dataset!TypeOK
  <2>1. /\ csv \in Seq(Dataset!Rows) /\ positions \in Seq(Dataset!Entries)
        /\ queue \in Seq(Dataset!Entries \cup {None}) /\ sentFrames \in Seq(Dataset!Entries)
        /\ Len(queue) = 0 /\ Len(positions) = 0
    BY DEF Dataset!Init
  <2>2. file \in [Dataset!Frames -> {"none", "torn", "whole"}]
    BY DEF Dataset!Init
  <2>3. /\ 0 \in 0 .. MaxFrames /\ 1 \in 1 .. MaxFrames + 1 /\ 1 \in 1 .. MaxRuns
        /\ 0 <= QueueCapacity /\ 1 \in 1 .. 0 + 1
    BY ScanParameters
  <2> QED
    BY <2>1, <2>2, <2>3 DEF Dataset!Init, Dataset!TypeOK
<1>2. Generated
  BY ScanParameters DEF Dataset!Init, Generated
<1>3. KeptSoFar = <<>>
  BY NothingKept DEF Dataset!Init
<1>4. Sending
  BY <1>3, ScanParameters DEF Dataset!Init, Sending
<1> QED
  BY <1>1, <1>2, <1>4 DEF DatasetInv

(* As long as nobody has read the list, the sender is where it begins.     *)
LEMMA NotYetSending ==
  ASSUME DatasetInv, senderPc = "none", UNCHANGED Dataset!senderVars
  PROVE  Sending'
<1>1. /\ readerPc = "none" /\ queue = <<>> /\ sentFrames = <<>> /\ next = 1
      /\ positions = <<>> /\ missing \in Nat
  BY ScanParameters DEF DatasetInv, Sending, Dataset!TypeOK
<1>2. KeptSoFar = <<>>
  BY <1>1, NothingKept
<1>3. missing = 0
  BY <1>1, <1>2 DEF DatasetInv, Sending
<1>4. UNCHANGED <<positions, queue, next, missing, readerPc, sentFrames, senderPc>>
  BY DEF Dataset!senderVars, Dataset!readerVars
<1>5. KeptSoFar' = <<>>
  <2>1. positions' = <<>> /\ next' = 1 /\ positions' \in Seq(Dataset!Entries)
    BY <1>1, <1>4
  <2>2. Dataset!Kept(positions', Dataset!Present')[0] = <<>>
    BY <2>1, KeptSteps
  <2> QED
    BY <2>1, <2>2 DEF KeptSoFar
<1> QED
  BY <1>1, <1>3, <1>4, <1>5, ScanParameters DEF Sending

(* The generator, and its death.                                           *)
LEMMA GeneratorStep ==
  ASSUME DatasetInv, Dataset!Generator \/ Dataset!Die \/ Dataset!RunAgain
  PROVE  DatasetInv'
<1>1. senderPc = "none" /\ UNCHANGED Dataset!senderVars
  BY DEF Dataset!Generator, Dataset!BeginFrame, Dataset!EndFrame, Dataset!WriteRow,
         Dataset!Flush, Dataset!Close, Dataset!Die, Dataset!RunAgain, DatasetInv, Sending
<1>2. Sending'
  BY <1>1, NotYetSending
<1>3. UNCHANGED <<positions, queue, next, missing, readerPc, sentFrames, senderPc>>
  BY <1>1 DEF Dataset!senderVars, Dataset!readerVars
<1>4. /\ file \in [Dataset!Frames -> {"none", "torn", "whole"}]
      /\ failed \subseteq Dataset!Frames /\ csv \in Seq(Dataset!Rows)
  BY DEF DatasetInv, Dataset!TypeOK
<1>num. /\ written \in Nat /\ genFrame \in Nat /\ MaxFrames \in Nat /\ Len(csv) \in Nat
        /\ genFrame = written + 1 /\ written <= MaxFrames /\ Len(csv) <= written
        /\ genPc \in {"imwrite", "row"} => genFrame <= MaxFrames
  <2>1. /\ written \in 0 .. MaxFrames /\ genFrame \in 1 .. MaxFrames + 1
        /\ written = genFrame - 1 /\ Len(csv) <= written
        /\ genPc \in {"imwrite", "row"} => genFrame <= MaxFrames
    BY DEF DatasetInv, Generated, Dataset!TypeOK
  <2> QED
    BY <1>4, <2>1, ScanParameters
<1>old. \A i \in 1 .. written : /\ i \in Dataset!Frames /\ i # genFrame
                                /\ file[i] = "whole" \/ i \in failed
  BY <1>num DEF DatasetInv, Generated, Dataset!Frames
<1>rows. \A i \in 1 .. Len(csv) :
            /\ csv[i] \in Dataset!Rows /\ csv[i].frame = i
            /\ i < Len(csv) => csv[i].parts = 4
  BY <1>4 DEF DatasetInv, Generated, Dataset!Parts
<1>5. CASE Dataset!BeginFrame
  <2>1. /\ genPc = "frame" /\ genFrame <= MaxFrames /\ genFrame \in Dataset!Frames
        /\ UNCHANGED <<csvHeader, csv, written, genFrame, runs>>
    BY <1>num, <1>5 DEF Dataset!BeginFrame, Dataset!Frames
  <2>2. \/ /\ file' = [file EXCEPT ![genFrame] = "torn"] /\ genPc' = "imwrite"
           /\ failed' = failed
        \/ file' = file /\ genPc' = "row" /\ failed' = failed \cup {genFrame}
    BY <1>5 DEF Dataset!BeginFrame
  <2>3. Dataset!TypeOK'
    BY <1>3, <1>4, <2>1, <2>2 DEF DatasetInv, Dataset!TypeOK
  <2>4. \A i \in 1 .. written : file'[i] = "whole" \/ i \in failed'
    BY <1>4, <1>old, <2>2
  <2>5. Generated'
    BY <2>1, <2>2, <2>4 DEF DatasetInv, Generated
  <2> QED
    BY <1>2, <2>3, <2>5 DEF DatasetInv
<1>6. CASE Dataset!EndFrame
  <2>1. /\ genPc = "imwrite" /\ genPc' = "row" /\ genFrame <= MaxFrames
        /\ genFrame \in Dataset!Frames /\ UNCHANGED <<csvHeader, csv, written, genFrame, runs>>
    BY <1>num, <1>6 DEF Dataset!EndFrame, Dataset!Frames
  <2>2. \/ file' = [file EXCEPT ![genFrame] = "whole"] /\ failed' = failed \ {genFrame}
        \/ file' = file /\ failed' = failed \cup {genFrame}
    BY <1>6 DEF Dataset!EndFrame
  <2>3. Dataset!TypeOK'
    BY <1>3, <1>4, <2>1, <2>2 DEF DatasetInv, Dataset!TypeOK
  <2>4. \A i \in 1 .. written : file'[i] = "whole" \/ i \in failed'
    BY <1>4, <1>old, <2>2
  <2>5. file'[genFrame] = "whole" \/ genFrame \in failed'
    BY <1>4, <2>1, <2>2
  <2>6. Generated'
    BY <2>1, <2>4, <2>5 DEF DatasetInv, Generated
  <2> QED
    BY <1>2, <2>3, <2>6 DEF DatasetInv
<1>7. CASE Dataset!WriteRow
  <2>1. /\ genPc = "row" /\ genPc' = "frame" /\ genFrame <= MaxFrames
        /\ written' = written + 1 /\ genFrame' = genFrame + 1
        /\ file[genFrame] = "whole" \/ genFrame \in failed
        /\ UNCHANGED <<file, failed, csvHeader, csv, runs>>
    BY <1>7 DEF Dataset!WriteRow, DatasetInv, Generated, Dataset!diskVars
  <2>2. /\ written' \in 0 .. MaxFrames /\ genFrame' \in 1 .. MaxFrames + 1
        /\ written' = genFrame' - 1 /\ Len(csv) <= written'
    BY <1>num, <2>1
  <2>3. Dataset!TypeOK'
    BY <1>3, <2>1, <2>2 DEF DatasetInv, Dataset!TypeOK
  <2>4. \A i \in 1 .. written' : file[i] = "whole" \/ i \in failed
    <3>1. \A i \in 1 .. written' : i \in 1 .. written \/ i = genFrame
      BY <1>num, <2>1
    <3> QED
      BY <1>old, <2>1, <3>1
  <2>5. Generated'
    BY <2>1, <2>2, <2>4 DEF DatasetInv, Generated
  <2> QED
    BY <1>2, <2>3, <2>5 DEF DatasetInv
<1>8. CASE Dataset!Flush
  <2>1. UNCHANGED <<file, failed, written, genFrame, genPc, runs>> /\ csvHeader' \in BOOLEAN
    BY <1>8 DEF Dataset!Flush, Dataset!genVars, DatasetInv, Dataset!TypeOK
  <2>2. \/ csv' = csv
        \/ /\ csv # <<>> /\ csv[Len(csv)].parts < 4
           /\ csv' = [csv EXCEPT ![Len(csv)].parts = @ + 1]
        \/ /\ csv = <<>> \/ ~(csv[Len(csv)].parts < 4)
           /\ Len(csv) < written
           /\ csv' = Append(csv, [frame |-> Len(csv) + 1, parts |-> 1])
    BY <1>8 DEF Dataset!Flush, Dataset!Cut, Dataset!Last, Dataset!Parts
  <2>3. /\ csv' \in Seq(Dataset!Rows) /\ Len(csv') <= written
        /\ \A i \in 1 .. Len(csv') :
              csv'[i].frame = i /\ (i < Len(csv') => csv'[i].parts = 4)
    <3> DEFINE n == Len(csv)
    <3>1. n \in Nat /\ n <= written /\ written \in Nat /\ MaxFrames \in Nat
          /\ written <= MaxFrames /\ n = Len(csv)
      BY <1>num
    <3> HIDE DEF n
    <3>2. CASE csv' = csv
      BY <1>4, <1>rows, <3>1, <3>2
    <3>3. CASE /\ csv # <<>> /\ csv[Len(csv)].parts < 4
               /\ csv' = [csv EXCEPT ![Len(csv)].parts = @ + 1]
      <4> DEFINE r == [csv[n] EXCEPT !.parts = @ + 1]
      <4>1. n \in 1 .. n /\ csv' = [csv EXCEPT ![n] = r]
        BY <1>4, <3>1, <3>3
      <4>2. /\ csv[n] \in [frame : 1 .. MaxFrames, parts : 1 .. 4] /\ csv[n].frame = n
            /\ csv[n].parts < 4
        BY <1>rows, <3>1, <3>3, <4>1 DEF Dataset!Rows, Dataset!Frames, Dataset!Parts
      <4>3. csv[n].parts + 1 \in 1 .. 4
        BY <4>2
      <4>4. r \in [frame : 1 .. MaxFrames, parts : 1 .. 4] /\ r.frame = n
        BY <4>2, <4>3
      <4>5. r \in Dataset!Rows
        BY <4>4 DEF Dataset!Rows, Dataset!Frames, Dataset!Parts
      <4> HIDE DEF r
      <4>6. /\ csv' \in Seq(Dataset!Rows) /\ Len(csv') = n
            /\ \A i \in 1 .. n : csv'[i] = IF i = n THEN r ELSE csv[i]
        BY <1>4, <3>1, <4>1, <4>5
      <4> QED
        BY <1>rows, <3>1, <4>4, <4>6
    <3>4. CASE /\ csv = <<>> \/ ~(csv[Len(csv)].parts < 4)
               /\ Len(csv) < written
               /\ csv' = Append(csv, [frame |-> Len(csv) + 1, parts |-> 1])
      <4> DEFINE r == [frame |-> n + 1, parts |-> 1]
      <4>1. n + 1 \in 1 .. MaxFrames /\ n + 1 <= written
        BY <3>1, <3>4
      <4>2. r \in Dataset!Rows /\ r.frame = n + 1 /\ csv' = Append(csv, r)
        BY <3>1, <3>4, <4>1 DEF Dataset!Rows, Dataset!Frames, Dataset!Parts
      <4> HIDE DEF r
      <4>3. /\ csv' \in Seq(Dataset!Rows) /\ Len(csv') = n + 1 /\ csv'[n + 1] = r
            /\ \A i \in 1 .. n : csv'[i] = csv[i]
        BY <1>4, <3>1, <4>2
      <4>4. ASSUME NEW i \in 1 .. n
            PROVE  csv[i].parts = 4
        <5>1. CASE i < n
          BY <1>rows, <3>1, <5>1
        <5>2. CASE i = n
          <6>1. csv # <<>> /\ ~(csv[n].parts < 4) /\ n \in 1 .. n
            BY <1>4, <3>1, <3>4, <5>2
          <6>2. csv[n].parts \in 1 .. 4
            BY <1>rows, <3>1, <6>1 DEF Dataset!Rows, Dataset!Parts
          <6> QED
            BY <5>2, <6>1, <6>2
        <5> QED
          BY <3>1, <5>1, <5>2
      <4>5. \A i \in 1 .. n + 1 : i \in 1 .. n \/ i = n + 1
        BY <3>1
      <4> QED
        BY <1>rows, <3>1, <4>1, <4>2, <4>3, <4>4, <4>5
    <3> QED
      BY <2>2, <3>2, <3>3, <3>4
  <2>4. Dataset!TypeOK'
    BY <1>3, <2>1, <2>3 DEF DatasetInv, Dataset!TypeOK
  <2>5. Generated'
    BY <2>1, <2>3 DEF DatasetInv, Generated, Dataset!Parts
  <2> QED
    BY <1>2, <2>4, <2>5 DEF DatasetInv
<1>9. CASE Dataset!Close \/ Dataset!Die
  <2>1. /\ genPc' \in {"closed", "dead"}
        /\ UNCHANGED <<file, failed, csvHeader, csv, written, genFrame, runs>>
    BY <1>9 DEF Dataset!Close, Dataset!Die, Dataset!diskVars
  <2>2. Dataset!TypeOK'
    BY <1>3, <2>1 DEF DatasetInv, Dataset!TypeOK
  <2>3. Generated'
    BY <2>1 DEF DatasetInv, Generated
  <2> QED
    BY <1>2, <2>2, <2>3 DEF DatasetInv
<1>10. CASE Dataset!RunAgain
  <2>1. /\ genPc' = "frame" /\ genFrame' = 1 /\ written' = 0 /\ csv' = <<>> /\ csvHeader' = FALSE
        /\ runs' \in 1 .. MaxRuns /\ UNCHANGED <<file, failed>>
    BY <1>10, ScanParameters DEF Dataset!RunAgain, Dataset!Truncate, DatasetInv, Dataset!TypeOK
  <2>2. /\ csv' \in Seq(Dataset!Rows) /\ Len(csv') = 0
        /\ 0 \in 0 .. MaxFrames /\ 1 \in 1 .. MaxFrames + 1
    BY <2>1, ScanParameters
  <2>3. Dataset!TypeOK'
    BY <1>3, <2>1, <2>2 DEF DatasetInv, Dataset!TypeOK
  <2>4. Generated'
    BY <2>1, <2>2 DEF Generated
  <2> QED
    BY <1>2, <2>3, <2>4 DEF DatasetInv
<1> QED
  BY <1>5, <1>6, <1>7, <1>8, <1>9, <1>10 DEF Dataset!Generator

(* What a reader keeps of the rows: all of them, or all but the last.      *)
LEMMA RowsKept ==
  ASSUME DatasetInv, NEW m \in 1 .. 4
  PROVE  LET T == {row \in Dataset!Rows : row.parts >= m}
             n == Len(csv)
         IN  Dataset!Kept(csv, T)[n] = IF n = 0 THEN <<>>
                                       ELSE IF csv[n].parts >= m THEN csv
                                       ELSE SubSeq(csv, 1, n - 1)
<1> DEFINE T == {row \in Dataset!Rows : row.parts >= m}
           n == Len(csv)
           k == Dataset!Kept(csv, T)
<1>1. csv \in Seq(Dataset!Rows) /\ n \in Nat
  BY DEF DatasetInv, Dataset!TypeOK
<1>2. \A i \in 1 .. n : csv[i] \in Dataset!Rows /\ (i < n => csv[i].parts = 4)
  BY <1>1 DEF DatasetInv, Generated, Dataset!Parts
<1>3. CASE n = 0
  <2>1. k[0] = <<>>
    <3> HIDE DEF T
    <3> QED
      BY <1>1, KeptSteps
  <2> QED
    BY <1>3, <2>1
<1>4. CASE n # 0
  <2>1. n \in 1 .. n /\ n - 1 \in 0 .. n
    BY <1>1, <1>4
  <2>2. \A i \in 1 .. n - 1 : csv[i] \in T
    BY <1>1, <1>2
  <2>3. k[n - 1] = SubSeq(csv, 1, n - 1)
    <3> HIDE DEF T
    <3> QED
      BY <1>1, <2>1, <2>2, KeptAll
  <2>4. k[n] = IF csv[n] \in T THEN Append(k[n - 1], csv[n]) ELSE k[n - 1]
    <3> HIDE DEF T
    <3> QED
      BY <1>1, <2>1, KeptSteps
  <2>5. csv[n] \in T <=> csv[n].parts >= m
    BY <1>2, <2>1
  <2>6. Append(SubSeq(csv, 1, n - 1), csv[n]) = csv
    BY <1>1, <2>1
  <2> HIDE DEF k, T
  <2> QED
    BY <1>4, <2>3, <2>4, <2>5, <2>6 DEF k, T
<1> QED
  BY <1>3, <1>4

(* The list that a reader makes of them: only the last may be inexact.     *)
LEMMA ListOfRows ==
  ASSUME DatasetInv, NEW m \in 1 .. 4
  PROVE  /\ Dataset!Listed(m) \in Seq(Dataset!Entries)
         /\ Len(Dataset!Listed(m)) <= MaxFrames
         /\ \A i \in 1 .. Len(Dataset!Listed(m)) :
               Dataset!Listed(m)[i].exact \/ i = Len(Dataset!Listed(m))
<1> DEFINE rows == Dataset!Kept(csv, {row \in Dataset!Rows : row.parts >= m})[Len(csv)]
           n == Len(csv)
           l == Len(rows)
<1>1. /\ csv \in Seq(Dataset!Rows) /\ n \in Nat /\ n <= MaxFrames /\ MaxFrames \in Nat
  <2>1. Len(csv) <= written /\ written \in 0 .. MaxFrames /\ csv \in Seq(Dataset!Rows)
    BY DEF DatasetInv, Generated, Dataset!TypeOK
  <2> QED
    BY <2>1, ScanParameters
<1>2. \A i \in 1 .. n : csv[i] \in Dataset!Rows /\ (i < n => csv[i].parts = 4)
  BY <1>1 DEF DatasetInv, Generated, Dataset!Parts
<1>3. rows = IF n = 0 THEN <<>> ELSE IF csv[n].parts >= m THEN csv ELSE SubSeq(csv, 1, n - 1)
  BY RowsKept
<1> HIDE DEF rows
<1>4. /\ rows \in Seq(Dataset!Rows) /\ l \in Nat /\ l <= n /\ DOMAIN rows = 1 .. l
      /\ \A i \in 1 .. l : rows[i] = csv[i]
  BY <1>1, <1>3
<1>5. \A i \in 1 .. l : rows[i] \in Dataset!Rows /\ (i < l => rows[i].parts = 4)
  BY <1>1, <1>2, <1>4
<1> HIDE DEF l
<1>6. \A i \in 1 .. l : /\ Dataset!Position(rows[i]) \in Dataset!Entries
                        /\ i < l => Dataset!Position(rows[i]).exact
  BY <1>5 DEF Dataset!Position, Dataset!Entries, Dataset!Rows, Dataset!Parts
<1> DEFINE list == [i \in 1 .. l |-> Dataset!Position(rows[i])]
<1>7. Dataset!Listed(m) = list
  BY <1>4 DEF Dataset!Listed, rows
<1>8. list \in [1 .. l -> Dataset!Entries]
  BY <1>6
<1>9. list \in Seq(Dataset!Entries) /\ Len(list) = l
  <2> HIDE DEF list
  <2> QED
    BY <1>4, <1>8, FunctionIsSequence
<1>10. \A i \in 1 .. l : list[i].exact \/ i = l
  BY <1>4, <1>6
<1> HIDE DEF list
<1>11. l <= MaxFrames
  BY <1>1, <1>4
<1> QED
  BY <1>7, <1>9, <1>10, <1>11

(* mock_sender.py leaves the disk and the generator alone.                 *)
LEMMA ScanUntouched ==
  ASSUME DatasetInv, UNCHANGED <<Dataset!diskVars, Dataset!genVars>>
  PROVE  /\ UNCHANGED <<file, failed, csvHeader, csv, written, genFrame, genPc, runs>>
         /\ Generated'
<1>1. UNCHANGED <<file, failed, csvHeader, csv, written, genFrame, genPc, runs>>
  BY DEF Dataset!diskVars, Dataset!genVars
<1> QED
  BY <1>1 DEF DatasetInv, Generated

LEMMA StartSenderStep ==
  ASSUME DatasetInv, Dataset!StartSender
  PROVE  DatasetInv'
<1>1. /\ UNCHANGED <<file, failed, csvHeader, csv, written, genFrame, genPc, runs>>
      /\ Generated'
  BY ScanUntouched DEF Dataset!StartSender
<1>2. /\ senderPc = "none" /\ genPc \in {"dead", "closed"}
      /\ UNCHANGED <<queue, next, missing, readerPc, sentFrames>>
      /\ \/ senderPc' = "failed" /\ positions' = positions
         \/ senderPc' = "connect" /\ positions' = Dataset!Listed(2)
  BY DEF Dataset!StartSender, Dataset!readerVars, Dataset!PythonReads
<1>3. /\ readerPc = "none" /\ queue = <<>> /\ sentFrames = <<>> /\ next = 1 /\ missing \in Nat
      /\ positions = <<>> /\ KeptSoFar = <<>>
  BY <1>2, NothingKept DEF DatasetInv, Sending, Dataset!TypeOK
<1>4. missing = 0
  BY <1>3 DEF DatasetInv, Sending
<1>5. /\ positions' \in Seq(Dataset!Entries) /\ Len(positions') <= MaxFrames
      /\ \A i \in 1 .. Len(positions') : positions'[i].exact \/ i = Len(positions')
  <2>1. CASE positions' = positions
    BY <1>3, <2>1, ScanParameters
  <2>2. CASE positions' = Dataset!Listed(2)
    BY <2>2, ListOfRows
  <2> QED
    BY <1>2, <2>1, <2>2
<1>6. KeptSoFar' = <<>>
  <2>1. Dataset!Kept(positions', Dataset!Present')[0] = <<>>
    BY <1>5, KeptSteps
  <2>2. next' - 1 = 0
    BY <1>2, <1>3
  <2> QED
    BY <2>1, <2>2 DEF KeptSoFar
<1>7. Dataset!TypeOK'
  <2>1. next' \in 1 .. Len(positions') + 1
    BY <1>2, <1>3, <1>5
  <2> QED
    BY <1>1, <1>2, <1>5, <2>1 DEF DatasetInv, Dataset!TypeOK
<1>8. Sending'
  BY <1>1, <1>2, <1>3, <1>4, <1>5, <1>6 DEF Sending
<1> QED
  BY <1>1, <1>7, <1>8 DEF DatasetInv

(* A step that leaves list, disk and reader's place alone keeps what the   *)
(* reader has kept.                                                        *)
LEMMA KeptAlone ==
  ASSUME UNCHANGED <<file, positions, next>>
  PROVE  KeptSoFar' = KeptSoFar
BY DEF KeptSoFar, Dataset!Present, Dataset!Entries

LEMMA ConnectStep ==
  ASSUME DatasetInv, Dataset!ConnectAndStartReader
  PROVE  DatasetInv'
<1>1. /\ UNCHANGED <<file, failed, csvHeader, csv, written, genFrame, genPc, runs>>
      /\ Generated'
  BY ScanUntouched DEF Dataset!ConnectAndStartReader
<1>2. /\ senderPc = "connect" /\ UNCHANGED <<positions, queue, next, missing, sentFrames>>
      /\ \/ senderPc' = "send" /\ readerPc' = "read"
         \/ senderPc' = "refused" /\ readerPc' = readerPc
  BY DEF Dataset!ConnectAndStartReader
<1>3. KeptSoFar' = KeptSoFar
  BY <1>1, <1>2, KeptAlone
<1>4. readerPc = "none" /\ queue = <<>> /\ sentFrames = <<>> /\ next = 1 /\ missing \in Nat
  BY <1>2 DEF DatasetInv, Sending, Dataset!TypeOK
<1>5. KeptSoFar \in Seq(Dataset!Entries \cap Dataset!Present) /\ Len(KeptSoFar) = 0 /\ missing = 0
  <2>1. positions \in Seq(Dataset!Entries) /\ next - 1 = 0 /\ Len(positions) \in Nat
    BY <1>4 DEF DatasetInv, Dataset!TypeOK
  <2>2. KeptSoFar \in Seq(Dataset!Entries \cap Dataset!Present) /\ Len(KeptSoFar) <= 0
    <3>1. /\ Dataset!Kept(positions, Dataset!Present)[0]
                \in Seq(Dataset!Entries \cap Dataset!Present)
          /\ Len(Dataset!Kept(positions, Dataset!Present)[0]) <= 0
      <4>1. 0 \in 0 .. Len(positions)
        BY <2>1
      <4> QED
        BY <2>1, <4>1, KeptType
    <3> QED
      BY <2>1, <3>1 DEF KeptSoFar
  <2> QED
    BY <1>4, <2>1, <2>2 DEF DatasetInv, Sending
<1>6. Dataset!TypeOK'
  BY <1>1, <1>2 DEF DatasetInv, Dataset!TypeOK
<1>7. Pending' \/ senderPc' = "refused"
  BY <1>2, <1>3, <1>4, <1>5 DEF Pending
<1>8. Sending'
  BY <1>1, <1>2, <1>3, <1>4, <1>5, <1>7 DEF DatasetInv, Sending
<1> QED
  BY <1>1, <1>6, <1>8 DEF DatasetInv

(* What the reader has kept are entries of the list, and no more than it   *)
(* has come to.                                                            *)
LEMMA KeptSoFarType ==
  ASSUME DatasetInv
  PROVE  /\ positions \in Seq(Dataset!Entries) /\ Len(positions) \in Nat
         /\ next \in Nat /\ next >= 1 /\ next <= Len(positions) + 1
         /\ KeptSoFar \in Seq(Dataset!Entries) /\ Len(KeptSoFar) \in Nat
         /\ sentFrames \in Seq(Dataset!Entries) /\ Len(sentFrames) \in Nat
         /\ queue \in Seq(Dataset!Entries \cup {None}) /\ Len(queue) \in Nat
         /\ missing \in Nat
<1>1. /\ positions \in Seq(Dataset!Entries) /\ Len(positions) \in Nat
      /\ sentFrames \in Seq(Dataset!Entries) /\ queue \in Seq(Dataset!Entries \cup {None})
      /\ next \in 1 .. Len(positions) + 1 /\ missing \in 0 .. MaxFrames
  BY DEF DatasetInv, Dataset!TypeOK
<1>2. next \in Nat /\ next >= 1 /\ next <= Len(positions) + 1 /\ next - 1 \in 0 .. Len(positions)
      /\ missing \in Nat
  BY <1>1, ScanParameters
<1>3. KeptSoFar \in Seq(Dataset!Entries \cap Dataset!Present)
  BY <1>1, <1>2, KeptType DEF KeptSoFar
<1>4. KeptSoFar \in Seq(Dataset!Entries)
  BY <1>3
<1> QED
  BY <1>1, <1>2, <1>4

(* The reader looks at the next entry of the list.                         *)
LEMMA ReadsNext ==
  ASSUME DatasetInv, next <= Len(positions), next' = next + 1,
         UNCHANGED <<file, positions>>
  PROVE  /\ positions[next] \in Dataset!Entries
         /\ KeptSoFar' = IF file[positions[next].frame] # "none"
                         THEN Append(KeptSoFar, positions[next]) ELSE KeptSoFar
<1>1. /\ positions \in Seq(Dataset!Entries) /\ next \in Nat /\ next >= 1
      /\ next \in 1 .. Len(positions)
  BY KeptSoFarType
<1>2. positions[next] \in Dataset!Entries
  BY <1>1
<1>3. positions[next] \in Dataset!Present <=> file[positions[next].frame] # "none"
  BY <1>2 DEF Dataset!Present
<1>4. KeptSoFar' = Dataset!Kept(positions, Dataset!Present)[next]
  <2>1. Dataset!Present' = Dataset!Present
    BY DEF Dataset!Present, Dataset!Entries
  <2>2. next' - 1 = next
    BY <1>1
  <2> QED
    BY <2>1, <2>2 DEF KeptSoFar
<1>5. Dataset!Kept(positions, Dataset!Present)[next] =
         IF positions[next] \in Dataset!Present
         THEN Append(Dataset!Kept(positions, Dataset!Present)[next - 1], positions[next])
         ELSE Dataset!Kept(positions, Dataset!Present)[next - 1]
  BY <1>1, KeptSteps
<1> QED
  BY <1>2, <1>3, <1>4, <1>5 DEF KeptSoFar

LEMMA SkipMissingStep ==
  ASSUME DatasetInv, Dataset!SkipMissing
  PROVE  DatasetInv'
<1>1. /\ UNCHANGED <<file, failed, csvHeader, csv, written, genFrame, genPc, runs>>
      /\ Generated'
  BY ScanUntouched DEF Dataset!SkipMissing
<1>2. /\ readerPc = "read" /\ senderPc = "send" /\ next <= Len(positions)
      /\ file[positions[next].frame] = "none" /\ next' = next + 1 /\ missing' = missing + 1
      /\ UNCHANGED <<positions, queue, readerPc, sentFrames, senderPc>>
  BY DEF Dataset!SkipMissing, Dataset!InReader
<1>3. KeptSoFar' = KeptSoFar
  BY <1>1, <1>2, ReadsNext
<1>4. Len(KeptSoFar) + missing = next - 1 /\ Len(positions) <= MaxFrames
  BY DEF DatasetInv, Sending
<1>5. next' \in 1 .. Len(positions) + 1 /\ missing' \in 0 .. MaxFrames
      /\ Len(KeptSoFar) + missing' = next' - 1
  <2>1. next' = next + 1 /\ missing' = missing + 1 /\ next <= Len(positions)
    BY <1>2
  <2>2. /\ next \in Nat /\ next >= 1 /\ missing \in Nat
        /\ Len(positions) \in Nat /\ Len(KeptSoFar) \in Nat
    BY KeptSoFarType
  <2>3. MaxFrames \in Nat
    BY ScanParameters
  <2> QED
    BY ONLY <1>4, <2>1, <2>2, <2>3
<1>6. Dataset!TypeOK'
  BY <1>1, <1>2, <1>5 DEF DatasetInv, Dataset!TypeOK
<1>7. Pending'
  BY <1>2, <1>3 DEF DatasetInv, Sending, Pending
<1>8. Sending'
  BY <1>1, <1>2, <1>3, <1>5, <1>7 DEF DatasetInv, Sending
<1> QED
  BY <1>1, <1>6, <1>8 DEF DatasetInv

LEMMA PutFrameStep ==
  ASSUME DatasetInv, Dataset!PutFrame
  PROVE  DatasetInv'
<1>1. /\ UNCHANGED <<file, failed, csvHeader, csv, written, genFrame, genPc, runs>>
      /\ Generated'
  BY ScanUntouched DEF Dataset!PutFrame
<1> DEFINE p == positions[next]
<1>2. /\ readerPc = "read" /\ senderPc = "send" /\ next <= Len(positions)
      /\ file[p.frame] # "none" /\ next' = next + 1
      /\ Len(queue) < QueueCapacity /\ queue' = Append(queue, p)
      /\ UNCHANGED <<positions, missing, readerPc, sentFrames, senderPc>>
  BY DEF Dataset!PutFrame, Dataset!InReader, Dataset!Put
<1>3. p \in Dataset!Entries /\ KeptSoFar' = Append(KeptSoFar, p)
  BY <1>1, <1>2, ReadsNext
<1> HIDE DEF p
<1>4. /\ KeptSoFar \in Seq(Dataset!Entries) /\ Len(KeptSoFar) \in Nat
      /\ queue \in Seq(Dataset!Entries \cup {None}) /\ Len(queue) \in Nat
      /\ Len(sentFrames) \in Nat /\ missing \in Nat /\ next \in Nat
  BY KeptSoFarType
<1>5. /\ Len(KeptSoFar') = Len(KeptSoFar) + 1 /\ KeptSoFar'[Len(KeptSoFar) + 1] = p
      /\ \A j \in 1 .. Len(KeptSoFar) : KeptSoFar'[j] = KeptSoFar[j]
      /\ Len(queue') = Len(queue) + 1 /\ queue'[Len(queue) + 1] = p
      /\ \A j \in 1 .. Len(queue) : queue'[j] = queue[j]
      /\ queue' \in Seq(Dataset!Entries \cup {None})
  BY <1>2, <1>3, <1>4
<1>6. p # None
  BY <1>3, ScanParameters
<1>7. /\ Len(KeptSoFar) + missing = next - 1 /\ Len(sentFrames) <= Len(KeptSoFar)
      /\ Len(sentFrames) + Len(queue) = Len(KeptSoFar)
      /\ \A j \in 1 .. Len(queue) :
            queue[j] # None /\ queue[j] = KeptSoFar[Len(sentFrames) + j]
      /\ \A j \in 1 .. Len(sentFrames) : sentFrames[j] = KeptSoFar[j]
  BY <1>2 DEF DatasetInv, Sending, Pending
<1>8. /\ next' \in 1 .. Len(positions) + 1 /\ Len(queue') <= QueueCapacity
      /\ Len(KeptSoFar') + missing = next' - 1
      /\ Len(sentFrames) + Len(queue') = Len(KeptSoFar')
      /\ Len(sentFrames) <= Len(KeptSoFar')
  <2>1. next >= 1 /\ next <= Len(positions) /\ Len(positions) \in Nat
    BY <1>2, KeptSoFarType
  <2>2. next' \in 1 .. Len(positions) + 1
    BY <1>2, <1>4, <2>1
  <2>3. Len(queue') <= QueueCapacity
    BY <1>2, <1>4, <1>5, ScanParameters
  <2>4. Len(KeptSoFar') + missing = next' - 1
    <3>1. next' = next + 1
      BY <1>2
    <3> QED
      BY <1>4, <1>5, <1>7, <2>1, <3>1
  <2>5. Len(sentFrames) + Len(queue') = Len(KeptSoFar') /\ Len(sentFrames) <= Len(KeptSoFar')
    BY <1>4, <1>5, <1>7
  <2> QED
    BY <2>2, <2>3, <2>4, <2>5
<1>9. \A j \in 1 .. Len(queue') : queue'[j] # None /\ queue'[j] = KeptSoFar'[Len(sentFrames) + j]
  <2> SUFFICES ASSUME NEW j \in 1 .. Len(queue')
               PROVE  queue'[j] # None /\ queue'[j] = KeptSoFar'[Len(sentFrames) + j]
    OBVIOUS
  <2>1. CASE j \in 1 .. Len(queue)
    <3>1. Len(sentFrames) + j \in 1 .. Len(KeptSoFar)
      BY <1>4, <1>7, <2>1
    <3> QED
      BY <1>5, <1>7, <2>1, <3>1
  <2>2. CASE j = Len(queue) + 1
    <3>1. Len(sentFrames) + j = Len(KeptSoFar) + 1
      BY <1>4, <1>7, <2>2
    <3> QED
      BY <1>5, <1>6, <2>2, <3>1
  <2> QED
    BY <1>4, <1>5, <2>1, <2>2
<1>10. \A j \in 1 .. Len(sentFrames) : sentFrames[j] = KeptSoFar'[j]
  <2>1. \A j \in 1 .. Len(sentFrames) : j \in 1 .. Len(KeptSoFar)
    BY <1>4, <1>7
  <2> QED
    BY <1>5, <1>7, <2>1
<1>11. Pending'
  <2>1. Len(queue') >= 0
    BY <1>4, <1>5
  <2> QED
    BY <1>2, <1>8, <1>9, <2>1 DEF Pending
<1>12. Dataset!TypeOK'
  BY <1>1, <1>2, <1>5, <1>8 DEF DatasetInv, Dataset!TypeOK
<1>13. Sending'
  BY <1>1, <1>2, <1>8, <1>10, <1>11 DEF DatasetInv, Sending
<1> QED
  BY <1>1, <1>12, <1>13 DEF DatasetInv

LEMMA PutEndMarkerStep ==
  ASSUME DatasetInv, Dataset!PutEndMarker
  PROVE  DatasetInv'
<1>1. /\ UNCHANGED <<file, failed, csvHeader, csv, written, genFrame, genPc, runs>>
      /\ Generated'
  BY ScanUntouched DEF Dataset!PutEndMarker
<1>2. /\ readerPc = "read" /\ readerPc' = "ended" /\ senderPc = "send" /\ next > Len(positions)
      /\ Len(queue) < QueueCapacity /\ queue' = Append(queue, None)
      /\ UNCHANGED <<positions, next, missing, sentFrames, senderPc>>
  BY DEF Dataset!PutEndMarker, Dataset!InReader, Dataset!Put
<1>3. KeptSoFar' = KeptSoFar
  BY <1>1, <1>2, KeptAlone
<1>4. next = Len(positions) + 1
  BY <1>2, KeptSoFarType
<1>5. /\ queue' \in Seq(Dataset!Entries \cup {None}) /\ Len(queue') = Len(queue) + 1
      /\ Len(queue) \in Nat /\ Len(queue') - 1 = Len(queue) /\ Len(queue') <= QueueCapacity
      /\ queue'[Len(queue) + 1] = None /\ \A j \in 1 .. Len(queue) : queue'[j] = queue[j]
  BY <1>2, KeptSoFarType, ScanParameters
<1>6. /\ Len(sentFrames) + Len(queue) = Len(KeptSoFar)
      /\ \A j \in 1 .. Len(queue) :
            queue[j] # None /\ queue[j] = KeptSoFar[Len(sentFrames) + j]
  BY <1>2 DEF DatasetInv, Sending, Pending
<1>7. Pending'
  <2>1. Len(queue) >= 0
    BY <1>5
  <2> QED
    BY <1>2, <1>3, <1>5, <1>6, <2>1 DEF Pending
<1>8. Dataset!TypeOK'
  BY <1>1, <1>2, <1>5 DEF DatasetInv, Dataset!TypeOK
<1>9. Sending'
  BY <1>1, <1>2, <1>3, <1>4, <1>7 DEF DatasetInv, Sending
<1> QED
  BY <1>1, <1>8, <1>9 DEF DatasetInv

LEMMA SendQueuedStep ==
  ASSUME DatasetInv, Dataset!SendFrame
  PROVE  DatasetInv'
<1>1. /\ UNCHANGED <<file, failed, csvHeader, csv, written, genFrame, genPc, runs>>
      /\ Generated'
  BY ScanUntouched DEF Dataset!SendFrame
<1>2. /\ senderPc = "send" /\ queue # <<>> /\ Head(queue) # None /\ queue' = Tail(queue)
      /\ UNCHANGED <<positions, next, missing, readerPc>>
      /\ \/ sentFrames' = Append(sentFrames, Head(queue)) /\ senderPc' = senderPc
         \/ senderPc' = "failed" /\ sentFrames' = sentFrames
  BY DEF Dataset!SendFrame, Dataset!readerVars
<1>3. KeptSoFar' = KeptSoFar
  BY <1>1, <1>2, KeptAlone
<1> DEFINE m == IF readerPc = "ended" THEN Len(queue) - 1 ELSE Len(queue)
           s == Len(sentFrames)
<1>4. /\ s + m = Len(KeptSoFar)
      /\ \A j \in 1 .. m : queue[j] # None /\ queue[j] = KeptSoFar[s + j]
      /\ readerPc = "ended" => queue[m + 1] = None
      /\ \A j \in 1 .. s : sentFrames[j] = KeptSoFar[j]
      /\ readerPc \in {"read", "ended"}
  BY <1>2 DEF DatasetInv, Sending, Pending
<1>5. /\ queue \in Seq(Dataset!Entries \cup {None}) /\ Len(queue) \in Nat \ {0}
      /\ Head(queue) = queue[1] /\ Head(queue) \in Dataset!Entries /\ s \in Nat
      /\ sentFrames \in Seq(Dataset!Entries) /\ Len(KeptSoFar) \in Nat
  <2>1. /\ queue \in Seq(Dataset!Entries \cup {None}) /\ s \in Nat
        /\ sentFrames \in Seq(Dataset!Entries) /\ Len(KeptSoFar) \in Nat
    BY KeptSoFarType
  <2>2. Head(queue) = queue[1] /\ Len(queue) \in Nat \ {0} /\ queue[1] \in Dataset!Entries \cup {None}
    BY <1>2, <2>1
  <2> QED
    BY <1>2, <2>1, <2>2
<1>6. m \in Nat \ {0}
  BY <1>2, <1>4, <1>5
<1>7. /\ queue' \in Seq(Dataset!Entries \cup {None}) /\ Len(queue') = Len(queue) - 1
      /\ \A j \in 1 .. Len(queue') : queue'[j] = queue[j + 1]
  BY <1>2, <1>5
<1>8. Len(queue') <= QueueCapacity
  <2>1. Len(queue) <= QueueCapacity
    BY DEF DatasetInv, Dataset!TypeOK
  <2> QED
    BY <1>5, <1>7, <2>1, ScanParameters
<1>9. CASE senderPc' = "failed" /\ sentFrames' = sentFrames
  <2>1. Dataset!TypeOK'
    BY <1>1, <1>2, <1>7, <1>8, <1>9 DEF DatasetInv, Dataset!TypeOK
  <2>2. Sending'
    BY <1>1, <1>2, <1>3, <1>9 DEF DatasetInv, Sending
  <2> QED
    BY <1>1, <2>1, <2>2 DEF DatasetInv
<1>10. CASE sentFrames' = Append(sentFrames, Head(queue)) /\ senderPc' = senderPc
  <2>1. /\ sentFrames' \in Seq(Dataset!Entries) /\ Len(sentFrames') = s + 1
        /\ \A j \in 1 .. s : sentFrames'[j] = sentFrames[j]
        /\ sentFrames'[s + 1] = queue[1]
    BY <1>5, <1>10
  <2>2. Dataset!TypeOK'
    BY <1>1, <1>2, <1>7, <1>8, <1>10, <2>1 DEF DatasetInv, Dataset!TypeOK
  <2>3. queue[1] = KeptSoFar[s + 1]
    <3>1. 1 \in 1 .. m
      <4> HIDE DEF m
      <4> QED
        BY <1>6
    <3> HIDE DEF m
    <3> QED
      BY <1>4, <3>1
  <2>4. \A j \in 1 .. Len(sentFrames') : sentFrames'[j] = KeptSoFar[j]
    <3>1. \A j \in 1 .. Len(sentFrames') : j \in 1 .. s \/ j = s + 1
      BY <1>5, <2>1
    <3> QED
      BY <1>4, <2>1, <2>3, <3>1
  <2> DEFINE n == IF readerPc = "ended" THEN Len(queue') - 1 ELSE Len(queue')
  <2>5. n = m - 1 /\ n \in Nat
    BY <1>5, <1>6, <1>7
  <2>6. \A j \in 1 .. n : queue'[j] # None /\ queue'[j] = KeptSoFar[Len(sentFrames') + j]
    <3> SUFFICES ASSUME NEW j \in 1 .. n
                 PROVE  queue'[j] # None /\ queue'[j] = KeptSoFar[Len(sentFrames') + j]
      OBVIOUS
    <3>1. j + 1 \in 1 .. m /\ j \in 1 .. Len(queue')
      BY <1>5, <1>7, <2>5
    <3>2. Len(sentFrames') + j = s + (j + 1)
      BY <1>5, <2>1
    <3> HIDE DEF m, n
    <3> QED
      BY <1>4, <1>7, <3>1, <3>2
  <2>7. readerPc = "ended" => queue'[n + 1] = None
    <3> SUFFICES ASSUME readerPc = "ended"
                 PROVE  queue'[n + 1] = None
      OBVIOUS
    <3>1. n + 1 = m /\ m \in 1 .. Len(queue')
      BY <1>5, <1>6, <1>7, <2>5
    <3> HIDE DEF m, n
    <3> QED
      BY <1>4, <1>7, <3>1
  <2>8. Len(sentFrames') + n = Len(KeptSoFar) /\ Len(sentFrames') <= Len(KeptSoFar)
    <3>1. /\ s \in Nat /\ Len(KeptSoFar) \in Nat /\ m \in Nat \ {0} /\ s + m = Len(KeptSoFar)
          /\ Len(sentFrames') = s + 1 /\ n = m - 1
      BY <1>4, <1>5, <1>6, <2>1, <2>5
    <3> HIDE DEF m, n, s
    <3> QED
      BY <3>1
  <2>9. Pending'
    <3>1. n >= 0
      BY <2>5
    <3> QED
      BY <1>2, <1>3, <2>6, <2>7, <2>8, <3>1 DEF Pending
  <2>10. Sending'
    BY <1>1, <1>2, <1>3, <1>4, <1>10, <2>4, <2>8, <2>9 DEF DatasetInv, Sending
  <2> QED
    BY <1>1, <2>2, <2>10 DEF DatasetInv
<1> QED
  BY <1>2, <1>9, <1>10

LEMMA EndSendingStep ==
  ASSUME DatasetInv, Dataset!EndSending
  PROVE  DatasetInv'
<1>1. /\ UNCHANGED <<file, failed, csvHeader, csv, written, genFrame, genPc, runs>>
      /\ Generated'
  BY ScanUntouched DEF Dataset!EndSending
<1>2. /\ senderPc = "send" /\ queue # <<>> /\ Head(queue) = None /\ readerPc = "ended"
      /\ queue' = Tail(queue) /\ senderPc' = "complete"
      /\ UNCHANGED <<positions, next, missing, readerPc, sentFrames>>
  BY DEF Dataset!EndSending, Dataset!readerVars
<1>3. KeptSoFar' = KeptSoFar
  BY <1>1, <1>2, KeptAlone
<1>4. /\ queue \in Seq(Dataset!Entries \cup {None}) /\ Len(queue) \in Nat \ {0}
      /\ Head(queue) = queue[1] /\ Len(sentFrames) \in Nat
  <2>1. queue \in Seq(Dataset!Entries \cup {None}) /\ Len(sentFrames) \in Nat
    BY KeptSoFarType
  <2> QED
    BY <1>2, <2>1
<1>5. Len(queue) = 1
  <2>1. Len(queue) - 1 # 0 => 1 \in 1 .. Len(queue) - 1
    <3>1. Len(queue) \in Nat \ {0}
      BY <1>4
    <3> QED
      BY ONLY <3>1
  <2>2. \A j \in 1 .. Len(queue) - 1 : queue[j] # None
    BY <1>2 DEF DatasetInv, Sending, Pending
  <2>3. Len(queue) - 1 = 0
    BY <1>2, <1>4, <2>1, <2>2
  <2> QED
    BY <1>4, <2>3
<1>6. Len(sentFrames) = Len(KeptSoFar) /\ next = Len(positions) + 1
  BY <1>2, <1>4, <1>5 DEF DatasetInv, Sending, Pending
<1>7. queue' \in Seq(Dataset!Entries \cup {None}) /\ Len(queue') <= QueueCapacity
  BY <1>2, <1>4, <1>5, ScanParameters
<1>8. Dataset!TypeOK'
  BY <1>1, <1>2, <1>7 DEF DatasetInv, Dataset!TypeOK
<1>9. Sending'
  BY <1>1, <1>2, <1>3, <1>6 DEF DatasetInv, Sending
<1> QED
  BY <1>1, <1>8, <1>9 DEF DatasetInv

LEMMA DatasetStep ==
  ASSUME DatasetInv, Dataset!Next
  PROVE  DatasetInv'
<1>1. CASE Dataset!Generator \/ Dataset!Die \/ Dataset!RunAgain
  BY <1>1, GeneratorStep
<1>2. CASE Dataset!StartSender
  BY <1>2, StartSenderStep
<1>3. CASE Dataset!Reader
  BY <1>3, SkipMissingStep, PutFrameStep, PutEndMarkerStep DEF Dataset!Reader
<1>4. CASE Dataset!MainThread
  BY <1>4, ConnectStep, SendQueuedStep, EndSendingStep DEF Dataset!MainThread
<1> QED
  BY <1>1, <1>2, <1>3, <1>4 DEF Dataset!Next

(* In every behaviour of WireAndDisk.                                      *)
LEMMA DatasetInvariant == Spec => []DatasetInv
<1>1. Init => DatasetInv
  BY DatasetBegins DEF Init
<1>2. DatasetInv /\ [Next]_vars => DatasetInv'
  <2> SUFFICES ASSUME DatasetInv, [Next]_vars
               PROVE  DatasetInv'
    OBVIOUS
  <2>1. CASE Scans /\ Dataset!Next
    BY <2>1, DatasetStep
  <2>2. CASE UNCHANGED datasetVars
    <3>1. UNCHANGED <<file, failed, csvHeader, csv, written, genFrame, genPc, runs, positions,
                      next, queue, missing, readerPc, sentFrames, senderPc>>
      BY <2>2 DEF datasetVars
    <3>2. Dataset!TypeOK' /\ Generated'
      BY <3>1 DEF DatasetInv, Dataset!TypeOK, Generated
    <3>3. KeptSoFar' = KeptSoFar
      BY <3>1, KeptAlone
    <3>4. Sending'
      BY <3>1, <3>3 DEF DatasetInv, Sending, Pending
    <3> QED
      BY <3>2, <3>4 DEF DatasetInv
  <2> QED
    BY <2>1, <2>2 DEF Next, Talks, Transfers, vars
<1> QED
  BY <1>1, <1>2, PTL DEF Spec

(* What a generator leaves on disk can be read, whenever it dies and       *)
(* however often it is run again: a row has its frame, and mock_sender.py  *)
(* and readScanPositions() find the same positions, cut row included,      *)
(* unless the former refuses the file (multifocus_reconstruct_harder.cpp:  *)
(* 387-424, io_utils.cpp:16-33, mock_sender.py:38-44).                     *)
THEOREM ScanReadable == Spec => []DatasetReadable
<1>1. DatasetInv => DatasetReadable
  <2> SUFFICES ASSUME DatasetInv
               PROVE  DatasetReadable
    OBVIOUS
  <2> DEFINE n == Len(csv)
  <2>1. csv \in Seq(Dataset!Rows) /\ n \in Nat /\ n <= written /\ written \in Nat
    BY ScanParameters DEF DatasetInv, Generated, Dataset!TypeOK
  <2>2. Dataset!RowsFollowFrames
    BY <2>1 DEF DatasetInv, Generated, Dataset!RowsFollowFrames
  <2>3. ASSUME ~Dataset!PythonRefuses
        PROVE  Dataset!PythonReads = Dataset!ReadScanPositions
    <3> DEFINE K(m) == Dataset!Kept(csv, {row \in Dataset!Rows : row.parts >= m})[n]
    <3>1. n # 0 => csv[n].parts \in 1 .. 4 /\ csv[n].parts # 2
      <4> SUFFICES ASSUME n # 0
                   PROVE  csv[n].parts \in 1 .. 4 /\ csv[n].parts # 2
        OBVIOUS
      <4>1. n \in 1 .. n /\ csv # <<>>
        <5>1. n \in Nat /\ n # 0
          BY <2>1
        <5>2. n \in 1 .. n
          <6> HIDE DEF n
          <6> QED
            BY <5>1
        <5> QED
          BY <5>1, <5>2
      <4>2. csv[n].parts \in 1 .. 4
        <5>1. csv[n] \in Dataset!Rows
          BY <2>1, <4>1
        <5> QED
          BY <5>1 DEF Dataset!Rows, Dataset!Parts
      <4> QED
        BY <2>3, <4>1, <4>2 DEF Dataset!PythonRefuses, Dataset!Cut, Dataset!Last, Dataset!Parts
    <3>2. /\ K(2) = IF n = 0 THEN <<>> ELSE IF csv[n].parts >= 2 THEN csv ELSE SubSeq(csv, 1, n - 1)
          /\ K(3) = IF n = 0 THEN <<>> ELSE IF csv[n].parts >= 3 THEN csv ELSE SubSeq(csv, 1, n - 1)
      BY RowsKept
    <3>3. n # 0 => (csv[n].parts >= 2 <=> csv[n].parts >= 3)
      BY <3>1
    <3>4. K(2) = K(3)
      <4> HIDE DEF K
      <4> QED
        BY <3>2, <3>3
    <3> QED
      BY <3>4 DEF Dataset!PythonReads, Dataset!ReadScanPositions, Dataset!Listed
  <2> QED
    BY <2>2, <2>3 DEF DatasetInv, DatasetReadable, Dataset!DatasetReadable, Dataset!ReadersAgree
<1> QED
  BY <1>1, DatasetInvariant, PTL

(* What mock_sender.py has sent are the listed frames that are there, in   *)
(* order and with none left out; a run that completes has sent or counted  *)
(* as missing every one of them, whatever the size of its queue            *)
(* (mock_sender.py:10-98).                                                 *)
THEOREM ScanSentAsListed == Spec => []SendsWhatIsListed
<1>1. DatasetInv => SendsWhatIsListed
  <2> SUFFICES ASSUME DatasetInv
               PROVE  SendsWhatIsListed
    OBVIOUS
  <2> DEFINE k == Dataset!Kept(positions, Dataset!Present)
             n == Len(positions)
  <2>1. /\ positions \in Seq(Dataset!Entries) /\ n \in Nat /\ next - 1 \in 0 .. n
        /\ sentFrames \in Seq(Dataset!Entries) /\ Len(sentFrames) \in Nat
        /\ KeptSoFar \in Seq(Dataset!Entries) /\ missing \in Nat /\ next \in Nat
    BY KeptSoFarType
  <2>2. /\ Len(KeptSoFar) <= Len(k[n])
        /\ \A j \in 1 .. Len(KeptSoFar) : k[n][j] = KeptSoFar[j]
    <3> DEFINE m == next - 1
    <3>1. positions \in Seq(Dataset!Entries) /\ m \in Nat /\ n \in Nat /\ m <= n /\ n <= Len(positions)
      BY <2>1
    <3> HIDE DEF m, n
    <3>2. Len(k[m]) <= Len(k[n]) /\ \A j \in 1 .. Len(k[m]) : k[n][j] = k[m][j]
      BY <3>1, KeptGrows
    <3> QED
      BY <3>2 DEF KeptSoFar, m
  <2>3. k[n] \in Seq(Dataset!Entries)
    <3>1. n \in 0 .. n
      BY <2>1
    <3>2. k[n] \in Seq(Dataset!Entries \cap Dataset!Present)
      BY <2>1, <3>1, KeptType
    <3> HIDE DEF k
    <3> QED
      BY <3>2
  <2>4. Dataset!Expected = k[n]
    BY DEF Dataset!Expected
  <2> HIDE DEF k
  <2>5. /\ Len(sentFrames) <= Len(KeptSoFar)
        /\ \A j \in 1 .. Len(sentFrames) : sentFrames[j] = KeptSoFar[j]
        /\ Len(KeptSoFar) + missing = next - 1
        /\ \A i \in 1 .. n : positions[i].exact \/ i = n
        /\ senderPc = "complete" => Len(sentFrames) = Len(KeptSoFar) /\ next = n + 1
    BY DEF DatasetInv, Sending
  <2>6. /\ Len(sentFrames) <= Len(k[n])
        /\ \A j \in 1 .. Len(sentFrames) : sentFrames[j] = k[n][j]
    <3>1. Len(KeptSoFar) \in Nat /\ Len(k[n]) \in Nat
      BY <2>1, <2>3
    <3>2. \A j \in 1 .. Len(sentFrames) : j \in 1 .. Len(KeptSoFar)
      BY <2>1, <2>5, <3>1
    <3> QED
      BY <2>1, <2>2, <2>5, <3>1, <3>2
  <2>7. Dataset!IsPrefix(sentFrames, Dataset!Expected)
    BY <2>1, <2>3, <2>4, <2>6 DEF Dataset!IsPrefix
  <2>8. ASSUME senderPc = "complete"
        PROVE  sentFrames = Dataset!Expected /\ Len(sentFrames) + missing = n
    <3>1. KeptSoFar = k[n]
      <4>1. next - 1 = n
        BY <2>1, <2>5, <2>8
      <4> QED
        BY <4>1 DEF KeptSoFar, k
    <3>2. sentFrames = k[n]
      <4>1. Len(sentFrames) = Len(k[n])
        BY <2>5, <2>8, <3>1
      <4> QED
        BY <2>1, <2>3, <2>6, <4>1
    <3> QED
      BY <2>1, <2>4, <2>5, <2>8, <3>2
  <2> QED
    BY <2>5, <2>7, <2>8 DEF SendsWhatIsListed, Dataset!SendsWhatIsListed
<1> QED
  BY <1>1, DatasetInvariant, PTL

-----------------------------------------------------------------------------
(* The messages.  Division by a product is division by one factor after    *)
(* the other.                                                              *)
LEMMA Division ==
  ASSUME NEW n \in Nat, NEW c \in Nat, c > 0
  PROVE  /\ n \div c \in Nat /\ n % c \in 0 .. c - 1
         /\ n = c * (n \div c) + (n % c)
OBVIOUS

LEMMA QuotientUnique ==
  ASSUME NEW c \in Nat, NEW q \in Nat, NEW p \in Nat, NEW r \in 0 .. c - 1,
         NEW s \in 0 .. c - 1, c * q + r = c * p + s
  PROVE  q = p
<1>1. ASSUME NEW x \in Nat, NEW y \in Nat, x < y PROVE c * x + c <= c * y
  <2>1. PICK d \in Nat : y = x + 1 + d
    <3>1. y - x - 1 \in Nat /\ y = x + 1 + (y - x - 1)
      BY <1>1
    <3> QED
      BY <3>1
  <2>2. c * (x + 1 + d) = c * x + c + c * d /\ c * d \in Nat /\ c * x \in Nat
    OBVIOUS
  <2> QED
    BY <2>1, <2>2
<1>2. c * q \in Nat /\ c * p \in Nat
  OBVIOUS
<1>3. ~(q < p)
  BY <1>1, <1>2
<1>4. ~(p < q)
  BY <1>1, <1>2
<1> QED
  BY <1>3, <1>4

LEMMA DivideTwice ==
  ASSUME NEW n \in Nat, NEW a \in Nat, NEW b \in Nat, a > 0, b > 0
  PROVE  /\ a * b \in Nat /\ a * b > 0
         /\ n \div (a * b) = (n \div a) \div b
<1> DEFINE q == n \div a
           r == n % a
           p == q \div b
           s == q % b
           z == n \div (a * b)
           t == n % (a * b)
<1>1. a * b \in Nat /\ a * b > 0
  OBVIOUS
<1>2. q \in Nat /\ r \in 0 .. a - 1 /\ n = a * q + r
  BY Division
<1> HIDE DEF q, r
<1>3. p \in Nat /\ s \in 0 .. b - 1 /\ q = b * p + s
  BY <1>2, Division
<1>4. z \in Nat /\ t \in 0 .. (a * b) - 1 /\ n = (a * b) * z + t
  BY <1>1, Division
<1> HIDE DEF p, s, z, t
<1> DEFINE u == a * s + r
<1>5. n = (a * b) * p + u
  <2>1. \A i, j, k, l, m \in Nat : i * (j * k + l) + m = (i * j) * k + (i * l + m)
    OBVIOUS
  <2> QED
    BY <1>2, <1>3, <2>1
<1>6. u \in 0 .. (a * b) - 1
  <2>1. PICK d \in Nat : b = s + 1 + d
    <3>1. b - s - 1 \in Nat /\ b = s + 1 + (b - s - 1)
      BY <1>3
    <3> QED
      BY <3>1
  <2>2. \A i, j, k \in Nat : i * (j + 1 + k) = i * j + i + i * k /\ i * j \in Nat /\ i * k \in Nat
    OBVIOUS
  <2>3. a * b = a * s + a + a * d /\ a * s \in Nat /\ a * d \in Nat
    BY <1>3, <2>1, <2>2
  <2> QED
    BY <1>2, <2>3
<1>7. z = p
  <2> DEFINE c == a * b
  <2> HIDE DEF u, c
  <2> QED
    BY <1>1, <1>3, <1>4, <1>5, <1>6, QuotientUnique DEF c
<1> QED
  BY <1>1, <1>7 DEF z, p, q

(* A recursion over 0 .. N defines a function.                             *)
Follows(f, x, F, n) ==
    f[0] = x /\ \A i \in 1 .. n : f[i] = F[<<i, f[i - 1]>>]

LEMMA Recursion ==
  ASSUME NEW S, NEW N \in Nat, NEW x \in S, NEW F \in [(1 .. N) \X S -> S]
  PROVE  \E f \in [0 .. N -> S] : Follows(f, x, F, N)
<1> DEFINE Good == {n \in Nat : n <= N => \E f \in [0 .. n -> S] : Follows(f, x, F, n)}
<1>1. 0 \in Good
  <2> DEFINE f == [i \in 0 .. 0 |-> x]
  <2>1. f \in [0 .. 0 -> S] /\ f[0] = x /\ \A i \in 1 .. 0 : FALSE
    OBVIOUS
  <2> HIDE DEF f
  <2>2. Follows(f, x, F, 0)
    BY <2>1 DEF Follows
  <2> QED
    BY <2>1, <2>2
<1>2. ASSUME NEW n \in Nat, n \in Good
      PROVE  n + 1 \in Good
  <2> SUFFICES ASSUME n + 1 <= N
               PROVE  \E f \in [0 .. n + 1 -> S] : Follows(f, x, F, n + 1)
    OBVIOUS
  <2>1. PICK f \in [0 .. n -> S] : Follows(f, x, F, n)
    BY <1>2
  <2> DEFINE v == F[<<n + 1, f[n]>>]
             g == [i \in 0 .. n + 1 |-> IF i <= n THEN f[i] ELSE v]
  <2>2. v \in S
    <3>1. n + 1 \in 1 .. N /\ f[n] \in S
      OBVIOUS
    <3> QED
      BY <3>1
  <2>3. g \in [0 .. n + 1 -> S]
    <3> HIDE DEF v
    <3>1. \A i \in 0 .. n + 1 : i <= n => i \in 0 .. n
      OBVIOUS
    <3> QED
      BY <2>2, <3>1
  <2>4. g[n + 1] = v /\ \A i \in 0 .. n : g[i] = f[i]
    <3> HIDE DEF v
    <3> QED
      OBVIOUS
  <2> HIDE DEF g
  <2>5. ASSUME NEW i \in 1 .. n + 1
        PROVE  g[i] = F[<<i, g[i - 1]>>]
    <3>1. CASE i = n + 1
      <4>1. i - 1 = n /\ n \in 0 .. n
        BY <3>1
      <4> QED
        BY <2>4, <3>1, <4>1
    <3>2. CASE i \in 1 .. n
      <4>1. i - 1 \in 0 .. n /\ i \in 0 .. n
        BY <3>2
      <4> QED
        BY <2>1, <2>4, <3>2, <4>1 DEF Follows
    <3> QED
      BY <3>1, <3>2
  <2>6. g[0] = x
    BY <2>1, <2>4 DEF Follows
  <2> QED
    BY <2>3, <2>5, <2>6 DEF Follows
<1>3. N \in Good
  <2> HIDE DEF Good
  <2> QED
    BY <1>1, <1>2, SetInduction
<1> QED
  BY <1>3

(* The values of k bytes.                                                  *)
LEMMA Parameter == Base \in Nat /\ Base > 1
BY WireAndDiskConstants DEF Messages!StreamAssumption

LEMMA PlaceSteps ==
  /\ Messages!Place \in [0 .. 8 -> Nat] /\ Messages!Place[0] = 1
  /\ \A k \in 1 .. 8 : Messages!Place[k] = Base * Messages!Place[k - 1]
<1> DEFINE F == [p \in (1 .. 8) \X Nat |-> Base * p[2]]
<1>1. F \in [(1 .. 8) \X Nat -> Nat]
  BY Parameter
<1>2. PICK f \in [0 .. 8 -> Nat] : Follows(f, 1, F, 8)
  <2> HIDE DEF F
  <2> QED
    BY <1>1, Recursion
<1>3. f = [k \in 0 .. 8 |-> IF k = 0 THEN 1 ELSE Base * f[k - 1]]
  <2>1. ASSUME NEW k \in 1 .. 8 PROVE f[k] = Base * f[k - 1]
    <3>1. k - 1 \in 0 .. 8
      OBVIOUS
    <3> DEFINE v == f[k - 1]
    <3>2. v \in Nat
      BY <3>1
    <3> HIDE DEF v
    <3>3. <<k, v>> \in (1 .. 8) \X Nat /\ <<k, v>>[2] = v
      BY <3>2
    <3>4. F[<<k, v>>] = Base * v
      BY <3>3
    <3> HIDE DEF F
    <3>5. f[k] = F[<<k, v>>]
      BY <1>2 DEF Follows, v
    <3> QED
      BY <3>4, <3>5 DEF v
  <2>2. f[0] = 1
    BY <1>2 DEF Follows
  <2>3. ASSUME NEW k \in 0 .. 8
        PROVE  f[k] = IF k = 0 THEN 1 ELSE Base * f[k - 1]
    <3>1. k = 0 \/ k \in 1 .. 8
      OBVIOUS
    <3> QED
      BY <2>1, <2>2, <3>1
  <2>4. f = [k \in 0 .. 8 |-> f[k]]
    OBVIOUS
  <2> QED
    BY <2>3, <2>4
<1> DEFINE P == Messages!Place
<1>4. P = [k \in 0 .. 8 |-> IF k = 0 THEN 1 ELSE Base * P[k - 1]]
  <2>1. P = CHOOSE p : p = [k \in 0 .. 8 |-> IF k = 0 THEN 1 ELSE Base * p[k - 1]]
    BY DEF Messages!Place
  <2>2. \E p : p = [k \in 0 .. 8 |-> IF k = 0 THEN 1 ELSE Base * p[k - 1]]
    BY <1>3
  <2> QED
    BY <2>1, <2>2
<1> HIDE DEF P
<1>5. P[0] = 1 /\ \A k \in 1 .. 8 : P[k] = Base * P[k - 1]
  BY <1>4
<1>e. P = [k \in 0 .. 8 |-> P[k]]
  <2> DEFINE body(k) == IF k = 0 THEN 1 ELSE Base * P[k - 1]
  <2>1. P = [k \in 0 .. 8 |-> body(k)]
    BY <1>4
  <2> HIDE DEF body
  <2> QED
    BY <2>1
<1>6. P \in [0 .. 8 -> Nat]
  <2> DEFINE G == {n \in Nat : n <= 8 => P[n] \in Nat}
  <2>1. 0 \in G
    BY <1>5
  <2>2. ASSUME NEW n \in Nat, n \in G PROVE n + 1 \in G
    <3> SUFFICES ASSUME n + 1 <= 8 PROVE P[n + 1] \in Nat
      OBVIOUS
    <3>1. P[n] \in Nat /\ n + 1 \in 1 .. 8 /\ (n + 1) - 1 = n
      BY <2>2
    <3>2. P[n + 1] = Base * P[n]
      BY <1>5, <3>1
    <3> QED
      BY <3>1, <3>2, Parameter
  <2>3. \A n \in Nat : n \in G
    <3> HIDE DEF G
    <3> QED
      BY <2>1, <2>2, SetInduction
  <2>4. \A k \in 0 .. 8 : P[k] \in Nat
    BY <2>3
  <2> QED
    BY <1>e, <2>4
<1> QED
  BY <1>5, <1>6 DEF P

LEMMA PlaceGrows ==
  /\ \A k \in 0 .. 8 : Messages!Place[k] > 0
  /\ \A k \in 1 .. 8 : Messages!Place[k] >= 2 * Messages!Place[k - 1]
<1> DEFINE P == Messages!Place
           G == {n \in Nat : n <= 8 => P[n] > 0}
<1>1. /\ P \in [0 .. 8 -> Nat] /\ P[0] = 1
      /\ \A k \in 1 .. 8 : P[k] = Base * P[k - 1]
  BY PlaceSteps
<1> HIDE DEF P
<1>2. \A n \in Nat : /\ Base * n \in Nat /\ Base * n >= 2 * n
                     /\ n > 0 => Base * n > 0
  <2>1. \A b, n \in Nat : b > 1 => b * n >= 2 * n
    <3> SUFFICES ASSUME NEW b \in Nat, NEW n \in Nat, b > 1 PROVE b * n >= 2 * n
      OBVIOUS
    <3>1. b - 2 \in Nat /\ b = 2 + (b - 2)
      OBVIOUS
    <3>2. \A i, j \in Nat : (2 + i) * j = 2 * j + i * j /\ i * j \in Nat
      OBVIOUS
    <3>3. b * n = 2 * n + (b - 2) * n /\ (b - 2) * n \in Nat
      BY <3>1, <3>2
    <3> QED
      BY <3>3
  <2>2. \A n \in Nat : Base * n \in Nat
    BY Parameter
  <2> QED
    BY <2>1, <2>2, Parameter
<1>3. 0 \in G
  BY <1>1
<1>4. ASSUME NEW n \in Nat, n \in G PROVE n + 1 \in G
  <2> SUFFICES ASSUME n + 1 <= 8 PROVE P[n + 1] > 0
    OBVIOUS
  <2>1. P[n] \in Nat /\ P[n] > 0 /\ n + 1 \in 1 .. 8 /\ (n + 1) - 1 = n
    BY <1>1, <1>4
  <2>2. P[n + 1] = Base * P[n]
    BY <1>1, <2>1
  <2> QED
    BY <1>2, <2>1, <2>2
<1>5. \A n \in Nat : n \in G
  <2> HIDE DEF G
  <2> QED
    BY <1>3, <1>4, SetInduction
<1>6. ASSUME NEW k \in 1 .. 8 PROVE P[k] >= 2 * P[k - 1]
  <2>1. P[k - 1] \in Nat
    BY <1>1
  <2> QED
    BY <1>1, <1>2, <2>1
<1> QED
  BY <1>5, <1>6 DEF P

(* A number in w bytes, and what a parser makes of bytes.                  *)
LEMMA BytesType ==
  ASSUME NEW n \in Nat, NEW w \in 0 .. 8
  PROVE  /\ Messages!Bytes(n, w) \in Seq(Nat) /\ Len(Messages!Bytes(n, w)) = w
         /\ \A i \in 1 .. w :
               Messages!Bytes(n, w)[i] = (n \div Messages!Place[w - i]) % Base
<1> DEFINE P == Messages!Place
<1>1. P \in [0 .. 8 -> Nat] /\ \A k \in 0 .. 8 : P[k] > 0
  BY PlaceSteps, PlaceGrows
<1>2. Messages!Bytes(n, w) = [i \in 1 .. w |-> (n \div P[w - i]) % Base]
  BY DEF Messages!Bytes
<1> HIDE DEF P
<1>3. ASSUME NEW i \in 1 .. w PROVE (n \div P[w - i]) % Base \in Nat
  <2> DEFINE q == n \div P[w - i]
  <2>1. P[w - i] \in Nat /\ P[w - i] > 0
    <3>1. w - i \in 0 .. 8
      OBVIOUS
    <3> QED
      BY <1>1, <3>1
  <2>2. q \in Nat
    BY <2>1, Division
  <2> HIDE DEF q
  <2>3. (q % Base) \in Nat
    BY <2>2, Parameter, Division
  <2> QED
    BY <2>3 DEF q
<1> DEFINE digit(i) == (n \div P[w - i]) % Base
<1>4. Messages!Bytes(n, w) = [i \in 1 .. w |-> digit(i)] /\ \A i \in 1 .. w : digit(i) \in Nat
  BY <1>2, <1>3
<1> HIDE DEF digit
<1>5. Messages!Bytes(n, w) \in Seq(Nat) /\ Len(Messages!Bytes(n, w)) = w
      /\ \A i \in 1 .. w : Messages!Bytes(n, w)[i] = digit(i)
  <2> HIDE DEF Messages!Bytes
  <2> QED
    BY <1>4
<1> QED
  BY <1>5 DEF digit, P

LEMMA NumberSteps ==
  ASSUME NEW data \in Seq(Nat)
  PROVE  \E v \in [0 .. Len(data) -> Nat] :
            /\ v[0] = 0 /\ \A i \in 1 .. Len(data) : v[i] = v[i - 1] * Base + data[i]
            /\ Messages!Number(data) = v[Len(data)]
<1> DEFINE N == Len(data)
           F == [p \in (1 .. N) \X Nat |-> p[2] * Base + data[p[1]]]
<1>0. N \in Nat /\ \A i \in 1 .. N : data[i] \in Nat
  OBVIOUS
<1> HIDE DEF N
<1>1. F \in [(1 .. N) \X Nat -> Nat]
  <2>1. ASSUME NEW p \in (1 .. N) \X Nat PROVE p[2] * Base + data[p[1]] \in Nat
    <3> DEFINE x == p[2]
               y == data[p[1]]
    <3>1. Base \in Nat /\ x \in Nat /\ y \in Nat
      BY <1>0, Parameter
    <3> HIDE DEF x, y
    <3>2. x * Base + y \in Nat
      BY ONLY <3>1
    <3> QED
      BY <3>2 DEF x, y
  <2> QED
    BY <2>1
<1>f. ASSUME NEW k \in 1 .. N, NEW x \in Nat PROVE F[<<k, x>>] = x * Base + data[k]
  <2>1. <<k, x>> \in (1 .. N) \X Nat /\ <<k, x>>[1] = k /\ <<k, x>>[2] = x
    OBVIOUS
  <2> QED
    BY <2>1
<1> HIDE DEF F
<1>2. PICK f \in [0 .. N -> Nat] : Follows(f, 0, F, N)
  BY <1>0, <1>1, Recursion
<1> DEFINE body(g, i) == IF i = 0 THEN 0 ELSE g[i - 1] * Base + data[i]
<1>3. f = [i \in 0 .. N |-> body(f, i)]
  <2>1. ASSUME NEW i \in 0 .. N PROVE f[i] = body(f, i)
    <3>1. CASE i = 0
      BY <1>2, <3>1 DEF Follows
    <3>2. CASE i # 0
      <4>1. i \in 1 .. N /\ i - 1 \in 0 .. N
        BY <1>0, <3>2
      <4>2. f[i] = F[<<i, f[i - 1]>>] /\ f[i - 1] \in Nat
        BY <1>2, <4>1 DEF Follows
      <4> QED
        BY <1>f, <3>2, <4>1, <4>2
    <3> QED
      BY <3>1, <3>2
  <2>2. f = [i \in 0 .. N |-> f[i]]
    OBVIOUS
  <2> HIDE DEF body
  <2> QED
    BY <2>1, <2>2
<1> DEFINE v == CHOOSE g : g = [i \in 0 .. N |-> body(g, i)]
<1>4. v = [i \in 0 .. N |-> body(v, i)]
  <2> HIDE DEF body
  <2>1. \E g : g = [i \in 0 .. N |-> body(g, i)]
    BY <1>3
  <2> QED
    BY <2>1
<1>5. Messages!Number(data) = v[N]
  BY DEF Messages!Number, N
<1> HIDE DEF v
<1>6. v[0] = 0 /\ \A i \in 1 .. N : v[i] = v[i - 1] * Base + data[i]
  <2>1. \A i \in 0 .. N : v[i] = body(v, i)
    <3> HIDE DEF body
    <3> QED
      BY <1>4
  <2>2. 0 \in 0 .. N /\ \A i \in 1 .. N : i \in 0 .. N /\ i # 0
    BY <1>0
  <2> QED
    BY <2>1, <2>2
<1>7. v = [i \in 0 .. N |-> v[i]]
  <2> HIDE DEF body
  <2> QED
    BY <1>4
<1> DEFINE G == {n \in Nat : n <= N => v[n] \in Nat}
<1>8. 0 \in G
  BY <1>6
<1>9. ASSUME NEW n \in Nat, n \in G PROVE n + 1 \in G
  <2> SUFFICES ASSUME n + 1 <= N PROVE v[n + 1] \in Nat
    OBVIOUS
  <2>1. v[n] \in Nat /\ n + 1 \in 1 .. N /\ (n + 1) - 1 = n
    BY <1>0, <1>9
  <2>2. v[n + 1] = v[n] * Base + data[n + 1] /\ data[n + 1] \in Nat
    BY <1>0, <1>6, <2>1
  <2>3. \A x \in Nat : x * Base \in Nat
    BY Parameter
  <2>4. v[n] * Base \in Nat
    BY <2>1, <2>3
  <2> QED
    BY <2>2, <2>4
<1>10. \A n \in Nat : n \in G
  <2> HIDE DEF G
  <2> QED
    BY <1>8, <1>9, SetInduction
<1>11. v \in [0 .. N -> Nat]
  BY <1>7, <1>10
<1> QED
  BY <1>5, <1>6, <1>11 DEF N

LEMMA NumberType ==
  ASSUME NEW data \in Seq(Nat)
  PROVE  Messages!Number(data) \in Nat
<1>1. PICK v \in [0 .. Len(data) -> Nat] : Messages!Number(data) = v[Len(data)]
  BY NumberSteps
<1>2. Len(data) \in 0 .. Len(data)
  OBVIOUS
<1> QED
  BY <1>1, <1>2

(* A number that fits in w bytes is read from them as it was written.      *)
LEMMA NumberOfBytes ==
  ASSUME NEW w \in 0 .. 8, NEW n \in Nat, n < Messages!Place[w]
  PROVE  Messages!Number(Messages!Bytes(n, w)) = n
<1> DEFINE P == Messages!Place
           data == Messages!Bytes(n, w)
<1>1. /\ P \in [0 .. 8 -> Nat] /\ P[0] = 1 /\ \A k \in 0 .. 8 : P[k] > 0
      /\ \A k \in 1 .. 8 : P[k] = Base * P[k - 1]
      /\ n < P[w]
  BY PlaceSteps, PlaceGrows
<1>2. /\ data \in Seq(Nat) /\ Len(data) = w
      /\ \A i \in 1 .. w : data[i] = (n \div P[w - i]) % Base
  BY BytesType
<1>3. PICK v \in [0 .. w -> Nat] :
         /\ v[0] = 0 /\ \A i \in 1 .. w : v[i] = v[i - 1] * Base + data[i]
         /\ Messages!Number(data) = v[w]
  BY <1>2, NumberSteps
<1> HIDE DEF P, data
<1> DEFINE G == {k \in Nat : k <= w => v[k] = n \div P[w - k]}
<1>4. 0 \in G
  <2> DEFINE c == P[w]
  <2>1. c \in Nat /\ c > 0 /\ n < c
    BY <1>1
  <2> HIDE DEF c
  <2>2. n \div c = 0
    <3>1. c * 0 + n = c * (n \div c) + (n % c) /\ n \in 0 .. c - 1 /\ c * 0 = 0
      BY <2>1, Division
    <3>2. n \div c \in Nat /\ (n % c) \in 0 .. c - 1
      BY <2>1, Division
    <3> QED
      BY <2>1, <3>1, <3>2, QuotientUnique
  <2>3. w - 0 = w
    OBVIOUS
  <2> QED
    BY <1>3, <2>2, <2>3 DEF c
<1>5. ASSUME NEW k \in Nat, k \in G PROVE k + 1 \in G
  <2> SUFFICES ASSUME k + 1 <= w PROVE v[k + 1] = n \div P[w - (k + 1)]
    OBVIOUS
  <2> DEFINE c == P[w - (k + 1)]
             q == n \div c
  <2>1. /\ k + 1 \in 1 .. w /\ (k + 1) - 1 = k /\ w - k \in 1 .. 8
        /\ w - (k + 1) \in 0 .. 8 /\ (w - k) - 1 = w - (k + 1)
    OBVIOUS
  <2>2. c \in Nat /\ c > 0 /\ P[w - k] = Base * c
    BY <1>1, <2>1
  <2>3. v[k] = n \div P[w - k]
    BY <1>5
  <2>4. data[k + 1] = q % Base
    BY <1>2, <2>1
  <2>5. v[k + 1] = v[k] * Base + data[k + 1]
    BY <1>3, <2>1
  <2> HIDE DEF c
  <2>6. q \in Nat
    BY <2>2, Division
  <2>7. n \div (c * Base) = q \div Base
    <3>1. Base \in Nat /\ Base > 0 /\ c \in Nat /\ c > 0 /\ n \in Nat
      BY <2>2, Parameter
    <3>2. n \div (c * Base) = (n \div c) \div Base
      BY ONLY <3>1, DivideTwice
    <3> QED
      BY <3>2
  <2>8. c * Base = Base * c
    BY <2>2, Parameter
  <2> HIDE DEF q
  <2>9. q = Base * (q \div Base) + (q % Base) /\ q \div Base \in Nat /\ (q % Base) \in Nat
    BY <2>6, Parameter, Division
  <2>10. v[k] = q \div Base
    BY <2>2, <2>3, <2>7, <2>8
  <2>11. \A i \in Nat : Base * i = i * Base
    BY Parameter
  <2>12. v[k + 1] = q
    BY <2>4, <2>5, <2>9, <2>10, <2>11
  <2> QED
    BY <2>12 DEF q, c
<1>6. \A k \in Nat : k \in G
  <2> HIDE DEF G
  <2> QED
    BY <1>4, <1>5, SetInduction
<1>7. v[w] = n \div P[0]
  <2>1. w \in G /\ w - w = 0
    BY <1>6
  <2> QED
    BY <2>1
<1>8. n \div 1 = n
  OBVIOUS
<1> QED
  BY <1>1, <1>3, <1>7, <1>8 DEF data

(* Where the numbers of a body end.                                        *)
LEMMA EndsSteps ==
  ASSUME NEW widths \in Seq(Nat)
  PROVE  LET end == Messages!Ends(widths)
         IN  /\ end \in [0 .. Len(widths) -> Nat] /\ end[0] = 0
             /\ \A i \in 1 .. Len(widths) : end[i] = end[i - 1] + widths[i]
<1> DEFINE N == Len(widths)
           F == [p \in (1 .. N) \X Nat |-> p[2] + widths[p[1]]]
<1>0. N \in Nat /\ \A i \in 1 .. N : widths[i] \in Nat
  OBVIOUS
<1> HIDE DEF N
<1>1. F \in [(1 .. N) \X Nat -> Nat]
  <2>1. \A p \in (1 .. N) \X Nat : p[2] + widths[p[1]] \in Nat
    BY <1>0
  <2> QED
    BY <2>1
<1>f. ASSUME NEW k \in 1 .. N, NEW x \in Nat PROVE F[<<k, x>>] = x + widths[k]
  <2>1. <<k, x>> \in (1 .. N) \X Nat /\ <<k, x>>[1] = k /\ <<k, x>>[2] = x
    OBVIOUS
  <2> QED
    BY <2>1
<1> HIDE DEF F
<1>2. PICK f \in [0 .. N -> Nat] : Follows(f, 0, F, N)
  BY <1>0, <1>1, Recursion
<1> DEFINE body(g, i) == IF i = 0 THEN 0 ELSE g[i - 1] + widths[i]
<1>3. f = [i \in 0 .. N |-> body(f, i)]
  <2>1. ASSUME NEW i \in 0 .. N PROVE f[i] = body(f, i)
    <3>1. CASE i = 0
      BY <1>2, <3>1 DEF Follows
    <3>2. CASE i # 0
      <4>1. i \in 1 .. N /\ i - 1 \in 0 .. N
        BY <1>0, <3>2
      <4>2. f[i] = F[<<i, f[i - 1]>>] /\ f[i - 1] \in Nat
        BY <1>2, <4>1 DEF Follows
      <4> QED
        BY <1>f, <3>2, <4>1, <4>2
    <3> QED
      BY <3>1, <3>2
  <2>2. f = [i \in 0 .. N |-> f[i]]
    OBVIOUS
  <2> HIDE DEF body
  <2> QED
    BY <2>1, <2>2
<1> DEFINE v == CHOOSE g : g = [i \in 0 .. N |-> body(g, i)]
<1>4. v = [i \in 0 .. N |-> body(v, i)]
  <2> HIDE DEF body
  <2>1. \E g : g = [i \in 0 .. N |-> body(g, i)]
    BY <1>3
  <2> QED
    BY <2>1
<1>5. Messages!Ends(widths) = v
  BY DEF Messages!Ends, N
<1> HIDE DEF v
<1>6. v[0] = 0 /\ \A i \in 1 .. N : v[i] = v[i - 1] + widths[i]
  <2>1. \A i \in 0 .. N : v[i] = body(v, i)
    <3> HIDE DEF body
    <3> QED
      BY <1>4
  <2>2. 0 \in 0 .. N /\ \A i \in 1 .. N : i \in 0 .. N /\ i # 0
    BY <1>0
  <2> QED
    BY <2>1, <2>2
<1>7. v = [i \in 0 .. N |-> v[i]]
  <2> HIDE DEF body
  <2> QED
    BY <1>4
<1> DEFINE G == {n \in Nat : n <= N => v[n] \in Nat}
<1>8. 0 \in G
  BY <1>6
<1>9. ASSUME NEW n \in Nat, n \in G PROVE n + 1 \in G
  <2> SUFFICES ASSUME n + 1 <= N PROVE v[n + 1] \in Nat
    OBVIOUS
  <2>1. v[n] \in Nat /\ n + 1 \in 1 .. N /\ (n + 1) - 1 = n
    BY <1>0, <1>9
  <2>2. v[n + 1] = v[n] + widths[n + 1] /\ widths[n + 1] \in Nat
    BY <1>0, <1>6, <2>1
  <2> QED
    BY <2>1, <2>2
<1>10. \A n \in Nat : n \in G
  <2> HIDE DEF G
  <2> QED
    BY <1>8, <1>9, SetInduction
<1>11. v \in [0 .. N -> Nat]
  BY <1>7, <1>10
<1> QED
  BY <1>5, <1>6, <1>11 DEF N

LEMMA EndsGrow ==
  ASSUME NEW widths \in Seq(0 .. 8)
  PROVE  LET end == Messages!Ends(widths)
         IN  /\ widths \in Seq(Nat) /\ Len(widths) \in Nat
             /\ \A i \in 1 .. Len(widths) : widths[i] \in 0 .. 8
             /\ end \in [0 .. Len(widths) -> Nat] /\ end[0] = 0
             /\ \A i \in 1 .. Len(widths) : end[i] = end[i - 1] + widths[i]
             /\ \A i \in 0 .. Len(widths) : end[i] <= 8 * i
             /\ \A n \in 0 .. Len(widths) : \A i \in 0 .. n : end[i] <= end[n]
<1> DEFINE end == Messages!Ends(widths)
           N == Len(widths)
<1>1. /\ end \in [0 .. N -> Nat] /\ end[0] = 0 /\ N \in Nat
      /\ \A i \in 1 .. N : end[i] = end[i - 1] + widths[i]
      /\ \A i \in 1 .. N : widths[i] \in 0 .. 8
  <2>1. widths \in Seq(Nat)
    OBVIOUS
  <2> QED
    BY <2>1, EndsSteps
<1> HIDE DEF end, N
<1> DEFINE G == {n \in Nat : n <= N => /\ end[n] <= 8 * n
                                       /\ \A i \in 0 .. n : end[i] <= end[n]}
<1>2. 0 \in G
  BY <1>1
<1>3. ASSUME NEW n \in Nat, n \in G PROVE n + 1 \in G
  <2> SUFFICES ASSUME n + 1 <= N
               PROVE  /\ end[n + 1] <= 8 * (n + 1)
                      /\ \A i \in 0 .. n + 1 : end[i] <= end[n + 1]
    OBVIOUS
  <2>1. /\ end[n] <= 8 * n /\ \A i \in 0 .. n : end[i] <= end[n] /\ end[i] \in Nat
        /\ n + 1 \in 1 .. N /\ (n + 1) - 1 = n /\ end[n] \in Nat
    BY <1>1, <1>3
  <2>2. end[n + 1] = end[n] + widths[n + 1] /\ widths[n + 1] \in 0 .. 8
    BY <1>1, <2>1
  <2>3. ASSUME NEW i \in 0 .. n + 1 PROVE end[i] <= end[n + 1]
    <3>1. CASE i = n + 1
      BY <2>1, <2>2, <3>1
    <3>2. CASE i \in 0 .. n
      BY <2>1, <2>2, <3>2
    <3> QED
      BY <3>1, <3>2
  <2> QED
    BY <2>1, <2>2, <2>3
<1>4. \A n \in Nat : n \in G
  <2> HIDE DEF G
  <2> QED
    BY <1>2, <1>3, SetInduction
<1>5. \A n \in 0 .. N : n \in G
  BY <1>1, <1>4
<1>6. widths \in Seq(Nat)
  OBVIOUS
<1> QED
  BY <1>1, <1>5, <1>6 DEF end, N

LEMMA Concatenated ==
  ASSUME NEW S, NEW s \in Seq(S), NEW t \in Seq(S)
  PROVE  /\ s \o t \in Seq(S) /\ Len(s \o t) = Len(s) + Len(t)
         /\ Len(s) \in Nat /\ Len(t) \in Nat
         /\ \A j \in 1 .. Len(s) : (s \o t)[j] = s[j]
         /\ \A j \in 1 .. Len(t) : (s \o t)[Len(s) + j] = t[j]
OBVIOUS

(* FlattenSeq() of parts of these widths has each part where it belongs.   *)
Laid(s, parts, widths, k) ==
    /\ s \in Seq(Nat) /\ Len(s) = Messages!Ends(widths)[k]
    /\ \A i \in 1 .. k : \A j \in 1 .. widths[i] :
          s[Messages!Ends(widths)[i - 1] + j] = parts[i][j]

LEMMA LaidMore ==
  ASSUME NEW widths \in Seq(0 .. 8), NEW parts \in Seq(Seq(Nat)),
         Len(parts) = Len(widths),
         \A i \in 1 .. Len(parts) : Len(parts[i]) = widths[i],
         NEW k \in Nat, k + 1 <= Len(widths), NEW s, Laid(s, parts, widths, k)
  PROVE  Laid(s \o parts[k + 1], parts, widths, k + 1)
<1> DEFINE end == Messages!Ends(widths)
           N == Len(widths)
           p == parts[k + 1]
           t == s \o p
<1>1. /\ end \in [0 .. N -> Nat] /\ end[0] = 0 /\ N \in Nat
      /\ \A i \in 1 .. N : end[i] = end[i - 1] + widths[i]
      /\ \A i \in 1 .. N : widths[i] \in 0 .. 8
  BY EndsGrow
<1>2. /\ s \in Seq(Nat) /\ Len(s) = end[k]
      /\ \A i \in 1 .. k : \A j \in 1 .. widths[i] : s[end[i - 1] + j] = parts[i][j]
  BY DEF Laid
<1>3. k + 1 \in 1 .. N /\ (k + 1) - 1 = k /\ k \in 0 .. N
  BY <1>1
<1>4. p \in Seq(Nat) /\ Len(p) = widths[k + 1]
  BY <1>3
<1> HIDE DEF p
<1>5. /\ t \in Seq(Nat) /\ Len(t) = Len(s) + Len(p) /\ Len(s) \in Nat /\ Len(p) \in Nat
      /\ \A j \in 1 .. Len(s) : t[j] = s[j]
      /\ \A j \in 1 .. Len(p) : t[Len(s) + j] = p[j]
  <2>1. s \in Seq(Nat) /\ p \in Seq(Nat)
    BY <1>2, <1>4
  <2> QED
    BY ONLY <2>1, Concatenated
<1> HIDE DEF t, end
<1>6. Len(t) = end[k + 1]
  BY <1>1, <1>2, <1>3, <1>4, <1>5
<1>7. ASSUME NEW i \in 1 .. k + 1, NEW j \in 1 .. widths[i]
      PROVE  t[end[i - 1] + j] = parts[i][j]
  <2>1. CASE i = k + 1
    <3>1. j \in 1 .. Len(p) /\ end[i - 1] = Len(s)
      BY <1>2, <1>3, <1>4, <2>1
    <3>2. t[Len(s) + j] = p[j]
      BY <1>5, <3>1
    <3> QED
      BY <2>1, <3>1, <3>2 DEF p
  <2>2. CASE i \in 1 .. k
    <3>1. /\ i \in 1 .. N /\ i - 1 \in 0 .. N /\ i \in 0 .. N /\ widths[i] \in 0 .. 8
          /\ end[i] = end[i - 1] + widths[i]
      BY <1>1, <1>3, <2>2
    <3>2. end[i - 1] \in Nat /\ end[i] \in Nat
      BY <1>1, <3>1
    <3>3. end[i] <= end[k]
      <4>1. i \in 0 .. k /\ k \in 0 .. Len(widths)
        BY <1>3, <2>2
      <4> QED
        BY <4>1, EndsGrow DEF end
    <3>4. end[i - 1] + j \in 1 .. Len(s)
      <4> DEFINE a == end[i - 1]
                 w == widths[i]
                 c == end[k]
      <4>1. /\ Len(s) = c /\ c \in Nat /\ j \in 1 .. w /\ w \in 0 .. 8
            /\ a \in Nat /\ a + w <= c
        BY <1>1, <1>2, <1>3, <3>1, <3>2, <3>3
      <4> HIDE DEF a, w, c
      <4>2. a + j \in 1 .. c
        BY ONLY <4>1
      <4> QED
        BY <4>1, <4>2 DEF a
    <3> QED
      BY <1>2, <1>5, <2>2, <3>4
  <2> QED
    BY <2>1, <2>2
<1> QED
  BY <1>5, <1>6, <1>7 DEF Laid, t, p, end

LEMMA FlattenLays ==
  ASSUME NEW widths \in Seq(0 .. 8), NEW parts \in Seq(Seq(Nat)),
         Len(parts) = Len(widths), Len(parts) > 0,
         \A i \in 1 .. Len(parts) : Len(parts[i]) = widths[i]
  PROVE  Laid(Messages!FlattenSeq(parts), parts, widths, Len(widths))
<1> DEFINE N == Len(widths)
           F == [p \in (1 .. N) \X Seq(Nat) |-> p[2] \o parts[p[1]]]
<1>0. N \in Nat /\ N > 0 /\ Len(parts) = N /\ \A i \in 1 .. N : parts[i] \in Seq(Nat)
  OBVIOUS
<1> HIDE DEF N
<1>1. F \in [(1 .. N) \X Seq(Nat) -> Seq(Nat)]
  <2>1. ASSUME NEW p \in (1 .. N) \X Seq(Nat) PROVE p[2] \o parts[p[1]] \in Seq(Nat)
    <3>1. p[2] \in Seq(Nat) /\ parts[p[1]] \in Seq(Nat)
      BY <1>0
    <3> QED
      BY ONLY <3>1, Concatenated
  <2> QED
    BY <2>1
<1>f. ASSUME NEW k \in 1 .. N, NEW x \in Seq(Nat) PROVE F[<<k, x>>] = x \o parts[k]
  <2>1. <<k, x>> \in (1 .. N) \X Seq(Nat) /\ <<k, x>>[1] = k /\ <<k, x>>[2] = x
    OBVIOUS
  <2> QED
    BY <2>1
<1> HIDE DEF F
<1>2. PICK f \in [0 .. N -> Seq(Nat)] : Follows(f, <<>>, F, N)
  <2>1. <<>> \in Seq(Nat)
    OBVIOUS
  <2> QED
    BY <1>0, <1>1, <2>1, Recursion
<1>3. ASSUME NEW i \in 1 .. N
      PROVE  f[i] = IF i = 1 THEN parts[i] ELSE f[i - 1] \o parts[i]
  <2>1. i - 1 \in 0 .. N /\ f[i - 1] \in Seq(Nat) /\ f[i] = F[<<i, f[i - 1]>>]
    BY <1>0, <1>2 DEF Follows
  <2>2. f[i] = f[i - 1] \o parts[i]
    BY <1>f, <2>1
  <2>3. CASE i = 1
    <3>1. f[0] = <<>> /\ parts[1] \in Seq(Nat) /\ i - 1 = 0
      BY <1>0, <1>2, <2>3 DEF Follows
    <3>2. <<>> \o parts[1] = parts[1]
      BY <3>1
    <3> QED
      BY <2>2, <2>3, <3>1, <3>2
  <2> QED
    BY <2>2, <2>3
<1> DEFINE body(g, i) == IF i = 1 THEN parts[i] ELSE g[i - 1] \o parts[i]
           h == [i \in 1 .. N |-> f[i]]
<1>4. h = [i \in 1 .. N |-> body(h, i)]
  <2>1. ASSUME NEW i \in 1 .. N PROVE h[i] = body(h, i)
    <3>1. i # 1 => i - 1 \in 1 .. N
      BY <1>0
    <3>2. i # 1 => h[i - 1] = f[i - 1]
      BY <3>1
    <3>3. h[i] = f[i]
      OBVIOUS
    <3> HIDE DEF h
    <3> QED
      BY <1>3, <3>2, <3>3
  <2>2. h = [i \in 1 .. N |-> h[i]]
    OBVIOUS
  <2> HIDE DEF body, h
  <2> QED
    BY <2>1, <2>2
<1> DEFINE v == CHOOSE g : g = [i \in 1 .. N |-> body(g, i)]
<1>5. v = [i \in 1 .. N |-> body(v, i)]
  <2> HIDE DEF body
  <2>1. \E g : g = [i \in 1 .. N |-> body(g, i)]
    BY <1>4
  <2> QED
    BY <2>1
<1>6. Messages!FlattenSeq(parts) = v[N]
  <2>1. Len(parts) # 0 /\ Len(parts) = N
    BY <1>0
  <2> QED
    BY <2>1 DEF Messages!FlattenSeq
<1> HIDE DEF v
<1>7. \A i \in 1 .. N : v[i] = IF i = 1 THEN parts[i] ELSE v[i - 1] \o parts[i]
  <2>1. \A i \in 1 .. N : v[i] = body(v, i)
    <3> HIDE DEF body
    <3> QED
      BY <1>5
  <2> QED
    BY <2>1
<1> DEFINE G == {n \in Nat : n > 0 /\ n <= N => Laid(v[n], parts, widths, n)}
<1>8. 0 \in G
  OBVIOUS
<1>9. ASSUME NEW n \in Nat, n \in G PROVE n + 1 \in G
  <2> SUFFICES ASSUME n + 1 <= N PROVE Laid(v[n + 1], parts, widths, n + 1)
    OBVIOUS
  <2> DEFINE s == IF n = 0 THEN <<>> ELSE v[n]
  <2>1. n + 1 \in 1 .. N /\ n + 1 <= Len(widths) /\ (n + 1) - 1 = n
    BY <1>0 DEF N
  <2>2. Laid(s, parts, widths, n)
    <3>1. CASE n = 0
      <4>1. <<>> \in Seq(Nat) /\ Len(<<>>) = 0 /\ Messages!Ends(widths)[0] = 0
        BY EndsGrow
      <4>2. \A i \in 1 .. 0 : FALSE
        OBVIOUS
      <4>3. s = <<>>
        BY <3>1
      <4> QED
        BY <3>1, <4>1, <4>2, <4>3 DEF Laid
    <3>2. CASE n # 0
      <4>1. Laid(v[n], parts, widths, n)
        BY <1>0, <1>9, <3>2
      <4>2. s = v[n]
        BY <3>2
      <4> HIDE DEF s
      <4> QED
        BY <4>1, <4>2
    <3> QED
      BY <3>1, <3>2
  <2>3. v[n + 1] = s \o parts[n + 1]
    <3>1. v[n + 1] = IF n + 1 = 1 THEN parts[n + 1] ELSE v[n] \o parts[n + 1]
      BY <1>7, <2>1
    <3>2. CASE n = 0
      <4>1. parts[1] \in Seq(Nat)
        BY <1>0
      <4>2. <<>> \o parts[1] = parts[1]
        BY <4>1
      <4> QED
        BY <3>1, <3>2, <4>2
    <3>3. CASE n # 0
      <4>1. n + 1 # 1
        BY <3>3
      <4> QED
        BY <3>1, <3>3, <4>1
    <3> QED
      BY <3>2, <3>3
  <2> HIDE DEF s
  <2>4. Laid(s \o parts[n + 1], parts, widths, n + 1)
    BY <2>1, <2>2, LaidMore
  <2> QED
    BY <2>3, <2>4
<1>10. \A n \in Nat : n \in G
  <2> HIDE DEF G
  <2> QED
    BY <1>8, <1>9, SetInduction
<1>11. Laid(v[N], parts, widths, N)
  BY <1>0, <1>10
<1> QED
  BY <1>6, <1>11 DEF N

(* The messages and their sizes.                                           *)
LEMMA Layouts ==
  ASSUME NEW name \in Messages!Names
  PROVE  /\ Messages!Layout[name] \in Seq({4, 8})
         /\ Len(Messages!Layout[name]) \in 1 .. 6
         /\ Messages!Type[name] \in 1 .. 41
<1>1. Messages!Names = {"Hello", "ResumeRequest", "ResumeReply", "LineBegin",
                        "LineCommit", "LineAbort", "TaskCheckpoint"}
  BY DEF Messages!Names, Messages!Layout
<1>2. CASE name \in {"Hello", "ResumeRequest"}
  <2>1. Messages!Layout[name] = <<8>> /\ Messages!Type[name] \in {1, 2}
    BY <1>2 DEF Messages!Layout, Messages!Type
  <2> QED
    BY <2>1
<1>3. CASE name = "ResumeReply"
  <2>1. Messages!Layout[name] = <<8, 8>> /\ Messages!Type[name] = 3
    BY <1>3 DEF Messages!Layout, Messages!Type
  <2> QED
    BY <2>1
<1>4. CASE name \in {"LineBegin", "LineCommit"}
  <2>1. Messages!Layout[name] = <<8, 4, 4, 8>> /\ Messages!Type[name] \in {10, 11}
    BY <1>4 DEF Messages!Layout, Messages!Type
  <2> QED
    BY <2>1
<1>5. CASE name = "LineAbort"
  <2>1. Messages!Layout[name] = <<8, 4, 4>> /\ Messages!Type[name] = 12
    BY <1>5 DEF Messages!Layout, Messages!Type
  <2> QED
    BY <2>1
<1>6. CASE name = "TaskCheckpoint"
  <2>1. Messages!Layout[name] = <<8, 4, 4, 8, 8, 4>> /\ Messages!Type[name] = 41
    BY <1>6 DEF Messages!Layout, Messages!Type
  <2> QED
    BY <2>1
<1> QED
  BY <1>1, <1>2, <1>3, <1>4, <1>5, <1>6

LEMMA TypesDiffer ==
  ASSUME NEW a \in Messages!Names, NEW b \in Messages!Names,
         Messages!Type[a] = Messages!Type[b]
  PROVE  a = b
<1>1. Messages!Names = {"Hello", "ResumeRequest", "ResumeReply", "LineBegin",
                        "LineCommit", "LineAbort", "TaskCheckpoint"}
  BY DEF Messages!Names, Messages!Layout
<1> QED
  BY <1>1 DEF Messages!Type

LEMMA Widths ==
  ASSUME NEW name \in Messages!Names
  PROVE  LET widths == Messages!Layout[name]
             end == Messages!Ends(widths)
         IN  /\ widths \in Seq(0 .. 8) /\ Len(widths) \in 1 .. 6
             /\ \A i \in 1 .. Len(widths) : widths[i] \in {4, 8}
             /\ end \in [0 .. Len(widths) -> Nat] /\ end[0] = 0
             /\ \A i \in 1 .. Len(widths) : end[i] = end[i - 1] + widths[i]
             /\ \A i \in 0 .. Len(widths) : end[i] <= end[Len(widths)]
             /\ Messages!BodySize(name) = end[Len(widths)]
             /\ Messages!BodySize(name) \in 0 .. 48
             /\ Messages!Size(name) = 12 + Messages!BodySize(name)
             /\ Messages!HeaderSize = 12
<1> DEFINE widths == Messages!Layout[name]
           end == Messages!Ends(widths)
           N == Len(widths)
<1>1. widths \in Seq({4, 8}) /\ N \in 1 .. 6
  BY Layouts
<1> HIDE DEF widths
<1>2. widths \in Seq(0 .. 8) /\ \A i \in 1 .. N : widths[i] \in {4, 8}
  BY <1>1
<1>3. /\ end \in [0 .. N -> Nat] /\ end[0] = 0
      /\ \A i \in 1 .. N : end[i] = end[i - 1] + widths[i]
      /\ \A i \in 0 .. N : end[i] <= 8 * i
      /\ \A n \in 0 .. N : \A i \in 0 .. n : end[i] <= end[n]
  BY <1>2, EndsGrow
<1> HIDE DEF end, N
<1>4. /\ N \in 0 .. N /\ end[N] \in Nat /\ end[N] <= 48
      /\ \A i \in 0 .. N : end[i] <= end[N]
  BY <1>1, <1>3
<1>5. /\ Messages!BodySize(name) = end[N]
      /\ Messages!Size(name) = 12 + Messages!BodySize(name) /\ Messages!HeaderSize = 12
  BY DEF Messages!BodySize, Messages!Size, Messages!HeaderSize, end, N, widths
<1>b. Messages!BodySize(name) \in 0 .. 48
  BY <1>4, <1>5
<1>6. /\ widths \in Seq(0 .. 8) /\ N \in 1 .. 6
      /\ \A i \in 1 .. N : widths[i] \in {4, 8}
      /\ end \in [0 .. N -> Nat] /\ end[0] = 0
      /\ \A i \in 1 .. N : end[i] = end[i - 1] + widths[i]
      /\ \A i \in 0 .. N : end[i] <= end[N]
      /\ Messages!BodySize(name) = end[N]
      /\ Messages!BodySize(name) \in 0 .. 48
      /\ Messages!Size(name) = 12 + Messages!BodySize(name)
      /\ Messages!HeaderSize = 12
  BY ONLY <1>1, <1>2, <1>3, <1>4, <1>5, <1>b, Zenon
<1> QED
  BY <1>6 DEF end, N, widths

(* Every number in a header fits.                                          *)
LEMMA HeaderFits ==
  ASSUME NEW name \in Messages!Names
  PROVE  /\ Magic \in Nat /\ Magic < Messages!Place[4]
         /\ Messages!Version \in Nat /\ Messages!Version < Messages!Place[2]
         /\ Messages!Type[name] \in Nat /\ Messages!Type[name] < Messages!Place[2]
         /\ Messages!BodySize(name) \in Nat
         /\ Messages!BodySize(name) < Messages!Place[4]
         /\ 1 < Messages!Place[4]
<1> DEFINE P == Messages!Place
<1>1. P \in [0 .. 8 -> Nat] /\ \A k \in 1 .. 8 : P[k] >= 2 * P[k - 1]
  BY PlaceSteps, PlaceGrows
<1>2. /\ Magic \in 0 .. P[4] - 1
      /\ \A k \in Messages!Names : Messages!Type[k] < P[2]
  BY WireAndDiskConstants DEF Messages!StreamAssumption
<1>3. 41 < P[2]
  <2>1. "TaskCheckpoint" \in Messages!Names /\ Messages!Type["TaskCheckpoint"] = 41
    BY DEF Messages!Names, Messages!Layout, Messages!Type
  <2> QED
    BY <1>2, <2>1
<1>4. Messages!Type[name] \in 1 .. 41 /\ Messages!BodySize(name) \in 0 .. 48
  BY Layouts, Widths
<1> HIDE DEF P
<1>5. /\ P[2] \in Nat /\ P[3] \in Nat /\ P[4] \in Nat
      /\ P[3] >= 2 * P[2] /\ P[4] >= 2 * P[3]
  <2>1. 3 \in 1 .. 8 /\ 4 \in 1 .. 8 /\ 2 \in 0 .. 8 /\ 3 - 1 = 2 /\ 4 - 1 = 3
    OBVIOUS
  <2> QED
    BY <1>1, <2>1
<1>6. P[4] > 48
  BY <1>3, <1>5
<1> QED
  BY <1>2, <1>3, <1>4, <1>5, <1>6 DEF P, Messages!Version

(* The numbers of a message fit in the bytes they get.                     *)
Fits(m) ==
    /\ m.name \in Messages!Names
    /\ m = [name |-> m.name, fields |-> m.fields]
    /\ DOMAIN m.fields = 1 .. Len(Messages!Layout[m.name])
    /\ m.fields = [i \in 1 .. Len(Messages!Layout[m.name]) |-> m.fields[i]]
    /\ \A i \in 1 .. Len(Messages!Layout[m.name]) :
          /\ m.fields[i] \in Nat
          /\ m.fields[i] < Messages!Place[Messages!Layout[m.name][i]]

LEMMA MessagesFit ==
  ASSUME NEW m \in Messages!Messages
  PROVE  Fits(m)
<1>1. PICK name \in Messages!Names : m \in Messages!MessagesOf(name)
  BY DEF Messages!Messages
<1>2. \A w \in {4, 8} : \A n \in Samples[w] : n \in Nat /\ n < Messages!Place[w]
  BY WireAndDiskConstants DEF Messages!StreamAssumption
<1>3. 1 < Messages!Place[4] /\ 0 < Messages!Place[4]
  BY <1>1, HeaderFits, PlaceGrows
<1>4. CASE name = "TaskCheckpoint"
  <2>1. PICK t \in Samples[8], l \in Samples[4], a \in Samples[4],
             s \in Samples[8], k \in Samples[8], z \in {0, 1} :
                m = [name |-> name, fields |-> <<t, l, a, s, k, z>>]
    BY <1>1, <1>4 DEF Messages!MessagesOf
  <2>2. Messages!Layout[name] = <<8, 4, 4, 8, 8, 4>>
    BY <1>4 DEF Messages!Layout
  <2>3. m.name = name /\ m.fields = <<t, l, a, s, k, z>>
    BY <2>1
  <2>4. /\ t \in Nat /\ t < Messages!Place[8] /\ l \in Nat /\ l < Messages!Place[4]
        /\ a \in Nat /\ a < Messages!Place[4] /\ s \in Nat /\ s < Messages!Place[8]
        /\ k \in Nat /\ k < Messages!Place[8] /\ z \in Nat /\ z < Messages!Place[4]
    BY <1>2, <1>3
  <2> DEFINE f == <<t, l, a, s, k, z>>
  <2>5. DOMAIN f = 1 .. 6 /\ f = [i \in 1 .. 6 |-> f[i]]
    OBVIOUS
  <2>6. \A i \in 1 .. 6 :
           f[i] \in Nat /\ f[i] < Messages!Place[(<<8, 4, 4, 8, 8, 4>>)[i]]
    <3>1. \A i \in 1 .. 6 : i = 1 \/ i = 2 \/ i = 3 \/ i = 4 \/ i = 5 \/ i = 6
      OBVIOUS
    <3> QED
      BY <2>4, <3>1
  <2>7. Len(Messages!Layout[name]) = 6
    BY <2>2
  <2> HIDE DEF f
  <2>8. m.fields = f /\ m = [name |-> m.name, fields |-> m.fields]
    BY <2>1, <2>3 DEF f
  <2> QED
    BY <1>1, <2>2, <2>3, <2>5, <2>6, <2>7, <2>8 DEF Fits
<1>5. CASE name # "TaskCheckpoint"
  <2> DEFINE N == Len(Messages!Layout[name])
  <2>1. PICK f \in [DOMAIN Messages!Layout[name] -> Samples[4] \cup Samples[8]] :
           /\ \A i \in DOMAIN f : f[i] \in Samples[Messages!Layout[name][i]]
           /\ m = [name |-> name, fields |-> f]
    BY <1>1, <1>5 DEF Messages!MessagesOf
  <2>2. Messages!Layout[name] \in Seq({4, 8})
    BY <1>1, Layouts
  <2>3. DOMAIN f = 1 .. N /\ f = [i \in 1 .. N |-> f[i]]
    BY <2>1, <2>2
  <2>4. m.name = name /\ m.fields = f /\ m = [name |-> m.name, fields |-> m.fields]
    BY <2>1
  <2>5. ASSUME NEW i \in 1 .. N
        PROVE  f[i] \in Nat /\ f[i] < Messages!Place[Messages!Layout[name][i]]
    <3>1. Messages!Layout[name][i] \in {4, 8}
      BY <2>2
    <3> QED
      BY <1>2, <2>1, <2>3, <3>1
  <2> QED
    BY <1>1, <2>3, <2>4, <2>5 DEF Fits
<1> QED
  BY <1>4, <1>5

(* Parts of a sequence of bytes.                                           *)
LEMMA PartOf ==
  ASSUME NEW s \in Seq(Nat), NEW t \in Seq(Nat), NEW a \in Nat, NEW b \in Nat,
         b = a + Len(t), b <= Len(s), \A j \in 1 .. Len(t) : s[a + j] = t[j]
  PROVE  SubSeq(s, a + 1, b) = t
<1> DEFINE u == SubSeq(s, a + 1, b)
<1>1. u \in Seq(Nat) /\ Len(u) = Len(t) /\ \A j \in 1 .. Len(t) : u[j] = s[a + j]
  <2>1. u = [j \in 1 .. Len(t) |-> s[a + j]]
    <3>1. (b - (a + 1)) + 1 = Len(t) /\ Len(t) \in Nat
      OBVIOUS
    <3>2. \A j \in 1 .. Len(t) : (j + (a + 1)) - 1 = a + j
      OBVIOUS
    <3>3. u = [j \in 1 .. (b - (a + 1)) + 1 |-> s[(j + (a + 1)) - 1]]
      OBVIOUS
    <3> QED
      BY <3>1, <3>2, <3>3
  <2>2. \A j \in 1 .. Len(t) : s[a + j] \in Nat /\ Len(t) \in Nat
    OBVIOUS
  <2> HIDE DEF u
  <2> QED
    BY <2>1, <2>2
<1> HIDE DEF u
<1>2. u = t
  BY <1>1, SeqEqual
<1> QED
  BY <1>2 DEF u

LEMMA SameSubSeq ==
  ASSUME NEW s \in Seq(Nat), NEW t \in Seq(Nat), NEW a \in Nat, NEW b \in Nat,
         1 <= a, b <= Len(s), b <= Len(t), \A j \in a .. b : s[j] = t[j]
  PROVE  SubSeq(s, a, b) = SubSeq(t, a, b)
<1>1. SubSeq(s, a, b) = [i \in 1 .. (b - a) + 1 |-> s[(i + a) - 1]]
  OBVIOUS
<1>2. SubSeq(t, a, b) = [i \in 1 .. (b - a) + 1 |-> t[(i + a) - 1]]
  OBVIOUS
<1>3. ASSUME NEW i \in 1 .. (b - a) + 1 PROVE s[(i + a) - 1] = t[(i + a) - 1]
  <2>1. (i + a) - 1 \in a .. b
    BY ONLY a \in Nat, b \in Nat, i \in 1 .. (b - a) + 1
  <2> QED
    BY <2>1
<1> QED
  BY <1>1, <1>2, <1>3

HasParts(h, A, B, C, D) ==
    /\ h \in Seq(Nat) /\ Len(h) = 12
    /\ \A j \in 1 .. 4 : h[0 + j] = A[j]
    /\ \A j \in 1 .. 2 : h[4 + j] = B[j]
    /\ \A j \in 1 .. 2 : h[6 + j] = C[j]
    /\ \A j \in 1 .. 4 : h[8 + j] = D[j]

LEMMA FourParts ==
  ASSUME NEW A \in Seq(Nat), NEW B \in Seq(Nat), NEW C \in Seq(Nat), NEW D \in Seq(Nat),
         Len(A) = 4, Len(B) = 2, Len(C) = 2, Len(D) = 4
  PROVE  HasParts(A \o B \o C \o D, A, B, C, D)
<1> DEFINE u == A \o B
           v == u \o C
           h == v \o D
<1>1. /\ u \in Seq(Nat) /\ Len(u) = 6
      /\ \A j \in 1 .. 4 : u[j] = A[j]
      /\ \A k \in 1 .. 2 : u[4 + k] = B[k]
  <2>1. /\ u \in Seq(Nat) /\ Len(u) = Len(A) + Len(B)
        /\ \A j \in 1 .. Len(A) : u[j] = A[j]
        /\ \A k \in 1 .. Len(B) : u[Len(A) + k] = B[k]
    BY ONLY A \in Seq(Nat), B \in Seq(Nat), Concatenated
  <2>2. Len(A) = 4 /\ Len(B) = 2 /\ 4 + 2 = 6
    OBVIOUS
  <2> HIDE DEF u
  <2> QED
    BY ONLY <2>1, <2>2
<1> HIDE DEF u
<1>2. /\ v \in Seq(Nat) /\ Len(v) = 8
      /\ \A j \in 1 .. 6 : v[j] = u[j]
      /\ \A k \in 1 .. 2 : v[6 + k] = C[k]
  <2>0. u \in Seq(Nat) /\ C \in Seq(Nat)
    BY <1>1
  <2>1. /\ v \in Seq(Nat) /\ Len(v) = Len(u) + Len(C)
        /\ \A j \in 1 .. Len(u) : v[j] = u[j]
        /\ \A k \in 1 .. Len(C) : v[Len(u) + k] = C[k]
    BY ONLY <2>0, Concatenated
  <2>2. Len(u) = 6 /\ Len(C) = 2 /\ 6 + 2 = 8
    BY <1>1
  <2> HIDE DEF v
  <2> QED
    BY ONLY <2>1, <2>2
<1> HIDE DEF v
<1>3. /\ h \in Seq(Nat) /\ Len(h) = 12
      /\ \A j \in 1 .. 8 : h[j] = v[j]
      /\ \A k \in 1 .. 4 : h[8 + k] = D[k]
  <2>0. v \in Seq(Nat) /\ D \in Seq(Nat)
    BY <1>2
  <2>1. /\ h \in Seq(Nat) /\ Len(h) = Len(v) + Len(D)
        /\ \A j \in 1 .. Len(v) : h[j] = v[j]
        /\ \A k \in 1 .. Len(D) : h[Len(v) + k] = D[k]
    BY ONLY <2>0, Concatenated
  <2>2. Len(v) = 8 /\ Len(D) = 4 /\ 8 + 4 = 12
    BY <1>2
  <2> HIDE DEF h
  <2> QED
    BY ONLY <2>1, <2>2
<1> HIDE DEF h
<1>4. \A j \in 1 .. 4 : h[0 + j] = A[j]
  <2>1. \A j \in 1 .. 4 : 0 + j = j /\ j \in 1 .. 6 /\ j \in 1 .. 8
    OBVIOUS
  <2> QED
    BY <1>1, <1>2, <1>3, <2>1
<1>5. \A j \in 1 .. 2 : h[4 + j] = B[j]
  <2>1. \A j \in 1 .. 2 : 4 + j \in 1 .. 6 /\ 4 + j \in 1 .. 8
    OBVIOUS
  <2> QED
    BY <1>1, <1>2, <1>3, <2>1
<1>6. \A j \in 1 .. 2 : h[6 + j] = C[j]
  <2>1. \A j \in 1 .. 2 : 6 + j \in 1 .. 8
    OBVIOUS
  <2> QED
    BY <1>2, <1>3, <2>1
<1>7. \A j \in 1 .. 4 : h[8 + j] = D[j]
  BY <1>3
<1> QED
  BY <1>3, <1>4, <1>5, <1>6, <1>7 DEF HasParts, h, v, u

LEMMA BytesRead ==
  ASSUME NEW w \in {2, 4, 8}, NEW n \in Nat, n < Messages!Place[w]
  PROVE  /\ Messages!Bytes(n, w) \in Seq(Nat) /\ Len(Messages!Bytes(n, w)) = w
         /\ Messages!Number(Messages!Bytes(n, w)) = n
<1>1. w \in 0 .. 8
  OBVIOUS
<1> QED
  BY <1>1, BytesType, NumberOfBytes

(* A message is its header and its numbers, each in its place.             *)
Header(e, name) ==
    /\ Messages!Number(SubSeq(e, 1, 4)) = Magic
    /\ Messages!Number(SubSeq(e, 5, 6)) = Messages!Version
    /\ Messages!Number(SubSeq(e, 7, 8)) = Messages!Type[name]
    /\ Messages!Number(SubSeq(e, 9, 12)) = Messages!BodySize(name)

LEMMA HeaderReads ==
  ASSUME NEW name \in Messages!Names
  PROVE  LET h == Messages!MakeMessageHeader(Messages!Type[name], Messages!BodySize(name))
         IN  h \in Seq(Nat) /\ Len(h) = 12 /\ Header(h, name)
<1> DEFINE A == Messages!Bytes(Magic, 4)
           B == Messages!Bytes(Messages!Version, 2)
           C == Messages!Bytes(Messages!Type[name], 2)
           D == Messages!Bytes(Messages!BodySize(name), 4)
           h == A \o B \o C \o D
<1>1. /\ A \in Seq(Nat) /\ Len(A) = 4 /\ Messages!Number(A) = Magic
      /\ B \in Seq(Nat) /\ Len(B) = 2 /\ Messages!Number(B) = Messages!Version
  BY HeaderFits, BytesRead
<1>2. /\ C \in Seq(Nat) /\ Len(C) = 2 /\ Messages!Number(C) = Messages!Type[name]
      /\ D \in Seq(Nat) /\ Len(D) = 4 /\ Messages!Number(D) = Messages!BodySize(name)
  BY HeaderFits, BytesRead
<1>3. h = Messages!MakeMessageHeader(Messages!Type[name], Messages!BodySize(name))
  BY DEF Messages!MakeMessageHeader
<1> HIDE DEF A, B, C, D
<1>4. /\ h \in Seq(Nat) /\ Len(h) = 12
      /\ \A j \in 1 .. 4 : h[0 + j] = A[j]
      /\ \A j \in 1 .. 2 : h[4 + j] = B[j]
      /\ \A j \in 1 .. 2 : h[6 + j] = C[j]
      /\ \A j \in 1 .. 4 : h[8 + j] = D[j]
  <2>1. /\ A \in Seq(Nat) /\ B \in Seq(Nat) /\ C \in Seq(Nat) /\ D \in Seq(Nat)
        /\ Len(A) = 4 /\ Len(B) = 2 /\ Len(C) = 2 /\ Len(D) = 4
    BY <1>1, <1>2
  <2>2. HasParts(A \o B \o C \o D, A, B, C, D)
    BY ONLY <2>1, FourParts
  <2>3. HasParts(h, A, B, C, D)
    BY <2>2
  <2> QED
    BY <2>3 DEF HasParts
<1> HIDE DEF h
<1>5. SubSeq(h, 0 + 1, 4) = A /\ 0 + 1 = 1
  BY <1>1, <1>4, PartOf
<1>6. SubSeq(h, 4 + 1, 6) = B /\ 4 + 1 = 5
  BY <1>1, <1>4, PartOf
<1>7. SubSeq(h, 6 + 1, 8) = C /\ 6 + 1 = 7
  BY <1>2, <1>4, PartOf
<1>8. SubSeq(h, 8 + 1, 12) = D /\ 8 + 1 = 9
  BY <1>2, <1>4, PartOf
<1>9. Header(h, name)
  BY <1>1, <1>2, <1>5, <1>6, <1>7, <1>8 DEF Header
<1> QED
  BY <1>3, <1>4, <1>9

Carries(e, m) ==
    LET widths == Messages!Layout[m.name]
        end == Messages!Ends(widths)
    IN  /\ e \in Seq(Nat) /\ Len(e) = Messages!Size(m.name) /\ Header(e, m.name)
        /\ \A i \in 1 .. Len(widths) :
              Messages!Number(SubSeq(e, 12 + end[i - 1] + 1, 12 + end[i])) = m.fields[i]

LEMMA EncodeCarries ==
  ASSUME NEW m, Fits(m)
  PROVE  Carries(Messages!Encode(m), m)
<1> DEFINE name == m.name
           widths == Messages!Layout[name]
           end == Messages!Ends(widths)
           N == Len(widths)
           field(i) == Messages!Bytes(m.fields[i], widths[i])
           parts == [i \in 1 .. N |-> field(i)]
           body == Messages!FlattenSeq(parts)
           h == Messages!MakeMessageHeader(Messages!Type[name], Messages!BodySize(name))
           e == h \o body
<1>1. /\ name \in Messages!Names /\ DOMAIN m.fields = 1 .. N
      /\ \A i \in 1 .. N : m.fields[i] \in Nat /\ m.fields[i] < Messages!Place[widths[i]]
  BY DEF Fits
<1>2. /\ widths \in Seq(0 .. 8) /\ N \in 1 .. 6
      /\ \A i \in 1 .. N : widths[i] \in {4, 8}
      /\ end \in [0 .. N -> Nat] /\ end[0] = 0
      /\ \A i \in 1 .. N : end[i] = end[i - 1] + widths[i]
      /\ \A i \in 0 .. N : end[i] <= end[N]
      /\ Messages!BodySize(name) = end[N]
      /\ Messages!Size(name) = 12 + end[N]
  BY <1>1, Widths
<1>3. ASSUME NEW i \in 1 .. N
      PROVE  /\ field(i) \in Seq(Nat) /\ Len(field(i)) = widths[i]
             /\ Messages!Number(field(i)) = m.fields[i]
  <2>1. widths[i] \in {2, 4, 8}
    BY <1>2
  <2> QED
    BY <1>1, <2>1, BytesRead
<1> HIDE DEF field
<1>4. /\ parts \in Seq(Seq(Nat)) /\ Len(parts) = N /\ Len(parts) > 0
      /\ \A i \in 1 .. N : parts[i] = field(i) /\ Len(parts[i]) = widths[i]
  <2>0. N \in 1 .. 6
    BY <1>2
  <2> HIDE DEF N
  <2>1. N \in Nat /\ N > 0 /\ \A i \in 1 .. N : field(i) \in Seq(Nat)
    BY <1>3, <2>0
  <2>2. /\ parts \in [1 .. N -> Seq(Nat)]
        /\ \A i \in 1 .. N : parts[i] = field(i)
    BY <2>1
  <2> HIDE DEF parts
  <2>3. parts \in Seq(Seq(Nat)) /\ Len(parts) = N
    BY ONLY <2>1, <2>2
  <2>4. \A i \in 1 .. N : Len(parts[i]) = widths[i]
    BY <1>3, <2>2
  <2> QED
    BY ONLY <2>1, <2>2, <2>3, <2>4
<1>n. N \in 0 .. N /\ end[N] \in Nat
  BY <1>2
<1> HIDE DEF parts
<1>5. Laid(body, parts, widths, N)
  <2>1. \A i \in 1 .. Len(parts) : Len(parts[i]) = widths[i]
    BY <1>4
  <2> HIDE DEF widths, body
  <2>2. Len(parts) = Len(widths)
    BY <1>4
  <2>3. Laid(Messages!FlattenSeq(parts), parts, widths, Len(widths))
    BY <1>2, <1>4, <2>1, <2>2, FlattenLays
  <2> QED
    BY <2>3 DEF body
<1>6. /\ body \in Seq(Nat) /\ Len(body) = end[N]
      /\ \A i \in 1 .. N : \A j \in 1 .. widths[i] : body[end[i - 1] + j] = parts[i][j]
  BY <1>5 DEF Laid
<1>7. Messages!Encode(m) = e
  <2>1. body = Messages!FlattenSeq([i \in DOMAIN m.fields |->
                  Messages!Bytes(m.fields[i], Messages!Layout[m.name][i])])
    BY <1>1 DEF parts, field
  <2>2. Len(body) = Messages!BodySize(name)
    BY <1>2, <1>6
  <2> HIDE DEF body
  <2> QED
    BY <2>1, <2>2 DEF Messages!Encode
<1> HIDE DEF body, end
<1>8. h \in Seq(Nat) /\ Len(h) = 12 /\ Header(h, name)
  BY <1>1, HeaderReads
<1> HIDE DEF h
<1>9. /\ e \in Seq(Nat) /\ Len(e) = 12 + end[N]
      /\ \A j \in 1 .. 12 : e[j] = h[j]
      /\ \A j \in 1 .. end[N] : e[12 + j] = body[j]
  <2>1. h \in Seq(Nat) /\ body \in Seq(Nat)
    BY <1>6, <1>8
  <2>2. /\ e \in Seq(Nat) /\ Len(e) = Len(h) + Len(body)
        /\ \A j \in 1 .. Len(h) : e[j] = h[j]
        /\ \A j \in 1 .. Len(body) : e[Len(h) + j] = body[j]
    BY ONLY <2>1, Concatenated
  <2> HIDE DEF e
  <2> QED
    BY <1>6, <1>8, <2>2
<1> HIDE DEF e
<1>l. Len(e) \in Nat /\ Len(e) >= 12 /\ e \in Seq(Nat) /\ Len(e) = 12 + end[N]
  <2> DEFINE c == end[N]
  <2>1. c \in Nat /\ Len(e) = 12 + c /\ e \in Seq(Nat)
    BY <1>n, <1>9
  <2> HIDE DEF c
  <2>2. Len(e) \in Nat /\ Len(e) >= 12
    BY ONLY <2>1
  <2> QED
    BY <2>1, <2>2 DEF c
<1>10. Header(e, name)
  <2>1. ASSUME NEW a \in 1 .. 12, NEW b \in 1 .. 12, a <= b
        PROVE  SubSeq(e, a, b) = SubSeq(h, a, b)
    <3>1. Len(e) \in Nat /\ 12 <= Len(e) /\ e \in Seq(Nat)
      BY <1>l
    <3>2. \A j \in a .. b : e[j] = h[j]
      <4>1. \A j \in a .. b : j \in 1 .. 12
        OBVIOUS
      <4> QED
        BY <1>9, <4>1
    <3>3. /\ a \in Nat /\ b \in Nat /\ 1 <= a /\ b <= 12
          /\ h \in Seq(Nat) /\ Len(h) = 12
      BY <1>8
    <3> QED
      BY ONLY <3>1, <3>2, <3>3, SameSubSeq
  <2>2. /\ SubSeq(e, 1, 4) = SubSeq(h, 1, 4) /\ SubSeq(e, 5, 6) = SubSeq(h, 5, 6)
        /\ SubSeq(e, 7, 8) = SubSeq(h, 7, 8) /\ SubSeq(e, 9, 12) = SubSeq(h, 9, 12)
    BY <2>1
  <2> QED
    BY <1>8, <2>2 DEF Header
<1>11. ASSUME NEW i \in 1 .. N
       PROVE  SubSeq(e, 12 + end[i - 1] + 1, 12 + end[i]) = field(i)
  <2> DEFINE a == end[i - 1]
             b == end[i]
             p == field(i)
  <2>1. /\ a \in Nat /\ b \in Nat /\ b = a + Len(p) /\ b <= end[N] /\ end[N] \in Nat
        /\ p \in Seq(Nat)
    <3>1. i - 1 \in 0 .. N /\ i \in 0 .. N
      BY <1>2
    <3>2. a \in Nat /\ b \in Nat /\ b <= end[N] /\ b = a + widths[i]
      BY <1>2, <3>1
    <3> QED
      BY <1>n, <1>3, <3>2
  <2>2. \A j \in 1 .. Len(p) : body[a + j] = p[j]
    <3>1. Len(p) = widths[i] /\ parts[i] = p
      BY <1>3, <1>4
    <3> QED
      BY <1>6, <3>1
  <2> HIDE DEF a, b, p
  <2>3. ASSUME NEW j \in 1 .. Len(p) PROVE e[(12 + a) + j] = p[j]
    <3>1. a + j \in 1 .. end[N] /\ 12 + (a + j) = (12 + a) + j
      BY <2>1
    <3>2. e[12 + (a + j)] = body[a + j]
      BY <1>9, <3>1
    <3> QED
      BY <2>2, <3>1, <3>2
  <2>4. 12 + a \in Nat /\ 12 + b \in Nat /\ 12 + b = (12 + a) + Len(p) /\ 12 + b <= Len(e)
    <3> DEFINE c == end[N]
    <3>1. c \in Nat /\ Len(e) = 12 + c /\ a \in Nat /\ b \in Nat /\ b <= c
      BY <1>l, <2>1
    <3>2. b = a + Len(p) /\ Len(p) \in Nat
      BY <2>1
    <3> HIDE DEF c
    <3> QED
      BY ONLY <3>1, <3>2
  <2>5. SubSeq(e, (12 + a) + 1, 12 + b) = p
    BY <1>9, <2>1, <2>3, <2>4, PartOf
  <2> QED
    BY <2>5 DEF a, b, p
<1>12. \A i \in 1 .. N :
          Messages!Number(SubSeq(e, 12 + end[i - 1] + 1, 12 + end[i])) = m.fields[i]
  BY <1>3, <1>11
<1> QED
  BY <1>2, <1>7, <1>9, <1>10, <1>12 DEF Carries, end, N, widths, name

LEMMA Encoded ==
  ASSUME NEW m \in Messages!Messages
  PROVE  /\ m.name \in Messages!Names
         /\ Messages!Encode(m) \in Seq(Nat)
         /\ Len(Messages!Encode(m)) = Messages!Size(m.name)
         /\ Messages!Size(m.name) \in Nat /\ Messages!Size(m.name) >= 12
<1>1. Fits(m) /\ m.name \in Messages!Names
  BY MessagesFit DEF Fits
<1>2. /\ Messages!Encode(m) \in Seq(Nat)
      /\ Len(Messages!Encode(m)) = Messages!Size(m.name)
  BY <1>1, EncodeCarries DEF Carries
<1>3. /\ Messages!Size(m.name) = 12 + Messages!BodySize(m.name)
      /\ Messages!BodySize(m.name) \in 0 .. 48
  BY <1>1, Widths
<1>4. Messages!Size(m.name) \in Nat /\ Messages!Size(m.name) >= 12
  BY <1>3
<1> QED
  BY <1>1, <1>2, <1>4

(* A parser accepts its own message and reads its numbers from it,         *)
LEMMA ParsesOwn ==
  ASSUME NEW m \in Messages!Messages
  PROVE  /\ Messages!Accepts(m.name, Messages!Encode(m))
         /\ [name |-> m.name, fields |-> Messages!Fields(m.name, Messages!Encode(m))] = m
<1> DEFINE e == Messages!Encode(m)
           widths == Messages!Layout[m.name]
           end == Messages!Ends(widths)
           N == Len(widths)
<1>1. Fits(m) /\ m.name \in Messages!Names
  BY MessagesFit DEF Fits
<1>2. /\ e \in Seq(Nat) /\ Len(e) = Messages!Size(m.name) /\ Header(e, m.name)
      /\ \A i \in 1 .. N :
            Messages!Number(SubSeq(e, 12 + end[i - 1] + 1, 12 + end[i])) = m.fields[i]
  BY <1>1, EncodeCarries DEF Carries
<1>3. Messages!Size(m.name) \in Nat
  BY Encoded
<1>4. Messages!Accepts(m.name, e)
  BY <1>2, <1>3 DEF Messages!Accepts, Header
<1>5. Messages!HeaderSize = 12 /\ DOMAIN widths = 1 .. N
  <2>1. widths \in Seq({4, 8})
    BY <1>1, Layouts
  <2> QED
    BY <2>1 DEF Messages!HeaderSize
<1> DEFINE value(i) == Messages!Number(SubSeq(e, 12 + end[i - 1] + 1, 12 + end[i]))
<1>6. Messages!Fields(m.name, e) = [i \in 1 .. N |-> value(i)]
  BY <1>5 DEF Messages!Fields
<1>7. /\ \A i \in 1 .. N : value(i) = m.fields[i]
      /\ m.fields = [i \in 1 .. N |-> m.fields[i]]
      /\ m = [name |-> m.name, fields |-> m.fields]
  BY <1>1, <1>2 DEF Fits
<1> HIDE DEF value, N
<1>8. Messages!Fields(m.name, e) = m.fields
  BY <1>6, <1>7
<1> QED
  BY <1>4, <1>7, <1>8

(* and refuses what begins with the header of another.                     *)
LEMMA RefusesOther ==
  ASSUME NEW m \in Messages!Messages, NEW name \in Messages!Names,
         NEW data \in Seq(Nat), Len(data) >= 12,
         \A j \in 1 .. 12 : data[j] = Messages!Encode(m)[j],
         Messages!Accepts(name, data)
  PROVE  name = m.name
<1> DEFINE e == Messages!Encode(m)
<1>1. /\ m.name \in Messages!Names /\ e \in Seq(Nat) /\ Len(e) >= 12
  <2>1. /\ m.name \in Messages!Names /\ e \in Seq(Nat) /\ Len(e) = Messages!Size(m.name)
        /\ Messages!Size(m.name) \in Nat /\ Messages!Size(m.name) >= 12
    BY Encoded
  <2> QED
    BY <2>1
<1>2. Messages!Number(SubSeq(e, 7, 8)) = Messages!Type[m.name]
  <2>1. Fits(m)
    BY MessagesFit
  <2> QED
    BY <2>1, EncodeCarries DEF Carries, Header
<1>3. SubSeq(data, 7, 8) = SubSeq(e, 7, 8)
  <2>1. \A j \in 7 .. 8 : data[j] = e[j]
    <3>1. \A j \in 7 .. 8 : j \in 1 .. 12
      OBVIOUS
    <3> QED
      BY <3>1
  <2> HIDE DEF e
  <2>2. 8 <= Len(data) /\ 8 <= Len(e)
    <3>1. Len(data) \in Nat /\ Len(e) \in Nat
      <4>1. data \in Seq(Nat) /\ e \in Seq(Nat)
        BY <1>1
      <4> QED
        BY ONLY <4>1
    <3>2. Len(data) >= 12 /\ Len(e) >= 12
      BY <1>1
    <3> QED
      BY ONLY <3>1, <3>2
  <2> QED
    BY <1>1, <2>1, <2>2, SameSubSeq
<1>4. Messages!Number(SubSeq(data, 7, 8)) = Messages!Type[name]
  BY DEF Messages!Accepts
<1> QED
  BY <1>1, <1>2, <1>3, <1>4, TypesDiffer

(* What is on the connection: the messages from the one after the r-th on, *)
(* of which the i-th ends at place P[i], and behind them, when the peer    *)
(* has died, less than a whole message.                                    *)
Partial(b, p) ==
    \E m \in Messages!Messages :
        /\ Len(b) - p < Len(Messages!Encode(m))
        /\ \A j \in 1 .. Len(b) - p : b[p + j] = Messages!Encode(m)[j]

Holds(P, b, r, s, c) ==
    /\ P[r] = 0
    /\ \A i \in r .. Len(s) : P[i] <= Len(b)
    /\ \A i \in r + 1 .. Len(s) :
          /\ P[i] = P[i - 1] + Len(Messages!Encode(s[i]))
          /\ \A j \in 1 .. Len(Messages!Encode(s[i])) :
                b[P[i - 1] + j] = Messages!Encode(s[i])[j]
    /\ IF c THEN Partial(b, P[Len(s)]) ELSE Len(b) = P[Len(s)]

LEMMA OneMore ==
  ASSUME NEW s \in Seq(Messages!Messages), NEW r \in 0 .. Len(s), NEW b \in Seq(Nat),
         NEW P \in [r .. Len(s) -> Nat], Holds(P, b, r, s, FALSE),
         NEW m \in Messages!Messages
  PROVE  \E Q \in [r .. Len(s) + 1 -> Nat] :
            Holds(Q, b \o Messages!Encode(m), r, Append(s, m), FALSE)
<1> DEFINE n == Len(s)
           e == Messages!Encode(m)
           t == Append(s, m)
           d == b \o e
           Q == [i \in r .. n + 1 |-> IF i <= n THEN P[i] ELSE Len(d)]
<1>1. n \in Nat /\ r \in Nat /\ r <= n /\ n \in r .. n
  OBVIOUS
<1>2. e \in Seq(Nat) /\ Len(e) \in Nat
  BY Encoded
<1>3. /\ t \in Seq(Messages!Messages) /\ Len(t) = n + 1 /\ t[n + 1] = m
      /\ \A i \in 1 .. n : t[i] = s[i]
  OBVIOUS
<1>4. /\ P[r] = 0 /\ Len(b) = P[n]
      /\ \A i \in r .. n : P[i] <= Len(b)
      /\ \A i \in r + 1 .. n :
          /\ P[i] = P[i - 1] + Len(Messages!Encode(s[i]))
          /\ \A j \in 1 .. Len(Messages!Encode(s[i])) :
                b[P[i - 1] + j] = Messages!Encode(s[i])[j]
  BY DEF Holds
<1>5. /\ d \in Seq(Nat) /\ Len(d) = Len(b) + Len(e) /\ Len(b) \in Nat
      /\ \A j \in 1 .. Len(b) : d[j] = b[j]
      /\ \A j \in 1 .. Len(e) : d[Len(b) + j] = e[j]
  BY <1>2, Concatenated
<1> HIDE DEF n, e, t, d
<1>6. /\ Q \in [r .. n + 1 -> Nat] /\ Q[n + 1] = Len(d)
      /\ \A i \in r .. n : Q[i] = P[i]
  <2>1. Len(d) \in Nat /\ \A i \in r .. n : P[i] \in Nat
    <3>1. \A i \in r .. n : P[i] \in Nat
      BY DEF n
    <3> QED
      BY <1>2, <1>5, <3>1
  <2>2. \A i \in r .. n + 1 : i <= n => i \in r .. n
    BY <1>1
  <2>3. n + 1 \in r .. n + 1 /\ ~(n + 1 <= n) /\ \A i \in r .. n : i \in r .. n + 1 /\ i <= n
    BY <1>1
  <2> QED
    BY ONLY <2>1, <2>2, <2>3
<1> HIDE DEF Q
<1>7. Q[r] = 0
  BY <1>1, <1>4, <1>6
<1>8. ASSUME NEW i \in r .. n + 1 PROVE Q[i] <= Len(d)
  <2>1. CASE i = n + 1
    BY <1>2, <1>5, <1>6, <2>1
  <2>2. CASE i \in r .. n
    <3>1. Q[i] = P[i] /\ P[i] \in Nat /\ P[i] <= Len(b)
      BY <1>4, <1>6, <2>2 DEF n
    <3> QED
      BY <1>2, <1>5, <3>1
  <2> QED
    BY <1>1, <2>1, <2>2
<1>9. ASSUME NEW i \in r + 1 .. n + 1
      PROVE  /\ Q[i] = Q[i - 1] + Len(Messages!Encode(t[i]))
             /\ \A j \in 1 .. Len(Messages!Encode(t[i])) :
                   d[Q[i - 1] + j] = Messages!Encode(t[i])[j]
  <2>1. CASE i = n + 1
    <3>1. Q[i] = Len(d) /\ Q[i - 1] = Len(b) /\ t[i] = m
      <4>1. i - 1 = n
        BY <1>1, <2>1
      <4> QED
        BY <1>1, <1>3, <1>4, <1>6, <2>1, <4>1
    <3> QED
      BY <1>5, <3>1 DEF e
  <2>2. CASE i \in r + 1 .. n
    <3>1. i - 1 \in r .. n /\ i \in r .. n /\ i \in 1 .. n
      BY <1>1, <2>2
    <3>2. Q[i] = P[i] /\ Q[i - 1] = P[i - 1] /\ t[i] = s[i]
      BY <1>3, <1>6, <3>1
    <3>3. /\ P[i] = P[i - 1] + Len(Messages!Encode(s[i]))
          /\ \A j \in 1 .. Len(Messages!Encode(s[i])) :
                b[P[i - 1] + j] = Messages!Encode(s[i])[j]
      BY <1>4, <2>2
    <3>4. P[i] <= Len(b) /\ P[i] \in Nat /\ P[i - 1] \in Nat
      BY <1>4, <3>1 DEF n
    <3>5. s[i] \in Messages!Messages
      BY <3>1 DEF n
    <3>6. Len(Messages!Encode(s[i])) \in Nat
      BY <3>5, Encoded
    <3>7. \A j \in 1 .. Len(Messages!Encode(s[i])) : P[i - 1] + j \in 1 .. Len(b)
      <4> DEFINE k == Len(Messages!Encode(s[i]))
                 x == P[i - 1]
      <4>1. k \in Nat /\ x \in Nat /\ x + k <= Len(b) /\ Len(b) \in Nat
        BY <1>5, <3>3, <3>4, <3>6
      <4> HIDE DEF k, x
      <4>2. \A j \in 1 .. k : x + j \in 1 .. Len(b)
        BY ONLY <4>1
      <4> QED
        BY <4>2 DEF k, x
    <3>8. \A j \in 1 .. Len(Messages!Encode(s[i])) :
             d[P[i - 1] + j] = Messages!Encode(s[i])[j]
      BY <1>5, <3>3, <3>7
    <3> QED
      BY <3>2, <3>3, <3>8
  <2> QED
    BY <1>1, <2>1, <2>2
<1>10. Holds(Q, d, r, t, FALSE)
  BY <1>3, <1>6, <1>7, <1>8, <1>9 DEF Holds
<1> QED
  BY <1>6, <1>10 DEF n, e, t, d

LEMMA Rest ==
  ASSUME NEW s \in Seq(Nat), NEW a \in 0 .. Len(s)
  PROVE  /\ SubSeq(s, a + 1, Len(s)) \in Seq(Nat)
         /\ Len(SubSeq(s, a + 1, Len(s))) = Len(s) - a
         /\ \A j \in 1 .. Len(s) - a : SubSeq(s, a + 1, Len(s))[j] = s[a + j]
<1> DEFINE u == SubSeq(s, a + 1, Len(s))
           n == Len(s)
<1>1. u = [j \in 1 .. (n - (a + 1)) + 1 |-> s[(j + (a + 1)) - 1]]
  OBVIOUS
<1>2. (n - (a + 1)) + 1 = n - a /\ n - a \in Nat
  OBVIOUS
<1>3. \A j \in 1 .. n - a : (j + (a + 1)) - 1 = a + j /\ a + j \in 1 .. n
  OBVIOUS
<1>4. \A j \in 1 .. n : s[j] \in Nat
  OBVIOUS
<1> HIDE DEF u, n
<1>5. u = [j \in 1 .. n - a |-> s[a + j]]
  BY ONLY <1>1, <1>2, <1>3
<1>6. \A j \in 1 .. n - a : s[a + j] \in Nat
  BY ONLY <1>3, <1>4
<1>7. u \in Seq(Nat) /\ Len(u) = n - a /\ \A j \in 1 .. n - a : u[j] = s[a + j]
  BY ONLY <1>2, <1>5, <1>6
<1> QED
  BY <1>7 DEF u, n

LEMMA OnePart ==
  ASSUME NEW s \in Seq(Messages!Messages), NEW r \in 0 .. Len(s), NEW b \in Seq(Nat),
         NEW P \in [r .. Len(s) -> Nat], Holds(P, b, r, s, FALSE),
         NEW m \in Messages!Messages, NEW k \in Nat, k < Len(Messages!Encode(m))
  PROVE  Holds(P, b \o SubSeq(Messages!Encode(m), 1, k), r, s, TRUE)
<1> DEFINE n == Len(s)
           e == Messages!Encode(m)
           p == SubSeq(e, 1, k)
           d == b \o p
<1>1. n \in Nat /\ r \in Nat /\ r <= n /\ n \in r .. n
  OBVIOUS
<1>2. e \in Seq(Nat) /\ Len(e) \in Nat /\ k < Len(e)
  BY Encoded
<1>3. /\ P[r] = 0 /\ Len(b) = P[n]
      /\ \A i \in r .. n : P[i] <= Len(b)
      /\ \A i \in r + 1 .. n :
          /\ P[i] = P[i - 1] + Len(Messages!Encode(s[i]))
          /\ \A j \in 1 .. Len(Messages!Encode(s[i])) :
                b[P[i - 1] + j] = Messages!Encode(s[i])[j]
  BY DEF Holds
<1>4. p \in Seq(Nat) /\ Len(p) = k /\ \A j \in 1 .. k : p[j] = e[j]
  <2> HIDE DEF e
  <2> QED
    BY <1>2
<1>5. /\ d \in Seq(Nat) /\ Len(d) = Len(b) + k /\ Len(b) \in Nat
      /\ \A j \in 1 .. Len(b) : d[j] = b[j]
      /\ \A j \in 1 .. k : d[Len(b) + j] = p[j]
  <2>1. b \in Seq(Nat) /\ p \in Seq(Nat)
    BY <1>4
  <2>2. /\ d \in Seq(Nat) /\ Len(d) = Len(b) + Len(p) /\ Len(b) \in Nat
        /\ \A j \in 1 .. Len(b) : d[j] = b[j]
        /\ \A j \in 1 .. Len(p) : d[Len(b) + j] = p[j]
    BY ONLY <2>1, Concatenated
  <2>3. Len(p) = k
    BY <1>4
  <2> HIDE DEF p, d
  <2> QED
    BY ONLY <2>2, <2>3
<1> HIDE DEF n, e, p, d
<1>6. ASSUME NEW i \in r .. n PROVE P[i] <= Len(d)
  <2>1. P[i] \in Nat /\ P[i] <= Len(b)
    BY <1>3 DEF n
  <2> QED
    BY <1>5, <2>1
<1>7. ASSUME NEW i \in r + 1 .. n, NEW j \in 1 .. Len(Messages!Encode(s[i]))
      PROVE  d[P[i - 1] + j] = Messages!Encode(s[i])[j]
  <2>1. i - 1 \in r .. n /\ i \in r .. n /\ i \in 1 .. n
    BY <1>1
  <2> DEFINE c == Len(Messages!Encode(s[i]))
             x == P[i - 1]
  <2>2. s[i] \in Messages!Messages
    BY <2>1 DEF n
  <2>3. P[i] <= Len(b) /\ P[i] = x + c /\ x \in Nat /\ c \in Nat /\ j \in 1 .. c
    <3>1. x \in Nat /\ P[i] \in Nat
      BY <2>1 DEF n
    <3>2. c \in Nat
      BY <2>2, Encoded
    <3> QED
      BY <1>3, <2>1, <3>1, <3>2
  <2>4. x + j \in 1 .. Len(b)
    <3> HIDE DEF c, x
    <3> QED
      BY <1>5, <2>3
  <2>5. b[x + j] = Messages!Encode(s[i])[j]
    BY <1>3
  <2> QED
    BY <1>5, <2>4, <2>5
<1>8. Partial(d, P[n])
  <2>1. Len(d) - P[n] = k
    BY <1>3, <1>5
  <2>2. \A j \in 1 .. k : d[P[n] + j] = e[j]
    BY <1>3, <1>4, <1>5
  <2> QED
    BY <1>2, <2>1, <2>2 DEF Partial, e
<1>9. Holds(P, d, r, s, TRUE)
  BY <1>3, <1>6, <1>7, <1>8 DEF Holds, n
<1> QED
  BY <1>9 DEF d, p, e

LEMMA OneLess ==
  ASSUME NEW s \in Seq(Messages!Messages), NEW r \in 0 .. Len(s), r < Len(s),
         NEW b \in Seq(Nat), NEW c \in BOOLEAN,
         NEW P \in [r .. Len(s) -> Nat], Holds(P, b, r, s, c)
  PROVE  LET e == Messages!Encode(s[r + 1])
         IN  /\ Len(e) <= Len(b) /\ \A j \in 1 .. Len(e) : b[j] = e[j]
             /\ SubSeq(b, 1, Len(e)) = e
             /\ \E Q \in [r + 1 .. Len(s) -> Nat] :
                   Holds(Q, SubSeq(b, Len(e) + 1, Len(b)), r + 1, s, c)
<1> DEFINE n == Len(s)
           e == Messages!Encode(s[r + 1])
           z == Len(e)
           d == SubSeq(b, z + 1, Len(b))
           Q == [i \in r + 1 .. n |-> P[i] - z]
<1>1. n \in Nat /\ r \in Nat /\ r + 1 <= n /\ r + 1 \in 1 .. n /\ Len(b) \in Nat
  OBVIOUS
<1>2. s[r + 1] \in Messages!Messages /\ \A i \in 1 .. n : s[i] \in Messages!Messages
  BY <1>1
<1>3. e \in Seq(Nat) /\ z \in Nat
  BY <1>2, Encoded
<1>4. /\ P[r] = 0
      /\ \A i \in r .. n : P[i] <= Len(b) /\ P[i] \in Nat
      /\ \A i \in r + 1 .. n :
          /\ P[i] = P[i - 1] + Len(Messages!Encode(s[i]))
          /\ \A j \in 1 .. Len(Messages!Encode(s[i])) :
                b[P[i - 1] + j] = Messages!Encode(s[i])[j]
      /\ IF c THEN Partial(b, P[n]) ELSE Len(b) = P[n]
  BY DEF Holds
<1> HIDE DEF n
<1>5. P[r + 1] = z /\ z <= Len(b) /\ \A j \in 1 .. z : b[j] = e[j]
  <2>1. r + 1 \in r + 1 .. n /\ (r + 1) - 1 = r /\ r + 1 \in r .. n
    BY <1>1
  <2>2. /\ P[r + 1] = 0 + z /\ \A j \in 1 .. z : b[0 + j] = e[j]
        /\ P[r + 1] <= Len(b)
    BY <1>4, <2>1
  <2>3. \A j \in 1 .. z : 0 + j = j
    BY <1>3
  <2> HIDE DEF z, e
  <2> QED
    BY <1>3, <2>2, <2>3
<1> HIDE DEF e, z
<1>6. /\ d \in Seq(Nat) /\ Len(d) = Len(b) - z
      /\ \A j \in 1 .. Len(b) - z : d[j] = b[z + j]
  <2>1. b \in Seq(Nat) /\ z \in 0 .. Len(b)
    BY <1>1, <1>3, <1>5
  <2> QED
    BY ONLY <2>1, Rest
<1>7. SubSeq(b, 1, z) = e
  <2>1. \A j \in 1 .. Len(e) : b[0 + j] = e[j]
    <3>1. \A j \in 1 .. Len(e) : 0 + j = j
      BY <1>3
    <3> QED
      BY <1>5, <3>1 DEF z
  <2>2. z = 0 + Len(e) /\ z <= Len(b) /\ 0 + 1 = 1
    BY <1>3, <1>5 DEF z
  <2> QED
    BY <1>3, <2>1, <2>2, PartOf
<1> HIDE DEF d
<1>8. \A i \in r + 1 .. n : P[i] >= z
  <2> DEFINE G == {k \in Nat : r + 1 + k <= n => P[r + 1 + k] >= z}
  <2>1. 0 \in G
    <3>1. (r + 1) + 0 = r + 1
      OBVIOUS
    <3> QED
      BY <1>3, <1>5, <3>1
  <2>2. ASSUME NEW k \in Nat, k \in G PROVE k + 1 \in G
    <3> SUFFICES ASSUME (r + 1) + (k + 1) <= n PROVE P[(r + 1) + (k + 1)] >= z
      OBVIOUS
    <3> DEFINE i == (r + 1) + (k + 1)
    <3>1. /\ i \in r + 1 .. n /\ i - 1 = (r + 1) + k /\ i - 1 \in r .. n /\ i \in r .. n
          /\ i \in 1 .. n
      BY <1>1
    <3>2. P[i - 1] >= z /\ P[i - 1] \in Nat
      BY <1>4, <2>2, <3>1
    <3>3. Len(Messages!Encode(s[i])) \in Nat
      BY <1>2, <3>1, Encoded
    <3>4. P[i] = P[i - 1] + Len(Messages!Encode(s[i]))
      BY <1>4, <3>1
    <3> HIDE DEF i
    <3> QED
      BY <1>3, <3>2, <3>3, <3>4 DEF i
  <2>3. \A k \in Nat : k \in G
    <3> HIDE DEF G
    <3> QED
      BY <2>1, <2>2, SetInduction
  <2>4. ASSUME NEW i \in r + 1 .. n PROVE P[i] >= z
    <3>1. i - (r + 1) \in Nat /\ (r + 1) + (i - (r + 1)) = i /\ i <= n
      BY <1>1
    <3> QED
      BY <2>3, <3>1
  <2> QED
    BY <2>4
<1>9. /\ Q \in [r + 1 .. n -> Nat]
      /\ \A i \in r + 1 .. n : Q[i] = P[i] - z /\ P[i] = z + Q[i] /\ Q[i] \in Nat
  <2>1. ASSUME NEW i \in r + 1 .. n PROVE P[i] - z \in Nat /\ P[i] = z + (P[i] - z)
    <3>0. i \in r .. n
      BY <1>1
    <3>1. P[i] \in Nat /\ P[i] >= z
      BY <1>4, <1>8, <3>0
    <3> QED
      BY <1>3, <3>1
  <2> QED
    BY <2>1
<1> HIDE DEF Q
<1>10. Q[r + 1] = 0
  <2>1. r + 1 \in r + 1 .. n
    BY <1>1
  <2> QED
    BY <1>3, <1>5, <1>9, <2>1
<1>11. ASSUME NEW i \in r + 1 .. n PROVE Q[i] <= Len(d)
  <2>0. i \in r .. n
    BY <1>1
  <2>1. P[i] <= Len(b) /\ P[i] \in Nat
    BY <1>4, <2>0
  <2>2. Q[i] = P[i] - z
    BY <1>9
  <2> QED
    BY <1>1, <1>3, <1>6, <2>1, <2>2
<1>12. ASSUME NEW i \in r + 2 .. n
       PROVE  /\ Q[i] = Q[i - 1] + Len(Messages!Encode(s[i]))
              /\ \A j \in 1 .. Len(Messages!Encode(s[i])) :
                    d[Q[i - 1] + j] = Messages!Encode(s[i])[j]
  <2> DEFINE k == Len(Messages!Encode(s[i]))
             x == Q[i - 1]
  <2>1. /\ i \in r + 1 .. n /\ i - 1 \in r + 1 .. n /\ i \in 1 .. n /\ i \in r .. n
    BY <1>1
  <2>2. k \in Nat
    BY <1>2, <2>1, Encoded
  <2>3. /\ P[i] = P[i - 1] + k /\ P[i] <= Len(b)
        /\ \A j \in 1 .. k : b[P[i - 1] + j] = Messages!Encode(s[i])[j]
    BY <1>4, <2>1
  <2>4. x \in Nat /\ P[i - 1] = z + x /\ P[i] = z + Q[i] /\ Q[i] \in Nat
    BY <1>9, <2>1
  <2> HIDE DEF k, x
  <2>5. Q[i] = x + k /\ x + k <= Len(b) - z
    <3> DEFINE q == Q[i]
               y == P[i]
               v == P[i - 1]
               w == Len(b)
    <3>1. /\ z \in Nat /\ k \in Nat /\ x \in Nat /\ q \in Nat /\ w \in Nat
          /\ y = v + k /\ y <= w /\ v = z + x /\ y = z + q
      BY <1>1, <1>3, <2>2, <2>3, <2>4
    <3> HIDE DEF q, y, v, w
    <3>2. q = x + k /\ x + k <= w - z
      BY ONLY <3>1
    <3> QED
      BY <3>2 DEF q, w
  <2>6. ASSUME NEW j \in 1 .. k PROVE d[x + j] = Messages!Encode(s[i])[j]
    <3>1. x + j \in 1 .. Len(b) - z /\ z + (x + j) = (z + x) + j
      BY <1>1, <1>3, <2>2, <2>4, <2>5
    <3>2. d[x + j] = b[z + (x + j)]
      BY <1>6, <3>1
    <3> QED
      BY <2>3, <2>4, <3>1, <3>2
  <2> QED
    BY <2>5, <2>6 DEF k, x
<1>13. IF c THEN Partial(d, Q[n]) ELSE Len(d) = Q[n]
  <2>1. n \in r + 1 .. n
    BY <1>1
  <2>2. P[n] = z + Q[n] /\ Q[n] \in Nat /\ Q[n] <= Len(d)
    BY <1>9, <1>11, <2>1
  <2>3. CASE ~c
    <3>1. Len(b) = P[n]
      BY <1>4, <2>3
    <3>2. Len(d) = Q[n]
      BY <1>1, <1>3, <1>6, <2>2, <3>1
    <3> QED
      BY <2>3, <3>2
  <2>4. CASE c
    <3>1. PICK m \in Messages!Messages :
             /\ Len(b) - P[n] < Len(Messages!Encode(m))
             /\ \A j \in 1 .. Len(b) - P[n] : b[P[n] + j] = Messages!Encode(m)[j]
      BY <1>4, <2>4 DEF Partial
    <3>2. Len(d) - Q[n] = Len(b) - P[n]
      BY <1>1, <1>3, <1>6, <2>2
    <3>3. ASSUME NEW j \in 1 .. Len(d) - Q[n]
          PROVE  d[Q[n] + j] = Messages!Encode(m)[j]
      <4>1. Q[n] + j \in 1 .. Len(b) - z /\ z + (Q[n] + j) = (z + Q[n]) + j
        <5> DEFINE q == Q[n]
                   v == Len(d)
                   w == Len(b)
        <5>1. /\ z \in Nat /\ q \in Nat /\ w \in Nat /\ j \in 1 .. v - q
              /\ v = w - z /\ q <= v /\ z <= w
          BY <1>1, <1>3, <1>5, <1>6, <2>2
        <5> HIDE DEF q, v, w
        <5>2. q + j \in 1 .. w - z /\ z + (q + j) = (z + q) + j
          BY ONLY <5>1
        <5> QED
          BY <5>2 DEF q, w
      <4>2. d[Q[n] + j] = b[z + (Q[n] + j)]
        BY <1>6, <4>1
      <4> QED
        BY <2>2, <3>1, <3>2, <4>1, <4>2
    <3>4. Partial(d, Q[n])
      BY <3>1, <3>2, <3>3 DEF Partial
    <3> QED
      BY <2>4, <3>4
  <2> QED
    BY <2>3, <2>4
<1>14. Holds(Q, d, r + 1, s, c)
  <2>1. (r + 1) + 1 = r + 2
    OBVIOUS
  <2> QED
    BY <1>10, <1>11, <1>12, <1>13, <2>1 DEF Holds, n
<1> QED
  BY <1>5, <1>7, <1>9, <1>14 DEF n, d, e, z

(* The invariant of the connection.                                        *)
InOrder ==
    /\ Len(received) <= Len(sent)
    /\ \A i \in 1 .. Len(received) : received[i] = sent[i]

OnConnection ==
    \E P \in [Len(received) .. Len(sent) -> Nat] :
        Holds(P, bytes, Len(received), sent, cut)

MessagesInv ==
    /\ sent \in Seq(Messages!Messages) /\ received \in Seq(Messages!Messages)
    /\ bytes \in Seq(Nat) /\ cut \in BOOLEAN
    /\ InOrder /\ OnConnection /\ Messages!AcceptsItsOwn

LEMMA MessagesBegin == Messages!Init => MessagesInv
<1> SUFFICES ASSUME Messages!Init PROVE MessagesInv
  OBVIOUS
<1>1. sent = <<>> /\ bytes = <<>> /\ cut = FALSE /\ received = <<>> /\ refused = {}
  BY DEF Messages!Init
<1>2. /\ sent \in Seq(Messages!Messages) /\ received \in Seq(Messages!Messages)
      /\ bytes \in Seq(Nat) /\ Len(sent) = 0 /\ Len(received) = 0 /\ Len(bytes) = 0
  BY <1>1
<1> DEFINE P == [i \in 0 .. 0 |-> 0]
<1>3. P \in [0 .. 0 -> Nat] /\ P[0] = 0 /\ Holds(P, bytes, 0, sent, cut)
  <2>1. P[0] = 0 /\ P \in [0 .. 0 -> Nat]
    OBVIOUS
  <2>2. \A i \in 0 .. 0 : i = 0
    OBVIOUS
  <2>3. \A i \in 0 + 1 .. 0 : FALSE
    OBVIOUS
  <2> HIDE DEF P
  <2>4. \A i \in 0 .. Len(sent) : P[i] <= Len(bytes)
    BY <1>2, <2>1, <2>2
  <2> QED
    BY <1>1, <1>2, <2>1, <2>3, <2>4 DEF Holds
<1> HIDE DEF P
<1>4. OnConnection
  BY <1>2, <1>3 DEF OnConnection
<1>5. InOrder
  BY <1>2 DEF InOrder
<1> QED
  BY <1>1, <1>2, <1>4, <1>5 DEF MessagesInv, Messages!AcceptsItsOwn

LEMMA WriteStep ==
  ASSUME MessagesInv, NEW m \in Messages!Messages, Messages!Write(m)
  PROVE  MessagesInv'
<1> DEFINE n == Len(sent)
           r == Len(received)
<1>1. /\ sent \in Seq(Messages!Messages) /\ received \in Seq(Messages!Messages)
      /\ bytes \in Seq(Nat) /\ cut = FALSE /\ refused = {}
      /\ sent' = Append(sent, m) /\ bytes' = bytes \o Messages!Encode(m)
      /\ cut' = cut /\ received' = received /\ refused' = refused
  BY DEF MessagesInv, Messages!Write
<1>2. r \in 0 .. n /\ \A i \in 1 .. r : received[i] = sent[i]
  BY <1>1 DEF MessagesInv, InOrder
<1>3. PICK P \in [r .. n -> Nat] : Holds(P, bytes, r, sent, FALSE)
  BY <1>1 DEF MessagesInv, OnConnection
<1>4. \E Q \in [r .. n + 1 -> Nat] :
         Holds(Q, bytes \o Messages!Encode(m), r, Append(sent, m), FALSE)
  BY <1>1, <1>2, <1>3, OneMore
<1>5. /\ sent' \in Seq(Messages!Messages) /\ Len(sent') = n + 1
      /\ \A i \in 1 .. n : sent'[i] = sent[i]
  BY <1>1
<1>6. OnConnection'
  BY <1>1, <1>4, <1>5 DEF OnConnection
<1>7. InOrder'
  <2>1. Len(received') <= Len(sent')
    BY <1>1, <1>2, <1>5
  <2>2. \A i \in 1 .. Len(received') : received'[i] = sent'[i]
    BY <1>1, <1>2, <1>5
  <2> QED
    BY <2>1, <2>2 DEF InOrder
<1>8. bytes' \in Seq(Nat)
  <2>1. bytes \in Seq(Nat) /\ Messages!Encode(m) \in Seq(Nat)
    BY <1>1, Encoded
  <2>2. bytes \o Messages!Encode(m) \in Seq(Nat)
    BY ONLY <2>1, Concatenated
  <2> QED
    BY <1>1, <2>2
<1> QED
  BY <1>1, <1>5, <1>6, <1>7, <1>8 DEF MessagesInv, Messages!AcceptsItsOwn

LEMMA WritePartStep ==
  ASSUME MessagesInv, NEW m \in Messages!Messages, Messages!WritePart(m)
  PROVE  MessagesInv'
<1> DEFINE r == Len(received)
<1>1. /\ sent \in Seq(Messages!Messages) /\ received \in Seq(Messages!Messages)
      /\ bytes \in Seq(Nat) /\ cut = FALSE /\ cut' = TRUE /\ refused = {}
      /\ sent' = sent /\ received' = received /\ refused' = refused
  BY DEF MessagesInv, Messages!WritePart
<1>2. PICK k \in CutPoints :
         /\ k < Len(Messages!Encode(m))
         /\ bytes' = bytes \o SubSeq(Messages!Encode(m), 1, k)
  BY DEF Messages!WritePart
<1>3. k \in Nat
  BY WireAndDiskConstants DEF Messages!StreamAssumption
<1>4. r \in 0 .. Len(sent)
  BY <1>1 DEF MessagesInv, InOrder
<1>5. PICK P \in [r .. Len(sent) -> Nat] : Holds(P, bytes, r, sent, FALSE)
  BY <1>1 DEF MessagesInv, OnConnection
<1>6. Holds(P, bytes', r, sent, TRUE)
  BY <1>1, <1>2, <1>3, <1>4, <1>5, OnePart
<1>7. OnConnection'
  BY <1>1, <1>5, <1>6 DEF OnConnection
<1>8. bytes' \in Seq(Nat)
  <2> DEFINE p == SubSeq(Messages!Encode(m), 1, k)
  <2>1. Messages!Encode(m) \in Seq(Nat)
    BY Encoded
  <2>2. bytes \in Seq(Nat) /\ p \in Seq(Nat)
    BY <1>1, <1>2, <1>3, <2>1
  <2> HIDE DEF p
  <2>3. bytes \o p \in Seq(Nat)
    BY ONLY <2>2, Concatenated
  <2> QED
    BY <1>2, <2>3 DEF p
<1>9. InOrder'
  BY <1>1 DEF MessagesInv, InOrder
<1> QED
  BY <1>1, <1>7, <1>8, <1>9 DEF MessagesInv, Messages!AcceptsItsOwn

(* What a parser is given begins with a header, if it accepts it: that of  *)
(* the message that comes next, whole.                                     *)
LEMMA AcceptsTheNext ==
  ASSUME MessagesInv, NEW name \in Messages!Names,
         Len(bytes) >= Messages!Size(name),
         Messages!Accepts(name, SubSeq(bytes, 1, Messages!Size(name)))
  PROVE  Len(received) < Len(sent) /\ sent[Len(received) + 1].name = name
<1> DEFINE r == Len(received)
           n == Len(sent)
           z == Messages!Size(name)
           data == SubSeq(bytes, 1, z)
<1>1. /\ sent \in Seq(Messages!Messages) /\ received \in Seq(Messages!Messages)
      /\ bytes \in Seq(Nat) /\ cut \in BOOLEAN /\ r \in 0 .. n /\ n \in Nat
  BY DEF MessagesInv, InOrder
<1>2. z \in Nat /\ z >= 12 /\ Len(bytes) \in Nat
  <2>1. z = 12 + Messages!BodySize(name) /\ Messages!BodySize(name) \in 0 .. 48
    BY Widths
  <2> HIDE DEF z
  <2>2. z \in Nat /\ z >= 12
    BY ONLY <2>1
  <2> QED
    BY <1>1, <2>2
<1>3. PICK P \in [r .. n -> Nat] : Holds(P, bytes, r, sent, cut)
  BY DEF MessagesInv, OnConnection
<1> HIDE DEF z
<1>4. data \in Seq(Nat) /\ Len(data) = z /\ \A j \in 1 .. z : data[j] = bytes[j]
  <2>1. bytes \in Seq(Nat) /\ z \in Nat /\ z <= Len(bytes)
    BY <1>1, <1>2 DEF z
  <2> QED
    BY ONLY <2>1
<1> HIDE DEF data
<1>5. Messages!Accepts(name, data)
  BY DEF data, z
<1>6. CASE r < n
  <2> DEFINE m == sent[r + 1]
             e == Messages!Encode(m)
  <2>1. m \in Messages!Messages
    BY <1>1, <1>6
  <2>2. /\ Len(e) <= Len(bytes) /\ \A j \in 1 .. Len(e) : bytes[j] = e[j]
    BY <1>1, <1>3, <1>6, OneLess
  <2>3. Len(e) >= 12 /\ Len(e) \in Nat
    BY <2>1, Encoded
  <2> HIDE DEF m
  <2>4. \A j \in 1 .. 12 : data[j] = e[j]
    <3>1. \A j \in 1 .. 12 : j \in 1 .. z /\ j \in 1 .. Len(e)
      BY <1>2, <2>3
    <3> QED
      BY <1>4, <2>2, <3>1
  <2>5. Len(data) >= 12
    BY <1>2, <1>4
  <2>6. name = m.name
    BY <1>4, <1>5, <2>1, <2>4, <2>5, RefusesOther
  <2> QED
    BY <1>6, <2>6 DEF m
<1>7. CASE r = n
  <2>1. n \in r .. n /\ P[n] = 0
    BY <1>1, <1>3, <1>7 DEF Holds
  <2>2. CASE ~cut
    <3>1. Len(bytes) = 0
      BY <1>3, <2>1, <2>2 DEF Holds
    <3> QED
      BY <1>2, <3>1 DEF z
  <2>3. CASE cut
    <3>1. Partial(bytes, 0)
      BY <1>3, <2>1, <2>3 DEF Holds
    <3>2. PICK m \in Messages!Messages :
             /\ Len(bytes) - 0 < Len(Messages!Encode(m))
             /\ \A j \in 1 .. Len(bytes) - 0 : bytes[0 + j] = Messages!Encode(m)[j]
      BY <3>1 DEF Partial
    <3>3. \A j \in 1 .. 12 : j \in 1 .. z /\ j \in 1 .. Len(bytes) - 0 /\ 0 + j = j
      BY <1>2 DEF z
    <3>4. \A j \in 1 .. 12 : data[j] = Messages!Encode(m)[j]
      BY <1>4, <3>2, <3>3
    <3>5. Len(data) >= 12
      BY <1>2, <1>4
    <3>6. name = m.name
      BY <1>4, <1>5, <3>4, <3>5, RefusesOther
    <3>7. Len(Messages!Encode(m)) = z
      BY <3>6, Encoded DEF z
    <3>8. Len(bytes) < z
      BY <1>2, <3>2, <3>7
    <3> QED
      BY <1>2, <3>8 DEF z
  <2> QED
    BY <2>2, <2>3
<1> QED
  BY <1>1, <1>6, <1>7

(* When the message that comes next is the one it waits for, it is given   *)
(* all of it and nothing behind it.                                        *)
LEMMA NextIsWhole ==
  ASSUME MessagesInv, Len(received) < Len(sent)
  PROVE  LET m == sent[Len(received) + 1]
         IN  /\ m \in Messages!Messages
             /\ SubSeq(bytes, 1, Messages!Size(m.name)) = Messages!Encode(m)
             /\ SubSeq(bytes, Messages!Size(m.name) + 1, Len(bytes)) \in Seq(Nat)
             /\ \E Q \in [Len(received) + 1 .. Len(sent) -> Nat] :
                   Holds(Q, SubSeq(bytes, Messages!Size(m.name) + 1, Len(bytes)),
                         Len(received) + 1, sent, cut)
<1> DEFINE r == Len(received)
           n == Len(sent)
           m == sent[r + 1]
           e == Messages!Encode(m)
<1>1. /\ sent \in Seq(Messages!Messages) /\ bytes \in Seq(Nat) /\ cut \in BOOLEAN
      /\ received \in Seq(Messages!Messages) /\ r \in 0 .. n /\ r < n
  BY DEF MessagesInv, InOrder
<1>2. PICK P \in [r .. n -> Nat] : Holds(P, bytes, r, sent, cut)
  BY DEF MessagesInv, OnConnection
<1>3. m \in Messages!Messages
  BY <1>1
<1>4. /\ SubSeq(bytes, 1, Len(e)) = e /\ Len(e) <= Len(bytes)
      /\ \E Q \in [r + 1 .. n -> Nat] :
            Holds(Q, SubSeq(bytes, Len(e) + 1, Len(bytes)), r + 1, sent, cut)
  BY <1>1, <1>2, OneLess
<1>5. Len(e) = Messages!Size(m.name) /\ Len(e) \in Nat
  BY <1>3, Encoded
<1>6. SubSeq(bytes, Len(e) + 1, Len(bytes)) \in Seq(Nat)
  <2> DEFINE z == Len(e)
  <2>1. bytes \in Seq(Nat) /\ z \in 0 .. Len(bytes)
    BY <1>1, <1>4, <1>5
  <2> HIDE DEF z
  <2>2. SubSeq(bytes, z + 1, Len(bytes)) \in Seq(Nat)
    BY ONLY <2>1, Rest
  <2> QED
    BY <2>2 DEF z
<1> HIDE DEF m
<1> QED
  BY <1>3, <1>4, <1>5, <1>6 DEF m

LEMMA ReceiveStep ==
  ASSUME MessagesInv, NEW name \in Messages!Parsers, Messages!Receive(name)
  PROVE  MessagesInv'
<1> DEFINE r == Len(received)
           n == Len(sent)
           z == Messages!Size(name)
           data == SubSeq(bytes, 1, z)
           m == sent[r + 1]
           more == [name |-> name, fields |-> Messages!Fields(name, data)]
<1>1. name \in Messages!Names
  BY DEF Messages!Parsers, Messages!Names, Messages!Layout
<1>2. /\ sent \in Seq(Messages!Messages) /\ received \in Seq(Messages!Messages)
      /\ bytes \in Seq(Nat) /\ cut \in BOOLEAN /\ r \in 0 .. n /\ n \in Nat
      /\ \A i \in 1 .. r : received[i] = sent[i]
  BY DEF MessagesInv, InOrder
<1>3. sent' = sent /\ cut' = cut /\ Len(bytes) >= z
  BY DEF Messages!Receive
<1>4. CASE Messages!Accepts(name, data)
  <2>1. r < n /\ m.name = name
    BY <1>1, <1>3, <1>4, AcceptsTheNext
  <2>2. /\ m \in Messages!Messages /\ data = Messages!Encode(m)
        /\ SubSeq(bytes, z + 1, Len(bytes)) \in Seq(Nat)
        /\ \E Q \in [r + 1 .. n -> Nat] :
              Holds(Q, SubSeq(bytes, z + 1, Len(bytes)), r + 1, sent, cut)
    BY <2>1, NextIsWhole
  <2>3. more = m
    BY <2>1, <2>2, ParsesOwn
  <2>4. /\ received' = Append(received, more)
        /\ bytes' = SubSeq(bytes, z + 1, Len(bytes))
        /\ refused' = refused /\ refused = {}
    BY <1>4 DEF Messages!Receive
  <2> HIDE DEF m, more, data, z
  <2>5. /\ received' \in Seq(Messages!Messages) /\ Len(received') = r + 1
        /\ received'[r + 1] = m /\ \A i \in 1 .. r : received'[i] = received[i]
    BY <1>2, <2>2, <2>3, <2>4
  <2>6. OnConnection'
    BY <1>3, <2>2, <2>4, <2>5 DEF OnConnection
  <2>7. InOrder'
    <3>1. Len(received') <= Len(sent')
      BY <1>2, <1>3, <2>1, <2>5
    <3>2. \A i \in 1 .. Len(received') : received'[i] = sent'[i]
      <4>1. \A i \in 1 .. r + 1 : i \in 1 .. r \/ i = r + 1
        BY <1>2
      <4> QED
        BY <1>2, <1>3, <2>5, <4>1 DEF m
    <3> QED
      BY <3>1, <3>2 DEF InOrder
  <2>8. /\ sent' \in Seq(Messages!Messages) /\ bytes' \in Seq(Nat) /\ cut' \in BOOLEAN
        /\ refused' = {}
    BY <1>2, <1>3, <2>2, <2>4
  <2> QED
    BY <2>5, <2>6, <2>7, <2>8 DEF MessagesInv, Messages!AcceptsItsOwn
<1>5. CASE ~Messages!Accepts(name, data)
  <2>1. /\ bytes' = bytes /\ received' = received /\ refused' = {name}
    BY <1>5 DEF Messages!Receive
  <2>2. ASSUME r < n PROVE m.name # name
    <3>1. m \in Messages!Messages /\ SubSeq(bytes, 1, Messages!Size(m.name)) = Messages!Encode(m)
      BY <2>2, NextIsWhole
    <3>2. Messages!Accepts(m.name, Messages!Encode(m))
      BY <3>1, ParsesOwn
    <3> QED
      BY <1>5, <3>1, <3>2
  <2>3. Messages!AcceptsItsOwn'
    BY <1>3, <2>1, <2>2 DEF Messages!AcceptsItsOwn
  <2>4. InOrder' /\ OnConnection'
    BY <1>3, <2>1 DEF MessagesInv, InOrder, OnConnection
  <2> QED
    BY <1>2, <1>3, <2>1, <2>3, <2>4 DEF MessagesInv
<1> QED
  BY <1>4, <1>5

LEMMA MessagesStep == MessagesInv /\ [Next]_vars => MessagesInv'
<1> SUFFICES ASSUME MessagesInv, [Next]_vars PROVE MessagesInv'
  OBVIOUS
<1>1. CASE messageVars' = messageVars
  BY <1>1 DEF messageVars, MessagesInv, InOrder, OnConnection, Messages!AcceptsItsOwn
<1>2. CASE Talks /\ Messages!Next
  <2>1. ASSUME NEW m \in Messages!Messages, Messages!Write(m) \/ Messages!WritePart(m)
        PROVE  MessagesInv'
    BY <2>1, WriteStep, WritePartStep
  <2>2. ASSUME NEW name \in Messages!Parsers, Messages!Receive(name) PROVE MessagesInv'
    BY <2>2, ReceiveStep
  <2> QED
    BY <1>2, <2>1, <2>2 DEF Messages!Next
<1>3. \/ messageVars' = messageVars
      \/ Talks /\ Messages!Next
  BY DEF Next, Transfers, Scans, vars, messageVars
<1> QED
  BY <1>1, <1>2, <1>3

LEMMA MessagesInvariant == Spec => []MessagesInv
<1>1. Init => MessagesInv
  BY MessagesBegin DEF Init
<1> QED
  BY <1>1, MessagesStep, PTL DEF Spec

(* parseResumeReply() and parseTaskCheckpoint() (ProtocolV2.h) accept the  *)
(* message they wait for, number for number, and nothing else: what the    *)
(* receiver has parsed is what the peer wrote, from the first message on,  *)
(* and the message that comes next is not refused where it is asked for.   *)
THEOREM ParsersAreExact == Spec => []ParsersExact
<1>1. MessagesInv => ParsersExact
  <2> SUFFICES ASSUME MessagesInv PROVE ParsersExact
    OBVIOUS
  <2>1. /\ sent \in Seq(Messages!Messages) /\ received \in Seq(Messages!Messages)
        /\ Len(received) <= Len(sent)
        /\ \A i \in 1 .. Len(received) : received[i] = sent[i]
        /\ Messages!AcceptsItsOwn
    BY DEF MessagesInv, InOrder
  <2>2. SubSeq(received, 1, Len(received)) = SubSeq(sent, 1, Len(received))
    BY <2>1
  <2>3. Messages!IsPrefix(received, sent)
    BY <2>1, <2>2 DEF Messages!IsPrefix
  <2> QED
    BY <2>1, <2>3
       DEF ParsersExact, Messages!ParsersExact, Messages!ReceivesWhatWasSent
<1> QED
  BY <1>1, MessagesInvariant, PTL
=============================================================================
