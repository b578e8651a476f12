------------------------ MODULE MemoryPoolClients_proofs ------------------------
(***************************************************************************)
(* Theorems about MemoryPool under any clients, for every number of        *)
(* threads and of buffers and however often acquisitions fail.             *)
(***************************************************************************)
EXTENDS MemoryPoolClients, FiniteSetTheorems, SequenceTheorems, TLAPS

-----------------------------------------------------------------------------
(* The free list starts with every buffer of a finite set once.           *)
LEMMA AllBuffersOnce ==
  ASSUME NEW S, IsFiniteSet(S)
  PROVE  /\ SetToSeq(S) \in Seq(S)
         /\ Len(SetToSeq(S)) = Cardinality(S)
         /\ IsInjective(SetToSeq(S))
         /\ ToSet(SetToSeq(S)) = S
<1> DEFINE n == Cardinality(S)
           s == SetToSeq(S)
<1>1. n \in Nat /\ IsFiniteSet(S) /\ ExistsBijection(1 .. n, S)
  BY FS_CardinalityType
<1>2. \E f \in [1 .. n -> S] : IsInjective(f)
  BY <1>1 DEF ExistsBijection, Bijection, Injection
<1>3. s \in [1 .. n -> S] /\ IsInjective(s)
  BY <1>2 DEF SetToSeq
<1>4. s \in Seq(S) /\ Len(s) = n
  BY <1>1, <1>3
<1>5. s \in Surjection(1 .. n, S)
  <2>1. s \in Injection(1 .. n, S)
    BY <1>3 DEF Injection
  <2>2. Cardinality(1 .. n) = n
    BY <1>1, FS_Interval
  <2> QED
    BY <1>1, <2>1, <2>2, FS_Injection
<1>6. ToSet(s) = S
  BY <1>3, <1>5 DEF Surjection, ToSet
<1> QED
  BY <1>3, <1>4, <1>6

(* A buffer that is not in the free list leaves room in it.                *)
LEMMA RoomForTheRest ==
  ASSUME NEW S, IsFiniteSet(S), NEW s \in Seq(S), IsInjective(s),
         NEW b \in S, b \notin ToSet(s)
  PROVE  Len(s) < Cardinality(S)
<1>1. s \in [1 .. Len(s) -> S \ {b}] /\ Len(s) \in Nat
  BY DEF ToSet
<1>2. s \in Injection(1 .. Len(s), S \ {b})
  BY <1>1 DEF Injection
<1>3. /\ IsFiniteSet(S \ {b}) /\ Cardinality(S \ {b}) = Cardinality(S) - 1
  BY FS_RemoveElement
<1>4. Cardinality(1 .. Len(s)) <= Cardinality(S) - 1
  BY <1>2, <1>3, FS_Injection
<1>5. \A n \in Nat : Cardinality(1 .. n) = n
  BY FS_Interval
<1>6. Cardinality(S) \in Nat
  BY FS_CardinalityType
<1> QED
  BY <1>1, <1>4, <1>5, <1>6

(* What the two ends of the free list do to it.                            *)
LEMMA TakeHead ==
  ASSUME NEW S, NEW s \in Seq(S), s # <<>>, IsInjective(s)
  PROVE  /\ Head(s) \in S /\ Tail(s) \in Seq(S)
         /\ Len(s) \in Nat /\ Len(s) > 0 /\ Len(Tail(s)) = Len(s) - 1
         /\ IsInjective(Tail(s))
         /\ Head(s) \in ToSet(s) /\ ToSet(Tail(s)) = ToSet(s) \ {Head(s)}
<1>1. /\ Head(s) \in S /\ Tail(s) \in Seq(S) /\ Len(Tail(s)) = Len(s) - 1
      /\ \A i \in 1 .. Len(Tail(s)) : Tail(s)[i] = s[i + 1]
  BY HeadTailProperties
<1>2. Len(s) \in Nat /\ Len(s) > 0 /\ Head(s) = s[1] /\ DOMAIN s = 1 .. Len(s)
      /\ DOMAIN Tail(s) = 1 .. Len(s) - 1
  BY <1>1, EmptySeq, LenProperties
<1>3. IsInjective(Tail(s))
  BY <1>1, <1>2 DEF IsInjective
<1>4. Head(s) \in ToSet(s)
  BY <1>2 DEF ToSet
<1>5. ASSUME NEW x \in ToSet(Tail(s)) PROVE x \in ToSet(s) \ {Head(s)}
  <2>1. PICK i \in 1 .. Len(s) - 1 : x = s[i + 1]
    BY <1>1, <1>2 DEF ToSet
  <2>2. i + 1 \in 1 .. Len(s) /\ i + 1 # 1 /\ 1 \in 1 .. Len(s)
    BY <1>2
  <2> QED
    BY <1>2, <2>1, <2>2 DEF IsInjective, ToSet
<1>6. ASSUME NEW x \in ToSet(s) \ {Head(s)} PROVE x \in ToSet(Tail(s))
  <2>1. PICK i \in 1 .. Len(s) : x = s[i]
    BY <1>2 DEF ToSet
  <2>2. i - 1 \in 1 .. Len(s) - 1 /\ (i - 1) + 1 = i
    BY <1>2, <2>1
  <2> QED
    BY <1>1, <1>2, <2>1, <2>2 DEF ToSet
<1> QED
  BY <1>1, <1>2, <1>3, <1>4, <1>5, <1>6

LEMMA PutBack ==
  ASSUME NEW S, NEW s \in Seq(S), IsInjective(s), NEW b \in S, b \notin ToSet(s)
  PROVE  /\ Append(s, b) \in Seq(S)
         /\ Len(s) \in Nat /\ Len(Append(s, b)) = Len(s) + 1
         /\ IsInjective(Append(s, b))
         /\ ToSet(Append(s, b)) = ToSet(s) \cup {b}
<1> DEFINE a == Append(s, b)
<1>1. /\ a \in Seq(S) /\ Len(s) \in Nat /\ Len(a) = Len(s) + 1
      /\ \A i \in 1 .. Len(s) : a[i] = s[i]
      /\ a[Len(s) + 1] = b
  OBVIOUS
<1>2. DOMAIN s = 1 .. Len(s) /\ DOMAIN a = 1 .. Len(s) + 1
  BY <1>1, LenProperties
<1>3. \A i \in 1 .. Len(s) : s[i] # b
  BY <1>2 DEF ToSet
<1>4. ASSUME NEW i \in DOMAIN a, NEW j \in DOMAIN a, a[i] = a[j] PROVE i = j
  <2>1. CASE i = Len(s) + 1 \/ j = Len(s) + 1
    BY <1>1, <1>2, <1>3, <1>4, <2>1
  <2>2. CASE i \in 1 .. Len(s) /\ j \in 1 .. Len(s)
    BY <1>1, <1>2, <1>4, <2>2 DEF IsInjective
  <2> QED
    BY <1>1, <1>2, <2>1, <2>2
<1>5. ToSet(a) = ToSet(s) \cup {b}
  <2>1. ASSUME NEW x \in ToSet(a) PROVE x \in ToSet(s) \cup {b}
    BY <1>1, <1>2 DEF ToSet
  <2>2. ASSUME NEW x \in ToSet(s) PROVE x \in ToSet(a)
    <3>1. PICK i \in 1 .. Len(s) : x = s[i]
      BY <1>2 DEF ToSet
    <3>2. i \in DOMAIN a /\ a[i] = x
      BY <1>1, <1>2, <3>1
    <3> QED
      BY <3>2 DEF ToSet
  <2>3. b \in ToSet(a)
    <3>1. Len(s) + 1 \in DOMAIN a
      BY <1>1, <1>2
    <3> QED
      BY <1>1, <3>1 DEF ToSet
  <2> QED
    BY <2>1, <2>2, <2>3
<1> QED
  BY <1>1, <1>4, <1>5 DEF IsInjective

-----------------------------------------------------------------------------
(* Who sleeps, or was woken, is in acquire().                              *)
Waiting ==
    /\ asleep \cap woken = {}
    /\ \A t \in asleep \cup woken : pc[t] = "acquire"

(* A buffer is free, or one thread has it.                                 *)
Free(b)     == b \in ToSet(freeList) /\ \A t \in Threads : b \notin held[t]
OnlyWith(b, t) ==
    /\ b \notin ToSet(freeList)
    /\ \A u \in Threads : b \in held[u] <=> u = t
Owned == /\ IsInjective(freeList)
         /\ \A b \in Buffers : Free(b) \/ \E t \in Threads : OnlyWith(b, t)

PoolInv == TypeOK /\ Owned /\ StatisticsAgree /\ Waiting /\ NoLostWakeup

LEMMA InitPoolInv == ClientAssumption /\ Init => PoolInv
<1> SUFFICES ASSUME ClientAssumption, Init PROVE PoolInv
  OBVIOUS
<1> USE DEF Init, PoolInit, ClientInit
<1>1. /\ freeList \in Seq(Buffers) /\ Len(freeList) = Cardinality(Buffers)
      /\ IsInjective(freeList) /\ ToSet(freeList) = Buffers
  BY AllBuffersOnce DEF ClientAssumption
<1>2. Cardinality(Buffers) \in Nat
  BY FS_CardinalityType DEF ClientAssumption
<1>3. TypeOK
  <2>1. {inUse, highWater} \subseteq 0 .. Cardinality(Buffers)
    BY <1>2
  <2>2. acquireFails \in 0 .. MaxFails
    BY DEF ClientAssumption
  <2> QED
    BY <1>1, <2>1, <2>2 DEF TypeOK
<1>4. Owned
  BY <1>1 DEF Owned, Free
<1>5. StatisticsAgree
  BY <1>1, <1>2 DEF StatisticsAgree
<1>6. Waiting /\ NoLostWakeup
  BY DEF Waiting, NoLostWakeup
<1> QED
  BY <1>3, <1>4, <1>5, <1>6 DEF PoolInv

(* A set of threads that loses one, or gets one.                           *)
LEMMA CountThreads ==
  ASSUME ClientAssumption, NEW W \in SUBSET Threads, NEW t \in Threads
  PROVE  /\ Cardinality(W) \in Nat
         /\ t \in W => Cardinality(W \ {t}) = Cardinality(W) - 1
         /\ t \notin W => Cardinality(W \cup {t}) = Cardinality(W) + 1
         /\ Cardinality(W \ {t}) >= Cardinality(W) - 1
<1>1. IsFiniteSet(W)
  BY FS_Subset DEF ClientAssumption
<1>2. /\ Cardinality(W) \in Nat
      /\ t \in W => Cardinality(W \ {t}) = Cardinality(W) - 1
      /\ t \notin W => Cardinality(W \cup {t}) = Cardinality(W) + 1
  BY <1>1, FS_CardinalityType, FS_AddElement, FS_RemoveElement
<1>3. t \notin W => Cardinality(W \ {t}) = Cardinality(W)
  <2>1. t \notin W => W \ {t} = W
    OBVIOUS
  <2> QED
    BY <2>1
<1> QED
  BY <1>2, <1>3

(* Thread t gets the first free buffer.                                    *)
LEMMA GetBuffer ==
  ASSUME ClientAssumption, PoolInv, NEW t \in Threads, HandOut,
         Keeps(t, Head(freeList))
  PROVE  /\ freeList' \in Seq(Buffers) /\ held' \in [Threads -> SUBSET Buffers]
         /\ Len(freeList) \in Nat /\ Len(freeList') = Len(freeList) - 1
         /\ {inUse', highWater'} \subseteq 0 .. Cardinality(Buffers)
         /\ Owned' /\ StatisticsAgree'
<1> USE DEF HandOut, Keeps, PoolInv
<1>1. /\ Head(freeList) \in Buffers /\ freeList' \in Seq(Buffers)
      /\ Len(freeList) \in Nat /\ Len(freeList) > 0
      /\ Len(freeList') = Len(freeList) - 1
      /\ IsInjective(freeList')
      /\ Head(freeList) \in ToSet(freeList)
      /\ ToSet(freeList') = ToSet(freeList) \ {Head(freeList)}
  BY TakeHead DEF TypeOK, Owned
<1>2. held' \in [Threads -> SUBSET Buffers]
  BY <1>1 DEF TypeOK
<1>3. Cardinality(Buffers) \in Nat
  BY FS_CardinalityType DEF ClientAssumption
<1>4. /\ {inUse', highWater'} \subseteq 0 .. Cardinality(Buffers)
      /\ StatisticsAgree'
  BY <1>1, <1>3 DEF TypeOK, StatisticsAgree, UpdateHighWaterMark
<1>5. ASSUME NEW b \in Buffers
      PROVE  (Free(b) \/ \E u \in Threads : OnlyWith(b, u))'
  <2>1. CASE b = Head(freeList)
    <3>1. \A u \in Threads : b \notin held[u]
      BY <1>1, <2>1 DEF Owned, Free, OnlyWith
    <3>2. OnlyWith(b, t)'
      BY <1>1, <2>1, <3>1 DEF OnlyWith, TypeOK
    <3> QED
      BY <3>2
  <2>2. CASE b # Head(freeList)
    <3>1. \A u \in Threads : b \in held'[u] <=> b \in held[u]
      BY <2>2 DEF TypeOK
    <3>2. b \in ToSet(freeList') <=> b \in ToSet(freeList)
      BY <1>1, <2>2
    <3>3. CASE Free(b)
      BY <3>1, <3>2, <3>3 DEF Free
    <3>4. CASE \E u \in Threads : OnlyWith(b, u)
      BY <3>1, <3>2, <3>4 DEF OnlyWith
    <3> QED
      BY <3>3, <3>4 DEF Owned
  <2> QED
    BY <2>1, <2>2
<1>6. Owned'
  BY <1>1, <1>5 DEF Owned
<1> QED
  BY <1>1, <1>2, <1>4, <1>6

(* Thread t gives buffer b back.                                           *)
LEMMA ReturnBuffer ==
  ASSUME ClientAssumption, PoolInv, NEW t \in Threads, NEW b \in held[t],
         Release(b), held' = [held EXCEPT ![t] = @ \ {b}]
  PROVE  /\ freeList' \in Seq(Buffers) /\ held' \in [Threads -> SUBSET Buffers]
         /\ Len(freeList) \in Nat /\ Len(freeList') = Len(freeList) + 1
         /\ {inUse', highWater'} \subseteq 0 .. Cardinality(Buffers)
         /\ Owned' /\ StatisticsAgree'
<1> USE DEF Release, PoolInv
<1>1. b \in Buffers /\ OnlyWith(b, t)
  BY DEF TypeOK, Owned, Free, OnlyWith
<1>2. /\ freeList' \in Seq(Buffers) /\ Len(freeList) \in Nat
      /\ Len(freeList') = Len(freeList) + 1 /\ IsInjective(freeList')
      /\ ToSet(freeList') = ToSet(freeList) \cup {b}
  BY <1>1, PutBack DEF OnlyWith, TypeOK, Owned
<1>3. Len(freeList) < Cardinality(Buffers) /\ Cardinality(Buffers) \in Nat
  BY <1>1, RoomForTheRest, FS_CardinalityType
     DEF OnlyWith, TypeOK, Owned, ClientAssumption
<1>4. /\ {inUse', highWater'} \subseteq 0 .. Cardinality(Buffers)
      /\ StatisticsAgree'
  <2>1. /\ inUse \in Int /\ highWater \in Int
        /\ 0 <= inUse /\ inUse <= highWater
        /\ highWater <= Cardinality(Buffers)
        /\ inUse + Len(freeList) = Cardinality(Buffers)
    BY <1>3 DEF TypeOK, StatisticsAgree
  <2>2. inUse' = inUse - 1 /\ inUse > 0 /\ highWater' = highWater
    BY <1>2, <1>3, <2>1 DEF CountDown
  <2>3. inUse' + Len(freeList') = Cardinality(Buffers) /\ inUse' <= highWater'
    BY <1>2, <1>3, <2>1, <2>2
  <2>4. inUse' \in 0 .. Cardinality(Buffers) /\ highWater' \in 0 .. Cardinality(Buffers)
    BY <1>2, <1>3, <2>1, <2>2
  <2> QED
    BY <2>3, <2>4 DEF StatisticsAgree
<1>5. held' \in [Threads -> SUBSET Buffers]
  BY DEF TypeOK
<1>6. ASSUME NEW c \in Buffers
      PROVE  (Free(c) \/ \E u \in Threads : OnlyWith(c, u))'
  <2>1. CASE c = b
    <3>1. Free(c)'
      BY <1>1, <1>2, <2>1 DEF Free, OnlyWith, TypeOK
    <3> QED
      BY <3>1
  <2>2. CASE c # b
    <3>1. \A u \in Threads : c \in held'[u] <=> c \in held[u]
      BY <2>2 DEF TypeOK
    <3>2. c \in ToSet(freeList') <=> c \in ToSet(freeList)
      BY <1>2, <2>2
    <3>3. CASE Free(c)
      BY <3>1, <3>2, <3>3 DEF Free
    <3>4. CASE \E u \in Threads : OnlyWith(c, u)
      BY <3>1, <3>2, <3>4 DEF OnlyWith
    <3> QED
      BY <3>3, <3>4 DEF Owned
  <2> QED
    BY <2>1, <2>2
<1>7. Owned'
  BY <1>2, <1>6 DEF Owned
<1> QED
  BY <1>2, <1>4, <1>5, <1>7

(* Nobody owns anything else, and the counters stay.                       *)
LEMMA SameBuffers ==
  ASSUME PoolInv, UNCHANGED <<freeList, held, inUse, highWater>>
  PROVE  Owned' /\ StatisticsAgree'
  BY DEF PoolInv, Owned, Free, OnlyWith, StatisticsAgree

-----------------------------------------------------------------------------
(* What release() wakes.                                                   *)
LEMMA WakeOne ==
  ASSUME ClientAssumption, PoolInv, NotifyOne
  PROVE  /\ asleep' \subseteq asleep /\ woken' \subseteq Threads
         /\ woken' \subseteq asleep \cup woken
         /\ asleep' \cap woken' = {}
         /\ asleep' # {} => Cardinality(woken') = Cardinality(woken) + 1
<1>1. CASE asleep = {}
  BY <1>1 DEF NotifyOne, PoolInv, TypeOK, Waiting
<1>2. CASE asleep # {}
  <2>1. PICK t \in asleep : asleep' = asleep \ {t} /\ woken' = woken \cup {t}
    BY <1>2 DEF NotifyOne
  <2>2. t \in Threads /\ t \notin woken /\ woken \subseteq Threads
    BY DEF PoolInv, TypeOK, Waiting
  <2>3. Cardinality(woken') = Cardinality(woken) + 1
    BY <2>1, <2>2, CountThreads
  <2> QED
    BY <2>1, <2>2, <2>3 DEF PoolInv, TypeOK, Waiting
<1> QED
  BY <1>1, <1>2

LEMMA NextPoolInv == ClientAssumption /\ PoolInv /\ [Next]_vars => PoolInv'
<1> SUFFICES ASSUME ClientAssumption, PoolInv, [Next]_vars PROVE PoolInv'
  OBVIOUS
<1>0. /\ TypeOK /\ Waiting /\ NoLostWakeup
      /\ Cardinality(woken) \in Nat /\ Len(freeList) \in Nat
  <2>1. IsFiniteSet(woken)
    BY FS_Subset DEF ClientAssumption, PoolInv, TypeOK
  <2>2. Cardinality(woken) \in Nat
    BY <2>1, FS_CardinalityType
  <2> QED
    BY <2>2 DEF PoolInv, TypeOK
<1>1. ASSUME NEW t \in Threads, CallAcquire(t) PROVE PoolInv'
  <2> USE <1>0, <1>1 DEF CallAcquire, Goes, poolVars
  <2>1. TypeOK'
    BY DEF TypeOK
  <2>2. Owned' /\ StatisticsAgree'
    BY SameBuffers
  <2>3. Waiting'
    BY DEF Waiting, TypeOK
  <2>4. NoLostWakeup'
    BY DEF NoLostWakeup, TypeOK
  <2> QED
    BY <2>1, <2>2, <2>3, <2>4 DEF PoolInv
<1>2. ASSUME NEW t \in Threads, CallTryAcquire(t) PROVE PoolInv'
  <2> USE <1>0, <1>2
  <2>1. CASE TryAcquire /\ Keeps(t, Head(freeList)) /\ UNCHANGED pc
    <3> USE <2>1 DEF TryAcquire
    <3>1. /\ freeList' \in Seq(Buffers) /\ held' \in [Threads -> SUBSET Buffers]
          /\ Len(freeList') = Len(freeList) - 1
          /\ {inUse', highWater'} \subseteq 0 .. Cardinality(Buffers)
          /\ Owned' /\ StatisticsAgree'
      BY GetBuffer
    <3>2. TypeOK'
      BY <3>1 DEF TypeOK
    <3>3. Waiting'
      BY DEF Waiting
    <3>4. NoLostWakeup'
      BY <3>1 DEF NoLostWakeup
    <3> QED
      BY <3>1, <3>2, <3>3, <3>4 DEF PoolInv
  <2>2. CASE /\ acquireFails < MaxFails /\ TryAcquireFails
             /\ UNCHANGED <<held, pc>>
    <3> USE <2>2 DEF TryAcquireFails
    <3>1. TypeOK'
      BY DEF TypeOK, ClientAssumption
    <3>2. Owned' /\ StatisticsAgree'
      BY SameBuffers
    <3>3. Waiting' /\ NoLostWakeup'
      BY DEF Waiting, NoLostWakeup
    <3> QED
      BY <3>1, <3>2, <3>3 DEF PoolInv
  <2> QED
    BY <2>1, <2>2 DEF CallTryAcquire
<1>3. ASSUME NEW t \in Threads, DropHandle(t) PROVE PoolInv'
  <2>1. PICK b \in held[t] : Release(b) /\ held' = [held EXCEPT ![t] = @ \ {b}]
    BY <1>3 DEF DropHandle
  <2>2. UNCHANGED <<pc, stop, highWater, acquireFails>> /\ NotifyOne
    BY <1>3, <2>1 DEF DropHandle, Release
  <2>3. /\ freeList' \in Seq(Buffers) /\ held' \in [Threads -> SUBSET Buffers]
        /\ Len(freeList') = Len(freeList) + 1
        /\ {inUse', highWater'} \subseteq 0 .. Cardinality(Buffers)
        /\ Owned' /\ StatisticsAgree'
    BY <2>1, ReturnBuffer
  <2>4. /\ asleep' \subseteq asleep /\ woken' \subseteq Threads
        /\ woken' \subseteq asleep \cup woken
        /\ asleep' \cap woken' = {}
        /\ asleep' # {} => Cardinality(woken') = Cardinality(woken) + 1
    BY <2>2, WakeOne
  <2>5. TypeOK'
    BY <1>0, <2>2, <2>3, <2>4 DEF TypeOK
  <2>6. Waiting'
    BY <1>0, <2>2, <2>4 DEF Waiting
  <2>7. NoLostWakeup'
    BY <1>0, <2>2, <2>3, <2>4 DEF NoLostWakeup
  <2> QED
    BY <2>3, <2>5, <2>6, <2>7 DEF PoolInv
<1>4. ASSUME NEW t \in Threads, CallShutdown(t) PROVE PoolInv'
  <2> USE <1>0, <1>4 DEF CallShutdown, Goes, StoreStop
  <2>1. TypeOK'
    BY DEF TypeOK
  <2>2. Owned' /\ StatisticsAgree'
    BY SameBuffers
  <2>3. Waiting'
    BY DEF Waiting, TypeOK
  <2>4. NoLostWakeup'
    BY DEF NoLostWakeup, TypeOK
  <2> QED
    BY <2>1, <2>2, <2>3, <2>4 DEF PoolInv
<1>5. ASSUME NEW t \in Threads, AcquireSucceeds(t) PROVE PoolInv'
  <2> USE <1>0, <1>5 DEF AcquireSucceeds, Goes, Acquire
  <2>1. /\ freeList' \in Seq(Buffers) /\ held' \in [Threads -> SUBSET Buffers]
        /\ Len(freeList') = Len(freeList) - 1
        /\ {inUse', highWater'} \subseteq 0 .. Cardinality(Buffers)
        /\ Owned' /\ StatisticsAgree'
    BY GetBuffer
  <2>2. TypeOK'
    BY <2>1 DEF TypeOK
  <2>3. Waiting'
    BY DEF Waiting, TypeOK
  <2>4. woken \subseteq Threads
    BY DEF TypeOK
  <2>5. Cardinality(woken') >= Cardinality(woken) - 1
    <3>1. woken' = woken \ {t}
      OBVIOUS
    <3> QED
      BY <2>4, <3>1, CountThreads
  <2>6. Cardinality(woken') \in Nat
    BY <2>4, CountThreads
  <2>7. NoLostWakeup'
    BY <2>1, <2>5, <2>6 DEF NoLostWakeup, HandOut
  <2> QED
    BY <2>1, <2>2, <2>3, <2>7 DEF PoolInv
<1>6. ASSUME NEW t \in Threads, AcquireWaits(t) PROVE PoolInv'
  <2> USE <1>0, <1>6 DEF AcquireWaits, AcquireSleeps
  <2>1. TypeOK'
    BY DEF TypeOK
  <2>2. Owned' /\ StatisticsAgree'
    BY SameBuffers
  <2>3. Waiting'
    BY DEF Waiting
  <2>4. Cardinality(woken') \in Nat
    BY <2>1, CountThreads DEF TypeOK
  <2>5. Len(freeList') = 0
    OBVIOUS
  <2>6. NoLostWakeup'
    BY <2>4, <2>5 DEF NoLostWakeup
  <2> QED
    BY <2>1, <2>2, <2>3, <2>6 DEF PoolInv
<1>7. ASSUME NEW t \in Threads, AcquireGivesUp(t) PROVE PoolInv'
  <2> USE <1>0, <1>7 DEF AcquireGivesUp, Goes, AcquireReturnsNull
  <2>1. TypeOK'
    BY DEF TypeOK
  <2>2. Owned' /\ StatisticsAgree'
    BY SameBuffers
  <2>3. Waiting'
    BY DEF Waiting, TypeOK
  <2>4. NoLostWakeup'
    BY DEF NoLostWakeup, TypeOK
  <2> QED
    BY <2>1, <2>2, <2>3, <2>4 DEF PoolInv
<1>8. ASSUME NEW t \in Threads, ShutdownNotifies(t) PROVE PoolInv'
  <2> USE <1>0, <1>8 DEF ShutdownNotifies, Goes, NotifyAll
  <2>1. TypeOK'
    BY DEF TypeOK
  <2>2. Owned' /\ StatisticsAgree'
    BY SameBuffers
  <2>3. Waiting'
    BY DEF Waiting, TypeOK
  <2>4. NoLostWakeup'
    BY DEF NoLostWakeup
  <2> QED
    BY <2>1, <2>2, <2>3, <2>4 DEF PoolInv
<1>9. CASE UNCHANGED vars
  <2>1. Owned' /\ StatisticsAgree'
    BY <1>9, SameBuffers DEF vars, poolVars
  <2>2. TypeOK' /\ Waiting' /\ NoLostWakeup'
    BY <1>0, <1>9 DEF vars, poolVars, TypeOK, Waiting, NoLostWakeup
  <2> QED
    BY <2>1, <2>2 DEF PoolInv
<1> QED
  BY <1>1, <1>2, <1>3, <1>4, <1>5, <1>6, <1>7, <1>8, <1>9 DEF Next, Continue

LEMMA PoolInvHolds == ASSUME ClientAssumption PROVE Spec => []PoolInv
<1>1. Init => PoolInv
  BY InitPoolInv
<1>2. PoolInv /\ [Next]_vars => PoolInv'
  BY NextPoolInv
<1> QED
  BY <1>1, <1>2, PTL DEF Spec

(* A buffer that one thread has has one owner, counted.                    *)
LEMMA OwnersCounted == PoolInv => OneOwnerPerBuffer
<1> SUFFICES ASSUME PoolInv, NEW b \in Buffers
             PROVE  Cardinality({t \in Threads : b \in held[t]})
                      = IF b \in ToSet(freeList) THEN 0 ELSE 1
  BY DEF PoolInv, Owned, OneOwnerPerBuffer
<1> DEFINE owners == {t \in Threads : b \in held[t]}
<1>1. CASE Free(b)
  <2>1. owners = {}
    BY <1>1 DEF Free
  <2> QED
    BY <1>1, <2>1, FS_EmptySet DEF Free
<1>2. CASE \E t \in Threads : OnlyWith(b, t)
  <2>1. PICK t \in Threads : OnlyWith(b, t)
    BY <1>2
  <2>2. owners = {t}
    BY <2>1 DEF OnlyWith
  <2> QED
    BY <2>1, <2>2, FS_Singleton DEF OnlyWith
<1> QED
  BY <1>1, <1>2 DEF PoolInv, Owned

LEMMA PoolInvSuffices == PoolInv => PoolConsistent /\ NoLostWakeup
  BY OwnersCounted DEF PoolInv, PoolConsistent

(* No two owners of one buffer and no buffer without an owner, and         *)
(* statistics that count them: for any number of threads and buffers, and  *)
(* any order of calls (mem_pool_demo.cpp:52-132).                          *)
THEOREM PoolKeepsAccount ==
  ASSUME ClientAssumption PROVE Spec => []PoolConsistent
BY PoolInvSuffices, PoolInvHolds, PTL

(* No thread sleeps while a buffer is free that no woken thread comes for, *)
(* or after a shutdown that has woken everybody: one notify_one() for each *)
(* buffer is enough (mem_pool_demo.cpp:54, 101, 123).                      *)
THEOREM NobodySleepsForNothing ==
  ASSUME ClientAssumption PROVE Spec => []NoLostWakeup
BY PoolInvSuffices, PoolInvHolds, PTL
=============================================================================
