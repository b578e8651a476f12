----------------------------- MODULE MemoryPool -----------------------------
(***************************************************************************)
(* The class MemoryPool of mem_pool_demo.cpp: a fixed number of buffers, a *)
(* free list, a mutex with one condition variable, and statistics.         *)
(*                                                                         *)
(* Every method does its work under the mutex and release() notifies under *)
(* it, so that a method is one step.  Only the notify_all() of shutdown()  *)
(* comes after the unlock.  A thread in cond_.wait() is asleep until it is *)
(* notified; then it is woken, and has to get the mutex and test the       *)
(* predicate again, against threads that come to acquire() meanwhile.      *)
(* Contents (data, size) belong to whoever has the buffer.                 *)
(***************************************************************************)
EXTENDS Naturals, Sequences

VARIABLES freeList,     \* freeList_
          stop,         \* stop_
          asleep,       \* threads asleep on cond_
          woken,        \* threads notified that have not yet the mutex
          inUse,        \* inUseCount_
          highWater,    \* highWaterMark_
          acquireFails  \* acquireFailCount_

poolVars == <<freeList, stop, asleep, woken, inUse, highWater, acquireFails>>

PoolInit(buffers) ==
    /\ freeList = buffers /\ stop = FALSE
    /\ asleep = {} /\ woken = {}
    /\ inUse = 0 /\ highWater = 0 /\ acquireFails = 0

UpdateHighWaterMark(n) == IF n > highWater THEN n ELSE highWater

(* Mutant: the buffer stays in the free list.                              *)
HandOutCopy ==
    /\ ~stop /\ freeList # <<>>
    /\ inUse' = inUse + 1
    /\ highWater' = UpdateHighWaterMark(inUse + 1)
    /\ UNCHANGED freeList

(* A free buffer is handed out: it is Head(freeList).                      *)
HandOut ==
    /\ ~stop /\ freeList # <<>>
    /\ freeList' = Tail(freeList)
    /\ inUse' = inUse + 1
    /\ highWater' = UpdateHighWaterMark(inUse + 1)

(* acquire(), called or woken, returns a buffer ...                        *)
Acquire(t) ==
    /\ t \notin asleep /\ HandOut
    /\ woken' = woken \ {t}
    /\ UNCHANGED <<stop, asleep, acquireFails>>

(* ... or goes to sleep ...                                                *)
AcquireSleeps(t) ==
    /\ t \notin asleep /\ ~stop /\ freeList = <<>>
    /\ asleep' = asleep \cup {t} /\ woken' = woken \ {t}
    /\ UNCHANGED <<freeList, stop, inUse, highWater, acquireFails>>

(* ... or returns nullptr.                                                 *)
AcquireReturnsNull(t) ==
    /\ t \notin asleep /\ stop
    /\ woken' = woken \ {t}
    /\ UNCHANGED <<freeList, stop, asleep, inUse, highWater, acquireFails>>

(* tryAcquire() with a buffer, and without.                                *)
TryAcquire ==
    /\ HandOut
    /\ UNCHANGED <<stop, asleep, woken, acquireFails>>

TryAcquireFails ==
    /\ freeList = <<>> \/ stop
    /\ acquireFails' = acquireFails + 1
    /\ UNCHANGED <<freeList, stop, asleep, woken, inUse, highWater>>

(* Mutant: only a release into an empty free list notifies.                *)
NotifyIfEmpty ==
    IF asleep = {} \/ freeList # <<>> THEN UNCHANGED <<asleep, woken>>
    ELSE \E t \in asleep : asleep' = asleep \ {t} /\ woken' = woken \cup {t}

(* cond_.notify_one().                                                     *)
NotifyOne ==
    IF asleep = {} THEN UNCHANGED <<asleep, woken>>
    ELSE \E t \in asleep : asleep' = asleep \ {t} /\ woken' = woken \cup {t}

(* Mutant: the counter is not brought down.                                *)
CountDownNothing == inUse' = inUse

CountDown == inUse' = IF inUse > 0 THEN inUse - 1 ELSE 0

(* release(), the deleter of every handle.                                 *)
Release(b) ==
    /\ freeList' = Append(freeList, b)
    /\ CountDown
    /\ NotifyOne
    /\ UNCHANGED <<stop, highWater, acquireFails>>

(* The two parts of shutdown(); a second call returns early.               *)
StoreStop ==
    /\ ~stop /\ stop' = TRUE
    /\ UNCHANGED <<freeList, asleep, woken, inUse, highWater, acquireFails>>

(* Mutant: shutdown() wakes one thread.                                    *)
NotifyOneOfAll ==
    /\ NotifyOne
    /\ UNCHANGED <<freeList, stop, inUse, highWater, acquireFails>>

NotifyAll ==
    /\ asleep' = {} /\ woken' = woken \cup asleep
    /\ UNCHANGED <<freeList, stop, inUse, highWater, acquireFails>>
=============================================================================
