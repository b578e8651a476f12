-------------------------- MODULE MemoryPoolClients --------------------------
(***************************************************************************)
(* Threads that share one MemoryPool and call its public methods in any    *)
(* order, as its interface allows: acquire(), tryAcquire(), dropping a     *)
(* handle (whose deleter is release()) and shutdown().  A thread keeps as  *)
(* many handles as it likes.                                               *)
(***************************************************************************)
EXTENDS MemoryPool, FiniteSets, SequencesExt

CONSTANTS Threads, Buffers,
          MaxFails   \* bound on acquireFailCount_

ClientAssumption ==
    /\ IsFiniteSet(Threads) /\ IsFiniteSet(Buffers) /\ Buffers # {}
    /\ MaxFails \in Nat

VARIABLES pc,     \* what each thread is in: nothing, acquire() or shutdown()
          held    \* the handles of each thread

vars == <<poolVars, pc, held>>

ClientInit ==
    /\ pc = [t \in Threads |-> "idle"]
    /\ held = [t \in Threads |-> {}]

Init == PoolInit(SetToSeq(Buffers)) /\ ClientInit

Goes(t, from, to) == pc[t] = from /\ pc' = [pc EXCEPT ![t] = to]
Keeps(t, b) == held' = [held EXCEPT ![t] = @ \cup {b}]

CallAcquire(t) == Goes(t, "idle", "acquire") /\ UNCHANGED <<poolVars, held>>

AcquireSucceeds(t) ==
    /\ Goes(t, "acquire", "idle") /\ Acquire(t) /\ Keeps(t, Head(freeList))

AcquireWaits(t) ==
    /\ pc[t] = "acquire" /\ AcquireSleeps(t) /\ UNCHANGED <<pc, held>>

AcquireGivesUp(t) ==
    /\ Goes(t, "acquire", "idle") /\ AcquireReturnsNull(t) /\ UNCHANGED held

CallTryAcquire(t) ==
    /\ pc[t] = "idle" /\ UNCHANGED pc
    /\ \/ TryAcquire /\ Keeps(t, Head(freeList))
       \/ acquireFails < MaxFails /\ TryAcquireFails /\ UNCHANGED held

DropHandle(t) ==
    /\ pc[t] = "idle" /\ UNCHANGED pc
    /\ \E b \in held[t] : Release(b) /\ held' = [held EXCEPT ![t] = @ \ {b}]

CallShutdown(t) ==
    /\ Goes(t, "idle", "notify") /\ StoreStop /\ UNCHANGED held

ShutdownNotifies(t) ==
    /\ Goes(t, "notify", "idle") /\ NotifyAll /\ UNCHANGED held

(* What a thread that is inside a method goes on with.                     *)
Continue(t) ==
    \/ AcquireSucceeds(t) \/ AcquireWaits(t) \/ AcquireGivesUp(t)
    \/ ShutdownNotifies(t)

Next == \E t \in Threads :
    \/ CallAcquire(t) \/ CallTryAcquire(t) \/ DropHandle(t) \/ CallShutdown(t)
    \/ Continue(t)

Spec == Init /\ [][Next]_vars
FairSpec == Spec /\ \A t \in Threads : WF_vars(Continue(t))

-----------------------------------------------------------------------------
TypeOK ==
    /\ freeList \in Seq(Buffers) /\ stop \in BOOLEAN
    /\ asleep \subseteq Threads /\ woken \subseteq Threads
    /\ {inUse, highWater} \subseteq 0 .. Cardinality(Buffers)
    /\ acquireFails \in 0 .. MaxFails
    /\ pc \in [Threads -> {"idle", "acquire", "notify"}]
    /\ held \in [Threads -> SUBSET Buffers]

(* A buffer is in the free list once or in the hands of one thread, and    *)
(* never both: no two owners of one block (mem_pool_demo.cpp:62, 115).     *)
OneOwnerPerBuffer ==
    /\ IsInjective(freeList)
    /\ \A b \in Buffers :
         Cardinality({t \in Threads : b \in held[t]})
            = IF b \in ToSet(freeList) THEN 0 ELSE 1

(* No thread sleeps for nothing: while the pool is open, each free buffer  *)
(* has a woken thread coming for it whenever others sleep, whichever       *)
(* threads took buffers between a notification and the waking; once it is  *)
(* shut, the notify_all() is still to come (mem_pool_demo.cpp:54, 101).    *)
NoLostWakeup ==
    asleep # {} =>
        IF stop THEN \E t \in Threads : pc[t] = "notify"
                ELSE Len(freeList) <= Cardinality(woken)

(* inUseCount_ is the number of buffers that are out, and highWaterMark_   *)
(* is never below it, whoever releases when (mem_pool_demo.cpp:65, 119,    *)
(* 126).                                                                   *)
StatisticsAgree ==
    /\ inUse + Len(freeList) = Cardinality(Buffers)
    /\ inUse <= highWater

(* After shutdown() every acquire() returns, also that of a thread that    *)
(* was asleep, or was about to sleep, when it was called                   *)
(* (mem_pool_demo.cpp:95-102).                                             *)
ShutdownEndsAcquire ==
    \A t \in Threads : (stop /\ pc[t] = "acquire") ~> (pc[t] = "idle")

(* The pool keeps account of its buffers: who has them, and how many are  *)
(* out (mem_pool_demo.cpp:52-132).                                        *)
PoolConsistent == TypeOK /\ OneOwnerPerBuffer /\ StatisticsAgree
=============================================================================
