---------------------------- MODULE BoundedQueue ----------------------------
(***************************************************************************)
(* One BoundedQueue<T> of reconstruct_picture/include/concurrent_queue.h:  *)
(* a queue, a mutex, two condition variables and an atomic flag.           *)
(*                                                                         *)
(* push() and pop() do their work under the mutex, except two things that  *)
(* are steps of their own: notify_one(), which comes after the unlock, and *)
(* the moment between a pop() that finds nothing and its going to sleep.   *)
(* There the thread still has the mutex (owner), which keeps push() and    *)
(* pop() away; setFinished() takes no mutex and is not kept away.          *)
(* Spurious wakeups only repeat a test of a predicate and are left out.    *)
(***************************************************************************)
EXTENDS Naturals, Sequences

CONSTANTS Capacity,   \* max_size_
          None        \* nobody

VARIABLES queue,         \* queue_
          finished,      \* finished_
          owner,         \* the thread that has the mutex to go to sleep in pop()
          emptyWaiters,  \* threads asleep on not_empty_
          fullWaiters    \* threads asleep on not_full_

qvars == <<queue, finished, owner, emptyWaiters, fullWaiters>>

QInit ==
    /\ queue = <<>> /\ finished = FALSE /\ owner = None
    /\ emptyWaiters = {} /\ fullWaiters = {}

(* Mutant: the predicate of not_full_ lets one item too many in.           *)
PushOverfull(t, x) ==
    /\ owner = None /\ t \notin fullWaiters
    /\ Len(queue) <= Capacity
    /\ queue' = Append(queue, x)
    /\ UNCHANGED <<finished, owner, emptyWaiters, fullWaiters>>

(* push() up to the unlock.                                                *)
Push(t, x) ==
    /\ owner = None /\ t \notin fullWaiters
    /\ Len(queue) < Capacity
    /\ queue' = Append(queue, x)
    /\ UNCHANGED <<finished, owner, emptyWaiters, fullWaiters>>

(* push() finds the queue full and sleeps.                                 *)
PushWaits(t) ==
    /\ owner = None /\ t \notin fullWaiters
    /\ Len(queue) >= Capacity
    /\ fullWaiters' = fullWaiters \cup {t}
    /\ UNCHANGED <<queue, finished, owner, emptyWaiters>>

(* Mutant: the item is copied out and left in the queue.                   *)
PopCopies(t) ==
    /\ owner = None /\ t \notin emptyWaiters
    /\ queue # <<>>
    /\ UNCHANGED qvars

(* pop() up to the unlock; the item is Head(queue).                        *)
Pop(t) ==
    /\ owner = None /\ t \notin emptyWaiters
    /\ queue # <<>>
    /\ queue' = Tail(queue)
    /\ UNCHANGED <<finished, owner, emptyWaiters, fullWaiters>>

(* Mutant: finished_ alone ends the consumer, items or not.                *)
PopReturnsFalseEarly(t) ==
    /\ owner = None /\ t \notin emptyWaiters
    /\ finished
    /\ UNCHANGED qvars

(* pop() returns false.                                                    *)
PopReturnsFalse(t) ==
    /\ owner = None /\ t \notin emptyWaiters
    /\ queue = <<>> /\ finished
    /\ UNCHANGED qvars

(* pop() has seen an empty queue and finished_ false ...                   *)
PopFindsEmpty(t) ==
    /\ owner = None /\ t \notin emptyWaiters
    /\ queue = <<>> /\ ~finished
    /\ owner' = t
    /\ UNCHANGED <<queue, finished, emptyWaiters, fullWaiters>>

(* ... and now sleeps, which releases the mutex.                           *)
PopSleeps(t) ==
    /\ owner = t
    /\ owner' = None /\ emptyWaiters' = emptyWaiters \cup {t}
    /\ UNCHANGED <<queue, finished, fullWaiters>>

WakesOne(S, T) == IF S = {} THEN T = {} ELSE \E t \in S : T = S \ {t}

(* not_empty_.notify_one() of push().                                      *)
NotifyNotEmpty ==
    /\ WakesOne(emptyWaiters, emptyWaiters')
    /\ UNCHANGED <<queue, finished, owner, fullWaiters>>

(* Mutant: pop() does not notify.                                          *)
NotifyNothing == UNCHANGED qvars

(* not_full_.notify_one() of pop().                                        *)
NotifyNotFull ==
    /\ WakesOne(fullWaiters, fullWaiters')
    /\ UNCHANGED <<queue, finished, owner, emptyWaiters>>

(* The two statements of setFinished().                                    *)
StoreFinished ==
    /\ finished' = TRUE
    /\ UNCHANGED <<queue, owner, emptyWaiters, fullWaiters>>

NotifyAllNotEmpty ==
    /\ emptyWaiters' = {}
    /\ UNCHANGED <<queue, finished, owner, fullWaiters>>
=============================================================================
