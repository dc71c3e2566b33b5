------------------------------- MODULE UMutex ------------------------------
(***************************************************************************)
(* Reader-writer mutexes and condition variables over the uthread          *)
(* scheduler (CS213/code-11/uthreads/uthread_mutex_cond.c): one mutex, the *)
(* condition variables created for it, and threads that use them as the    *)
(* assertions of the code demand.                                          *)
(*                                                                         *)
(* A critical section of mutex->spinlock is one action.  A condition       *)
(* variable's queue has no lock of its own: it is touched only by the      *)
(* holder.  The step from a queue into uthread_block is taken with the     *)
(* section that queues the thread: ThreadSched keeps an unblock that comes *)
(* in between.                                                             *)
(***************************************************************************)
EXTENDS Naturals, SequencesExt

CONSTANTS
    Threads,
    Conds,      \* the condition variables of the mutex
    None        \* the null pointer

ASSUME UMutexAssumption ==
    /\ IsFiniteSet(Threads)
    /\ None \notin Threads

VARIABLES
    holder,       \* mutex->holder
    readerCount,  \* mutex->reader_count
    waiterQ,      \* mutex->waiter_queue: writers, head first
    readerQ,      \* mutex->reader_waiter_queue
    condQ,        \* condQ[c]: cond->waiter_queue
    pc,           \* pc[t]: where thread t is
    parked, tokens \* the scheduler's side, see ThreadSched

mutexVars == <<holder, readerCount, waiterQ, readerQ>>
schedVars == <<parked, tokens>>
vars == <<mutexVars, condQ, pc, schedVars>>

Sched == INSTANCE ThreadSched

MutexPC == {"out",      \* holds nothing
            "lock",     \* in the loop of uthread_mutex_lock
            "rdlock",   \* in the loop of uthread_mutex_lock_readonly
            "writing",  \* returned from uthread_mutex_lock
            "reading"}  \* returned from uthread_mutex_lock_readonly

Init ==
    /\ holder = None
    /\ readerCount = 0
    /\ waiterQ = <<>>
    /\ readerQ = <<>>
    /\ condQ = [c \in Conds |-> <<>>]
    /\ pc = [t \in Threads |-> "out"]
    /\ Sched!Init

Busy == holder # None \/ readerCount > 0

\* t executes at one of the program points of P, not stopped in uthread_block.
At(t, P) == pc[t] \in P /\ t \notin parked

\* Mutant: a writer looks at the holder only.
Acquire_IgnoresReaders(t) ==
    /\ At(t, {"out", "lock"})
    /\ holder = None
    /\ holder' = t
    /\ pc' = [pc EXCEPT ![t] = "writing"]
    /\ UNCHANGED <<readerCount, waiterQ, readerQ, condQ, schedVars>>

\* uthread_mutex_lock: the test of the loop, on the first entry and after each
\* return from uthread_block.
Acquire(t) ==
    /\ At(t, {"out", "lock"})
    /\ ~Busy
    /\ holder' = t
    /\ pc' = [pc EXCEPT ![t] = "writing"]
    /\ UNCHANGED <<readerCount, waiterQ, readerQ, condQ, schedVars>>

AcquireWait(t) ==
    /\ At(t, {"out", "lock"})
    /\ Busy
    /\ waiterQ' = Append(waiterQ, t)
    /\ pc' = [pc EXCEPT ![t] = "lock"]
    /\ Sched!Block(t)
    /\ UNCHANGED <<holder, readerCount, readerQ, condQ>>

\* Mutant: readers are noted, not counted.
AcquireRead_OneFlag(t) ==
    /\ At(t, {"out", "rdlock"})
    /\ holder = None /\ waiterQ = <<>>
    /\ readerCount' = 1
    /\ pc' = [pc EXCEPT ![t] = "reading"]
    /\ UNCHANGED <<holder, waiterQ, readerQ, condQ, schedVars>>

\* uthread_mutex_lock_readonly: readers give way to queued writers.
AcquireRead(t) ==
    /\ At(t, {"out", "rdlock"})
    /\ holder = None /\ waiterQ = <<>>
    /\ readerCount' = readerCount + 1
    /\ pc' = [pc EXCEPT ![t] = "reading"]
    /\ UNCHANGED <<holder, waiterQ, readerQ, condQ, schedVars>>

AcquireReadWait(t) ==
    /\ At(t, {"out", "rdlock"})
    /\ holder # None \/ waiterQ # <<>>
    /\ readerQ' = Append(readerQ, t)
    /\ pc' = [pc EXCEPT ![t] = "rdlock"]
    /\ Sched!Block(t)
    /\ UNCHANGED <<holder, readerCount, waiterQ, condQ>>

\* Mutants: queued readers go before queued writers, and whoever leaves
\* leaves as a reader.
ReleaseMutex_ReadersFirst ==
    LET left == IF holder # None THEN readerCount ELSE readerCount - 1 IN
    /\ holder' = None
    /\ readerCount' = left
    /\ \/ /\ left # 0
          /\ UNCHANGED <<waiterQ, readerQ, tokens>>
       \/ /\ left = 0 /\ readerQ # <<>>
          /\ tokens' = tokens \cup ToSet(readerQ)
          /\ readerQ' = <<>>
          /\ UNCHANGED waiterQ
       \/ /\ left = 0 /\ readerQ = <<>> /\ waiterQ = <<>>
          /\ UNCHANGED <<waiterQ, readerQ, tokens>>
       \/ /\ left = 0 /\ readerQ = <<>> /\ waiterQ # <<>>
          /\ tokens' = tokens \cup {Head(waiterQ)}
          /\ waiterQ' = Tail(waiterQ)
          /\ UNCHANGED readerQ

ReleaseMutex_AlwaysCounts ==
    /\ holder' = None
    /\ readerCount' = readerCount - 1
    /\ \/ /\ waiterQ # <<>>
          /\ tokens' = tokens \cup {Head(waiterQ)}
          /\ waiterQ' = Tail(waiterQ)
          /\ UNCHANGED readerQ
       \/ /\ waiterQ = <<>>
          /\ tokens' = tokens \cup ToSet(readerQ)
          /\ readerQ' = <<>>
          /\ UNCHANGED waiterQ

\* uthread_mutex_unlock, except for what it leaves to its callers: pc and
\* parked.  The last to leave wakes one queued writer, or else all readers.
ReleaseMutex ==
    LET left == IF holder # None THEN readerCount ELSE readerCount - 1 IN
    /\ holder' = None
    /\ readerCount' = left
    /\ \/ /\ left # 0
          /\ UNCHANGED <<waiterQ, readerQ, tokens>>
       \/ /\ left = 0 /\ waiterQ # <<>>
          /\ tokens' = tokens \cup {Head(waiterQ)}
          /\ waiterQ' = Tail(waiterQ)
          /\ UNCHANGED readerQ
       \/ /\ left = 0 /\ waiterQ = <<>>
          /\ tokens' = tokens \cup ToSet(readerQ)
          /\ readerQ' = <<>>
          /\ UNCHANGED waiterQ

Unlock(t) ==
    /\ At(t, {"writing", "reading"})
    /\ ReleaseMutex
    /\ pc' = [pc EXCEPT ![t] = "out"]
    /\ UNCHANGED <<condQ, parked>>

\* uthread_cond_wait: queue, unlock, block; then lock again.
CondWait(t, c) ==
    /\ At(t, {"writing"})
    /\ condQ' = [condQ EXCEPT ![c] = Append(@, t)]
    /\ ReleaseMutex
    /\ parked' = parked \cup {t}
    /\ pc' = [pc EXCEPT ![t] = "lock"]

CondSignal(t, c) ==
    /\ At(t, {"writing"})
    /\ condQ[c] # <<>>
    /\ Sched!Unblock({Head(condQ[c])})
    /\ condQ' = [condQ EXCEPT ![c] = Tail(@)]
    /\ UNCHANGED <<mutexVars, pc>>

\* Mutant: the queue is not emptied.
CondBroadcast_KeepsQueue(t, c) ==
    /\ At(t, {"writing"})
    /\ condQ[c] # <<>>
    /\ Sched!Unblock(ToSet(condQ[c]))
    /\ UNCHANGED <<mutexVars, condQ, pc>>

CondBroadcast(t, c) ==
    /\ At(t, {"writing"})
    /\ condQ[c] # <<>>
    /\ Sched!Unblock(ToSet(condQ[c]))
    /\ condQ' = [condQ EXCEPT ![c] = <<>>]
    /\ UNCHANGED <<mutexVars, pc>>

Return(t) ==
    /\ Sched!Return(t)
    /\ UNCHANGED <<mutexVars, condQ, pc>>

Next == \E t \in Threads :
    \/ Acquire(t) \/ AcquireWait(t)
    \/ AcquireRead(t) \/ AcquireReadWait(t)
    \/ Unlock(t)
    \/ \E c \in Conds : CondWait(t, c) \/ CondSignal(t, c) \/ CondBroadcast(t, c)
    \/ Return(t)

Spec == Init /\ [][Next]_vars

\* A thread inside a lock call keeps running once the scheduler returns it
\* from its block, and a thread that holds the mutex lets it go.
Retry(t) == \/ pc[t] = "lock" /\ (Acquire(t) \/ AcquireWait(t))
            \/ pc[t] = "rdlock" /\ (AcquireRead(t) \/ AcquireReadWait(t))

LetGo(t) == Unlock(t) \/ \E c \in Conds : CondWait(t, c)

FairSpec ==
    Spec /\ \A t \in Threads :
              WF_vars(Return(t)) /\ WF_vars(Retry(t)) /\ WF_vars(LetGo(t))
-----------------------------------------------------------------------------
TypeOK ==
    /\ holder \in Threads \cup {None}
    /\ readerCount \in Nat
    /\ waiterQ \in Seq(Threads)
    /\ readerQ \in Seq(Threads)
    /\ condQ \in [Conds -> Seq(Threads)]
    /\ pc \in [Threads -> MutexPC]
    /\ parked \subseteq Threads
    /\ tokens \subseteq parked

\* The threads that returned from a lock call and have not unlocked.
Writers == {t \in Threads : pc[t] = "writing"}
Readers == {t \in Threads : pc[t] = "reading"}

\* A writer excludes everybody else; readers exclude writers.
MutualExclusion ==
    \A t \in Writers : \A u \in Writers \cup Readers : u = t

\* The fields say who is inside, so that the assertions of
\* uthread_mutex_unlock, uthread_cond_wait and uthread_cond_signal hold for
\* every thread that keeps to the protocol.
FieldsAgree ==
    /\ Writers = {holder} \ {None}
    /\ readerCount = Cardinality(Readers)

\* A thread in uthread_block without a pending unblock is in exactly one of
\* the queues, once: the queues share the link field of the TCB.  The queue it
\* is in is that of the call it made.
InCondQ == UNION {ToSet(condQ[c]) : c \in Conds}

StoppedIsQueued ==
    /\ IsInjective(waiterQ)
    /\ IsInjective(readerQ)
    /\ \A c \in Conds : IsInjective(condQ[c])
    /\ \A c, d \in Conds : c # d => ToSet(condQ[c]) \cap ToSet(condQ[d]) = {}
    /\ ToSet(waiterQ) \cap ToSet(readerQ) = {}
    /\ InCondQ \cap (ToSet(waiterQ) \cup ToSet(readerQ)) = {}
    /\ ToSet(waiterQ) \cup ToSet(readerQ) \cup InCondQ = parked \ tokens
    /\ \A t \in ToSet(waiterQ) \cup InCondQ : pc[t] = "lock"
    /\ \A t \in ToSet(readerQ) : pc[t] = "rdlock"

\* A thread on its way to the mutex as a writer: it was woken, or signalled.
WriterComing ==
    \E t \in Threads : pc[t] = "lock" /\ (t \notin parked \/ t \in tokens)

\* Nobody is left in a queue that no unlock will serve.  A queued writer has
\* the mutex busy or another writer on its way; a queued reader has, besides
\* those, a queued writer to wait for, and never waits for readers alone.
NoStrandedWaiter ==
    /\ waiterQ # <<>> => Busy \/ WriterComing
    /\ readerQ # <<>> => holder # None \/ waiterQ # <<>> \/ WriterComing

\* To the programs that use it, the module is the abstract Monitor: the queues
\* of the mutex and what the scheduler keeps do not show.
Mon == INSTANCE Monitor WITH writer <- holder, readers <- Readers, waiting <- condQ
ImplementsMonitor == Mon!Spec

\* A free mutex with queued threads is taken by somebody.
FreeMutexTaken ==
    (~Busy /\ (waiterQ # <<>> \/ readerQ # <<>>))
        ~> (Busy \/ (waiterQ = <<>> /\ readerQ = <<>>))
=============================================================================
