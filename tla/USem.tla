------------------------------- MODULE USem --------------------------------
(***************************************************************************)
(* Counting semaphores over the uthread scheduler                          *)
(* (CS213/code-11/uthreads/uthread_sem.c).  A waiter that finds no permit  *)
(* queues itself and blocks; a signal adds a permit and unblocks one       *)
(* waiter, which must still compete for the permit when it runs: a thread  *)
(* that calls uthread_sem_wait meanwhile may take it.                      *)
(*                                                                         *)
(* A critical section of sem->spinlock is one action.  The step from the   *)
(* queue into uthread_block is taken with the section that queues the      *)
(* thread: ThreadSched keeps an unblock that comes in between.             *)
(***************************************************************************)
EXTENDS Integers, SequencesExt

CONSTANTS
    Threads,
    InitialValue,   \* uthread_sem_create's argument
    MaxSignals      \* bound: calls of uthread_sem_signal

ASSUME USemAssumption ==
    /\ IsFiniteSet(Threads)
    /\ InitialValue \in Int
    /\ MaxSignals \in Nat

VARIABLES
    value,          \* sem->value
    waiters,        \* sem->waiter_queue, head first
    pc,             \* pc[t]: "idle", or "wait" inside uthread_sem_wait's loop
    parked, tokens, \* the scheduler's side, see ThreadSched
    signals,        \* history: calls of uthread_sem_signal
    passed          \* history: returns from uthread_sem_wait

vars == <<value, waiters, pc, parked, tokens, signals, passed>>

Sched == INSTANCE ThreadSched

Init ==
    /\ value = InitialValue
    /\ waiters = <<>>
    /\ pc = [t \in Threads |-> "idle"]
    /\ Sched!Init
    /\ signals = 0
    /\ passed = 0

\* t executes and is not stopped in uthread_block.
Active(t) == t \notin parked

\* Mutants: nobody is woken; a waiter is woken but stays in the queue; a
\* waiter is woken only when the value becomes positive.
Signal_NoUnblock(t) ==
    /\ pc[t] = "idle"
    /\ signals < MaxSignals
    /\ signals' = signals + 1
    /\ value' = value + 1
    /\ UNCHANGED <<pc, passed, waiters, parked, tokens>>

Signal_KeepsQueued(t) ==
    /\ pc[t] = "idle"
    /\ signals < MaxSignals
    /\ signals' = signals + 1
    /\ value' = value + 1
    /\ \/ /\ waiters # <<>>
          /\ tokens' = tokens \cup {Head(waiters)}
          /\ UNCHANGED <<waiters, parked>>
       \/ /\ waiters = <<>>
          /\ UNCHANGED <<waiters, parked, tokens>>
    /\ UNCHANGED <<pc, passed>>

Signal_OnlyBelowOne(t) ==
    /\ pc[t] = "idle"
    /\ signals < MaxSignals
    /\ signals' = signals + 1
    /\ value' = value + 1
    /\ \/ /\ waiters # <<>> /\ value < 1
          /\ Sched!Unblock({Head(waiters)})
          /\ waiters' = Tail(waiters)
       \/ /\ waiters = <<>> \/ value >= 1
          /\ UNCHANGED <<waiters, parked, tokens>>
    /\ UNCHANGED <<pc, passed>>

Signal(t) ==
    /\ pc[t] = "idle"
    /\ signals < MaxSignals
    /\ signals' = signals + 1
    /\ value' = value + 1
    /\ \/ /\ waiters # <<>>
          /\ Sched!Unblock({Head(waiters)})
          /\ waiters' = Tail(waiters)
       \/ /\ waiters = <<>>
          /\ UNCHANGED <<waiters, parked, tokens>>
    /\ UNCHANGED <<pc, passed>>

\* Mutant: the loop is an if, and a woken thread takes a permit that may be
\* gone.
TakePermit_NoRetest(t) ==
    /\ Active(t)
    /\ value >= 1 \/ pc[t] = "wait"
    /\ value' = value - 1
    /\ pc' = [pc EXCEPT ![t] = "idle"]
    /\ passed' = passed + 1
    /\ UNCHANGED <<waiters, parked, tokens, signals>>

\* The test of uthread_sem_wait's loop, on the first entry and after each
\* return from uthread_block, and what follows it in the same section.
TakePermit(t) ==
    /\ Active(t)
    /\ value >= 1
    /\ value' = value - 1
    /\ pc' = [pc EXCEPT ![t] = "idle"]
    /\ passed' = passed + 1
    /\ UNCHANGED <<waiters, parked, tokens, signals>>

Enqueue(t) ==
    /\ Active(t)
    /\ value < 1
    /\ waiters' = Append(waiters, t)
    /\ pc' = [pc EXCEPT ![t] = "wait"]
    /\ Sched!Block(t)
    /\ UNCHANGED <<value, signals, passed>>

\* uthread_block returns; the thread is on its way to the spin lock.
Return(t) ==
    /\ Sched!Return(t)
    /\ UNCHANGED <<value, waiters, pc, signals, passed>>

Next == \E t \in Threads : Signal(t) \/ TakePermit(t) \/ Enqueue(t) \/ Return(t)

Spec == Init /\ [][Next]_vars

\* A thread inside uthread_sem_wait keeps running: the scheduler returns it
\* from its block, and it leaves the loop or queues itself again.
Retry(t) == pc[t] = "wait" /\ (TakePermit(t) \/ Enqueue(t))

FairSpec == Spec /\ \A t \in Threads : WF_vars(Return(t)) /\ WF_vars(Retry(t))
-----------------------------------------------------------------------------
TypeOK ==
    /\ value \in Int
    /\ waiters \in Seq(Threads)
    /\ pc \in [Threads -> {"idle", "wait"}]
    /\ parked \subseteq Threads
    /\ tokens \subseteq parked
    /\ signals \in 0..MaxSignals
    /\ passed \in Nat

\* Every stopped thread can be reached: it is in the wait queue, once, until a
\* signal takes it out and unblocks it.  A thread outside uthread_sem_wait is
\* never in the queue, so no signal is spent on it.
StoppedIsQueued ==
    /\ IsInjective(waiters)
    /\ \A t \in Threads :
         /\ t \in ToSet(waiters) <=> t \in parked \ tokens
         /\ t \in parked => pc[t] = "wait"

\* Woken threads that have not yet taken a permit or queued again.
InFlight == tokens \cup {t \in Threads \ parked : pc[t] = "wait"}

\* No lost wakeup: while some thread stays queued, every free permit is
\* matched by a thread already woken to take it, although a permit may be
\* taken by a thread that was never queued.
NoLostWakeup == waiters # <<>> => value <= Cardinality(InFlight)

\* No permit is invented: waits return at most as often as there were permits,
\* whether the permit goes to a woken thread or to one that just came.
PermitsConserved == passed > 0 => passed <= InitialValue + signals

\* A free permit does not stay free while a thread waits.
PermitEventuallyTaken ==
    (value >= 1 /\ waiters # <<>>) ~> (value < 1 \/ waiters = <<>>)
=============================================================================
