------------------------------- MODULE TRead -------------------------------
(***************************************************************************)
(* src/tRead.c: one uthread per block.  A thread requests its block,       *)
(* enqueues itself, blocks, and adds its own variable when it runs again;  *)
(* the interrupt service routine dequeues a thread and unblocks it.        *)
(*                                                                         *)
(* The threads share one processor and give it up only in uthread_block.   *)
(* Main creates them all before any of them runs, and joins them.          *)
(***************************************************************************)
EXTENDS DiskQueue

VARIABLES
    pc,              \* pc[t]: where thread t is; t is also its result buffer
    cpu,             \* the thread that runs, or None
    parked, tokens,  \* the scheduler's side, see ThreadSched
    readyHeld,       \* ready_queue_spinlock is held by an activation
    sum              \* the blocks added so far

progVars == <<pc, cpu, parked, tokens, readyHeld, sum>>
vars == <<diskVars, queueVars, progVars>>

Sched == INSTANCE ThreadSched WITH Threads <- Buffers

\* blocks[]: the block each thread is given.
BlockOf == CHOOSE f \in [Buffers -> Blocks] : IsInjective(f)

Init ==
    /\ DiskInit
    /\ QueueInit
    /\ pc = [t \in Buffers |-> "request"]
    /\ cpu = None
    /\ Sched!Init
    /\ readyHeld = FALSE
    /\ sum = {}

\* A new thread starts.
Start(t) ==
    /\ ThreadRuns /\ cpu = None /\ pc[t] = "request"
    /\ cpu' = t
    /\ UNCHANGED <<diskVars, queueVars, pc, parked, tokens, readyHeld, sum>>

Request(t) ==
    /\ cpu = t /\ pc[t] = "request"
    /\ Schedule(t, BlockOf[t])
    /\ pc' = [pc EXCEPT ![t] = "enqueue"]
    /\ UNCHANGED <<queueVars, cpu, parked, tokens, readyHeld, sum>>

\* Mutant: the thread waits without having enqueued itself.
Enqueue_Skips(t) ==
    /\ ThreadRuns /\ cpu = t /\ pc[t] = "enqueue"
    /\ pc' = [pc EXCEPT ![t] = "block"]
    /\ enqueued' = enqueued + 1
    /\ UNCHANGED <<diskVars, queue, held, cpu, parked, tokens, readyHeld, sum>>

\* From here on the thread may be unblocked: it is parked for the scheduler.
Enqueue(t) ==
    /\ cpu = t /\ pc[t] = "enqueue"
    /\ QueueEnqueue(t)
    /\ Sched!Block(t)
    /\ pc' = [pc EXCEPT ![t] = "block"]
    /\ UNCHANGED <<cpu, readyHeld, sum>>

\* uthread_block gives the processor up ...
Block(t) ==
    /\ ThreadRuns /\ cpu = t /\ pc[t] = "block"
    /\ cpu' = None
    /\ pc' = [pc EXCEPT ![t] = "blocked"]
    /\ UNCHANGED <<diskVars, queueVars, parked, tokens, readyHeld, sum>>

\* ... and returns once the thread has been unblocked.
Resume(t) ==
    /\ ThreadRuns /\ cpu = None /\ pc[t] = "blocked"
    /\ Sched!Return(t)
    /\ cpu' = t
    /\ pc' = [pc EXCEPT ![t] = "add"]
    /\ UNCHANGED <<diskVars, queueVars, readyHeld, sum>>

\* The thread adds its result and exits.
Add(t) ==
    /\ ThreadRuns /\ cpu = t /\ pc[t] = "add"
    /\ sum' = sum \cup {mem[t]}
    /\ pc' = [pc EXCEPT ![t] = "done"]
    /\ cpu' = None
    /\ UNCHANGED <<diskVars, queueVars, parked, tokens, readyHeld>>

-----------------------------------------------------------------------------
(* interrupt_service_routine. *)

Lock == QueueLock("isr") /\ UNCHANGED progVars
Dequeue == QueueDequeue("unblock") /\ UNCHANGED progVars

\* uthread_unblock: ready_queue_enqueue under its spin lock.
ReadyLock ==
    /\ In("unblock")
    /\ Top.tmp # None
    /\ ~readyHeld
    /\ readyHeld' = TRUE
    /\ masked' = MaskedByLock
    /\ Goto("start", Top.tmp)
    /\ UNCHANGED <<prq, mem, completed, elapsed, isInterrupt, queueVars, pc,
                   cpu, parked, tokens, sum>>

ReadyEnqueue ==
    /\ In("start")
    /\ Sched!Unblock({Top.tmp})
    /\ readyHeld' = FALSE
    /\ masked' = MaskedByUnlock
    /\ Goto("clear", None)
    /\ UNCHANGED <<prq, mem, completed, elapsed, isInterrupt, queueVars, pc,
                   cpu, sum>>

Thread(t) == Start(t) \/ Request(t) \/ Enqueue(t) \/ Block(t) \/ Resume(t) \/ Add(t)

Interrupt ==
    \/ Handler /\ UNCHANGED <<queueVars, progVars>>
    \/ Lock \/ Dequeue \/ ReadyLock \/ ReadyEnqueue

Fires == Alarm /\ UNCHANGED <<queueVars, progVars>>
Passes == QueueTimePasses /\ UNCHANGED progVars

Next == (\E t \in Buffers : Thread(t)) \/ Interrupt \/ Fires \/ Passes

Spec == Init /\ [][Next]_vars

-----------------------------------------------------------------------------
\* Although activations of the handler nest, and a thread may be unblocked
\* before it has stopped, a thread that is unblocked has its own block in its
\* variable: the order of the transfers is that of the entries.
ResultIsRead ==
    /\ \A t \in tokens : mem[t] = BlockOf[t]
    /\ \A t \in Buffers : pc[t] \in {"add", "done"} => mem[t] = BlockOf[t]
    /\ In("unblock") => Top.tmp # None

Done == \A t \in Buffers : pc[t] = "done"
=============================================================================
