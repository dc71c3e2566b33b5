------------------------------ MODULE DiskQueue ----------------------------
(***************************************************************************)
(* The queue of CS213/code-9/queue.c, in which a program keeps what it     *)
(* wants done when a read completes, in the order it requested the reads.  *)
(* Thread code enqueues under the queue's spin lock with SIGALRM blocked;  *)
(* the interrupt service routine dequeues with isInterrupt set, so that    *)
(* its lock leaves the signal as it finds it.                              *)
(***************************************************************************)
EXTENDS Disk

CONSTANT
    Prompt   \* does no read complete before the program has enqueued what it
             \* wants done then?  READ_LATENCY_USEC is 10 ms.

ASSUME DiskQueueAssumption == Prompt \in BOOLEAN

VARIABLES
    queue,      \* the entries, front first
    held,       \* q->mutex is held by an activation of the handler
    enqueued    \* history: entries made so far

queueVars == <<queue, held, enqueued>>

QueueInit == queue = <<>> /\ held = FALSE /\ enqueued = 0

\* Mutant: the old entries are cut off.
QueueEnqueue_Cuts(e) ==
    /\ ThreadRuns
    /\ queue' = <<e>>
    /\ enqueued' = enqueued + 1
    /\ UNCHANGED <<diskVars, held>>

\* queue_enqueue, called by thread code.
QueueEnqueue(e) ==
    /\ ThreadRuns
    /\ queue' = Append(queue, e)
    /\ enqueued' = enqueued + 1
    /\ UNCHANGED <<diskVars, held>>

\* queue_dequeue, called at l by the interrupt service routine: get the lock.
QueueLock(l) ==
    /\ In(l)
    /\ ~held
    /\ held' = TRUE
    /\ masked' = MaskedByLock
    /\ Goto("dequeue", None)
    /\ UNCHANGED <<prq, mem, completed, elapsed, isInterrupt, queue, enqueued>>

\* Take the front entry, which is null when the queue is empty, and unlock.
QueueDequeue(l) ==
    /\ In("dequeue")
    /\ held' = FALSE
    /\ masked' = MaskedByUnlock
    /\ IF queue = <<>>
       THEN Goto(l, None) /\ UNCHANGED queue
       ELSE Goto(l, Head(queue)) /\ queue' = Tail(queue)
    /\ UNCHANGED <<prq, mem, completed, elapsed, isInterrupt, enqueued>>

\* Time, as far as the program keeps up with it.
QueueTimePasses ==
    /\ Prompt => elapsed < enqueued
    /\ TimePasses
    /\ UNCHANGED queueVars
=============================================================================
