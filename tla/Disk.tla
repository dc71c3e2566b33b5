-------------------------------- MODULE Disk -------------------------------
(***************************************************************************)
(* The simulated disk of CS213/code-9/disk.c on one processor              *)
(* (uthread_init(1)): a queue of pending reads, a periodic SIGALRM whose   *)
(* handler completes the reads that are due and calls the program's        *)
(* interrupt service routine, and the signal mask and isInterrupt flag     *)
(* through which spin locks keep the signal away.                          *)
(*                                                                         *)
(* The handler runs on the stack of the thread it interrupts and nothing   *)
(* below it moves until it returns.  A section that the thread executes    *)
(* under a spin lock is one action, because SIGALRM is blocked in it.  The *)
(* handler itself unblocks the signal when it releases prq_mutex, so a     *)
(* second activation may start inside the first.                           *)
(*                                                                         *)
(* Time is what the completion times are compared for: how many requests,  *)
(* in the order they were made, are due.                                   *)
(***************************************************************************)
EXTENDS Naturals, SequencesExt

CONSTANTS
    Buffers,   \* the variables reads are made into, at least one
    NumBlocks,
    None,      \* the null pointer, an undefined value
    MaxNest    \* bound: handler activations at a time; 1 says that the
               \* handler returns before the timer fires again

Blocks == 0..(NumBlocks - 1)

ASSUME DiskAssumption ==
    /\ Buffers # {}
    /\ NumBlocks \in Nat
    /\ None \notin Buffers \cup Nat
    /\ MaxNest \in Nat \ {0}

VARIABLES
    prq,          \* pending reads, front first: [buf, blockNo]
    mem,          \* mem[b]: the block whose contents buffer b holds
    completed,    \* history: reads transferred so far
    elapsed,      \* requests whose completeTime has passed
    frames,       \* handler activations, the innermost last
    masked,       \* SIGALRM is blocked
    isInterrupt   \* isInterrupt of the thread that runs

diskVars == <<prq, mem, completed, elapsed, frames, masked, isInterrupt>>

DiskInit ==
    /\ prq = <<>>
    /\ mem = [b \in Buffers |-> None]
    /\ completed = 0
    /\ elapsed = 0
    /\ frames = <<>>
    /\ masked = FALSE
    /\ isInterrupt = FALSE

\* Thread code runs: no handler is active.
ThreadRuns == frames = <<>>

\* disk_schedule_read, called by thread code.
Schedule(buf, block) ==
    /\ ThreadRuns
    /\ prq' = Append(prq, [buf |-> buf, blockNo |-> block])
    /\ UNCHANGED <<mem, completed, elapsed, frames, masked, isInterrupt>>

\* The completion time of one more request passes.
TimePasses ==
    /\ elapsed < completed + Len(prq)
    /\ elapsed' = elapsed + 1
    /\ UNCHANGED <<prq, mem, completed, frames, masked, isInterrupt>>
-----------------------------------------------------------------------------
(* handleTimerInterrupt. *)

\* The timer fires: the kernel blocks the signal for the handler, which reads
\* the time.
Alarm ==
    /\ ~masked
    /\ Len(frames) < MaxNest
    /\ frames' = Append(frames, [pc |-> "lock", now |-> elapsed, tmp |-> None])
    /\ masked' = TRUE
    /\ UNCHANGED <<prq, mem, completed, elapsed, isInterrupt>>

Top == frames[Len(frames)]
In(l) == frames # <<>> /\ Top.pc = l

\* The activation moves to l, with the local value v.
Goto(l, v) == frames' = [frames EXCEPT ![Len(frames)].pc = l,
                                       ![Len(frames)].tmp = v]

\* spinlock_lock blocks SIGALRM, and spinlock_unlock unblocks it, unless
\* isInterrupt is set.
MaskedByLock == masked \/ ~isInterrupt
MaskedByUnlock == masked /\ isInterrupt

\* Mutant: the completion time is not compared.
Due_Any == prq # <<>>

\* The read at the front was due when the activation began.
Due == prq # <<>> /\ completed < Top.now

\* One round of the loop: performDMA, dequeue, unlock.
Transfer ==
    /\ In("lock")
    /\ Due
    /\ LET pr == Head(prq) IN mem' = [mem EXCEPT ![pr.buf] = pr.blockNo]
    /\ completed' = completed + 1
    /\ prq' = Tail(prq)
    /\ masked' = MaskedByUnlock
    /\ Goto("set", None)
    /\ UNCHANGED <<elapsed, isInterrupt>>

\* Nothing more is due: unlock and return, which restores the mask.
Return ==
    /\ In("lock")
    /\ ~Due
    /\ frames' = Front(frames)
    /\ masked' = FALSE
    /\ UNCHANGED <<prq, mem, completed, elapsed, isInterrupt>>

\* deliverInterrupt: the isr runs between the two.
SetInterrupt ==
    /\ In("set")
    /\ isInterrupt' = TRUE
    /\ Goto("isr", None)
    /\ UNCHANGED <<prq, mem, completed, elapsed, masked>>

\* Mutant: the flag stays set.
ClearInterrupt_Forgets ==
    /\ In("clear")
    /\ Goto("lock", None)
    /\ UNCHANGED <<prq, mem, completed, elapsed, masked, isInterrupt>>

ClearInterrupt ==
    /\ In("clear")
    /\ isInterrupt' = FALSE
    /\ Goto("lock", None)
    /\ UNCHANGED <<prq, mem, completed, elapsed, masked>>

Handler == Transfer \/ Return \/ SetInterrupt \/ ClearInterrupt
-----------------------------------------------------------------------------
DiskTypeOK ==
    /\ prq \in Seq([buf : Buffers, blockNo : Blocks])
    /\ mem \in [Buffers -> Blocks \cup {None}]
    /\ completed \in Nat
    /\ elapsed \in completed..(completed + Len(prq))
    /\ Len(frames) <= MaxNest
    /\ masked \in BOOLEAN
    /\ isInterrupt \in BOOLEAN

\* The two ways to keep SIGALRM out of a spin-lock section agree: prq_mutex is
\* never taken by an activation with the signal open, so an activation never
\* spins for a lock that one below it holds, and thread code always runs with
\* the signal open and the flag clear, so that its own sections block it.
SectionsAreMasked ==
    /\ In("lock") => MaskedByLock
    /\ ThreadRuns => ~masked /\ ~isInterrupt
=============================================================================
