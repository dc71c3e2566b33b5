------------------------------- MODULE ARead -------------------------------
(***************************************************************************)
(* CS213/aRead.c: all blocks are requested at once, into one variable; the *)
(* interrupt service routine counts the completions in is_read_pending and *)
(* calls the handler it dequeues, which adds the variable to the sum; main *)
(* polls the count.                                                        *)
(*                                                                         *)
(* The increment and the addition are on volatile variables and are        *)
(* compiled as a load, an addition and a store.                            *)
(***************************************************************************)
EXTENDS DiskQueue

VARIABLES
    pc,               \* where main is
    blockno,
    is_read_pending,  \* the number of completions
    sum               \* the blocks added so far

progVars == <<pc, blockno, is_read_pending, sum>>
vars == <<diskVars, queueVars, progVars>>

result == CHOOSE b \in Buffers : TRUE    \* the local variable of main's loop

Init ==
    /\ DiskInit
    /\ QueueInit
    /\ pc = "request"
    /\ blockno = 0
    /\ is_read_pending = 0
    /\ sum = <<>>

Request ==
    /\ pc = "request" /\ blockno < NumBlocks
    /\ Schedule(result, blockno)
    /\ pc' = "enqueue"
    /\ UNCHANGED <<queueVars, blockno, is_read_pending, sum>>

Enqueue ==
    /\ pc = "enqueue"
    /\ QueueEnqueue("handle_read")
    /\ blockno' = blockno + 1
    /\ pc' = IF blockno' = NumBlocks THEN "poll" ELSE "request"
    /\ UNCHANGED <<is_read_pending, sum>>

Poll ==
    /\ ThreadRuns /\ pc = "poll" /\ is_read_pending = NumBlocks
    /\ pc' = "done"
    /\ UNCHANGED <<diskVars, queueVars, blockno, is_read_pending, sum>>

\* interrupt_service_routine and handle_read.
IsrStep(l, next, v) ==
    /\ In(l)
    /\ Goto(next, v)
    /\ UNCHANGED <<prq, mem, completed, elapsed, masked, isInterrupt, queueVars,
                   pc, blockno>>

LoadCount == IsrStep("isr", "count", is_read_pending)
             /\ UNCHANGED <<is_read_pending, sum>>

StoreCount ==
    /\ IsrStep("count", "counted", None)
    /\ is_read_pending' = Top.tmp + 1
    /\ UNCHANGED sum

Lock == QueueLock("counted") /\ UNCHANGED progVars
Dequeue == QueueDequeue("callback") /\ UNCHANGED progVars

\* A null callback is a call of address 0.
NullCallback == In("callback") /\ Top.tmp = None

LoadSum ==
    /\ ~NullCallback
    /\ IsrStep("callback", "add", Append(sum, mem[result]))
    /\ UNCHANGED <<is_read_pending, sum>>

StoreSum ==
    /\ IsrStep("add", "clear", None)
    /\ sum' = Top.tmp
    /\ UNCHANGED is_read_pending

Main == Request \/ Enqueue \/ Poll

Interrupt ==
    \/ Handler /\ UNCHANGED <<queueVars, progVars>>
    \/ LoadCount \/ StoreCount \/ Lock \/ Dequeue \/ LoadSum \/ StoreSum

Fires == Alarm /\ UNCHANGED <<queueVars, progVars>>
Passes == QueueTimePasses /\ UNCHANGED progVars

Next == Main \/ Interrupt \/ Fires \/ Passes

Spec == Init /\ [][Next]_vars

-----------------------------------------------------------------------------
\* Every completion finds the entry main made for it.
NoNullCallback == ~NullCallback

\* The one variable is enough for all reads, and the sum is that of the blocks
\* that completed, in the order of the requests: the routine for a read runs
\* before the next transfer.
SumFollowsReads ==
    /\ sum = [i \in 1..Len(sum) |-> i - 1]
    /\ ThreadRuns => Len(sum) = completed /\ is_read_pending = completed
    /\ pc = "done" => Len(sum) = NumBlocks

\* "Called by disk subsystem each time that a read completes", and "reads
\* complete in request order" (sRead.c:20-23): the routine is not called while
\* an outer activation still has to call it for an earlier read.
DeliveredInOrder ==
    In("isr") => \A i \in 1..(Len(frames) - 1) : frames[i].pc # "set"

Done == pc = "done"
=============================================================================
