------------------------------- MODULE SRead -------------------------------
(***************************************************************************)
(* CS213/code-9/sRead.c: blocks read one at a time; main sets a flag,      *)
(* requests a read and polls until the interrupt service routine clears    *)
(* the flag.                                                               *)
(***************************************************************************)
EXTENDS Disk

VARIABLES
    pc,             \* where main is
    blockno,
    is_read_pending,
    sum             \* the blocks added so far

vars == <<diskVars, pc, blockno, is_read_pending, sum>>

result == CHOOSE b \in Buffers : TRUE    \* the local variable

Init ==
    /\ DiskInit
    /\ pc = "set"
    /\ blockno = 0
    /\ is_read_pending = FALSE
    /\ sum = <<>>

SetPending ==
    /\ ThreadRuns /\ pc = "set" /\ blockno < NumBlocks
    /\ is_read_pending' = TRUE
    /\ pc' = "request"
    /\ UNCHANGED <<diskVars, blockno, sum>>

Request ==
    /\ pc = "request"
    /\ Schedule(result, blockno)
    /\ pc' = "poll"
    /\ UNCHANGED <<blockno, is_read_pending, sum>>

Poll ==
    /\ ThreadRuns /\ pc = "poll" /\ ~is_read_pending
    /\ pc' = "add"
    /\ UNCHANGED <<diskVars, blockno, is_read_pending, sum>>

Add ==
    /\ ThreadRuns /\ pc = "add"
    /\ sum' = Append(sum, mem[result])
    /\ blockno' = blockno + 1
    /\ pc' = IF blockno' = NumBlocks THEN "done" ELSE "set"
    /\ UNCHANGED <<diskVars, is_read_pending>>

InterruptServiceRoutine ==
    /\ In("isr")
    /\ is_read_pending' = FALSE
    /\ Goto("clear", None)
    /\ UNCHANGED <<prq, mem, completed, elapsed, masked, isInterrupt, pc,
                   blockno, sum>>

Main == SetPending \/ Request \/ Poll \/ Add

Interrupt == \/ Handler /\ UNCHANGED <<pc, blockno, is_read_pending, sum>>
             \/ InterruptServiceRoutine

Fires == Alarm /\ UNCHANGED <<pc, blockno, is_read_pending, sum>>
Passes == TimePasses /\ UNCHANGED <<pc, blockno, is_read_pending, sum>>

Next == Main \/ Interrupt \/ Fires \/ Passes

Spec == Init /\ [][Next]_vars

-----------------------------------------------------------------------------
\* Polling the flag is enough, however activations of the handler nest: what
\* main adds is the block it asked for, each once and in order, and no read is
\* under way while it does not wait for one.
AddsWhatItRead ==
    /\ sum = [i \in 1..Len(sum) |-> i - 1]
    /\ pc = "add" => mem[result] = blockno /\ prq = <<>>

Done == pc = "done" /\ Len(sum) = NumBlocks
=============================================================================
