------------------------------ MODULE Monitor ------------------------------
(***************************************************************************)
(* What uthread_mutex_cond.c promises to the programs that use it: one     *)
(* writer or any number of readers inside, and condition variables whose   *)
(* waiting threads leave in the order they came, when signalled, and have  *)
(* to enter again.  UMutex implements it.                                  *)
(***************************************************************************)
EXTENDS CondQueues

CONSTANTS Threads, Conds, None

VARIABLES
    writer,    \* the thread that holds the mutex, or None
    readers,   \* the threads that hold it for reading
    waiting    \* waiting[c]: the threads that wait for c, first come first

monitorVars == <<writer, readers, waiting>>

Init ==
    /\ writer = None
    /\ readers = {}
    /\ waiting = [c \in Conds |-> <<>>]

Outside(t) == t # writer /\ t \notin readers /\ t \notin AllWaiting(waiting)

Enter(t) ==
    /\ Outside(t)
    /\ writer = None /\ readers = {}
    /\ writer' = t
    /\ UNCHANGED <<readers, waiting>>

EnterRead(t) ==
    /\ Outside(t)
    /\ writer = None
    /\ readers' = readers \cup {t}
    /\ UNCHANGED <<writer, waiting>>

Exit(t) ==
    /\ t = writer \/ t \in readers
    /\ writer' = None
    /\ readers' = readers \ {t}
    /\ UNCHANGED waiting

Wait(t, c) ==
    /\ t = writer
    /\ writer' = None
    /\ waiting' = Waits(waiting, t, c)
    /\ UNCHANGED readers

Signal(t, c) ==
    /\ t = writer
    /\ waiting' = Signalled(waiting, c)
    /\ UNCHANGED <<writer, readers>>

Broadcast(t, c) ==
    /\ t = writer
    /\ waiting' = Broadcasted(waiting, c)
    /\ UNCHANGED <<writer, readers>>

Next ==
    \E t \in Threads :
        \/ Enter(t) \/ EnterRead(t) \/ Exit(t)
        \/ \E c \in Conds : Wait(t, c) \/ Signal(t, c) \/ Broadcast(t, c)

Spec == Init /\ [][Next]_monitorVars
=============================================================================
