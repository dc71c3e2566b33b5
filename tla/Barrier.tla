------------------------------- MODULE Barrier -----------------------------
(***************************************************************************)
(* Two barriers: threads that print a, wait for all others, print b.       *)
(*                                                                         *)
(* In CS213/soln-8/q3.c the threads that came are counted under the lock   *)
(* and the wait is not in a loop: only the broadcast of the last thread    *)
(* ends it.  In CS213/code-10/q3.c the threads still to come are counted   *)
(* down without the lock, in two steps, and a woken thread tests the count *)
(* again.  A critical section is one action.                               *)
(***************************************************************************)
EXTENDS Integers, FiniteSetsExt, CondQueues

CONSTANT Parties    \* the NUM_THREADS threads

ASSUME BarrierAssumption == IsFiniteSet(Parties)

VARIABLES
    arrivals,
    stage,     \* stage[t]: where t is
    goQ        \* the waiting threads of go

barrierVars == <<arrivals, stage, goQ>>

Stages == {"a",        \* about to print a
           "call",     \* about to lock mx
           "wait",     \* inside uthread_cond_wait
           "b",        \* returned, about to print b
           "end"}

BarrierInit ==
    /\ arrivals = 0
    /\ stage = [t \in Parties |-> "a"]
    /\ goQ = [c \in {"go"} |-> <<>>]

Moves(t, from, to) == stage[t] = from /\ stage' = [stage EXCEPT ![t] = to]

PrintA(t) == Moves(t, "a", "call") /\ UNCHANGED <<arrivals, goQ>>

\* waitForAllOtherThreads: not all have come ...
ArriveWait(t) ==
    /\ arrivals + 1 < Cardinality(Parties)
    /\ Moves(t, "call", "wait")
    /\ arrivals' = arrivals + 1
    /\ goQ' = Waits(goQ, t, "go")

\* Mutant: one thread is woken.
ArriveLast_Signals(t) ==
    /\ ~(arrivals + 1 < Cardinality(Parties))
    /\ Moves(t, "call", "b")
    /\ arrivals' = arrivals + 1
    /\ goQ' = Signalled(goQ, "go")

\* ... and the last one wakes the others.
ArriveLast(t) ==
    /\ ~(arrivals + 1 < Cardinality(Parties))
    /\ Moves(t, "call", "b")
    /\ arrivals' = arrivals + 1
    /\ goQ' = Broadcasted(goQ, "go")

\* A woken thread locks mx again and unlocks it.
Released(t) ==
    /\ t \notin AllWaiting(goQ)
    /\ Moves(t, "wait", "b")
    /\ UNCHANGED <<arrivals, goQ>>

PrintB(t) == Moves(t, "b", "end") /\ UNCHANGED <<arrivals, goQ>>

BarrierNext ==
    \E t \in Parties :
        PrintA(t) \/ ArriveWait(t) \/ ArriveLast(t) \/ Released(t) \/ PrintB(t)

BarrierSpec == BarrierInit /\ [][BarrierNext]_barrierVars
-----------------------------------------------------------------------------
\* No b comes before all a's.
AsBeforeBs ==
    (\E t \in Parties : stage[t] \in {"b", "end"}) => \A t \in Parties : stage[t] # "a"

BarrierMoves == \E t \in Parties : stage[t] # "end" /\ t \notin AllWaiting(goQ)

BarrierDone == \A t \in Parties : stage[t] = "end"
-----------------------------------------------------------------------------
(* code-10/q3.c. *)

CONSTANT Letters    \* the NUM_THREADS threads

ASSUME CountDownAssumption == IsFiniteSet(Letters)

VARIABLES
    threadnum,
    read,       \* read[t]: what t has read of threadnum to decrease it
    place,      \* place[t]: where t is
    letterQ     \* the waiting threads of letter_cond

countDownVars == <<threadnum, read, place, letterQ>>

CountDownInit ==
    /\ threadnum = Cardinality(Letters)
    /\ read = [t \in Letters |-> 0]
    /\ place = [t \in Letters |-> "a"]
    /\ letterQ = [c \in {"letter_cond"} |-> <<>>]

Passes(t, from, to) == place[t] = from /\ place' = [place EXCEPT ![t] = to]

PrintsA(t) == Passes(t, "a", "minus") /\ UNCHANGED <<threadnum, read, letterQ>>

\* threadnum--
ReadsCount(t) ==
    /\ Passes(t, "minus", "store")
    /\ read' = [read EXCEPT ![t] = threadnum]
    /\ UNCHANGED <<threadnum, letterQ>>

StoresCount(t) ==
    /\ Passes(t, "store", "test")
    /\ threadnum' = read[t] - 1
    /\ UNCHANGED <<read, letterQ>>

\* waitForAllOtherThreads
WaitsForLetter(t) ==
    /\ threadnum > 0
    /\ t \notin AllWaiting(letterQ)
    /\ Passes(t, "test", "test")
    /\ letterQ' = Waits(letterQ, t, "letter_cond")
    /\ UNCHANGED <<threadnum, read>>

LastLetter(t) ==
    /\ threadnum <= 0
    /\ t \notin AllWaiting(letterQ)
    /\ Passes(t, "test", "b")
    /\ letterQ' = IF threadnum = 0 THEN Broadcasted(letterQ, "letter_cond")
                                   ELSE letterQ
    /\ UNCHANGED <<threadnum, read>>

PrintsB(t) == Passes(t, "b", "end") /\ UNCHANGED <<threadnum, read, letterQ>>

CountDownNext ==
    \E t \in Letters :
        \/ PrintsA(t) \/ ReadsCount(t) \/ StoresCount(t)
        \/ WaitsForLetter(t) \/ LastLetter(t) \/ PrintsB(t)
-----------------------------------------------------------------------------
\* A decrement may be lost, so that the count never gets to zero.  Then all
\* threads wait for ever, but none gets past the others: a b is printed only
\* if every thread has counted, and then nobody is left behind.
AllPassOrNone ==
    (\E t \in Letters : place[t] \in {"b", "end"}) =>
        /\ threadnum = 0
        /\ \A t \in Letters : place[t] \in {"test", "b", "end"}

CountDownMoves == \E t \in Letters : place[t] # "end" /\ t \notin AllWaiting(letterQ)

CountDownDone == \/ \A t \in Letters : place[t] = "end"
                 \/ AllWaiting(letterQ) = Letters /\ threadnum > 0
=============================================================================
