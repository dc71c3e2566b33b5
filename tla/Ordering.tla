------------------------------ MODULE Ordering -----------------------------
(***************************************************************************)
(* Three threads that print zero, one and two in this order, with a flag   *)
(* and a condition variable for each step.  In CS213/soln-8/q4.c the waits *)
(* are not in loops and some printing is done outside the lock; in         *)
(* CS213/code-10/q4.c they are, and all is done under the lock.  A         *)
(* critical section of mx is one action.                                   *)
(***************************************************************************)
EXTENDS Naturals, CondQueues

VARIABLES
    gone,      \* zeroHasGone and oneHasGone
    at,        \* at[p]: where procedure p is
    printed,
    canGoQ     \* the waiting threads of oneCanGo and twoCanGo

orderingVars == <<gone, at, printed, canGoQ>>

OrderingInit ==
    /\ gone = [p \in {"p0", "p1"} |-> FALSE]
    /\ at = [p \in {"p0", "p1", "p2"} |-> "start"]
    /\ printed = <<>>
    /\ canGoQ = [c \in {"oneCanGo", "twoCanGo"} |-> <<>>]

Goes(p, from, to) == at[p] = from /\ at' = [at EXCEPT ![p] = to]
Prints(word) == printed' = Append(printed, word)

\* p0 prints before it locks.
PrintZero ==
    /\ Goes("p0", "start", "printed")
    /\ Prints("zero")
    /\ UNCHANGED <<gone, canGoQ>>

ZeroGoes ==
    /\ Goes("p0", "printed", "end")
    /\ canGoQ' = Signalled(canGoQ, "oneCanGo")
    /\ gone' = [gone EXCEPT !["p0"] = TRUE]
    /\ UNCHANGED printed

OneWaits ==
    /\ ~gone["p0"]
    /\ Goes("p1", "start", "wait")
    /\ canGoQ' = Waits(canGoQ, "p1", "oneCanGo")
    /\ UNCHANGED <<gone, printed>>

\* p1 may go on: the flag was set, or it was woken.
MayGo(p, flag) ==
    \/ at[p] = "start" /\ gone[flag]
    \/ at[p] = "wait" /\ p \notin AllWaiting(canGoQ)

OneGoes ==
    /\ MayGo("p1", "p0")
    /\ at' = [at EXCEPT !["p1"] = "end"]
    /\ Prints("one")
    /\ canGoQ' = Signalled(canGoQ, "twoCanGo")
    /\ gone' = [gone EXCEPT !["p1"] = TRUE]

TwoWaits ==
    /\ ~gone["p1"]
    /\ Goes("p2", "start", "wait")
    /\ canGoQ' = Waits(canGoQ, "p2", "twoCanGo")
    /\ UNCHANGED <<gone, printed>>

\* Mutant: p2 tests the flag of p0.
TwoGoes_WrongFlag ==
    /\ MayGo("p2", "p0")
    /\ at' = [at EXCEPT !["p2"] = "unlocked"]
    /\ UNCHANGED <<gone, printed, canGoQ>>

TwoGoes ==
    /\ MayGo("p2", "p1")
    /\ at' = [at EXCEPT !["p2"] = "unlocked"]
    /\ UNCHANGED <<gone, printed, canGoQ>>

\* p2 prints after it has unlocked.
PrintTwo ==
    /\ Goes("p2", "unlocked", "end")
    /\ Prints("two")
    /\ UNCHANGED <<gone, canGoQ>>

OrderingNext ==
    PrintZero \/ ZeroGoes \/ OneWaits \/ OneGoes \/ TwoWaits \/ TwoGoes \/ PrintTwo

\* code-10/q4.c: p goes on when its flag is set, wakes the next if there is
\* one, and waits again otherwise.
LoopWaits(p, flag, c) ==
    /\ ~gone[flag]
    /\ p \notin AllWaiting(canGoQ)
    /\ at[p] \in {"start", "wait"}
    /\ at' = [at EXCEPT ![p] = "wait"]
    /\ canGoQ' = Waits(canGoQ, p, c)
    /\ UNCHANGED <<gone, printed>>

LoopGoes(p, word) ==
    /\ p \notin AllWaiting(canGoQ)
    /\ at[p] \in {"start", "wait"}
    /\ at' = [at EXCEPT ![p] = "end"]
    /\ Prints(word)

LoopZero ==
    /\ LoopGoes("p0", "zero")
    /\ gone' = [gone EXCEPT !["p0"] = TRUE]
    /\ canGoQ' = Signalled(canGoQ, "oneCanGo")

LoopOne ==
    /\ gone["p0"] /\ LoopGoes("p1", "one")
    /\ gone' = [gone EXCEPT !["p1"] = TRUE]
    /\ canGoQ' = Signalled(canGoQ, "twoCanGo")

LoopTwo == gone["p1"] /\ LoopGoes("p2", "two") /\ UNCHANGED <<gone, canGoQ>>

LoopOrderingNext ==
    \/ LoopWaits("p1", "p0", "oneCanGo") \/ LoopWaits("p2", "p1", "twoCanGo")
    \/ LoopZero \/ LoopOne \/ LoopTwo
-----------------------------------------------------------------------------
\* The words come in order, whoever runs first.
InOrder == IsPrefix(printed, <<"zero", "one", "two">>)

OrderingMoves == \E p \in DOMAIN at : at[p] # "end" /\ p \notin AllWaiting(canGoQ)

OrderingDone == printed = <<"zero", "one", "two">> /\ \A p \in DOMAIN at : at[p] = "end"
=============================================================================
