---------------------------- MODULE ThreadSched ----------------------------
(***************************************************************************)
(* What the uthread scheduler promises to the code built on uthread_block  *)
(* and uthread_unblock: a thread that blocks stays stopped until it is     *)
(* unblocked, an unblock that comes before the target has stopped is kept  *)
(* for it, and an unblocked thread returns from its block.                 *)
(*                                                                         *)
(* Uthread implements this specification; USem, UMutex and the other       *)
(* clients are built from its three actions.                               *)
(***************************************************************************)
CONSTANT Threads

VARIABLES
    parked,   \* threads inside uthread_block, from the moment the lock that
              \* protects their wait queue is released
    tokens    \* parked threads that were unblocked and have not returned

vars == <<parked, tokens>>

Init == parked = {} /\ tokens = {}

Block(t) ==
    /\ t \notin parked
    /\ parked' = parked \cup {t}
    /\ UNCHANGED tokens

\* Unblocking several threads at once is what a broadcast does under a lock.
Unblock(S) ==
    /\ S \subseteq parked \ tokens
    /\ tokens' = tokens \cup S
    /\ UNCHANGED parked

Return(t) ==
    /\ t \in tokens
    /\ parked' = parked \ {t}
    /\ tokens' = tokens \ {t}

Next ==
    \/ \E t \in Threads : Block(t) \/ Return(t)
    \/ \E S \in SUBSET Threads : S # {} /\ Unblock(S)

Spec == Init /\ [][Next]_vars
FairSpec == Spec /\ \A t \in Threads : WF_vars(Return(t))

\* A kept unblock belongs to a thread that is still inside its block.
TypeOK == parked \subseteq Threads /\ tokens \subseteq parked
=============================================================================
