------------------------------ MODULE ProdCons -----------------------------
(***************************************************************************)
(* The bounded counter of CS213/soln-8/pc.c: producers add an item while   *)
(* there is room, consumers remove one while there is one, each tells the  *)
(* other side.  The histogram of the counts is left out.                   *)
(*                                                                         *)
(* A critical section of mx is one action: Monitor lets one thread inside. *)
(* A woken thread takes the mutex again like any newcomer.                 *)
(***************************************************************************)
EXTENDS Naturals, FiniteSetsExt, CondQueues

CONSTANTS
    Producers, Consumers,
    MaxItems,      \* MAX_ITEMS
    Iterations     \* NUM_ITERATIONS

Actors == Producers \cup Consumers

ASSUME ProdConsAssumption ==
    /\ IsFiniteSet(Actors)
    /\ Producers \cap Consumers = {}
    /\ MaxItems \in Nat \ {0}
    /\ Iterations \in Nat

\* NUM_PRODUCERS is NUM_CONSUMERS: what is produced is consumed.
ASSUME BalancedAssumption == Cardinality(Producers) = Cardinality(Consumers)

VARIABLES
    items,
    round,      \* round[t]: the loops t has completed
    waitQ       \* the waiting threads of canAdd and canRemove

prodConsVars == <<items, round, waitQ>>

ProdConsInit ==
    /\ items = 0
    /\ round = [t \in Actors |-> 0]
    /\ waitQ = [c \in {"canAdd", "canRemove"} |-> <<>>]

\* t is at the lock of its next round, or was woken and retests its condition.
Tries(t) == round[t] < Iterations /\ t \notin AllWaiting(waitQ)

\* The end of a round that leaves n items.
Change(t, n) ==
    /\ items' = n
    /\ round' = [round EXCEPT ![t] = @ + 1]

\* Mutant: only the first item is told of.
Produce_OnlyFirst(t) ==
    /\ Tries(t) /\ items # MaxItems
    /\ Change(t, items + 1)
    /\ waitQ' = IF items = 0 THEN Signalled(waitQ, "canRemove") ELSE waitQ

Produce(t) ==
    /\ Tries(t) /\ items # MaxItems
    /\ Change(t, items + 1)
    /\ waitQ' = Signalled(waitQ, "canRemove")

ProducerWaits(t) ==
    /\ Tries(t) /\ items = MaxItems
    /\ waitQ' = Waits(waitQ, t, "canAdd")
    /\ UNCHANGED <<items, round>>

Consume(t) ==
    /\ Tries(t) /\ items # 0
    /\ Change(t, items - 1)
    /\ waitQ' = Signalled(waitQ, "canAdd")

ConsumerWaits(t) ==
    /\ Tries(t) /\ items = 0
    /\ waitQ' = Waits(waitQ, t, "canRemove")
    /\ UNCHANGED <<items, round>>

ProdConsNext ==
    \/ \E t \in Producers : Produce(t) \/ ProducerWaits(t)
    \/ \E t \in Consumers : Consume(t) \/ ConsumerWaits(t)

ProdConsSpec == ProdConsInit /\ [][ProdConsNext]_prodConsVars
-----------------------------------------------------------------------------
\* The assertion on items, and a waiting thread is of the side that waits for
\* that condition, has a round to do and is queued once.
ItemsInBounds ==
    /\ items \in 0..MaxItems
    /\ round \in [Actors -> 0..Iterations]
    /\ ToSet(waitQ["canAdd"]) \subseteq {t \in Producers : round[t] < Iterations}
    /\ ToSet(waitQ["canRemove"]) \subseteq {t \in Consumers : round[t] < Iterations}
    /\ IsInjective(waitQ["canAdd"]) /\ IsInjective(waitQ["canRemove"])

\* One signal per change wakes enough threads, although a newcomer may take
\* what a woken thread was woken for: while consumers wait, as many others as
\* there are items are on their way, and producers for the free places.
Coming(side) == {t \in side : Tries(t)}

NoSignalLost ==
    /\ waitQ["canRemove"] # <<>> => items <= Cardinality(Coming(Consumers))
    /\ waitQ["canAdd"] # <<>> => MaxItems - items <= Cardinality(Coming(Producers))

\* A thread is neither done nor asleep.
ProdConsMoves == \E t \in Actors : Tries(t)

ProdConsDone == \A t \in Actors : round[t] = Iterations
=============================================================================
