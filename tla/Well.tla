-------------------------------- MODULE Well -------------------------------
(***************************************************************************)
(* CS213/code-11/well.c: a well for people of one endianness at a time, at *)
(* most MAX_OCCUPANCY of them, which is to change sides after              *)
(* FAIR_WAITING_COUNT entries of one side while the other waits.           *)
(*                                                                         *)
(* A critical section of mx is one action.  The ticker is read outside the *)
(* lock, before a person enters and after.                                 *)
(***************************************************************************)
EXTENDS Integers, FiniteSetsExt, CondQueues

CONSTANTS
    People,
    MaxOccupancy,       \* MAX_OCCUPANCY
    FairWaitingCount,   \* FAIR_WAITING_COUNT
    Visits              \* NUM_ITERATIONS

ASSUME WellAssumption ==
    /\ IsFiniteSet(People)
    /\ MaxOccupancy \in Nat \ {0}
    /\ FairWaitingCount \in Nat
    /\ Visits \in Nat

Endianness == {"little", "big"}
oppositeEnd == [little |-> "big", big |-> "little"]

\* WAITING_HISTOGRAM_SIZE.
HistogramSize == Visits * Cardinality(People)

VARIABLES
    numInWell, typeInWell, waitingCount, oppositeWaitingCount,
    endQ,          \* endQ[g]: the waiting threads of littleOrBig[g]
    entryTicker,
    endOf,         \* endOf[x]: the endianness of person x
    spot,          \* spot[x]: where x is
    start,         \* start[x]: the ticker x read last
    visits         \* visits[x]: the rounds x has completed

wellFields == <<numInWell, typeInWell, waitingCount, oppositeWaitingCount, endQ>>
wellVars == <<wellFields, entryTicker, endOf, spot, start, visits>>

WellInit ==
    /\ numInWell = 0
    /\ typeInWell = "little"
    /\ waitingCount = [g \in Endianness |-> 0]
    /\ oppositeWaitingCount = 0
    /\ endQ = [g \in Endianness |-> <<>>]
    /\ entryTicker = 0
    /\ endOf \in [People -> Endianness]
    /\ spot = [x \in People |-> "out"]
    /\ start = [x \in People |-> 0]
    /\ visits = [x \in People |-> 0]

Walks(x, from, to) == spot[x] = from /\ spot' = [spot EXCEPT ![x] = to]

ReadTicker(x) ==
    /\ visits[x] < Visits
    /\ Walks(x, "out", "enter")
    /\ start' = [start EXCEPT ![x] = entryTicker]
    /\ UNCHANGED <<wellFields, entryTicker, endOf, visits>>
-----------------------------------------------------------------------------
(* enterWell: a person comes, or comes back from uthread_cond_wait. *)

Tests(x) == spot[x] = "enter" \/ (spot[x] = "waiting" /\ x \notin AllWaiting(endQ))

\* waitingCount as x finds it: a person who comes back leaves it first.
CountFor(x) ==
    IF spot[x] = "waiting" THEN [waitingCount EXCEPT ![endOf[x]] = @ - 1] ELSE waitingCount

TurnToOppositeType(x) ==
    /\ CountFor(x)[oppositeEnd[endOf[x]]] > 0
    /\ oppositeWaitingCount >= FairWaitingCount

MayEnter(x) ==
    \/ numInWell = 0
    \/ /\ numInWell < MaxOccupancy
       /\ typeInWell = endOf[x]
       /\ ~TurnToOppositeType(x)

Enter(x) ==
    /\ Tests(x) /\ MayEnter(x)
    /\ waitingCount' = CountFor(x)
    /\ oppositeWaitingCount' =
         IF typeInWell = endOf[x] THEN oppositeWaitingCount + 1 ELSE 0
    /\ entryTicker' = entryTicker + 1
    /\ typeInWell' = endOf[x]
    /\ numInWell' = numInWell + 1
    /\ spot' = [spot EXCEPT ![x] = "record"]
    /\ UNCHANGED <<endQ, endOf, start, visits>>

WaitToEnter(x) ==
    LET g == endOf[x] IN
    /\ Tests(x) /\ ~MayEnter(x)
    /\ oppositeWaitingCount' =
         IF typeInWell # g /\ CountFor(x)[g] = 0 THEN 0 ELSE oppositeWaitingCount
    /\ waitingCount' = [CountFor(x) EXCEPT ![g] = @ + 1]
    /\ endQ' = Waits(endQ, x, g)
    /\ spot' = [spot EXCEPT ![x] = "waiting"]
    /\ UNCHANGED <<numInWell, typeInWell, entryTicker, endOf, start, visits>>
-----------------------------------------------------------------------------
\* recordWaitingTime, for the ticker as it is now.
WaitingTime(x) == entryTicker - start[x] - 1

Record(x) ==
    /\ Walks(x, "record", "inside")
    /\ UNCHANGED <<wellFields, entryTicker, endOf, start, visits>>

\* The signals of leaveWell, MAX_OCCUPANCY of them to the other side.
SignalOpposite(g) ==
    [endQ EXCEPT ![oppositeEnd[g]] = SubSeq(@, MaxOccupancy + 1, Len(@))]

\* leaveWell.
OppositeTurn ==
    /\ waitingCount[oppositeEnd[typeInWell]] > 0
    /\ waitingCount[typeInWell] = 0 \/ oppositeWaitingCount >= FairWaitingCount

\* Mutant: the other side is told of the first free place.
Leave_TellsOnce(x) ==
    /\ Walks(x, "inside", "out")
    /\ numInWell' = numInWell - 1
    /\ endQ' = IF OppositeTurn
               THEN IF numInWell' = MaxOccupancy - 1
                    THEN SignalOpposite(typeInWell) ELSE endQ
               ELSE IF waitingCount[typeInWell] > 0
               THEN Signalled(endQ, typeInWell) ELSE endQ
    /\ visits' = [visits EXCEPT ![x] = @ + 1]
    /\ UNCHANGED <<typeInWell, waitingCount, oppositeWaitingCount, entryTicker,
                   endOf, start>>

Leave(x) ==
    /\ Walks(x, "inside", "out")
    /\ numInWell' = numInWell - 1
    /\ endQ' = IF OppositeTurn
               THEN IF numInWell' = 0 THEN SignalOpposite(typeInWell) ELSE endQ
               ELSE IF waitingCount[typeInWell] > 0
               THEN Signalled(endQ, typeInWell) ELSE endQ
    /\ visits' = [visits EXCEPT ![x] = @ + 1]
    /\ UNCHANGED <<typeInWell, waitingCount, oppositeWaitingCount, entryTicker,
                   endOf, start>>

WellNext ==
    \E x \in People :
        ReadTicker(x) \/ Enter(x) \/ WaitToEnter(x) \/ Record(x) \/ Leave(x)

WellSpec == WellInit /\ [][WellNext]_wellVars
-----------------------------------------------------------------------------
\* The people in the well, and those who have said that they wait.
Inside == {x \in People : spot[x] \in {"record", "inside"}}
Waiting(g) == {x \in People : spot[x] = "waiting" /\ endOf[x] = g}

\* The assertions of enterWell: people of one endianness, no more than there
\* is room for; and the fields say who is in and who waits.
OneKindInside ==
    /\ numInWell = Cardinality(Inside)
    /\ numInWell <= MaxOccupancy
    /\ \A x \in Inside : endOf[x] = typeInWell
    /\ \A g \in Endianness : waitingCount[g] = Cardinality(Waiting(g))

\* The waiting time is an index of the histogram, whenever it is taken and
\* however many people enter in between: the overflow is never counted.
WaitingTimeInRange ==
    \A x \in People :
        spot[x] = "record" => WaitingTime(x) \in 0..(HistogramSize - 1)

\* While people wait, somebody is inside, or on the way in to be next, or there
\* is a woken person: the signals of leaveWell never leave a queue behind.
NobodyForgotten ==
    AllWaiting(endQ) # {} => Inside # {} \/ \E x \in People : Tests(x)

WellMoves == \E x \in People : visits[x] < Visits /\ x \notin AllWaiting(endQ)

WellDone == \A x \in People : visits[x] = Visits
=============================================================================
