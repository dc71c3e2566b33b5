------------------------------ MODULE LinkQueue -----------------------------
(***************************************************************************)
(* The queues of threads of the uthread packages, linked through the one   *)
(* next field of the thread control blocks: the ready queue and the wait   *)
(* queues.  uthread_enqueue of code-9 (and code-11) ignores a thread that  *)
(* it takes for enqueued, and uthread_dequeue clears the link it looks at; *)
(* those of soln-7 do neither.  The callers hold the lock of the queue.    *)
(***************************************************************************)
EXTENDS Integers, SequencesExt

CONSTANTS Tcbs, Queues,
          NoTcb     \* the null pointer

ASSUME LinkAssumption == NoTcb \notin Tcbs

VARIABLES
    guarded,     \* the package is that of code-9
    first,       \* first[q]: queue->head
    last,        \* last[q]: queue->tail
    link,        \* link[t]: thread->next
    contents     \* history: the threads of each queue, in the order they came

linkVars == <<guarded, first, last, link, contents>>

LinkInit ==
    /\ guarded \in BOOLEAN
    /\ first = [q \in Queues |-> NoTcb]
    /\ last = [q \in Queues |-> NoTcb]
    /\ link = [t \in Tcbs |-> NoTcb]
    /\ contents = [q \in Queues |-> <<>>]

\* What the guard of code-9 takes for a thread that is in a queue.
SeemsEnqueued(q, t) == guarded /\ (link[t] # NoTcb \/ last[q] = t)

\* Where the caller has put t: a thread is in one queue at a time.
Nowhere(t) == \A q \in Queues : t \notin ToSet(contents[q])

\* The links after t was put at the end of q.
Linked(q, t) ==
    LET cleared == [link EXCEPT ![t] = NoTcb]
    IN  IF last[q] = NoTcb THEN cleared ELSE [cleared EXCEPT ![last[q]] = t]

uthread_enqueue(q, t) ==
    /\ Nowhere(t)
    /\ contents' = [contents EXCEPT ![q] = Append(@, t)]
    /\ IF SeemsEnqueued(q, t)
       THEN UNCHANGED <<first, last, link>>
       ELSE /\ link' = Linked(q, t)
            /\ last' = [last EXCEPT ![q] = t]
            /\ first' = [first EXCEPT ![q] = IF @ = NoTcb THEN t ELSE @]
    /\ UNCHANGED guarded

\* Mutant: the guarded package leaves the link as it is.
uthread_dequeue_KeepsLink(q) ==
    /\ first[q] # NoTcb
    /\ first' = [first EXCEPT ![q] = link[@]]
    /\ last' = [last EXCEPT ![q] = IF link[first[q]] = NoTcb THEN NoTcb ELSE @]
    /\ contents' = [contents EXCEPT ![q] = Tail(@)]
    /\ UNCHANGED <<guarded, link>>

uthread_dequeue(q) ==
    /\ first[q] # NoTcb
    /\ first' = [first EXCEPT ![q] = link[@]]
    /\ last' = [last EXCEPT ![q] = IF link[first[q]] = NoTcb THEN NoTcb ELSE @]
    /\ link' = IF guarded THEN [link EXCEPT ![first[q]] = NoTcb] ELSE link
    /\ contents' = [contents EXCEPT ![q] = Tail(@)]
    /\ UNCHANGED guarded

LinkNext ==
    \E q \in Queues : uthread_dequeue(q) \/ \E t \in Tcbs : uthread_enqueue(q, t)

LinkSpec == LinkInit /\ [][LinkNext]_linkVars
-----------------------------------------------------------------------------
\* Head and tail of a queue, and the links from one thread to the next, are
\* those of the threads that were put in and not yet taken out, in order.
Agrees(q) ==
    LET s == contents[q] IN
    IF s = <<>>
    THEN first[q] = NoTcb /\ last[q] = NoTcb
    ELSE /\ first[q] = s[1]
         /\ last[q] = s[Len(s)]
         /\ link[s[Len(s)]] = NoTcb
         /\ \A i \in 1..Len(s) - 1 : link[s[i]] = s[i + 1]

QueuesAreLinked == \A q \in Queues : Agrees(q)
=============================================================================
