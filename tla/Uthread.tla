------------------------------ MODULE Uthread ------------------------------
(***************************************************************************)
(* The scheduler of the uthread library (CS213/code-11/uthreads/uthread.c, *)
(* with PTHREAD_IDLE_SLEEP): uthreads multiplexed on a fixed set of        *)
(* pthreads that share one ready queue.  A uthread gives its pthread up    *)
(* only by yielding, blocking, joining or exiting; the pthread then        *)
(* dequeues a successor, publishes the state of the thread it leaves,      *)
(* waits until the successor no longer runs elsewhere, moves to its stack, *)
(* and only then disposes of the thread it left.                           *)
(*                                                                         *)
(* Granularity.  A critical section of ready_queue_spinlock or of a        *)
(* join_spinlock is one action; every access to shared state made outside  *)
(* a lock is an action of its own.                                         *)
(***************************************************************************)
EXTENDS Integers, SequencesExt

CONSTANTS
    Pthreads,     \* the processors: uthread_init's num_processors pthreads
    MainPthread,  \* the pthread that called uthread_init
    Threads,      \* every TCB that exists during a run
    Main,         \* base_thread: the uthread of the caller of uthread_init
    Base,         \* Base[p]: the pthread_base thread of pthread p
    None,         \* the null pointer
    Detached,     \* (uthread_t) -1 in a joiner field
    MaxClaims,    \* bound: join and detach calls made on one thread
    LateCheck     \* may a pthread be delayed, between publishing the state
                  \* of the thread it leaves and testing it, for so long that
                  \* the thread meanwhile runs elsewhere and stops again?

ASSUME UthreadAssumption ==
    /\ MainPthread \in Pthreads
    /\ Main \in Threads
    /\ Base \in [Pthreads -> Threads]
    /\ \A p, q \in Pthreads : Base[p] = Base[q] => p = q
    /\ \A p \in Pthreads : Base[p] # Main
    /\ None \notin Threads \cup {Detached} \cup Pthreads
    /\ Detached \notin Threads
    /\ MaxClaims \in Nat
    /\ LateCheck \in BOOLEAN

Bases == {Base[p] : p \in Pthreads}
Users == Threads \ Bases          \* threads that run client code

ThreadState == {"UNBORN",         \* no TCB allocated yet
                "NASCENT", "RUNNING", "RUNABLE", "BLOCKED", "DYING", "DEAD",
                "FREED"}          \* TCB and stack returned to malloc

StopState == {"RUNABLE", "BLOCKED", "DYING"}

PthreadPC == {"run",       \* executing the client code of cur[p]
              "dequeue",   \* in ready_queue_dequeue
              "toSleep",   \* found it empty: holds pthread_mutex
              "asleep",    \* in pthread_cond_wait
              "woken",     \* signalled, must get pthread_mutex back
              "switch",    \* successor chosen, state not yet published
              "spin",      \* state published, waiting for the successor
              "after",     \* on the successor's stack, from not yet tested
              "reap",      \* from was seen DYING
              "requeue",   \* from was seen RUNABLE
              "resume"}    \* about to set the successor RUNNING

ThreadPC == {"user",       \* in client code (or stopped in uthread_yield)
             "block",      \* in uthread_block
             "join",       \* in uthread_join, past the test of joiner
             "joinWait",   \* in uthread_join, stopped until target exits
             "detach"}     \* in uthread_detach, past the test of joiner

VARIABLES
    state,        \* state[t]: thread->state
    joiner,       \* joiner[t]: thread->joiner
    ready,        \* the ready queue, head first
    pmutex,       \* the pthread that holds pthread_mutex, or None
    numSleeping,  \* pthread_num_sleeping
    pc,           \* pc[p]: where pthread p is
    cur,          \* cur[p]: the uthread on whose stack p is
    to,           \* to[p]: uthread_switch's to_thread, until p is on its stack
    from,         \* from[p]: from_thread, once p has left its stack
    stopState,    \* stopState[p]: uthread_stop's argument
    tpc,          \* tpc[t]: where uthread t is
    target,       \* target[t]: the argument of its join or detach
    waiting,      \* threads in a wait queue of some client of the scheduler
    claims,       \* history: join and detach calls made on each thread
    owed          \* history: threads unblocked since their last block returned

queueVars == <<ready, pmutex, numSleeping>>
threadVars == <<tpc, target, waiting, claims, owed>>
vars == <<state, joiner, queueVars, pc, cur, to, from, stopState, threadVars>>

Init ==
    /\ state = [t \in Threads |->
                  IF t = Main THEN "RUNNING"
                  ELSE IF t = Base[MainPthread] THEN "NASCENT"
                  ELSE IF t \in Bases THEN "RUNNING" ELSE "UNBORN"]
    /\ joiner = [t \in Threads |-> None]
    /\ ready = <<>>
    /\ pmutex = None
    /\ numSleeping = 0
    /\ pc = [p \in Pthreads |-> "run"]
    /\ cur = [p \in Pthreads |-> IF p = MainPthread THEN Main ELSE Base[p]]
    /\ to = [p \in Pthreads |-> None]
    /\ from = [p \in Pthreads |-> None]
    /\ stopState = [p \in Pthreads |-> "BLOCKED"]
    /\ tpc = [t \in Threads |-> "user"]
    /\ target = [t \in Threads |-> None]
    /\ waiting = {}
    /\ claims = [t \in Threads |-> 0]
    /\ owed = {}

-----------------------------------------------------------------------------
(* The ready queue. *)

\* Mutants of the insertion: a queue that forgets who was in it, and a stack.
Enqueued_Overwrites(queue, t) ==
    IF t \in ToSet(queue) THEN queue ELSE <<t>>
Enqueued_AtHead(queue, t) ==
    IF t \in ToSet(queue) THEN queue ELSE <<t>> \o queue

\* uthread_enqueue ignores a thread that is already in the queue.
Enqueued(queue, t) == IF t \in ToSet(queue) THEN queue ELSE Append(queue, t)

\* What pthread_cond_signal may do to the program counters, when the number
\* of sleepers is not zero: wake one pthread that waits, if there is one.
Signalled(pcs) ==
    LET asleep == {q \in Pthreads : pcs[q] = "asleep"}
    IN  IF numSleeping = 0 \/ asleep = {}
        THEN {pcs}
        ELSE {[pcs EXCEPT ![q] = "woken"] : q \in asleep}

\* Mutant: the sleepers are counted without pthread_mutex.
ReadyEnqueue_NoMutex(t, pcs) ==
    /\ ready' = Enqueued(ready, t)
    /\ pc' \in Signalled(pcs)
    /\ UNCHANGED <<pmutex, numSleeping>>

\* ready_queue_enqueue, by a pthread whose own move makes pc into pcs.  It
\* needs pthread_mutex while it holds the spin lock, so nobody sees the queue
\* between the insertion and the signal.
ReadyEnqueue(t, pcs) ==
    /\ pmutex = None
    /\ ready' = Enqueued(ready, t)
    /\ pc' \in Signalled(pcs)
    /\ UNCHANGED <<pmutex, numSleeping>>

\* uthread_stop: enter ready_queue_dequeue with the state to be published.
Stop(p, s) ==
    /\ pc' = [pc EXCEPT ![p] = "dequeue"]
    /\ stopState' = [stopState EXCEPT ![p] = s]

-----------------------------------------------------------------------------
(* Calls a running uthread makes. *)

\* Client code of uthread t runs on pthread p and is at program point l.
At(p, t, l) == pc[p] = "run" /\ cur[p] = t /\ t \in Users /\ tpc[t] = l

Create(p, t, u) ==
    /\ At(p, t, "user")
    /\ u \in Users
    /\ state[u] = "UNBORN"
    /\ state' = [state EXCEPT ![u] = "NASCENT"]
    /\ ReadyEnqueue(u, pc)
    /\ UNCHANGED <<joiner, cur, to, from, stopState, threadVars>>

Yield(p, t) ==
    /\ At(p, t, "user")
    /\ Stop(p, "RUNABLE")
    /\ UNCHANGED <<state, joiner, queueVars, cur, to, from, threadVars>>

\* Mutant: uthread_block yields.
Wait_Yields(p, t) ==
    /\ At(p, t, "user")
    /\ Stop(p, "RUNABLE")
    /\ tpc' = [tpc EXCEPT ![t] = "block"]
    /\ waiting' = waiting \cup {t}
    /\ UNCHANGED <<state, joiner, queueVars, cur, to, from, target, claims,
                   owed>>

\* A client of the scheduler (semaphore, mutex, condition variable, pending
\* read queue) puts the caller in its wait queue, releases the lock of that
\* queue, and calls uthread_block.
Wait(p, t) ==
    /\ At(p, t, "user")
    /\ Stop(p, "BLOCKED")
    /\ tpc' = [tpc EXCEPT ![t] = "block"]
    /\ waiting' = waiting \cup {t}
    /\ UNCHANGED <<state, joiner, queueVars, cur, to, from, target, claims,
                   owed>>

\* A client takes a thread out of its wait queue and calls uthread_unblock on
\* it; the thread may not have reached uthread_block's switch yet.
Unblock(p, t, u) ==
    /\ At(p, t, "user")
    /\ u \in waiting
    /\ waiting' = waiting \ {u}
    /\ owed' = owed \cup {u}
    /\ ReadyEnqueue(u, pc)
    /\ UNCHANGED <<state, joiner, cur, to, from, stopState, tpc, target,
                   claims>>

\* A pthread left the stack of t, published its state, and has not tested
\* that state yet.
Unchecked(t) ==
    \E q \in Pthreads : \/ pc[q] = "spin" /\ cur[q] = t
                        \/ pc[q] = "after" /\ from[q] = t

\* The timing assumption LateCheck = FALSE: the state of t is not published
\* again while an earlier pthread still has to test it.
MayPublish(t) == LateCheck \/ ~Unchecked(t)

\* Mutant: the joiner is started without the test that there is one.
Exit_NoTest(p, t) ==
    /\ At(p, t, "user")
    /\ t # Main
    /\ MayPublish(t)
    /\ state' = [state EXCEPT ![t] = "DYING"]
    /\ stopState' = [stopState EXCEPT ![p] = "DYING"]
    /\ ReadyEnqueue(joiner[t], [pc EXCEPT ![p] = "dequeue"])
    /\ UNCHANGED <<joiner, cur, to, from, tpc, target, waiting, claims, owed>>

\* Mutant: the joiner is not started.
Exit_ForgetsJoiner(p, t) ==
    /\ At(p, t, "user")
    /\ t # Main
    /\ MayPublish(t)
    /\ state' = [state EXCEPT ![t] = "DYING"]
    /\ Stop(p, "DYING")
    /\ UNCHANGED <<joiner, cur, to, from, queueVars, threadVars>>

\* start_proc returned: uthread_switch, under join_spinlock, marks the thread
\* DYING and starts its joiner, then stops for good.
Exit(p, t) ==
    /\ At(p, t, "user")
    /\ t # Main
    /\ MayPublish(t)
    /\ state' = [state EXCEPT ![t] = "DYING"]
    /\ stopState' = [stopState EXCEPT ![p] = "DYING"]
    /\ LET stopped == [pc EXCEPT ![p] = "dequeue"] IN
       \/ /\ joiner[t] \in {None, Detached}
          /\ pc' = stopped
          /\ UNCHANGED <<queueVars, owed>>
       \/ /\ joiner[t] \notin {None, Detached}
          /\ ReadyEnqueue(joiner[t], stopped)
          /\ owed' = owed \cup {joiner[t]}
    /\ UNCHANGED <<joiner, cur, to, from, tpc, target, waiting, claims>>

\* The handle of u may still be used: the caller's part of the contract.
Claimable(u) ==
    /\ u \in Users \ {Main}
    /\ state[u] \notin {"UNBORN", "FREED"}
    /\ claims[u] < MaxClaims

\* uthread_join and uthread_detach first test joiner without the lock; a
\* joiner that is already set makes the call return with no effect.
Claim(p, t, u, call) ==
    /\ At(p, t, "user")
    /\ Claimable(u)
    /\ claims' = [claims EXCEPT ![u] = @ + 1]
    /\ \/ /\ joiner[u] = None
          /\ tpc' = [tpc EXCEPT ![t] = call]
          /\ target' = [target EXCEPT ![t] = u]
       \/ /\ joiner[u] # None
          /\ UNCHANGED <<tpc, target>>
    /\ UNCHANGED <<state, joiner, queueVars, pc, cur, to, from, stopState,
                   waiting, owed>>

JoinTest(p, t, u) == u # t /\ Claim(p, t, u, "join")
DetachTest(p, t, u) == Claim(p, t, u, "detach")

\* The end of a join or detach of u by t, under join_spinlock: who comes
\* second, the claim or the reaping, frees the thread.
Release(t, u, stillAlive) ==
    /\ tpc' = [tpc EXCEPT ![t] = "user"]
    /\ target' = [target EXCEPT ![t] = None]
    /\ IF stillAlive
       THEN joiner' = [joiner EXCEPT ![u] = Detached] /\ UNCHANGED state
       ELSE state' = [state EXCEPT ![u] = "FREED"] /\ UNCHANGED joiner
    /\ UNCHANGED <<waiting, claims, owed>>

\* Mutant of that section: the joiner yields instead of blocking.
JoinLock_Yields(p, t) ==
    LET u == target[t] IN
    /\ At(p, t, "join")
    /\ \/ /\ state[u] \notin {"DYING", "DEAD"}
          /\ joiner' = [joiner EXCEPT ![u] = t]
          /\ tpc' = [tpc EXCEPT ![t] = "joinWait"]
          /\ Stop(p, "RUNABLE")
          /\ UNCHANGED <<state, target, waiting, claims, owed>>
       \/ /\ state[u] \in {"DYING", "DEAD"}
          /\ Release(t, u, state[u] # "DEAD")
          /\ UNCHANGED <<pc, stopState>>
    /\ UNCHANGED <<queueVars, cur, to, from>>

\* uthread_join, first critical section: register as the joiner and stop, or
\* finish at once when the target has exited.
JoinLock(p, t) ==
    LET u == target[t] IN
    /\ At(p, t, "join")
    /\ \/ /\ state[u] \notin {"DYING", "DEAD"}
          /\ joiner' = [joiner EXCEPT ![u] = t]
          /\ tpc' = [tpc EXCEPT ![t] = "joinWait"]
          /\ Stop(p, "BLOCKED")
          /\ UNCHANGED <<state, target, waiting, claims, owed>>
       \/ /\ state[u] \in {"DYING", "DEAD"}
          /\ Release(t, u, state[u] # "DEAD")
          /\ UNCHANGED <<pc, stopState>>
    /\ UNCHANGED <<queueVars, cur, to, from>>

\* uthread_join, second critical section, after uthread_stop returned.
JoinReturn(p, t) ==
    /\ At(p, t, "joinWait")
    /\ Release(t, target[t], state[target[t]] # "DEAD")
    /\ UNCHANGED <<queueVars, pc, cur, to, from, stopState>>

\* Mutant: a thread that is still on its stack is freed.
DetachLock_FreesDying(p, t) ==
    /\ At(p, t, "detach")
    /\ Release(t, target[t], state[target[t]] \notin {"DYING", "DEAD"})
    /\ UNCHANGED <<queueVars, pc, cur, to, from, stopState>>

DetachLock(p, t) ==
    /\ At(p, t, "detach")
    /\ Release(t, target[t], state[target[t]] # "DEAD")
    /\ UNCHANGED <<queueVars, pc, cur, to, from, stopState>>

\* pthread_base: stop for ever.
BaseLoop(p) ==
    /\ pc[p] = "run"
    /\ cur[p] = Base[p]
    /\ Stop(p, "BLOCKED")
    /\ UNCHANGED <<state, joiner, queueVars, cur, to, from, threadVars>>

-----------------------------------------------------------------------------
(* ready_queue_dequeue. *)

DequeueHead(p) ==
    /\ pc[p] = "dequeue"
    /\ ready # <<>>
    /\ to' = [to EXCEPT ![p] = Head(ready)]
    /\ ready' = Tail(ready)
    /\ pc' = [pc EXCEPT ![p] = "switch"]
    /\ UNCHANGED <<state, joiner, pmutex, numSleeping, cur, from, stopState,
                   threadVars>>

DequeueBase(p) ==
    /\ pc[p] = "dequeue"
    /\ ready = <<>>
    /\ cur[p] # Base[p]
    /\ to' = [to EXCEPT ![p] = Base[p]]
    /\ pc' = [pc EXCEPT ![p] = "switch"]
    /\ UNCHANGED <<state, joiner, queueVars, cur, from, stopState, threadVars>>

\* The base thread itself finds nothing to run: pthread_mutex is taken before
\* the spin lock is released.
DequeueNothing(p) ==
    /\ pc[p] = "dequeue"
    /\ ready = <<>>
    /\ cur[p] = Base[p]
    /\ pmutex = None
    /\ pmutex' = p
    /\ pc' = [pc EXCEPT ![p] = "toSleep"]
    /\ UNCHANGED <<state, joiner, ready, numSleeping, cur, to, from,
                   stopState, threadVars>>

\* pthread_cond_wait releases pthread_mutex and waits in one step.
Sleep(p) ==
    /\ pc[p] = "toSleep"
    /\ numSleeping' = numSleeping + 1
    /\ pmutex' = None
    /\ pc' = [pc EXCEPT ![p] = "asleep"]
    /\ UNCHANGED <<state, joiner, ready, cur, to, from, stopState, threadVars>>

WakeUp(p) ==
    /\ pc[p] = "woken"
    /\ pmutex = None
    /\ numSleeping' = numSleeping - 1
    /\ pc' = [pc EXCEPT ![p] = "dequeue"]
    /\ UNCHANGED <<state, joiner, ready, pmutex, cur, to, from, stopState,
                   threadVars>>

-----------------------------------------------------------------------------
(* uthread_switch. *)

\* Mutant: the successor is waited for before the state is published, so two
\* pthreads that exchange their threads wait for each other.
SetFromState_WaitsFirst(p) ==
    /\ pc[p] = "switch"
    /\ MayPublish(cur[p])
    /\ state[to[p]] # "RUNNING"
    /\ state' = [state EXCEPT ![cur[p]] = stopState[p]]
    /\ pc' = [pc EXCEPT ![p] = "spin"]
    /\ UNCHANGED <<joiner, queueVars, cur, to, from, stopState, threadVars>>

SetFromState(p) ==
    /\ pc[p] = "switch"
    /\ MayPublish(cur[p])
    /\ state' = [state EXCEPT ![cur[p]] = stopState[p]]
    /\ pc' = [pc EXCEPT ![p] = "spin"]
    /\ UNCHANGED <<joiner, queueVars, cur, to, from, stopState, threadVars>>

\* Mutant: the successor is not waited for.
SwitchTo_NoWait(p) ==
    /\ pc[p] = "spin"
    /\ from' = [from EXCEPT ![p] = cur[p]]
    /\ cur' = [cur EXCEPT ![p] = to[p]]
    /\ to' = [to EXCEPT ![p] = None]
    /\ pc' = [pc EXCEPT ![p] = "after"]
    /\ UNCHANGED <<state, joiner, queueVars, stopState, threadVars>>

SwitchTo(p) ==
    /\ pc[p] = "spin"
    /\ state[to[p]] # "RUNNING"
    /\ from' = [from EXCEPT ![p] = cur[p]]
    /\ cur' = [cur EXCEPT ![p] = to[p]]
    /\ to' = [to EXCEPT ![p] = None]
    /\ pc' = [pc EXCEPT ![p] = "after"]
    /\ UNCHANGED <<state, joiner, queueVars, stopState, threadVars>>

\* Mutant: a thread that yielded is not put back.
TestFrom_ForgetsRunable(p) ==
    /\ pc[p] = "after"
    /\ pc' = [pc EXCEPT ![p] = IF state[from[p]] = "DYING" THEN "reap"
                                                           ELSE "resume"]
    /\ UNCHANGED <<state, joiner, queueVars, cur, to, from, stopState,
                   threadVars>>

\* The test of from_thread->state: the current value of the field, not the
\* value this pthread published.
TestFrom(p) ==
    /\ pc[p] = "after"
    /\ pc' = [pc EXCEPT ![p] = CASE state[from[p]] = "DYING"   -> "reap"
                                 [] state[from[p]] = "RUNABLE" -> "requeue"
                                 [] OTHER                      -> "resume"]
    /\ UNCHANGED <<state, joiner, queueVars, cur, to, from, stopState,
                   threadVars>>

Reap(p) ==
    /\ pc[p] = "reap"
    /\ state' = [state EXCEPT ![from[p]] =
                   IF joiner[from[p]] = Detached THEN "FREED" ELSE "DEAD"]
    /\ pc' = [pc EXCEPT ![p] = "resume"]
    /\ UNCHANGED <<joiner, queueVars, cur, to, from, stopState, threadVars>>

Requeue(p) ==
    /\ pc[p] = "requeue"
    /\ ReadyEnqueue(from[p], [pc EXCEPT ![p] = "resume"])
    /\ UNCHANGED <<state, joiner, cur, to, from, stopState, threadVars>>

\* The successor becomes RUNNING; a NASCENT one starts start_proc, one that
\* called uthread_block returns from it.
Resume(p) ==
    /\ pc[p] = "resume"
    /\ state' = [state EXCEPT ![cur[p]] = "RUNNING"]
    /\ from' = [from EXCEPT ![p] = None]
    /\ pc' = [pc EXCEPT ![p] = "run"]
    /\ tpc' = [tpc EXCEPT ![cur[p]] = IF @ = "block" THEN "user" ELSE @]
    /\ owed' = owed \ {cur[p]}
    /\ UNCHANGED <<joiner, queueVars, cur, to, stopState, target, waiting,
                   claims>>
-----------------------------------------------------------------------------
Call(p, t) ==
    \/ \E u \in Threads : \/ Create(p, t, u)
                          \/ Unblock(p, t, u)
                          \/ JoinTest(p, t, u)
                          \/ DetachTest(p, t, u)
    \/ Yield(p, t)
    \/ Wait(p, t)
    \/ Exit(p, t)
    \/ JoinLock(p, t)
    \/ JoinReturn(p, t)
    \/ DetachLock(p, t)

Scheduler(p) ==
    \/ BaseLoop(p)
    \/ DequeueHead(p) \/ DequeueBase(p) \/ DequeueNothing(p)
    \/ Sleep(p) \/ WakeUp(p)
    \/ SetFromState(p) \/ SwitchTo(p)
    \/ TestFrom(p) \/ Reap(p) \/ Requeue(p) \/ Resume(p)

Next == \E p \in Pthreads : Scheduler(p) \/ \E t \in Threads : Call(p, t)

Spec == Init /\ [][Next]_vars

\* A uthread that runs gives its pthread up after finitely many calls: the
\* library has no preemption.
GiveUp(p) == \E t \in Threads : Yield(p, t) \/ Wait(p, t) \/ Exit(p, t)
                               \/ JoinLock(p, t) \/ JoinReturn(p, t)
                               \/ DetachLock(p, t)

FairSpec ==
    Spec /\ \A p \in Pthreads : WF_vars(Scheduler(p)) /\ WF_vars(GiveUp(p))
-----------------------------------------------------------------------------
TypeOK ==
    /\ state \in [Threads -> ThreadState]
    /\ joiner \in [Threads -> Threads \cup {None, Detached}]
    /\ ready \in Seq(Threads)
    /\ pmutex \in Pthreads \cup {None}
    /\ numSleeping \in Int
    /\ pc \in [Pthreads -> PthreadPC]
    /\ cur \in [Pthreads -> Threads]
    /\ to \in [Pthreads -> Threads \cup {None}]
    /\ from \in [Pthreads -> Threads \cup {None}]
    /\ stopState \in [Pthreads -> StopState]
    /\ tpc \in [Threads -> ThreadPC]
    /\ target \in [Threads -> Threads \cup {None}]
    /\ waiting \subseteq Users
    /\ claims \in [Threads -> 0..MaxClaims]
    /\ owed \subseteq Threads

\* Pthread p executes on the stack of t.  While it spins for its successor it
\* touches registers only: the stack it leaves is already up for grabs.
Occupies(p, t) == cur[p] = t /\ pc[p] # "spin"

\* A uthread never executes on two pthreads: the switch "will wait for it to
\* stop before re-starting it" (uthread.c:583-587).
ExclusiveExecution ==
    \A p, q \in Pthreads : \A t \in Threads :
        Occupies(p, t) /\ Occupies(q, t) => p = q

\* Dispatches of t that are under way: in the queue, or chosen by a pthread.
InFlight(t) ==
    \/ t \in ToSet(ready)
    \/ \E p \in Pthreads : \/ to[p] = t
                           \/ pc[p] \in {"after", "reap", "requeue", "resume"}
                              /\ cur[p] = t

\* An unblock is never lost: a thread that was unblocked and has not returned
\* from its block is on its way to a pthread (uthread.h: unblocking a thread
\* that is not blocked yet makes its next block return).
UnblockKept == \A t \in owed : InFlight(t)

\* No thread is forgotten: one that exists and has not exited executes, waits
\* to be unblocked or joined, is in flight, or yielded and is about to be put
\* back in the queue.
NoThreadLost ==
    \A t \in Users :
        \/ state[t] \in {"UNBORN", "DYING", "DEAD", "FREED"}
        \/ \E p \in Pthreads : cur[p] = t
        \/ t \in waiting
        \/ tpc[t] = "joinWait" /\ joiner[target[t]] = t
        \/ InFlight(t)
        \/ \E p \in Pthreads : from[p] = t /\ pc[p] \in {"after", "requeue"}

\* The uthread library never touches a TCB or a stack after freeing it.
NoUseAfterFree ==
    \A t \in Threads : state[t] = "FREED" =>
        /\ ~InFlight(t)
        /\ \A p \in Pthreads :
             /\ cur[p] # t
             /\ from[p] = t => pc[p] = "resume"
        /\ \A u \in Threads :
             /\ target[u] # t
             /\ joiner[u] = t => state[u] \in {"DYING", "DEAD", "FREED"}

\* uthread_join returns only after its target has exited.
JoinAfterExit ==
    \A p \in Pthreads : \A t \in Users :
        At(p, t, "joinWait") => state[target[t]] \in {"DYING", "DEAD"}

\* A thread that exited leaves no joiner behind: whoever stopped to wait for
\* it is on the way back.
JoinerReleased ==
    \A t \in Users :
        /\ tpc[t] = "joinWait"
        /\ state[target[t]] \in {"DYING", "DEAD", "FREED"}
        => InFlight(t) \/ \E p \in Pthreads : Occupies(p, t)

\* Both: a join returns when its target has exited, and not before.
JoinMeetsExit == JoinAfterExit /\ JoinerReleased

\* JoinerReleased for a thread that nobody detached, however many threads join it:
\* join "blocks the calling thread until the target thread exits, and then
\* returns" (code-9/uthread.h:20-21).
ExitReleasesEveryJoiner ==
    \A t \in Users :
        /\ tpc[t] = "joinWait"
        /\ state[target[t]] = "DYING"
        /\ joiner[target[t]] # Detached
        => InFlight(t) \/ \E p \in Pthreads : Occupies(p, t)

\* No pthread idles over work: while one sleeps, the threads in the ready
\* queue are matched by pthreads that were woken to take them.
Fetching(p) == \/ pc[p] = "woken"
               \/ pc[p] = "dequeue" /\ cur[p] = Base[p]

NoIdleOverWork ==
    (\E p \in Pthreads : pc[p] = "asleep")
        => Len(ready) <= Cardinality({p \in Pthreads : Fetching(p)})
-----------------------------------------------------------------------------
\* The threads inside uthread_block, and those of them that were unblocked,
\* as the queue and the pthreads show it.
Parked == {t \in Users : tpc[t] = "block"}

Sched == INSTANCE ThreadSched WITH
            Threads <- Users,
            parked  <- Parked,
            tokens  <- {t \in Parked : InFlight(t)}

\* Every step of the scheduler is a Block, an Unblock or a Return of the
\* abstract scheduler, or invisible to it: a blocked thread returns only after
\* an unblock, and no step of a switch loses one.
ImplementsSched == Sched!Spec

\* Under fair pthreads an unblocked thread returns from uthread_block.
ImplementsFairSched == Sched!FairSpec

Life == INSTANCE ThreadLife WITH
            Threads <- Users,
            life    <- [t \in Users |->
                          CASE state[t] = "UNBORN" -> "unborn"
                            [] state[t] \in {"DYING", "DEAD", "FREED"} -> "exited"
                            [] OTHER -> "alive"],
            joining <- [t \in Users |->
                          IF tpc[t] \in {"join", "joinWait"} THEN target[t]
                          ELSE None]

\* To its callers every step of the library is the creation or exit of a
\* thread, the call of a join, or its return after the target has exited.
ImplementsLife == Life!LifeSpec

\* A thread in the ready queue, new, unblocked or yielding, gets to run.
ReadyEventuallyRuns ==
    \A t \in Users :
        t \in ToSet(ready) ~> \E p \in Pthreads : pc[p] = "run" /\ cur[p] = t
=============================================================================
