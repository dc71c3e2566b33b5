----------------------------- MODULE UthreadSpin ----------------------------
(***************************************************************************)
(* The uthread library as it was before code-11 (CS213/soln-7 and soln-8,  *)
(* uthreads/uthread.c, which are one file; code-9/uthread.c differs in its *)
(* queue only, see LinkQueue).  It is compiled without PTHREAD_IDLE_SLEEP: *)
(* a pthread that finds nothing to run polls the ready queue, the base     *)
(* threads are ordinary threads that yield for ever, and a thread that     *)
(* yields enters the ready queue before it leaves its stack.               *)
(*                                                                         *)
(* What the two versions have in common is taken from Uthread, an operator *)
(* per function.  pthread_mutex and pthread_num_sleeping do not exist here *)
(* and keep their initial values, with which ReadyEnqueue is the insertion *)
(* alone.                                                                  *)
(***************************************************************************)
EXTENDS Uthread

\* uthread_init: the base thread of the calling pthread is created like any
\* other and waits in the ready queue.
SpinInit ==
    /\ state = [t \in Threads |->
                  IF t = Main THEN "RUNNING"
                  ELSE IF t = Base[MainPthread] THEN "NASCENT"
                  ELSE IF t \in Bases THEN "RUNNING" ELSE "UNBORN"]
    /\ ready = <<Base[MainPthread]>>
    /\ pmutex = None /\ numSleeping = 0
    /\ pc = [p \in Pthreads |-> "run"]
    /\ cur = [p \in Pthreads |-> IF p = MainPthread THEN Main ELSE Base[p]]
    /\ stopState = [p \in Pthreads |-> "BLOCKED"]
    /\ tpc = [t \in Threads |-> "user"]
    /\ to = [p \in Pthreads |-> None] /\ from = [p \in Pthreads |-> None]
    /\ joiner = [t \in Threads |-> None] /\ target = [t \in Threads |-> None]
    /\ claims = [t \in Threads |-> 0]
    /\ waiting = {} /\ owed = {}

SpinCreate(p, t, u) == Create(p, t, u)

\* uthread_yield: the caller is in the queue, for any pthread to take, while
\* it still runs.
SpinYieldBy(p, t) ==
    /\ ReadyEnqueue(t, [pc EXCEPT ![p] = "dequeue"])
    /\ stopState' = [stopState EXCEPT ![p] = "RUNABLE"]
    /\ UNCHANGED <<state, joiner, cur, to, from, threadVars>>

SpinYield(p, t) == At(p, t, "user") /\ SpinYieldBy(p, t)

\* pthread_base, which need not be on the pthread it began on.
SpinBaseLoop(p) == pc[p] = "run" /\ cur[p] \in Bases /\ SpinYieldBy(p, cur[p])

SpinBlock(p, t) == Wait(p, t)
SpinUnblock(p, t, u) == Unblock(p, t, u)
SpinExit(p, t) == Exit(p, t)

SpinJoin(p, t) ==
    \/ \E u \in Threads : JoinTest(p, t, u)
    \/ JoinLock(p, t)
    \/ JoinReturn(p, t)

SpinDetach(p, t) == DetachLock(p, t) \/ \E u \in Threads : DetachTest(p, t, u)

\* ready_queue_dequeue polls: with an empty queue nothing changes.
SpinDequeue(p) == DequeueHead(p)

SpinSwitch(p) == SetFromState(p) \/ SwitchTo(p)

\* Mutant: the thread that yielded is put in the queue after the switch too.
SpinTestFrom_Requeues(p) ==
    /\ pc[p] = "after"
    /\ state[from[p]] # "DYING"
    /\ ReadyEnqueue(from[p], [pc EXCEPT ![p] = "resume"])
    /\ UNCHANGED <<state, joiner, cur, to, from, stopState, threadVars>>

\* The end of uthread_switch looks for a thread to dispose of only.
SpinTestFrom(p) ==
    /\ pc[p] = "after"
    /\ pc' = [pc EXCEPT ![p] = IF state[from[p]] = "DYING" THEN "reap"
                                                           ELSE "resume"]
    /\ UNCHANGED <<state, joiner, queueVars, cur, to, from, stopState,
                   threadVars>>

SpinReap(p) == Reap(p)
SpinResume(p) == Resume(p)

-----------------------------------------------------------------------------
SpinCall(p, t) ==
    \/ \E u \in Threads : SpinCreate(p, t, u) \/ SpinUnblock(p, t, u)
    \/ SpinYield(p, t) \/ SpinBlock(p, t) \/ SpinExit(p, t)
    \/ SpinJoin(p, t) \/ SpinDetach(p, t)

SpinScheduler(p) ==
    \/ SpinBaseLoop(p)
    \/ SpinDequeue(p)
    \/ SpinSwitch(p)
    \/ SpinTestFrom(p) \/ SpinReap(p) \/ SpinResume(p)

SpinNext ==
    \E p \in Pthreads : SpinScheduler(p) \/ \E t \in Threads : SpinCall(p, t)

SpinSpec == SpinInit /\ [][SpinNext]_vars

\* As in Uthread: threads give their pthread up after finitely many calls.
SpinGiveUp(p) ==
    \E t \in Threads : \/ SpinYield(p, t) \/ SpinBlock(p, t) \/ SpinExit(p, t)
                       \/ JoinLock(p, t) \/ JoinReturn(p, t) \/ DetachLock(p, t)

SpinFairSpec ==
    SpinSpec /\ \A p \in Pthreads :
                    WF_vars(SpinScheduler(p)) /\ WF_vars(SpinGiveUp(p))
-----------------------------------------------------------------------------
\* uthread_enqueue of soln-7 links its argument without a look at where it is:
\* a thread that is in the queue already would cut off what comes after it, or
\* close the list to a ring.  Nobody that may be enqueued next is in it: the
\* thread that runs, its joiner, the threads that wait to be unblocked, and
\* those not yet created.  It is also what makes the insertion of code-9, that
\* ignores such a thread, the same.
EnqueuedOnce ==
    /\ IsInjective(ready)
    /\ \A p \in Pthreads :
         pc[p] = "run" => ToSet(ready) \cap {cur[p], joiner[cur[p]]} = {}
    /\ \A t \in Threads :
         t \in waiting \/ state[t] = "UNBORN" => t \notin ToSet(ready)

\* Nor is any thread lost on the way from one queue or pthread to another.
EnqueuedOnceAndKept == EnqueuedOnce /\ NoThreadLost
=============================================================================
