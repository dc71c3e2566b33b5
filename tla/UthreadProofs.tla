---------------------------- MODULE UthreadProofs ---------------------------
(***************************************************************************)
(* The scheduler, for every number of pthreads, every set of threads and   *)
(* every bound on claims.                                                  *)
(*                                                                         *)
(* First, types and ExclusiveExecution.  The second needs that no pthread  *)
(* is delayed past the next stop of the thread it left (LateCheck =        *)
(* FALSE): Placement is then inductive together with Typed; there is one   *)
(* lemma per kind of action, which first says what the step does to the    *)
(* relations Going, Occupies and LeftBy, then derives each conjunct.       *)
(*                                                                         *)
(* Then what it promises to its clients: an unblock is kept until the      *)
(* block it is for returns, Uthread implements ThreadSched, and no pthread *)
(* sleeps over a thread that is ready.  These rest on what a step does to  *)
(* the threads that are on their way to a pthread (InFlight), the last one *)
(* on a count of the pthreads that were woken.                             *)
(*                                                                         *)
(* Then exit, join and detach: a join returns when its target has exited,  *)
(* and not before; no thread is lost, none is touched after its memory was *)
(* freed, and Uthread implements ThreadLife.  These are for threads that   *)
(* are joined or detached at most once (MaxClaims <= 1): the run           *)
(* UthreadTwoJoiners shows what a second joiner does.                      *)
(*                                                                         *)
(* Last, the same for the earlier packages of UthreadSpin.                 *)
(***************************************************************************)
EXTENDS UthreadInv, UthreadSpin, BasicLemmas

\* Inserting a thread: it is in the queue afterwards, and at most one sleeping
\* pthread has been woken.
LEMMA EnqueueType ==
    ASSUME ready \in Seq(Threads), NEW t \in Threads,
           NEW pcs \in [Pthreads -> PthreadPC], ReadyEnqueue(t, pcs)
    PROVE  /\ ready' \in Seq(Threads)
           /\ ToSet(ready') = ToSet(ready) \cup {t}
           /\ IsInjective(ready) => IsInjective(ready')
           /\ pc' \in [Pthreads -> PthreadPC]
           /\ \A q \in Pthreads : \/ pc'[q] = pcs[q]
                                  \/ pcs[q] = "asleep" /\ pc'[q] = "woken"
           /\ pmutex' = pmutex /\ numSleeping' = numSleeping
  <1>1. /\ ready' \in Seq(Threads)
        /\ ToSet(ready') = ToSet(ready) \cup {t}
        /\ IsInjective(ready) => IsInjective(ready')
    BY AppendQueue DEF ReadyEnqueue, Enqueued
  <1>2. \/ pc' = pcs
        \/ \E q \in Pthreads : pcs[q] = "asleep" /\ pc' = [pcs EXCEPT ![q] = "woken"]
    BY DEF ReadyEnqueue, Signalled
  <1>3. pmutex' = pmutex /\ numSleeping' = numSleeping
    BY DEF ReadyEnqueue
  <1> QED BY <1>1, <1>2, <1>3 DEF PthreadPC

\* The types and the local variables of uthread_switch go together: what a
\* pthread dequeued is a thread while it needs it.
Typed == TypeOK /\ Locals

LEMMA TypedStep == Typed /\ [Next]_vars => Typed'
  <1> SUFFICES ASSUME Typed, [Next]_vars PROVE Typed'
    OBVIOUS
  <1> USE UthreadAssumption DEF Typed, TypeOK, Locals, queueVars, threadVars
  <1>1. ASSUME NEW p \in Pthreads, NEW t \in Threads, NEW u \in Threads,
               Create(p, t, u)
        PROVE  Typed'
    <2>1. /\ ready' \in Seq(Threads) /\ pc' \in [Pthreads -> PthreadPC]
          /\ \A q \in Pthreads : \/ pc'[q] = pc[q]
                                 \/ pc[q] = "asleep" /\ pc'[q] = "woken"
          /\ pmutex' = pmutex /\ numSleeping' = numSleeping
      BY <1>1, EnqueueType DEF Create
    <2> QED BY <1>1, <2>1 DEF Create, ThreadState
  <1>2. ASSUME NEW p \in Pthreads, NEW t \in Threads, Yield(p, t) PROVE Typed'
    BY <1>2 DEF Yield, Stop, At, PthreadPC, ThreadPC,
          StopState, ThreadState
  <1>3. ASSUME NEW p \in Pthreads, NEW t \in Threads, Wait(p, t) PROVE Typed'
    BY <1>3 DEF Wait, Stop, At, PthreadPC, ThreadPC,
          StopState, ThreadState
  <1>4. ASSUME NEW p \in Pthreads, NEW t \in Threads, NEW u \in Threads,
               Unblock(p, t, u)
        PROVE  Typed'
    <2>1. /\ ready' \in Seq(Threads) /\ pc' \in [Pthreads -> PthreadPC]
          /\ \A q \in Pthreads : \/ pc'[q] = pc[q]
                                 \/ pc[q] = "asleep" /\ pc'[q] = "woken"
          /\ pmutex' = pmutex /\ numSleeping' = numSleeping
      BY <1>4, EnqueueType DEF Unblock
    <2> QED BY <1>4, <2>1 DEF Unblock
  <1>5. ASSUME NEW p \in Pthreads, NEW t \in Threads, Exit(p, t) PROVE Typed'
    <2> DEFINE pcs == [pc EXCEPT ![p] = "dequeue"]
    <2>1. pcs \in [Pthreads -> PthreadPC]
      BY DEF PthreadPC
    <2> HIDE DEF pcs
    <2>2. /\ ready' \in Seq(Threads) /\ pc' \in [Pthreads -> PthreadPC]
          /\ \A q \in Pthreads : \/ pc'[q] = pcs[q]
                                 \/ pcs[q] = "asleep" /\ pc'[q] = "woken"
          /\ pmutex' = pmutex /\ numSleeping' = numSleeping
          /\ owed' \subseteq Threads
      <3>1. CASE joiner[t] \in {None, Detached}
        BY <1>5, <2>1, <3>1 DEF Exit, pcs
      <3>2. CASE joiner[t] \notin {None, Detached}
        <4>1. /\ joiner[t] \in Threads
              /\ ReadyEnqueue(joiner[t], pcs)
              /\ owed' = owed \cup {joiner[t]}
          BY <1>5, <3>2 DEF Exit, pcs
        <4> QED BY <4>1, <2>1, EnqueueType
      <3> QED BY <3>1, <3>2
    <2>3. /\ pc[p] = "run" /\ pc'[p] = "dequeue"
          /\ state' = [state EXCEPT ![t] = "DYING"]
          /\ stopState' = [stopState EXCEPT ![p] = "DYING"]
          /\ UNCHANGED <<joiner, cur, to, from, tpc, target, waiting, claims>>
      <3>1. pcs[p] = "dequeue"
        BY DEF pcs
      <3> QED BY <1>5, <2>2, <3>1 DEF Exit, At
    <2>4. \A q \in Pthreads \ {p} : pcs[q] = pc[q]
      BY DEF pcs
    <2>5. /\ state' \in [Threads -> ThreadState]
          /\ stopState' \in [Pthreads -> StopState]
      BY <2>3 DEF ThreadState, StopState
    <2>6. TypeOK'
      BY <2>2, <2>3, <2>5
    <2>7. Locals'
      BY <2>2, <2>3, <2>4
    <2> QED BY <2>6, <2>7
  <1>6. ASSUME NEW p \in Pthreads, NEW t \in Threads, NEW u \in Threads,
               JoinTest(p, t, u) \/ DetachTest(p, t, u)
        PROVE  Typed'
    <2>1. \E call \in {"join", "detach"} : Claim(p, t, u, call)
      BY <1>6 DEF JoinTest, DetachTest
    <2>2. claims' \in [Threads -> 0..MaxClaims]
      BY <2>1 DEF Claim, Claimable
    <2>3. tpc' \in [Threads -> ThreadPC] /\ target' \in [Threads -> Threads \cup {None}]
      <3>1. PICK call \in {"join", "detach"} : Claim(p, t, u, call)
        BY <2>1
      <3>2. CASE joiner[u] = None
        <4>1. /\ tpc' = [tpc EXCEPT ![t] = call]
              /\ target' = [target EXCEPT ![t] = u]
          BY <3>1, <3>2 DEF Claim
        <4>2. call \in ThreadPC
          BY DEF ThreadPC
        <4> QED BY <4>1, <4>2
      <3>3. CASE joiner[u] # None
        BY <3>1, <3>3 DEF Claim
      <3> QED BY <3>2, <3>3
    <2>4. UNCHANGED <<state, joiner, queueVars, pc, cur, to, from, stopState,
                      waiting, owed>>
      BY <2>1 DEF Claim
    <2> QED BY <2>2, <2>3, <2>4
  <1>7. ASSUME NEW p \in Pthreads, NEW t \in Threads, JoinLock(p, t) PROVE Typed'
    <2>1. ASSUME NEW u, NEW b, Release(t, u, b)
          PROVE  /\ tpc' \in [Threads -> ThreadPC]
                 /\ target' \in [Threads -> Threads \cup {None}]
                 /\ state' \in [Threads -> ThreadState]
                 /\ joiner' \in [Threads -> Threads \cup {None, Detached}]
                 /\ UNCHANGED <<waiting, claims, owed>>
      BY <2>1 DEF Release, ThreadPC, ThreadState
    <2>2. CASE state[target[t]] \notin {"DYING", "DEAD"}
      <3>1. /\ pc' = [pc EXCEPT ![p] = "dequeue"]
            /\ stopState' = [stopState EXCEPT ![p] = "BLOCKED"]
            /\ joiner' = [joiner EXCEPT ![target[t]] = t]
            /\ tpc' = [tpc EXCEPT ![t] = "joinWait"]
            /\ UNCHANGED <<state, target, waiting, claims, owed, ready, pmutex,
                           numSleeping, cur, to, from>>
        BY <1>7, <2>2 DEF JoinLock, Stop
      <3>2. /\ pc' \in [Pthreads -> PthreadPC]
            /\ stopState' \in [Pthreads -> StopState]
            /\ tpc' \in [Threads -> ThreadPC]
        BY <3>1 DEF PthreadPC, ThreadPC, StopState
      <3>3. joiner' \in [Threads -> Threads \cup {None, Detached}]
        BY <3>1
      <3>4. pc[p] = "run"
        BY <1>7 DEF JoinLock, At
      <3> QED BY <3>1, <3>2, <3>3, <3>4
    <2>3. CASE state[target[t]] \in {"DYING", "DEAD"}
      BY <1>7, <2>1, <2>3 DEF JoinLock
    <2> QED BY <2>2, <2>3
  <1>8. ASSUME NEW p \in Pthreads, NEW t \in Threads,
               JoinReturn(p, t) \/ DetachLock(p, t)
        PROVE  Typed'
    <2>1. ASSUME NEW u, NEW b, Release(t, u, b)
          PROVE  /\ tpc' \in [Threads -> ThreadPC]
                 /\ target' \in [Threads -> Threads \cup {None}]
                 /\ state' \in [Threads -> ThreadState]
                 /\ joiner' \in [Threads -> Threads \cup {None, Detached}]
                 /\ UNCHANGED <<waiting, claims, owed>>
      BY <2>1 DEF Release, ThreadPC, ThreadState
    <2> QED BY <1>8, <2>1 DEF JoinReturn, DetachLock
  <1>9. ASSUME NEW p \in Pthreads, BaseLoop(p) PROVE Typed'
    BY <1>9 DEF BaseLoop, Stop, PthreadPC, ThreadPC,
          StopState, ThreadState
  <1>10. ASSUME NEW p \in Pthreads, DequeueHead(p) PROVE Typed'
    BY <1>10, TailQueue DEF DequeueHead, PthreadPC, ThreadPC,
          StopState, ThreadState
  <1>11. ASSUME NEW p \in Pthreads, DequeueBase(p) PROVE Typed'
    BY <1>11 DEF DequeueBase, PthreadPC, ThreadPC,
          StopState, ThreadState
  <1>12. ASSUME NEW p \in Pthreads, DequeueNothing(p) \/ Sleep(p) \/ WakeUp(p)
         PROVE  Typed'
    <2>1. CASE DequeueNothing(p)
      BY <2>1 DEF DequeueNothing, PthreadPC
    <2>2. CASE Sleep(p)
      BY <2>2 DEF Sleep, PthreadPC
    <2>3. CASE WakeUp(p)
      BY <2>3 DEF WakeUp, PthreadPC
    <2> QED BY <1>12, <2>1, <2>2, <2>3
  <1>13. ASSUME NEW p \in Pthreads, SetFromState(p) PROVE Typed'
    BY <1>13 DEF SetFromState, PthreadPC, ThreadPC,
          StopState, ThreadState
  <1>14. ASSUME NEW p \in Pthreads, SwitchTo(p) PROVE Typed'
    BY <1>14 DEF SwitchTo, PthreadPC, ThreadPC,
          StopState, ThreadState
  <1>15. ASSUME NEW p \in Pthreads, TestFrom(p) PROVE Typed'
    BY <1>15 DEF TestFrom, PthreadPC, ThreadPC,
          StopState, ThreadState
  <1>16. ASSUME NEW p \in Pthreads, Reap(p) PROVE Typed'
    BY <1>16 DEF Reap, PthreadPC, ThreadPC,
          StopState, ThreadState
  <1>17. ASSUME NEW p \in Pthreads, Requeue(p) PROVE Typed'
    <2> DEFINE pcs == [pc EXCEPT ![p] = "resume"]
    <2>0. from[p] \in Threads /\ pcs \in [Pthreads -> PthreadPC]
      BY <1>17 DEF Requeue, PthreadPC
    <2> HIDE DEF pcs
    <2>1. /\ ready' \in Seq(Threads) /\ pc' \in [Pthreads -> PthreadPC]
          /\ \A q \in Pthreads : \/ pc'[q] = pcs[q]
                                 \/ pcs[q] = "asleep" /\ pc'[q] = "woken"
          /\ pmutex' = pmutex /\ numSleeping' = numSleeping
      <3>1. ReadyEnqueue(from[p], pcs)
        BY <1>17 DEF Requeue, pcs
      <3> QED BY <2>0, <3>1, EnqueueType
    <2> QED BY <1>17, <2>1 DEF Requeue, pcs
  <1>18. ASSUME NEW p \in Pthreads, Resume(p) PROVE Typed'
    BY <1>18 DEF Resume, PthreadPC, ThreadPC,
          StopState, ThreadState
  <1>19. CASE UNCHANGED vars
    BY <1>19 DEF vars
  <1> QED BY <1>1, <1>2, <1>3, <1>4, <1>5, <1>6, <1>7, <1>8, <1>9, <1>10, <1>11,
             <1>12, <1>13, <1>14, <1>15, <1>16, <1>17, <1>18, <1>19
          DEF Next, Call, Scheduler

\* Whatever clients call and however pthreads interleave, the variables keep
\* their types: a pthread that leaves a stack always has a thread to go to.
THEOREM TypeCorrect == Spec => []TypeOK
  <1>1. Init => Typed
    BY UthreadAssumption, EmptyQueue
       DEF Init, Typed, TypeOK, Locals, PthreadPC, ThreadPC, StopState,
           ThreadState, Users, Bases
  <1>2. Typed => TypeOK
    BY DEF Typed
  <1> QED BY <1>1, <1>2, TypedStep, PTL DEF Spec
-----------------------------------------------------------------------------
\* A thread that executes client code has nothing on its way to start it.
LEMMA RunningIsNotGoing ==
    ASSUME Typed, Placement, NEW p \in Pthreads, pc[p] = "run"
    PROVE  ~Going(cur[p]) /\ state[cur[p]] = "RUNNING"
  BY DEF Placement, StopsFirst, StateWhileOn, Occupies, Typed, TypeOK

\* A base thread that executes is not dispatched.
LEMMA BaseIsNotGoing ==
    ASSUME Typed, Placement, NEW p \in Pthreads, cur[p] = Base[p]
    PROVE  ~Going(Base[p])
  <1>1. Base[p] \in Bases /\ Base[p] \notin Users /\ Base[p] \in Threads
    BY UthreadAssumption DEF Bases, Users
  <1>2. \A q \in Pthreads : to[q] # Base[p]
    BY <1>1, UthreadAssumption DEF Placement, BasesStay
  <1>3. \A u \in Threads : joiner[u] # Base[p]
    BY <1>1, UthreadAssumption DEF Placement, BasesStay
  <1> QED BY <1>1, <1>2, <1>3 DEF Placement, BasesStay, Going, Dispatched, StartsAtExit

\* A new thread enters the queue; it was nowhere before.
LEMMA CreateStep ==
    ASSUME Typed, Placement, Typed',
           NEW p \in Pthreads, NEW t \in Threads, NEW u \in Threads,
           Create(p, t, u)
    PROVE  Placement'
  <1> USE UthreadAssumption
  <1>1. /\ ToSet(ready') = ToSet(ready) \cup {u}
        /\ IsInjective(ready) => IsInjective(ready')
        /\ \A q \in Pthreads : \/ pc'[q] = pc[q]
                               \/ pc[q] = "asleep" /\ pc'[q] = "woken"
        /\ state' = [state EXCEPT ![u] = "NASCENT"]
        /\ u \in Users /\ state[u] = "UNBORN"
        /\ UNCHANGED <<joiner, cur, to, from, stopState, tpc, target, waiting>>
    BY EnqueueType DEF Create, Typed, TypeOK, threadVars
  <1>2. \A s \in Threads : /\ Dispatched(s)' <=> Dispatched(s) \/ s = u
                           /\ Going(s)' <=> Going(s) \/ s = u
                           /\ \A v \in Threads : StartsAtExit(v, s)' <=> StartsAtExit(v, s)
    <2>1. \A s \in Threads : state'[s] \in Exited <=> state[s] \in Exited
      BY <1>1 DEF Exited, Typed, TypeOK
    <2>2. to' = to /\ waiting' = waiting /\ joiner' = joiner
      BY <1>1
    <2>3. \A s \in Threads : Dispatched(s)' <=> Dispatched(s) \/ s = u
      BY <1>1, <2>2 DEF Dispatched
    <2> QED BY <2>1, <2>2, <2>3 DEF Going, StartsAtExit
  <1>3. \A q \in Pthreads : \A s \in Threads :
          /\ Occupies(q, s)' <=> Occupies(q, s)
          /\ LeftBy(q, s)' <=> LeftBy(q, s)
    BY <1>1 DEF Occupies, LeftBy, Typed, TypeOK
  <1>4. Idle(u) /\ ~Dispatched(u) /\ u \notin waiting /\ \A q \in Pthreads : ~LeftBy(q, u)
    BY <1>1 DEF Placement, UnbornIsNowhere, Idle, Going
  <1>5. BasesStay'
    <2>1. ToSet(ready') \cup waiting' \subseteq Users
      BY <1>1 DEF Placement, BasesStay
    <2>2. ASSUME NEW q \in Pthreads
          PROVE  /\ state'[Base[q]] \notin Exited \cup {"UNBORN"}
                 /\ pc'[q] \in {"toSleep", "asleep", "woken"}
                       => cur[q] = Base[q] /\ stopState[q] = "BLOCKED"
                 /\ pc'[q] \in {"dequeue", "switch"} /\ cur[q] = Base[q]
                       => stopState[q] = "BLOCKED"
      BY <1>1 DEF Placement, BasesStay, Typed, TypeOK, Exited
    <2> QED BY <1>1, <1>3, <2>1, <2>2 DEF Placement, BasesStay, Bases
  <1>6. OneDispatch'
    BY <1>1, <1>2, <1>4 DEF Placement, OneDispatch, Idle, Going, Dispatched
  <1>7. StopsFirst'
    <2> SUFFICES ASSUME NEW q \in Pthreads, NEW s \in Threads,
                        Going(s)', Occupies(q, s)'
                 PROVE  /\ pc'[q] \in {"dequeue", "switch"}
                        /\ stopState'[q] = "BLOCKED"
                        /\ state'[s] = "RUNNING"
      BY DEF StopsFirst
    <2>1. s # u /\ Going(s) /\ Occupies(q, s)
      BY <1>2, <1>3, <1>4 DEF Idle
    <2> QED BY <1>1, <2>1 DEF Placement, StopsFirst, Typed, TypeOK
  <1>8. StateWhileOn'
    BY <1>1, <1>4 DEF Placement, StateWhileOn, Idle, Occupies, Typed, TypeOK
  <1>9. ExitedIsGone'
    BY <1>1, <1>2, <1>3, <1>4 DEF Placement, ExitedIsGone, Idle, Exited, Typed, TypeOK
  <1>10. UnbornIsNowhere'
    BY <1>1, <1>2, <1>3, <1>4 DEF Placement, UnbornIsNowhere, Idle, Typed, TypeOK
  <1>11. OneDisposal'
    <2>1. ASSUME NEW q \in Pthreads, NEW s \in Threads, LeftBy(q, s)'
          PROVE  /\ stopState'[q] # "BLOCKED"
                      => state'[s] = stopState'[q] /\ Idle(s)'
                 /\ stopState'[q] = "BLOCKED" => state'[s] \in {"BLOCKED", "RUNNING"}
      <3>1. LeftBy(q, s) /\ s # u
        BY <1>3, <1>4, <2>1
      <3>2. Idle(s) => Idle(s)'
        BY <1>2, <1>3, <3>1 DEF Idle
      <3> QED BY <1>1, <3>1, <3>2 DEF Placement, OneDisposal, Typed, TypeOK
    <2>2. \A q \in Pthreads : /\ pc'[q] = "requeue" => stopState'[q] = "RUNABLE"
                              /\ pc'[q] = "reap" => stopState'[q] = "DYING"
      BY <1>1 DEF Placement, OneDisposal
    <2> QED BY <1>3, <2>1, <2>2 DEF Placement, OneDisposal
  <1>12. ExclusiveExecution'
    BY <1>3 DEF Placement, ExclusiveExecution
  <1> QED BY <1>5, <1>6, <1>7, <1>8, <1>9, <1>10, <1>11, <1>12 DEF Placement, Typed

\* uthread_yield, uthread_block and pthread_base: stop with a state that is
\* not DYING; a thread that will be unblocked or joined stops as BLOCKED.
LEMMA StopStep ==
    ASSUME Typed, Placement, Typed', NEW p \in Pthreads,
           \/ BaseLoop(p)
           \/ \E t \in Threads : Yield(p, t) \/ Wait(p, t)
    PROVE  Placement'
  <1> USE UthreadAssumption
  <1> DEFINE t == cur[p]
  <1>1. /\ pc[p] = "run"
        /\ pc' = [pc EXCEPT ![p] = "dequeue"]
        /\ UNCHANGED <<state, joiner, ready, cur, to, from, target>>
        /\ \E s \in {"RUNABLE", "BLOCKED"} : stopState' = [stopState EXCEPT ![p] = s]
        /\ t = Base[p] => stopState'[p] = "BLOCKED"
        /\ \/ waiting' = waiting /\ tpc' = tpc
           \/ /\ waiting' = waiting \cup {t} /\ t \in Users
              /\ tpc' = [tpc EXCEPT ![t] = "block"]
              /\ stopState'[p] = "BLOCKED"
    <2>1. CASE BaseLoop(p)
      BY <2>1 DEF BaseLoop, Stop, queueVars, threadVars, Typed, TypeOK
    <2>2. ASSUME NEW u \in Threads, Yield(p, u) PROVE <1>1!:
      BY <2>2 DEF Yield, At, Stop, queueVars, threadVars, Users, Bases
    <2>3. ASSUME NEW u \in Threads, Wait(p, u) PROVE <1>1!:
      BY <2>3 DEF Wait, At, Stop, queueVars, Typed, TypeOK
    <2> QED BY <2>1, <2>2, <2>3
  <1>2. ~Going(t) /\ state[t] = "RUNNING" /\ t \in Threads
    BY <1>1, RunningIsNotGoing DEF Typed, TypeOK
  <1>3. /\ \A s \in Threads : /\ Dispatched(s)' <=> Dispatched(s)
                              /\ Going(s)' <=> Going(s) \/ s \in waiting'
                              /\ \A v \in Threads : StartsAtExit(v, s)' <=> StartsAtExit(v, s)
        /\ \A s \in Threads \ {t} : s \in waiting' <=> s \in waiting
    BY <1>1 DEF Dispatched, StartsAtExit, Going
  <1>4. \A q \in Pthreads : \A s \in Threads :
          /\ Occupies(q, s)' <=> Occupies(q, s)
          /\ LeftBy(q, s)' <=> LeftBy(q, s)
    BY <1>1 DEF Occupies, LeftBy, Typed, TypeOK
  <1>5. /\ Occupies(p, t) /\ \A q \in Pthreads : Occupies(q, t) => q = p
        /\ \A s \in Threads : Occupies(p, s) => s = t
        /\ \A s \in Threads : ~LeftBy(p, s)
    BY <1>1, <1>2 DEF Occupies, LeftBy, Placement, ExclusiveExecution
  <1>6. \A s \in Threads : Idle(s)' <=> Idle(s)
    BY <1>2, <1>3, <1>4, <1>5 DEF Idle, Going
  <1>7. BasesStay'
    <2>1. ToSet(ready') \cup waiting' \subseteq Users
      BY <1>1 DEF Placement, BasesStay
    <2>2. ASSUME NEW q \in Pthreads
          PROVE  /\ pc'[q] \in {"toSleep", "asleep", "woken"}
                       => cur[q] = Base[q] /\ stopState'[q] = "BLOCKED"
                 /\ pc'[q] \in {"dequeue", "switch"} /\ cur[q] = Base[q]
                       => stopState'[q] = "BLOCKED"
                 /\ \A s \in Bases : LeftBy(q, s)' => stopState'[q] = "BLOCKED"
      <3>1. CASE q = p
        BY <1>1, <1>4, <1>5, <3>1 DEF Typed, TypeOK, Bases
      <3>2. CASE q # p
        <4>1. pc'[q] = pc[q] /\ stopState'[q] = stopState[q]
          BY <1>1, <3>2 DEF Typed, TypeOK
        <4>2. \A s \in Bases : s \in Threads
          BY DEF Bases
        <4> QED BY <1>4, <4>1, <4>2 DEF Placement, BasesStay
      <3> QED BY <3>1, <3>2
    <2> QED BY <1>1, <2>1, <2>2 DEF Placement, BasesStay
  <1>8. OneDispatch'
    <2>1. ~Dispatched(t) /\ t \notin waiting /\ \A v \in Threads : ~StartsAtExit(v, t)
      BY <1>2 DEF Going
    <2>2. ASSUME NEW v \in Threads, NEW s \in Threads, StartsAtExit(v, s)'
          PROVE  ~Dispatched(s)' /\ tpc'[s] = "joinWait" /\ target'[s] = v
      <3>1. StartsAtExit(v, s) /\ s # t
        BY <1>3, <2>1, <2>2
      <3>2. target' = target /\ \A r \in Threads \ {t} : tpc'[r] = tpc[r]
        <4>1. target' = target /\ (tpc' = tpc \/ tpc' = [tpc EXCEPT ![t] = "block"])
          BY <1>1
        <4>2. tpc \in [Threads -> ThreadPC]
          BY DEF Typed, TypeOK
        <4> QED BY <4>1, <4>2
      <3> QED BY <1>3, <3>1, <3>2 DEF Placement, OneDispatch
    <2>3. ASSUME NEW s \in waiting'
          PROVE  ~Dispatched(s)' /\ tpc'[s] = "block"
      <3>1. s \in Threads
        BY DEF Typed, TypeOK, Users
      <3>2. CASE s = t
        BY <1>1, <1>2, <1>3, <2>1, <3>2 DEF Typed, TypeOK
      <3>3. CASE s # t
        BY <1>1, <1>3, <3>1, <3>3 DEF Placement, OneDispatch, Typed, TypeOK
      <3> QED BY <3>2, <3>3
    <2> QED BY <1>1, <2>2, <2>3 DEF Placement, OneDispatch
  <1>9. StopsFirst'
    <2> SUFFICES ASSUME NEW q \in Pthreads, NEW s \in Threads,
                        Going(s)', Occupies(q, s)'
                 PROVE  /\ pc'[q] \in {"dequeue", "switch"}
                        /\ stopState'[q] = "BLOCKED"
                        /\ state'[s] = "RUNNING"
      BY DEF StopsFirst
    <2>1. CASE s = t
      BY <1>1, <1>2, <1>3, <1>4, <1>5, <2>1 DEF Going, Typed, TypeOK
    <2>2. CASE s # t
      <3>1. Going(s) /\ Occupies(q, s) /\ q # p
        BY <1>3, <1>4, <1>5, <2>2 DEF Going
      <3> QED BY <1>1, <3>1 DEF Placement, StopsFirst, Typed, TypeOK
    <2> QED BY <2>1, <2>2
  <1>10. StateWhileOn'
    BY <1>1, <1>2 DEF Placement, StateWhileOn, Typed, TypeOK
  <1>11. ExitedIsGone'
    <2> SUFFICES ASSUME NEW s \in Threads, state[s] \in Exited
                 PROVE  /\ ~Going(s)'
                        /\ \A q \in Pthreads : Occupies(q, s)' =>
                             pc'[q] \in {"dequeue", "switch"} /\ stopState'[q] = "DYING"
      BY <1>1 DEF ExitedIsGone
    <2>1. s # t
      BY <1>2 DEF Exited
    <2>2. ~Going(s)' /\ ~Occupies(p, s)
      BY <1>3, <1>5, <2>1 DEF Placement, ExitedIsGone, Going
    <2> QED BY <1>1, <1>4, <2>2 DEF Placement, ExitedIsGone, Typed, TypeOK
  <1>12. UnbornIsNowhere'
    BY <1>1, <1>4, <1>6 DEF Placement, UnbornIsNowhere
  <1>13. OneDisposal'
    <2>1. /\ pc'[p] = "dequeue" /\ \A q \in Pthreads \ {p} : pc'[q] = pc[q]
          /\ \A q \in Pthreads \ {p} : stopState'[q] = stopState[q]
          /\ state' = state
      BY <1>1 DEF Typed, TypeOK
    <2>2. \A q \in Pthreads : \A s \in Threads : LeftBy(q, s)' =>
            /\ stopState'[q] # "BLOCKED" => state'[s] = stopState'[q] /\ Idle(s)'
            /\ stopState'[q] = "BLOCKED" => state'[s] \in {"BLOCKED", "RUNNING"}
      BY <1>4, <1>5, <1>6, <2>1 DEF Placement, OneDisposal
    <2> QED BY <1>4, <2>1, <2>2 DEF Placement, OneDisposal
  <1>14. ExclusiveExecution'
    BY <1>4 DEF Placement, ExclusiveExecution
  <1> QED BY <1>7, <1>8, <1>9, <1>10, <1>11, <1>12, <1>13, <1>14
          DEF Placement, Typed

\* The unblocked thread leaves the wait queue for the ready queue.
LEMMA UnblockStep ==
    ASSUME Typed, Placement, Typed',
           NEW p \in Pthreads, NEW t \in Threads, NEW u \in Threads,
           Unblock(p, t, u)
    PROVE  Placement'
  <1> USE UthreadAssumption
  <1>1. /\ ToSet(ready') = ToSet(ready) \cup {u}
        /\ IsInjective(ready) => IsInjective(ready')
        /\ \A q \in Pthreads : \/ pc'[q] = pc[q]
                               \/ pc[q] = "asleep" /\ pc'[q] = "woken"
        /\ u \in waiting /\ waiting' = waiting \ {u}
        /\ UNCHANGED <<state, joiner, cur, to, from, stopState, tpc, target>>
    BY EnqueueType DEF Unblock, Typed, TypeOK
  <1>2. \A s \in Threads : /\ Dispatched(s)' <=> Dispatched(s) \/ s = u
                           /\ Going(s)' <=> Going(s)
                           /\ \A v \in Threads : StartsAtExit(v, s)' <=> StartsAtExit(v, s)
    BY <1>1 DEF Dispatched, Going, StartsAtExit, Exited, Typed, TypeOK
  <1>3. \A q \in Pthreads : \A s \in Threads :
          /\ Occupies(q, s)' <=> Occupies(q, s)
          /\ LeftBy(q, s)' <=> LeftBy(q, s)
    BY <1>1 DEF Occupies, LeftBy, Typed, TypeOK
  <1>4. \A s \in Threads : Idle(s)' <=> Idle(s)
    BY <1>2, <1>3 DEF Idle
  <1>5. BasesStay'
    <2>1. ToSet(ready') \cup waiting' \subseteq Users
      BY <1>1 DEF Placement, BasesStay
    <2>2. ASSUME NEW q \in Pthreads
          PROVE  /\ pc'[q] \in {"toSleep", "asleep", "woken"}
                       => cur[q] = Base[q] /\ stopState[q] = "BLOCKED"
                 /\ pc'[q] \in {"dequeue", "switch"} /\ cur[q] = Base[q]
                       => stopState[q] = "BLOCKED"
      BY <1>1 DEF Placement, BasesStay
    <2> QED BY <1>1, <1>3, <2>1, <2>2 DEF Placement, BasesStay, Bases
  <1>6. OneDispatch'
    BY <1>1, <1>2 DEF Placement, OneDispatch, Dispatched
  <1>7. StopsFirst'
    BY <1>1, <1>2, <1>3 DEF Placement, StopsFirst
  <1>8. StateWhileOn'
    BY <1>1 DEF Placement, StateWhileOn
  <1>9. ExitedIsGone'
    BY <1>1, <1>2, <1>3 DEF Placement, ExitedIsGone
  <1>10. UnbornIsNowhere'
    BY <1>1, <1>3, <1>4 DEF Placement, UnbornIsNowhere
  <1>11. OneDisposal'
    BY <1>1, <1>3, <1>4 DEF Placement, OneDisposal
  <1>12. ExclusiveExecution'
    BY <1>3 DEF Placement, ExclusiveExecution
  <1> QED BY <1>5, <1>6, <1>7, <1>8, <1>9, <1>10, <1>11, <1>12 DEF Placement, Typed

\* The thread that exits starts its joiner.
LEMMA ExitStep ==
    ASSUME ~LateCheck, Typed, Placement, Typed',
           NEW p \in Pthreads, NEW t \in Threads, Exit(p, t)
    PROVE  Placement'
  <1> USE UthreadAssumption
  <1>1. /\ pc[p] = "run" /\ cur[p] = t /\ t \in Users /\ ~Unchecked(t)
        /\ state' = [state EXCEPT ![t] = "DYING"]
        /\ stopState' = [stopState EXCEPT ![p] = "DYING"]
        /\ UNCHANGED <<joiner, cur, to, from, tpc, target, waiting>>
    BY DEF Exit, At, MayPublish
  <1>2. ~Going(t) /\ state[t] = "RUNNING"
    BY <1>1, RunningIsNotGoing
  <1>3. /\ ToSet(ready') = ToSet(ready) \cup ({joiner[t]} \cap Threads)
        /\ IsInjective(ready) => IsInjective(ready')
        /\ pc'[p] = "dequeue"
        /\ \A q \in Pthreads \ {p} : \/ pc'[q] = pc[q]
                                     \/ pc[q] = "asleep" /\ pc'[q] = "woken"
    <2> DEFINE stopped == [pc EXCEPT ![p] = "dequeue"]
    <2>1. stopped \in [Pthreads -> PthreadPC]
      BY DEF Typed, TypeOK, PthreadPC
    <2>2. CASE joiner[t] \in {None, Detached}
      BY <2>2 DEF Exit, queueVars, Typed, TypeOK
    <2>3. CASE joiner[t] \notin {None, Detached}
      <3>1. joiner[t] \in Threads /\ ReadyEnqueue(joiner[t], stopped)
        BY <2>3 DEF Exit, Typed, TypeOK
      <3>2. stopped[p] = "dequeue" /\ \A q \in Pthreads \ {p} : stopped[q] = pc[q]
        BY DEF Typed, TypeOK
      <3> HIDE DEF stopped
      <3>3. /\ ToSet(ready') = ToSet(ready) \cup {joiner[t]}
            /\ IsInjective(ready) => IsInjective(ready')
            /\ \A q \in Pthreads : \/ pc'[q] = stopped[q]
                                   \/ stopped[q] = "asleep" /\ pc'[q] = "woken"
        <4>1. ready \in Seq(Threads) /\ joiner[t] \in Threads
          BY <3>1 DEF Typed, TypeOK
        <4> QED BY <2>1, <3>1, <4>1, EnqueueType
      <3> QED BY <3>1, <3>2, <3>3
    <2> QED BY <2>2, <2>3
  <1>4. \A s \in Threads :
          /\ Dispatched(s)' <=> Dispatched(s) \/ s = joiner[t]
          /\ \A v \in Threads : StartsAtExit(v, s)' <=> StartsAtExit(v, s) /\ v # t
          /\ StartsAtExit(t, s) <=> joiner[t] = s
    BY <1>1, <1>2, <1>3 DEF Dispatched, StartsAtExit, Exited, Typed, TypeOK
  <1>5. \A s \in Threads : Going(s)' <=> Going(s)
    BY <1>1, <1>4 DEF Going
  <1>6. \A q \in Pthreads : \A s \in Threads :
          /\ Occupies(q, s)' <=> Occupies(q, s)
          /\ LeftBy(q, s)' <=> LeftBy(q, s)
    BY <1>1, <1>3 DEF Occupies, LeftBy, Typed, TypeOK
  <1>7. \A s \in Threads : Idle(s)' <=> Idle(s)
    BY <1>5, <1>6 DEF Idle
  <1>8. Occupies(p, t) /\ \A q \in Pthreads : Occupies(q, t) => q = p
    BY <1>1 DEF Occupies, Placement, ExclusiveExecution
  <1>9. BasesStay'
    <2>1. ToSet(ready') \cup waiting' \subseteq Users
      BY <1>1, <1>3 DEF Placement, BasesStay, Users
    <2>2. ASSUME NEW q \in Pthreads
          PROVE  /\ state'[Base[q]] \notin Exited \cup {"UNBORN"}
                 /\ pc'[q] \in {"toSleep", "asleep", "woken"}
                       => cur[q] = Base[q] /\ stopState'[q] = "BLOCKED"
                 /\ pc'[q] \in {"dequeue", "switch"} /\ cur[q] = Base[q]
                       => stopState'[q] = "BLOCKED"
                 /\ \A s \in Bases : LeftBy(q, s)' => stopState'[q] = "BLOCKED"
      <3>1. Base[q] # t
        BY <1>1 DEF Users, Bases
      <3>2. \A s \in Threads : LeftBy(q, s) => q # p
        BY <1>1 DEF LeftBy
      <3>3. state'[Base[q]] \notin Exited \cup {"UNBORN"}
        BY <1>1, <3>1 DEF Placement, BasesStay, Typed, TypeOK, Bases
      <3>4. \A s \in Bases : s \in Threads
        BY DEF Bases
      <3>5. CASE q = p
        BY <1>1, <1>3, <1>6, <3>1, <3>2, <3>3, <3>4, <3>5
      <3>6. CASE q # p
        <4>1. stopState'[q] = stopState[q]
          BY <1>1, <3>6 DEF Typed, TypeOK
        <4> QED BY <1>3, <1>6, <3>3, <3>4, <3>6, <4>1 DEF Placement, BasesStay
      <3> QED BY <3>5, <3>6
    <2> QED BY <1>1, <2>1, <2>2 DEF Placement, BasesStay
  <1>10. OneDispatch'
    BY <1>1, <1>3, <1>4 DEF Placement, OneDispatch, Dispatched
  <1>11. StopsFirst'
    <2> SUFFICES ASSUME NEW q \in Pthreads, NEW s \in Threads,
                        Going(s)', Occupies(q, s)'
                 PROVE  /\ pc'[q] \in {"dequeue", "switch"}
                        /\ stopState'[q] = "BLOCKED"
                        /\ state'[s] = "RUNNING"
      BY DEF StopsFirst
    <2>1. s # t /\ q # p
      BY <1>1, <1>2, <1>5 DEF Occupies
    <2>2. /\ pc[q] \in {"dequeue", "switch"}
          /\ stopState[q] = "BLOCKED"
          /\ state[s] = "RUNNING"
      BY <1>5, <1>6 DEF Placement, StopsFirst
    <2> QED BY <1>1, <1>3, <2>1, <2>2 DEF Typed, TypeOK
  <1>12. StateWhileOn'
    <2>1. /\ state'[t] = "DYING" /\ \A s \in Threads \ {t} : state'[s] = state[s]
          /\ stopState'[p] = "DYING"
          /\ \A q \in Pthreads \ {p} : stopState'[q] = stopState[q]
          /\ cur' = cur /\ cur[p] = t
      BY <1>1 DEF Typed, TypeOK
    <2> SUFFICES ASSUME NEW q \in Pthreads
                 PROVE  /\ pc'[q] \in {"run", "toSleep", "asleep", "woken"}
                              => state'[cur[q]] = "RUNNING"
                        /\ pc'[q] \in {"dequeue", "switch"} =>
                              state'[cur[q]] = IF stopState'[q] = "DYING" THEN "DYING"
                                                                        ELSE "RUNNING"
      BY <2>1 DEF StateWhileOn
    <2>2. CASE q = p
      BY <1>3, <2>1, <2>2
    <2>3. CASE q # p
      <3>1. cur[q] \in Threads
        BY DEF Typed, TypeOK
      <3>2. pc[q] # "spin" => cur[q] # t
        BY <1>8, <2>3, <3>1 DEF Occupies
      <3> QED BY <1>3, <2>1, <2>3, <3>1, <3>2 DEF Placement, StateWhileOn
    <2> QED BY <2>2, <2>3
  <1>13. ExitedIsGone'
    <2>1. /\ ~Going(t)'
          /\ \A q \in Pthreads : Occupies(q, t)' =>
               pc'[q] \in {"dequeue", "switch"} /\ stopState'[q] = "DYING"
      BY <1>1, <1>2, <1>3, <1>5, <1>6, <1>8 DEF Typed, TypeOK
    <2>2. ASSUME NEW s \in Threads, s # t, state'[s] \in Exited
          PROVE  /\ ~Going(s)'
                 /\ \A q \in Pthreads : Occupies(q, s)' =>
                      pc'[q] \in {"dequeue", "switch"} /\ stopState'[q] = "DYING"
      <3>1. ASSUME NEW q \in Pthreads, Occupies(q, s) PROVE q # p
        BY <1>1, <2>2, <3>1 DEF Occupies
      <3>2. state[s] \in Exited
        BY <1>1, <2>2 DEF Typed, TypeOK
      <3>3. \A q \in Pthreads \ {p} : stopState'[q] = stopState[q]
        BY <1>1 DEF Typed, TypeOK
      <3> QED BY <1>3, <1>5, <1>6, <3>1, <3>2, <3>3 DEF Placement, ExitedIsGone
    <2> QED BY <2>1, <2>2 DEF ExitedIsGone
  <1>14. UnbornIsNowhere'
    BY <1>1, <1>6, <1>7 DEF Placement, UnbornIsNowhere, Typed, TypeOK
  <1>15. OneDisposal'
    <2>1. ASSUME NEW q \in Pthreads, NEW s \in Threads, LeftBy(q, s)
          PROVE  q # p /\ s # t
      BY <1>1, <1>8, <2>1
         DEF Placement, OneDisposal, Idle, LeftBy, Unchecked
    <2>2. ASSUME NEW q \in Pthreads, NEW s \in Threads, LeftBy(q, s)'
          PROVE  /\ stopState'[q] # "BLOCKED" => state'[s] = stopState'[q] /\ Idle(s)'
                 /\ stopState'[q] = "BLOCKED" => state'[s] \in {"BLOCKED", "RUNNING"}
      <3>1. LeftBy(q, s) /\ q # p /\ s # t
        BY <1>6, <2>1, <2>2
      <3>2. state'[s] = state[s] /\ stopState'[q] = stopState[q]
        BY <1>1, <3>1 DEF Typed, TypeOK
      <3> QED BY <1>7, <3>1, <3>2 DEF Placement, OneDisposal
    <2>3. \A q1, q2 \in Pthreads : \A s \in Threads :
            LeftBy(q1, s)' /\ LeftBy(q2, s)' => q1 = q2
      BY <1>6 DEF Placement, OneDisposal
    <2>4. ASSUME NEW q \in Pthreads
          PROVE  /\ pc'[q] = "requeue" => stopState'[q] = "RUNABLE"
                 /\ pc'[q] = "reap" => stopState'[q] = "DYING"
      BY <1>1, <1>3 DEF Placement, OneDisposal, Typed, TypeOK
    <2> QED BY <2>2, <2>3, <2>4 DEF OneDisposal
  <1>16. ExclusiveExecution'
    BY <1>6 DEF Placement, ExclusiveExecution
  <1> QED BY <1>9, <1>10, <1>11, <1>12, <1>13, <1>14, <1>15, <1>16
          DEF Placement, Typed

\* The test of joiner without the lock only moves the caller.
LEMMA ClaimStep ==
    ASSUME Typed, Placement, Typed', NEW p \in Pthreads, NEW t \in Threads,
           NEW u \in Threads, NEW call, Claim(p, t, u, call)
    PROVE  Placement'
  <1> USE UthreadAssumption
  <1>1. /\ pc[p] = "run" /\ cur[p] = t
        /\ UNCHANGED <<state, joiner, ready, pc, cur, to, from, stopState, waiting>>
        /\ \A s \in Threads \ {t} : tpc'[s] = tpc[s] /\ target'[s] = target[s]
    BY DEF Claim, At, queueVars, Typed, TypeOK
  <1>2. ~Going(t)
    BY <1>1, RunningIsNotGoing
  <1>3. OneDispatch'
    <2>1. \A s \in Threads :
            /\ Dispatched(s)' <=> Dispatched(s)
            /\ \A v \in Threads : StartsAtExit(v, s)' <=> StartsAtExit(v, s)
      BY <1>1 DEF Dispatched, StartsAtExit
    <2>2. t \notin waiting /\ \A v \in Threads : ~StartsAtExit(v, t)
      BY <1>2 DEF Going
    <2>3. \A s \in waiting' : ~Dispatched(s)' /\ tpc'[s] = "block"
      BY <1>1, <2>1, <2>2 DEF Placement, OneDispatch, Typed, TypeOK, Users
    <2> QED BY <1>1, <2>1, <2>2, <2>3 DEF Placement, OneDispatch
  <1>4. BasesStay' /\ StopsFirst' /\ StateWhileOn'
    BY <1>1 DEF Placement, BasesStay, StopsFirst, StateWhileOn, LeftBy, Going,
                Dispatched, StartsAtExit, Occupies
  <1>5. ExitedIsGone' /\ UnbornIsNowhere' /\ OneDisposal' /\ ExclusiveExecution'
    BY <1>1 DEF Placement, ExitedIsGone, UnbornIsNowhere, OneDisposal,
                ExclusiveExecution, Idle, LeftBy, Going, Dispatched, StartsAtExit,
                Occupies
  <1> QED BY <1>3, <1>4, <1>5 DEF Placement, Typed

\* uthread_join that registers the caller and stops.
LEMMA RegisterStep ==
    ASSUME Typed, Placement, Typed', NEW p \in Pthreads, NEW t \in Threads,
           JoinLock(p, t), state[target[t]] \notin {"DYING", "DEAD"}
    PROVE  Placement'
  <1> USE UthreadAssumption
  <1>1. /\ pc[p] = "run" /\ cur[p] = t /\ t \in Users
        /\ pc' = [pc EXCEPT ![p] = "dequeue"]
        /\ stopState' = [stopState EXCEPT ![p] = "BLOCKED"]
        /\ joiner' = [joiner EXCEPT ![target[t]] = t]
        /\ tpc' = [tpc EXCEPT ![t] = "joinWait"]
        /\ UNCHANGED <<state, target, waiting, ready, cur, to, from>>
    BY DEF JoinLock, At, Stop, queueVars
  <1>2. ~Going(t) /\ state[t] = "RUNNING"
    BY <1>1, RunningIsNotGoing
  <1>3. \A s \in Threads :
          /\ Dispatched(s)' <=> Dispatched(s)
          /\ \A v \in Threads : StartsAtExit(v, s)' =>
               StartsAtExit(v, s) \/ (s = t /\ v = target[t])
    BY <1>1 DEF Dispatched, StartsAtExit, Typed, TypeOK
  <1>4. \A s \in Threads : Going(s)' => Going(s) \/ s = t
    BY <1>1, <1>3 DEF Going
  <1>5. \A q \in Pthreads : \A s \in Threads :
          /\ Occupies(q, s)' <=> Occupies(q, s)
          /\ LeftBy(q, s)' <=> LeftBy(q, s)
    <2>1. /\ pc[p] = "run" /\ pc'[p] = "dequeue"
          /\ \A q \in Pthreads \ {p} : pc'[q] = pc[q]
          /\ cur' = cur /\ from' = from
      BY <1>1 DEF Typed, TypeOK
    <2> QED BY <2>1 DEF Occupies, LeftBy
  <1>6. /\ Occupies(p, t) /\ \A q \in Pthreads : Occupies(q, t) => q = p
        /\ \A s \in Threads : Occupies(p, s) => s = t
        /\ \A s \in Threads : ~LeftBy(p, s)
    BY <1>1 DEF Occupies, LeftBy, Placement, ExclusiveExecution
  <1>7. \A s \in Threads : Idle(s) => s # t /\ Idle(s)'
    BY <1>4, <1>5, <1>6 DEF Idle
  <1>8. BasesStay'
    <2>1. \A u \in Threads : joiner'[u] \in Users \cup {None, Detached}
      BY <1>1 DEF Placement, BasesStay, Typed, TypeOK
    <2>2. cur[p] = t /\ t \notin Bases
      BY <1>1 DEF Users
    <2>3. /\ pc'[p] = "dequeue" /\ stopState'[p] = "BLOCKED"
          /\ \A q \in Pthreads \ {p} : pc'[q] = pc[q] /\ stopState'[q] = stopState[q]
      BY <1>1 DEF Typed, TypeOK
    <2>4. \A q \in Pthreads : \A s \in Bases : LeftBy(q, s)' => stopState'[q] = "BLOCKED"
      BY <1>5, <2>3 DEF Placement, BasesStay, Bases
    <2> QED BY <1>1, <2>1, <2>2, <2>3, <2>4 DEF Placement, BasesStay, Bases
  <1>9. OneDispatch'
    <2>1. ~Dispatched(t) /\ t \notin waiting /\ \A v \in Threads : ~StartsAtExit(v, t)
      BY <1>2 DEF Going
    <2>2. ASSUME NEW v \in Threads, NEW s \in Threads, StartsAtExit(v, s)'
          PROVE  ~Dispatched(s)' /\ tpc'[s] = "joinWait" /\ target'[s] = v
      <3>1. /\ tpc'[t] = "joinWait" /\ \A r \in Threads \ {t} : tpc'[r] = tpc[r]
            /\ target' = target
        BY <1>1 DEF Typed, TypeOK
      <3>2. CASE StartsAtExit(v, s)
        BY <1>3, <2>1, <3>1, <3>2 DEF Placement, OneDispatch
      <3>3. CASE s = t /\ v = target[t]
        BY <1>3, <2>1, <3>1, <3>3
      <3> QED BY <1>3, <2>2, <3>2, <3>3
    <2>3. \A s \in waiting' : ~Dispatched(s)' /\ tpc'[s] = "block"
      BY <1>1, <1>3, <2>1 DEF Placement, OneDispatch, Typed, TypeOK, Users
    <2> QED BY <1>1, <2>2, <2>3 DEF Placement, OneDispatch
  <1>10. StopsFirst'
    <2> SUFFICES ASSUME NEW q \in Pthreads, NEW s \in Threads,
                        Going(s)', Occupies(q, s)'
                 PROVE  /\ pc'[q] \in {"dequeue", "switch"}
                        /\ stopState'[q] = "BLOCKED"
                        /\ state'[s] = "RUNNING"
      BY DEF StopsFirst
    <2>1. CASE s = t
      BY <1>1, <1>2, <1>5, <1>6, <2>1 DEF Typed, TypeOK
    <2>2. CASE s # t
      <3>1. Going(s) /\ Occupies(q, s) /\ q # p
        BY <1>4, <1>5, <1>6, <2>2
      <3> QED BY <1>1, <3>1 DEF Placement, StopsFirst, Typed, TypeOK
    <2> QED BY <2>1, <2>2
  <1>11. StateWhileOn'
    BY <1>1, <1>2 DEF Placement, StateWhileOn, Typed, TypeOK
  <1>12. ExitedIsGone'
    <2> SUFFICES ASSUME NEW s \in Threads, state[s] \in Exited
                 PROVE  /\ ~Going(s)'
                        /\ \A q \in Pthreads : Occupies(q, s)' =>
                             pc'[q] \in {"dequeue", "switch"} /\ stopState'[q] = "DYING"
      BY <1>1 DEF ExitedIsGone
    <2>1. s # t
      BY <1>2 DEF Exited
    <2>2. ~Going(s)' /\ ~Occupies(p, s)
      BY <1>4, <1>6, <2>1 DEF Placement, ExitedIsGone
    <2> QED BY <1>1, <1>5, <2>2 DEF Placement, ExitedIsGone, Typed, TypeOK
  <1>13. UnbornIsNowhere'
    BY <1>1, <1>5, <1>7 DEF Placement, UnbornIsNowhere
  <1>14. OneDisposal'
    <2>1. ASSUME NEW q \in Pthreads, NEW s \in Threads, LeftBy(q, s)'
          PROVE  /\ stopState'[q] # "BLOCKED"
                      => state'[s] = stopState'[q] /\ Idle(s)'
                 /\ stopState'[q] = "BLOCKED" => state'[s] \in {"BLOCKED", "RUNNING"}
      <3>1. LeftBy(q, s) /\ q # p
        BY <1>5, <1>6, <2>1
      <3>2. state'[s] = state[s] /\ stopState'[q] = stopState[q]
        BY <1>1, <3>1 DEF Typed, TypeOK
      <3> QED BY <1>7, <3>1, <3>2 DEF Placement, OneDisposal
    <2>2. \A q \in Pthreads : /\ pc'[q] = "requeue" => stopState'[q] = "RUNABLE"
                              /\ pc'[q] = "reap" => stopState'[q] = "DYING"
      BY <1>1 DEF Placement, OneDisposal, Typed, TypeOK
    <2> QED BY <1>5, <2>1, <2>2 DEF Placement, OneDisposal
  <1>15. ExclusiveExecution'
    BY <1>5 DEF Placement, ExclusiveExecution
  <1> QED BY <1>8, <1>9, <1>10, <1>11, <1>12, <1>13, <1>14, <1>15
          DEF Placement, Typed

\* A thread that is DEAD is nowhere.
LEMMA ReleaseStep ==
    ASSUME Typed, Placement, Typed', NEW p \in Pthreads, NEW t \in Threads,
           pc[p] = "run", cur[p] = t, NEW u,
           Release(t, u, state[u] # "DEAD"),
           u \in Threads \/ u = None,
           UNCHANGED <<queueVars, pc, cur, to, from, stopState>>
    PROVE  Placement'
  <1> USE UthreadAssumption
  <1>1. /\ UNCHANGED <<ready, pc, cur, to, from, stopState, waiting>>
        /\ \A s \in Threads \ {t} : tpc'[s] = tpc[s] /\ target'[s] = target[s]
        /\ \A s \in Threads : joiner'[s] = joiner[s] \/ joiner'[s] = Detached
        /\ \A s \in Threads : \/ state'[s] = state[s]
                              \/ state[s] = "DEAD" /\ state'[s] = "FREED"
    BY DEF Release, queueVars, Typed, TypeOK
  <1>2. ~Going(t) /\ state[t] = "RUNNING"
    BY RunningIsNotGoing
  <1>3. \A s \in Threads :
          /\ Dispatched(s)' <=> Dispatched(s)
          /\ \A v \in Threads : StartsAtExit(v, s)' => StartsAtExit(v, s)
    BY <1>1 DEF Dispatched, StartsAtExit, Exited
  <1>4. \A s \in Threads : Going(s)' => Going(s)
    BY <1>1, <1>3 DEF Going
  <1>5. \A q \in Pthreads : \A s \in Threads :
          /\ Occupies(q, s)' <=> Occupies(q, s)
          /\ LeftBy(q, s)' <=> LeftBy(q, s)
    BY <1>1 DEF Occupies, LeftBy
  <1>6. \A s \in Threads : Idle(s) => Idle(s)'
    BY <1>4, <1>5 DEF Idle
  <1>7. BasesStay'
    BY <1>1, <1>5 DEF Placement, BasesStay, Bases, Exited
  <1>8. OneDispatch'
    <2>1. t \notin waiting /\ \A v \in Threads : ~StartsAtExit(v, t)
      BY <1>2 DEF Going
    <2>2. ASSUME NEW v \in Threads, NEW s \in Threads, StartsAtExit(v, s)'
          PROVE  ~Dispatched(s)' /\ tpc'[s] = "joinWait" /\ target'[s] = v
      BY <1>1, <1>3, <2>1, <2>2 DEF Placement, OneDispatch
    <2>3. \A s \in waiting' : ~Dispatched(s)' /\ tpc'[s] = "block"
      BY <1>1, <1>3, <2>1 DEF Placement, OneDispatch, Typed, TypeOK, Users
    <2> QED BY <1>1, <2>2, <2>3 DEF Placement, OneDispatch
  <1>9. StopsFirst'
    BY <1>1, <1>4, <1>5 DEF Placement, StopsFirst
  <1>10. StateWhileOn'
    <2> SUFFICES ASSUME NEW q \in Pthreads, state'[cur[q]] # state[cur[q]]
                 PROVE  pc[q] \notin {"run", "toSleep", "asleep", "woken",
                                     "dequeue", "switch"}
      BY <1>1 DEF Placement, StateWhileOn
    <2>1. state[cur[q]] = "DEAD"
      BY <1>1 DEF Typed, TypeOK
    <2> QED BY <2>1 DEF Placement, StateWhileOn
  <1>11. ExitedIsGone'
    BY <1>1, <1>4, <1>5 DEF Placement, ExitedIsGone, Exited
  <1>12. UnbornIsNowhere'
    BY <1>1, <1>5, <1>6 DEF Placement, UnbornIsNowhere
  <1>13. OneDisposal'
    <2>1. ASSUME NEW q \in Pthreads, NEW s \in Threads, LeftBy(q, s)
          PROVE  state'[s] = state[s]
      <3>1. stopState[q] \in {"RUNABLE", "BLOCKED", "DYING"}
        BY DEF Typed, TypeOK, StopState
      <3>2. state[s] # "DEAD"
        BY <2>1, <3>1 DEF Placement, OneDisposal
      <3> QED BY <1>1, <3>2
    <2> QED BY <1>1, <1>5, <1>6, <2>1 DEF Placement, OneDisposal
  <1>14. ExclusiveExecution'
    BY <1>5 DEF Placement, ExclusiveExecution
  <1> QED BY <1>7, <1>8, <1>9, <1>10, <1>11, <1>12, <1>13, <1>14
          DEF Placement, Typed

\* A pthread that goes to sleep or wakes up.
LEMMA IdleStep ==
    ASSUME Typed, Placement, Typed', NEW p \in Pthreads,
           DequeueNothing(p) \/ Sleep(p) \/ WakeUp(p)
    PROVE  Placement'
  <1> USE UthreadAssumption
  <1>1. /\ UNCHANGED <<state, joiner, ready, cur, to, from, stopState, tpc, target,
                       waiting>>
        /\ cur[p] = Base[p]
        /\ pc[p] \in {"dequeue", "toSleep", "woken"}
        /\ \E l \in {"toSleep", "asleep", "dequeue"} : pc' = [pc EXCEPT ![p] = l]
        /\ pc[p] = "dequeue" => pc'[p] = "toSleep"
    <2>1. CASE DequeueNothing(p)
      BY <2>1 DEF DequeueNothing, threadVars, Typed, TypeOK
    <2>2. CASE Sleep(p) \/ WakeUp(p)
      BY <2>2 DEF Sleep, WakeUp, threadVars, Placement, BasesStay, Typed, TypeOK
    <2> QED BY <2>1, <2>2
  <1>2. /\ pc[p] \notin {"run", "spin", "after", "reap", "requeue", "resume"}
        /\ stopState[p] = "BLOCKED" /\ state[cur[p]] = "RUNNING"
        /\ ~Going(cur[p])
    BY <1>1, BaseIsNotGoing DEF Placement, BasesStay, StateWhileOn
  <1>3. \A s \in Threads : /\ Dispatched(s)' <=> Dispatched(s)
                           /\ Going(s)' <=> Going(s)
                           /\ \A v \in Threads : StartsAtExit(v, s)' <=> StartsAtExit(v, s)
    BY <1>1 DEF Dispatched, StartsAtExit, Going
  <1>4. \A q \in Pthreads : \A s \in Threads :
          /\ Occupies(q, s)' <=> Occupies(q, s)
          /\ LeftBy(q, s)' <=> LeftBy(q, s)
    BY <1>1, <1>2 DEF Occupies, LeftBy, Typed, TypeOK
  <1>5. \A s \in Threads : Idle(s)' <=> Idle(s)
    BY <1>3, <1>4 DEF Idle
  <1>6. BasesStay'
    BY <1>1, <1>2, <1>4 DEF Placement, BasesStay, Bases, Typed, TypeOK
  <1>7. OneDispatch'
    BY <1>1, <1>3 DEF Placement, OneDispatch, Typed, TypeOK, Users
  <1>8. StopsFirst'
    BY <1>1, <1>2, <1>3, <1>4 DEF Placement, StopsFirst, Occupies, Typed, TypeOK
  <1>9. StateWhileOn'
    BY <1>1, <1>2 DEF Placement, StateWhileOn, Typed, TypeOK
  <1>10. ExitedIsGone'
    BY <1>1, <1>2, <1>3, <1>4 DEF Placement, ExitedIsGone, Occupies, Exited, Typed, TypeOK
  <1>11. UnbornIsNowhere' /\ ExclusiveExecution'
    BY <1>1, <1>4, <1>5 DEF Placement, UnbornIsNowhere, ExclusiveExecution
  <1>12. OneDisposal'
    BY <1>1, <1>2, <1>4, <1>5 DEF Placement, OneDisposal, Typed, TypeOK
  <1> QED BY <1>6, <1>7, <1>8, <1>9, <1>10, <1>11, <1>12 DEF Placement, Typed

\* A pthread chooses its successor: the head of the queue, or its base thread.
LEMMA DequeueStep ==
    ASSUME Typed, Placement, Typed', NEW p \in Pthreads,
           DequeueHead(p) \/ DequeueBase(p)
    PROVE  Placement'
  <1> USE UthreadAssumption
  <1>1. PICK h \in Threads :
          /\ UNCHANGED <<state, joiner, cur, from, stopState, tpc, target, waiting>>
          /\ pc[p] = "dequeue" /\ pc' = [pc EXCEPT ![p] = "switch"]
          /\ to[p] = None /\ to' = [to EXCEPT ![p] = h]
          /\ ToSet(ready') = ToSet(ready) \ {h} /\ IsInjective(ready')
          /\ \/ h \in ToSet(ready)
             \/ h = Base[p] /\ cur[p] # h /\ h \notin ToSet(ready)
    <2>1. to[p] = None /\ IsInjective(ready)
      BY DEF DequeueHead, DequeueBase, Typed, Locals, Placement, OneDispatch
    <2>2. CASE DequeueHead(p)
      <3>1. /\ Head(ready) \in Threads /\ Head(ready) \in ToSet(ready)
            /\ ToSet(Tail(ready)) = ToSet(ready) \ {Head(ready)}
            /\ IsInjective(Tail(ready))
        <4>1. ready # <<>> /\ ready \in Seq(Threads)
          BY <2>2 DEF DequeueHead, Typed, TypeOK
        <4>2. /\ Head(ready) \in Threads /\ Head(ready) \in ToSet(ready)
              /\ ToSet(ready) = ToSet(Tail(ready)) \cup {Head(ready)}
              /\ IsInjective(Tail(ready)) /\ Head(ready) \notin ToSet(Tail(ready))
          BY <2>1, <4>1, TailQueue
        <4> QED BY <4>2
      <3> QED BY <2>1, <2>2, <3>1 DEF DequeueHead, threadVars
    <2>3. CASE DequeueBase(p)
      <3>1. /\ ToSet(ready) = {} /\ ready' = ready /\ Base[p] \in Threads
            /\ cur[p] # Base[p]
        BY <2>3, EmptyQueue DEF DequeueBase, queueVars
      <3>2. /\ UNCHANGED <<state, joiner, cur, from, stopState, tpc, target, waiting>>
            /\ pc[p] = "dequeue" /\ pc' = [pc EXCEPT ![p] = "switch"]
            /\ to' = [to EXCEPT ![p] = Base[p]]
        BY <2>3 DEF DequeueBase, threadVars
      <3>3. ToSet(ready') = ToSet(ready) \ {Base[p]} /\ IsInjective(ready')
        BY <2>1, <3>1
      <3> QED BY <2>1, <3>1, <3>2, <3>3
    <2> QED BY <2>2, <2>3
  <1>2. to'[p] = h /\ \A q \in Pthreads \ {p} : to'[q] = to[q]
    BY <1>1 DEF Typed, TypeOK
  <1>3. \A s \in Threads : /\ Dispatched(s)' <=> Dispatched(s) \/ s = h
                           /\ Going(s)' <=> Going(s) \/ s = h
                           /\ \A v \in Threads : StartsAtExit(v, s)' <=> StartsAtExit(v, s)
    BY <1>1, <1>2, UthreadAssumption DEF Dispatched, StartsAtExit, Going
  <1>4. \A q \in Pthreads : \A s \in Threads :
          /\ Occupies(q, s)' <=> Occupies(q, s)
          /\ LeftBy(q, s)' <=> LeftBy(q, s)
    BY <1>1 DEF Occupies, LeftBy, Typed, TypeOK
  \* Where h is the base thread, nobody is on its stack and nobody else
  \* sends it anywhere.
  <1>5. CASE h \in ToSet(ready)
    <2>1. Dispatched(h) /\ Going(h) /\ \A q \in Pthreads : to[q] # h
      BY <1>5 DEF Dispatched, Going, Placement, OneDispatch
    <2>2. \A s \in Threads : /\ Dispatched(s)' <=> Dispatched(s)
                             /\ Going(s)' <=> Going(s)
                             /\ Idle(s)' <=> Idle(s)
      BY <1>3, <1>4, <2>1 DEF Idle
    <2>3. BasesStay'
      <3>1. h \in Users /\ h \notin Bases
        BY <1>5 DEF Placement, BasesStay, Users
      <3>2. ASSUME NEW q \in Pthreads
            PROVE  /\ to'[q] \in Bases => to'[q] = Base[q] /\ cur[q] # Base[q]
                   /\ pc'[q] \in {"toSleep", "asleep", "woken"}
                         => cur[q] = Base[q] /\ stopState[q] = "BLOCKED"
                   /\ pc'[q] \in {"dequeue", "switch"} /\ cur[q] = Base[q]
                         => stopState[q] = "BLOCKED"
        <4>1. CASE q = p
          BY <1>1, <1>2, <3>1, <4>1 DEF Placement, BasesStay, Typed, TypeOK
        <4>2. CASE q # p
          BY <1>1, <1>2, <4>2 DEF Placement, BasesStay, Typed, TypeOK
        <4> QED BY <4>1, <4>2
      <3> QED BY <1>1, <1>4, <3>2 DEF Placement, BasesStay, Bases
    <2>4. OneDispatch'
      <3>1. \A q \in Pthreads : to'[q] \notin ToSet(ready')
        BY <1>1, <1>2 DEF Placement, OneDispatch
      <3>2. ASSUME NEW q \in Pthreads, NEW r \in Pthreads, to'[q] = to'[r], to'[q] # None
            PROVE  q = r
        BY <1>2, <2>1, <3>2 DEF Placement, OneDispatch
      <3>3. \A s \in waiting' : ~Dispatched(s)' /\ tpc'[s] = "block"
        BY <1>1, <2>2 DEF Placement, OneDispatch, Typed, TypeOK, Users
      <3>4. \A v, s \in Threads : StartsAtExit(v, s)' =>
              ~Dispatched(s)' /\ tpc'[s] = "joinWait" /\ target'[s] = v
        BY <1>1, <1>3, <2>2 DEF Placement, OneDispatch
      <3> QED BY <1>1, <3>1, <3>2, <3>3, <3>4 DEF OneDispatch
    <2>5. StopsFirst' /\ StateWhileOn'
      BY <1>1, <1>4, <2>2 DEF Placement, StopsFirst, StateWhileOn, Typed, TypeOK
    <2>6. ExitedIsGone' /\ UnbornIsNowhere' /\ ExclusiveExecution'
      BY <1>1, <1>4, <2>2
         DEF Placement, ExitedIsGone, UnbornIsNowhere, ExclusiveExecution, Typed, TypeOK
    <2>7. OneDisposal'
      BY <1>1, <1>4, <2>2 DEF Placement, OneDisposal, Typed, TypeOK
    <2> QED BY <2>3, <2>4, <2>5, <2>6, <2>7 DEF Placement, Typed
  <1>6. CASE h = Base[p] /\ cur[p] # h /\ h \notin ToSet(ready)
    <2>1. /\ h \in Bases /\ h \notin Users /\ h \notin waiting
          /\ \A q \in Pthreads : to[q] # h
          /\ \A u \in Threads : joiner[u] # h
      <3>1. h \in Bases /\ h \notin Users /\ h # None /\ h # Detached
        BY <1>6 DEF Bases, Users
      <3>2. ASSUME NEW q \in Pthreads PROVE to[q] # h
        BY <1>1, <1>6, <3>1 DEF Placement, BasesStay
      <3> QED BY <3>1, <3>2 DEF Placement, BasesStay
    <2>2. ~Going(h) /\ ~Dispatched(h)
      BY <1>6, <2>1 DEF Going, Dispatched, StartsAtExit
    <2>3. \A q \in Pthreads : ~Occupies(q, h)
      BY <1>6, <2>1 DEF Occupies, Placement, BasesStay
    <2>4. state[h] \notin Exited \cup {"UNBORN"}
      BY <1>6 DEF Placement, BasesStay
    <2>5. \A s \in Threads : s # h => (Idle(s)' <=> Idle(s))
      BY <1>3, <1>4 DEF Idle
    <2>6. BasesStay'
      <3>1. ASSUME NEW q \in Pthreads
            PROVE  /\ to'[q] \in Bases => to'[q] = Base[q] /\ cur[q] # Base[q]
                   /\ pc'[q] \in {"toSleep", "asleep", "woken"}
                         => cur[q] = Base[q] /\ stopState[q] = "BLOCKED"
                   /\ pc'[q] \in {"dequeue", "switch"} /\ cur[q] = Base[q]
                         => stopState[q] = "BLOCKED"
        <4>1. CASE q = p
          BY <1>1, <1>2, <1>6, <4>1 DEF Placement, BasesStay, Typed, TypeOK
        <4>2. CASE q # p
          BY <1>1, <1>2, <4>2 DEF Placement, BasesStay, Typed, TypeOK
        <4> QED BY <4>1, <4>2
      <3> QED BY <1>1, <1>4, <3>1 DEF Placement, BasesStay, Bases
    <2>7. OneDispatch'
      <3>1. \A q \in Pthreads : to'[q] \notin ToSet(ready')
        BY <1>1, <1>2 DEF Placement, OneDispatch
      <3>2. ASSUME NEW q \in Pthreads, NEW r \in Pthreads, to'[q] = to'[r], to'[q] # None
            PROVE  q = r
        BY <1>2, <2>1, <3>2 DEF Placement, OneDispatch
      <3>3. \A s \in waiting' : ~Dispatched(s)' /\ tpc'[s] = "block"
        BY <1>1, <1>3, <2>1 DEF Placement, OneDispatch, Typed, TypeOK, Users
      <3>4. \A v, s \in Threads : StartsAtExit(v, s)' =>
              ~Dispatched(s)' /\ tpc'[s] = "joinWait" /\ target'[s] = v
        <4>1. \A v \in Threads : ~StartsAtExit(v, h)
          BY <2>2 DEF Going
        <4> QED BY <1>1, <1>3, <4>1 DEF Placement, OneDispatch
      <3> QED BY <1>1, <3>1, <3>2, <3>3, <3>4 DEF OneDispatch
    <2>8. StopsFirst' /\ StateWhileOn'
      <3>1. StopsFirst'
        <4> SUFFICES ASSUME NEW q \in Pthreads, NEW s \in Threads,
                            Going(s)', Occupies(q, s)'
                     PROVE  /\ pc'[q] \in {"dequeue", "switch"}
                            /\ stopState'[q] = "BLOCKED"
                            /\ state'[s] = "RUNNING"
          BY DEF StopsFirst
        <4>1. Going(s) /\ Occupies(q, s)
          BY <1>3, <1>4, <2>3
        <4> QED BY <1>1, <4>1 DEF Placement, StopsFirst, Typed, TypeOK
      <3>2. StateWhileOn'
        BY <1>1 DEF Placement, StateWhileOn, Typed, TypeOK
      <3> QED BY <3>1, <3>2
    <2>9. ExitedIsGone' /\ UnbornIsNowhere' /\ ExclusiveExecution'
      <3>1. /\ state' = state /\ stopState' = stopState /\ cur' = cur
            /\ pc'[p] = "switch" /\ \A q \in Pthreads \ {p} : pc'[q] = pc[q]
            /\ pc[p] = "dequeue"
        BY <1>1 DEF Typed, TypeOK
      <3>2. ExitedIsGone'
        BY <1>3, <1>4, <2>4, <3>1 DEF Placement, ExitedIsGone
      <3>3. UnbornIsNowhere'
        BY <1>4, <2>4, <2>5, <3>1 DEF Placement, UnbornIsNowhere
      <3>4. ExclusiveExecution'
        BY <1>4 DEF Placement, ExclusiveExecution
      <3> QED BY <3>2, <3>3, <3>4
    <2>10. OneDisposal'
      <3>1. \A q \in Pthreads : LeftBy(q, h) => stopState[q] = "BLOCKED"
        BY <2>1 DEF Placement, BasesStay
      <3> QED BY <1>1, <1>4, <2>5, <3>1 DEF Placement, OneDisposal, Typed, TypeOK
    <2> QED BY <2>6, <2>7, <2>8, <2>9, <2>10 DEF Placement, Typed
  <1> QED BY <1>1, <1>5, <1>6

\* The state of the thread a pthread leaves is published.
LEMMA SetFromStateStep ==
    ASSUME ~LateCheck, Typed, Placement, Typed', NEW p \in Pthreads,
           SetFromState(p)
    PROVE  Placement'
  <1> USE UthreadAssumption
  <1>1. PICK c \in Threads :
          /\ c = cur[p] /\ pc[p] = "switch" /\ ~Unchecked(c)
          /\ pc' = [pc EXCEPT ![p] = "spin"]
          /\ state' = [state EXCEPT ![c] = stopState[p]]
          /\ UNCHANGED <<joiner, ready, cur, to, from, stopState, tpc, target, waiting>>
    BY DEF SetFromState, MayPublish, queueVars, threadVars, Typed, TypeOK
  <1>2. /\ state[c] = IF stopState[p] = "DYING" THEN "DYING" ELSE "RUNNING"
        /\ stopState[p] \in {"RUNABLE", "BLOCKED", "DYING"}
        /\ Occupies(p, c) /\ \A q \in Pthreads : Occupies(q, c) => q = p
        /\ \A s \in Threads : Occupies(p, s) => s = c
    BY <1>1 DEF Placement, StateWhileOn, ExclusiveExecution, Occupies, Typed, TypeOK,
                StopState
  <1>3. \A s \in Threads : /\ Dispatched(s)' <=> Dispatched(s)
                           /\ Going(s)' <=> Going(s)
                           /\ \A v \in Threads : StartsAtExit(v, s)' <=> StartsAtExit(v, s)
    <2>1. \A s \in Threads : state'[s] \in Exited <=> state[s] \in Exited
      BY <1>1, <1>2 DEF Exited, Typed, TypeOK
    <2>2. ready' = ready /\ to' = to /\ waiting' = waiting /\ joiner' = joiner
      BY <1>1
    <2> QED BY <2>1, <2>2 DEF Dispatched, StartsAtExit, Going
  <1>4. \A q \in Pthreads : \A s \in Threads :
          /\ Occupies(q, s)' <=> Occupies(q, s) /\ q # p
          /\ LeftBy(q, s)' <=> LeftBy(q, s) \/ (q = p /\ s = c)
          /\ ~LeftBy(p, s)
    BY <1>1 DEF Occupies, LeftBy, Typed, TypeOK
  \* Nobody else disposes of c: LateCheck is FALSE.
  <1>5. \A q \in Pthreads : ~LeftBy(q, c)
    BY <1>1, <1>2 DEF Placement, OneDisposal, Idle, LeftBy, Unchecked
  <1>6. stopState[p] # "BLOCKED" => ~Going(c)
    BY <1>2 DEF Placement, StopsFirst
  <1>7. BasesStay'
    <2>1. ASSUME NEW q \in Pthreads
          PROVE  /\ state'[Base[q]] \notin Exited \cup {"UNBORN"}
                 /\ pc'[q] \in {"toSleep", "asleep", "woken"}
                       => cur[q] = Base[q] /\ stopState[q] = "BLOCKED"
                 /\ pc'[q] \in {"dequeue", "switch"} /\ cur[q] = Base[q]
                       => stopState[q] = "BLOCKED"
                 /\ \A s \in Bases : LeftBy(q, s)' => stopState[q] = "BLOCKED"
      <3>1. c \in Bases => c = Base[p] /\ stopState[p] = "BLOCKED"
        BY <1>1 DEF Placement, BasesStay
      <3>2. state'[Base[q]] \notin Exited \cup {"UNBORN"}
        BY <1>1, <3>1 DEF Placement, BasesStay, Bases, Exited, Typed, TypeOK
      <3>3. \A s \in Bases : LeftBy(q, s)' => stopState[q] = "BLOCKED"
        BY <1>4, <3>1 DEF Placement, BasesStay, Bases
      <3> QED BY <1>1, <3>2, <3>3 DEF Placement, BasesStay, Typed, TypeOK
    <2> QED BY <1>1, <2>1 DEF Placement, BasesStay
  <1>8. OneDispatch'
    BY <1>1, <1>3 DEF Placement, OneDispatch, Typed, TypeOK, Users
  <1>9. StopsFirst'
    <2> SUFFICES ASSUME NEW q \in Pthreads, NEW s \in Threads,
                        Going(s)', Occupies(q, s)'
                 PROVE  /\ pc'[q] \in {"dequeue", "switch"}
                        /\ stopState'[q] = "BLOCKED"
                        /\ state'[s] = "RUNNING"
      BY DEF StopsFirst
    <2>1. Going(s) /\ Occupies(q, s) /\ q # p /\ s # c
      BY <1>2, <1>3, <1>4
    <2> QED BY <1>1, <2>1 DEF Placement, StopsFirst, Typed, TypeOK
  <1>10. StateWhileOn'
    BY <1>1, <1>2 DEF Placement, StateWhileOn, Occupies, Typed, TypeOK
  <1>11. ExitedIsGone'
    <2> SUFFICES ASSUME NEW s \in Threads, state'[s] \in Exited
                 PROVE  /\ ~Going(s)'
                        /\ \A q \in Pthreads : Occupies(q, s)' =>
                             pc'[q] \in {"dequeue", "switch"} /\ stopState'[q] = "DYING"
      BY DEF ExitedIsGone
    <2>1. CASE s = c
      BY <1>1, <1>2, <1>3, <1>4, <1>6, <2>1 DEF Exited, Typed, TypeOK
    <2>2. CASE s # c
      BY <1>1, <1>3, <1>4, <2>2 DEF Placement, ExitedIsGone, Typed, TypeOK
    <2> QED BY <2>1, <2>2
  <1>12. UnbornIsNowhere'
    <2> SUFFICES ASSUME NEW s \in Threads, state'[s] = "UNBORN"
                 PROVE  Idle(s)' /\ \A q \in Pthreads : ~LeftBy(q, s)'
      BY DEF UnbornIsNowhere
    <2>1. s # c /\ state[s] = "UNBORN"
      BY <1>1, <1>2 DEF Typed, TypeOK
    <2> QED BY <1>3, <1>4, <2>1 DEF Placement, UnbornIsNowhere, Idle
  <1>13. OneDisposal'
    <2>1. ASSUME NEW q \in Pthreads, NEW s \in Threads, LeftBy(q, s)'
          PROVE  /\ stopState'[q] # "BLOCKED"
                      => state'[s] = stopState'[q] /\ Idle(s)'
                 /\ stopState'[q] = "BLOCKED" => state'[s] \in {"BLOCKED", "RUNNING"}
      <3>1. CASE q = p
        <4>1. s = c /\ state'[s] = stopState[p]
          BY <1>1, <1>4, <2>1, <3>1 DEF Typed, TypeOK
        <4>2. stopState[p] # "BLOCKED" => Idle(c)'
          BY <1>2, <1>3, <1>4, <1>6 DEF Idle
        <4> QED BY <1>1, <3>1, <4>1, <4>2
      <3>2. CASE q # p
        <4>1. LeftBy(q, s) /\ s # c
          BY <1>4, <1>5, <2>1, <3>2
        <4>2. Idle(s) => Idle(s)'
          BY <1>3, <1>4 DEF Idle
        <4> QED BY <1>1, <4>1, <4>2 DEF Placement, OneDisposal, Typed, TypeOK
      <3> QED BY <3>1, <3>2
    <2>2. \A q, r \in Pthreads : \A s \in Threads : LeftBy(q, s)' /\ LeftBy(r, s)' => q = r
      BY <1>4, <1>5 DEF Placement, OneDisposal
    <2>3. \A q \in Pthreads : /\ pc'[q] = "requeue" => stopState'[q] = "RUNABLE"
                              /\ pc'[q] = "reap" => stopState'[q] = "DYING"
      BY <1>1 DEF Placement, OneDisposal, Typed, TypeOK
    <2> QED BY <2>1, <2>2, <2>3 DEF OneDisposal
  <1>14. ExclusiveExecution'
    BY <1>4 DEF Placement, ExclusiveExecution
  <1> QED BY <1>7, <1>8, <1>9, <1>10, <1>11, <1>12, <1>13, <1>14
          DEF Placement, Typed

\* The successor is not RUNNING: a pthread moves to its stack.
LEMMA SwitchToStep ==
    ASSUME Typed, Placement, Typed', NEW p \in Pthreads, SwitchTo(p)
    PROVE  Placement'
  <1> USE UthreadAssumption
  <1>1. PICK c \in Threads, h \in Threads :
          /\ c = cur[p] /\ h = to[p] /\ pc[p] = "spin" /\ state[h] # "RUNNING"
          /\ pc' = [pc EXCEPT ![p] = "after"]
          /\ from' = [from EXCEPT ![p] = c]
          /\ cur' = [cur EXCEPT ![p] = h]
          /\ to' = [to EXCEPT ![p] = None]
          /\ UNCHANGED <<state, joiner, ready, stopState, tpc, target, waiting>>
    <2>1. pc[p] = "spin" /\ to[p] \in Threads /\ cur[p] \in Threads
      BY DEF SwitchTo, Typed, TypeOK, Locals
    <2> QED BY <2>1 DEF SwitchTo, queueVars, threadVars
  <1>2. /\ Dispatched(h) /\ Going(h) /\ h \notin waiting
        /\ h \notin ToSet(ready) /\ \A q \in Pthreads \ {p} : to[q] # h
        /\ \A v \in Threads : ~StartsAtExit(v, h)
    BY <1>1 DEF Dispatched, Going, Placement, OneDispatch
  <1>3. \A s \in Threads : /\ Dispatched(s)' <=> Dispatched(s) /\ s # h
                           /\ Going(s)' <=> Going(s) /\ s # h
                           /\ \A v \in Threads : StartsAtExit(v, s)' <=> StartsAtExit(v, s)
    <2>1. /\ to'[p] = None /\ \A q \in Pthreads \ {p} : to'[q] = to[q]
          /\ UNCHANGED <<state, joiner, ready, waiting>>
      BY <1>1 DEF Typed, TypeOK
    <2>2. \A s \in Threads : Dispatched(s)' <=> Dispatched(s) /\ s # h
      BY <1>1, <1>2, <2>1 DEF Dispatched
    <2>3. \A v, s \in Threads : StartsAtExit(v, s)' <=> StartsAtExit(v, s)
      BY <2>1 DEF StartsAtExit
    <2> QED BY <1>2, <2>1, <2>2, <2>3 DEF Going
  <1>4. \A q \in Pthreads : \A s \in Threads :
          /\ Occupies(q, s)' <=> Occupies(q, s) \/ (q = p /\ s = h)
          /\ LeftBy(q, s)' <=> LeftBy(q, s)
    BY <1>1 DEF Occupies, LeftBy, Typed, TypeOK
  <1>5. /\ \A q \in Pthreads : ~Occupies(q, h)
        /\ state[h] \notin Exited /\ state[h] # "UNBORN"
        /\ \A q \in Pthreads : LeftBy(q, h) => stopState[q] = "BLOCKED"
    BY <1>1, <1>2 DEF Placement, StopsFirst, ExitedIsGone, UnbornIsNowhere,
                      OneDisposal, Idle
  <1>6. \A s \in Threads : s # h => (Idle(s) => Idle(s)')
    BY <1>3, <1>4 DEF Idle
  <1>7. BasesStay'
    <2>1. ASSUME NEW q \in Pthreads
          PROVE  /\ cur'[q] \in Bases => cur'[q] = Base[q]
                 /\ to'[q] \in Bases => to'[q] = Base[q] /\ cur'[q] # Base[q]
                 /\ pc'[q] \in {"toSleep", "asleep", "woken"}
                       => cur'[q] = Base[q] /\ stopState[q] = "BLOCKED"
                 /\ pc'[q] \in {"dequeue", "switch"} /\ cur'[q] = Base[q]
                       => stopState[q] = "BLOCKED"
      <3>1. CASE q = p
        <4>1. None \notin Bases
          BY DEF Bases
        <4>2. cur'[p] = h /\ to'[p] = None /\ pc'[p] = "after"
          BY <1>1 DEF Typed, TypeOK
        <4> QED BY <1>1, <3>1, <4>1, <4>2 DEF Placement, BasesStay
      <3>2. CASE q # p
        BY <1>1, <3>2 DEF Placement, BasesStay, Typed, TypeOK
      <3> QED BY <3>1, <3>2
    <2> QED BY <1>1, <1>4, <2>1 DEF Placement, BasesStay, Bases
  <1>8. OneDispatch'
    <2>1. ASSUME NEW q \in Pthreads
          PROVE  to'[q] = IF q = p THEN None ELSE to[q]
      BY <1>1 DEF Typed, TypeOK
    <2>2. None \notin ToSet(ready)
      BY DEF Placement, BasesStay, Users
    <2>3. \A q \in Pthreads : to'[q] \notin ToSet(ready')
      BY <1>1, <2>1, <2>2 DEF Placement, OneDispatch
    <2>4. \A q, r \in Pthreads : to'[q] = to'[r] /\ to'[q] # None => q = r
      BY <2>1 DEF Placement, OneDispatch
    <2>5. \A s \in waiting' : ~Dispatched(s)' /\ tpc'[s] = "block"
      BY <1>1, <1>3 DEF Placement, OneDispatch, Typed, TypeOK, Users
    <2>6. \A v, s \in Threads : StartsAtExit(v, s)' =>
            ~Dispatched(s)' /\ tpc'[s] = "joinWait" /\ target'[s] = v
      BY <1>1, <1>3 DEF Placement, OneDispatch
    <2> QED BY <1>1, <2>3, <2>4, <2>5, <2>6 DEF Placement, OneDispatch
  <1>9. StopsFirst'
    <2> SUFFICES ASSUME NEW q \in Pthreads, NEW s \in Threads,
                        Going(s)', Occupies(q, s)'
                 PROVE  /\ pc'[q] \in {"dequeue", "switch"}
                        /\ stopState'[q] = "BLOCKED"
                        /\ state'[s] = "RUNNING"
      BY DEF StopsFirst
    <2>1. Going(s) /\ Occupies(q, s)
      BY <1>3, <1>4
    <2>2. q # p
      BY <1>1, <2>1 DEF Occupies
    <2> QED BY <1>1, <2>1, <2>2 DEF Placement, StopsFirst, Typed, TypeOK
  <1>10. StateWhileOn'
    BY <1>1 DEF Placement, StateWhileOn, Typed, TypeOK
  <1>11. ExitedIsGone'
    <2> SUFFICES ASSUME NEW s \in Threads, state'[s] \in Exited
                 PROVE  /\ ~Going(s)'
                        /\ \A q \in Pthreads : Occupies(q, s)' =>
                             pc'[q] \in {"dequeue", "switch"} /\ stopState'[q] = "DYING"
      BY DEF ExitedIsGone
    <2>1. s # h /\ state[s] \in Exited
      BY <1>1, <1>5
    <2>2. ASSUME NEW q \in Pthreads, Occupies(q, s) PROVE pc'[q] = pc[q]
      BY <1>1, <2>2 DEF Occupies, Typed, TypeOK
    <2> QED BY <1>1, <1>3, <1>4, <2>1, <2>2 DEF Placement, ExitedIsGone
  <1>12. UnbornIsNowhere'
    BY <1>1, <1>4, <1>5, <1>6 DEF Placement, UnbornIsNowhere
  <1>13. OneDisposal'
    BY <1>1, <1>4, <1>5, <1>6 DEF Placement, OneDisposal, Typed, TypeOK
  <1>14. ExclusiveExecution'
    BY <1>4, <1>5 DEF Placement, ExclusiveExecution
  <1> QED BY <1>7, <1>8, <1>9, <1>10, <1>11, <1>12, <1>13, <1>14
          DEF Placement, Typed

\* What the pthread finds in the state field is what it published, unless the
\* thread was blocked and runs again.
LEMMA TestFromStep ==
    ASSUME Typed, Placement, Typed', NEW p \in Pthreads, TestFrom(p)
    PROVE  Placement'
  <1> USE UthreadAssumption
  <1>1. PICK f \in Threads :
          /\ f = from[p] /\ pc[p] = "after"
          /\ pc' = [pc EXCEPT ![p] = IF state[f] = "DYING" THEN "reap"
                                     ELSE IF state[f] = "RUNABLE" THEN "requeue"
                                     ELSE "resume"]
          /\ UNCHANGED <<state, joiner, ready, cur, to, from, stopState, tpc, target,
                         waiting>>
    <2>1. pc[p] = "after" /\ from[p] \in Threads
      BY DEF TestFrom, Typed, TypeOK, Locals
    <2> QED BY <2>1 DEF TestFrom, queueVars, threadVars
  <1>2. \A s \in Threads : /\ Dispatched(s)' <=> Dispatched(s)
                           /\ Going(s)' <=> Going(s)
                           /\ \A v \in Threads : StartsAtExit(v, s)' <=> StartsAtExit(v, s)
    BY <1>1 DEF Dispatched, StartsAtExit, Going
  <1>3. \A q \in Pthreads : \A s \in Threads :
          /\ Occupies(q, s)' <=> Occupies(q, s)
          /\ LeftBy(q, s)' => LeftBy(q, s)
    BY <1>1 DEF Occupies, LeftBy, Typed, TypeOK
  <1>4. \A s \in Threads : Idle(s)' <=> Idle(s)
    BY <1>2, <1>3 DEF Idle
  <1>5. /\ pc'[p] = "requeue" => stopState[p] = "RUNABLE"
        /\ pc'[p] = "reap" => stopState[p] = "DYING"
    <2>1. LeftBy(p, f)
      BY <1>1 DEF LeftBy
    <2> QED BY <1>1, <2>1 DEF Placement, OneDisposal, Typed, TypeOK
  <1>6. BasesStay'
    <2>1. /\ pc'[p] \in {"reap", "requeue", "resume"}
          /\ \A q \in Pthreads \ {p} : pc'[q] = pc[q]
      BY <1>1 DEF Typed, TypeOK
    <2>2. /\ cur' = cur /\ to' = to /\ stopState' = stopState /\ state' = state
          /\ ready' = ready /\ waiting' = waiting /\ joiner' = joiner
      BY <1>1
    <2>3. \A t \in Bases : t \in Threads
      BY DEF Bases
    <2> QED BY <1>3, <2>1, <2>2, <2>3 DEF Placement, BasesStay
  <1>7. OneDispatch'
    BY <1>1, <1>2 DEF Placement, OneDispatch, Typed, TypeOK, Users
  <1>8. StopsFirst' /\ StateWhileOn'
    <2>1. /\ pc'[p] \in {"reap", "requeue", "resume"}
          /\ \A q \in Pthreads \ {p} : pc'[q] = pc[q]
          /\ UNCHANGED <<cur, stopState, state>>
      BY <1>1 DEF Typed, TypeOK
    <2>2. \A q \in Pthreads : \A s \in Threads :
            Occupies(q, s) /\ Going(s) => q # p
      BY <1>1 DEF Placement, StopsFirst
    <2>3. StopsFirst'
      BY <1>2, <1>3, <2>1, <2>2 DEF Placement, StopsFirst
    <2>4. StateWhileOn'
      BY <2>1 DEF Placement, StateWhileOn
    <2> QED BY <2>3, <2>4
  <1>9. ExitedIsGone'
    BY <1>1, <1>2, <1>3 DEF Placement, ExitedIsGone, Typed, TypeOK
  <1>10. UnbornIsNowhere' /\ ExclusiveExecution'
    BY <1>1, <1>3, <1>4 DEF Placement, UnbornIsNowhere, ExclusiveExecution
  <1>11. OneDisposal'
    BY <1>1, <1>3, <1>4, <1>5 DEF Placement, OneDisposal, Typed, TypeOK
  <1> QED BY <1>6, <1>7, <1>8, <1>9, <1>10, <1>11 DEF Placement, Typed

\* The exited thread is freed or left for its joiner.
LEMMA ReapStep ==
    ASSUME Typed, Placement, Typed', NEW p \in Pthreads, Reap(p)
    PROVE  Placement'
  <1> USE UthreadAssumption
  <1>1. PICK f \in Threads :
          /\ f = from[p] /\ pc[p] = "reap"
          /\ pc' = [pc EXCEPT ![p] = "resume"]
          /\ \E x \in {"FREED", "DEAD"} : state' = [state EXCEPT ![f] = x]
          /\ UNCHANGED <<joiner, ready, cur, to, from, stopState, tpc, target, waiting>>
    BY DEF Reap, queueVars, threadVars, Typed, TypeOK, Locals
  <1>2. LeftBy(p, f) /\ Idle(f) /\ state[f] = "DYING"
    BY <1>1 DEF LeftBy, Placement, OneDisposal
  <1>0. /\ state'[f] \in {"FREED", "DEAD"}
        /\ \A s \in Threads \ {f} : state'[s] = state[s]
        /\ \A s \in Threads : state'[s] \in Exited <=> state[s] \in Exited
        /\ pc'[p] = "resume" /\ \A q \in Pthreads \ {p} : pc'[q] = pc[q]
    <2>1. PICK x \in {"FREED", "DEAD"} : state' = [state EXCEPT ![f] = x]
      BY <1>1
    <2>2. state'[f] = x /\ \A s \in Threads \ {f} : state'[s] = state[s]
      BY <2>1 DEF Typed, TypeOK
    <2>3. pc'[p] = "resume" /\ \A q \in Pthreads \ {p} : pc'[q] = pc[q]
      BY <1>1 DEF Typed, TypeOK
    <2> QED BY <1>2, <2>2, <2>3 DEF Exited
  <1>3. \A s \in Threads : /\ Dispatched(s)' <=> Dispatched(s)
                           /\ Going(s)' <=> Going(s)
                           /\ \A v \in Threads : StartsAtExit(v, s)' <=> StartsAtExit(v, s)
    BY <1>0, <1>1 DEF Dispatched, StartsAtExit, Going
  <1>4. \A q \in Pthreads : \A s \in Threads :
          /\ Occupies(q, s)' <=> Occupies(q, s)
          /\ LeftBy(q, s)' <=> LeftBy(q, s) /\ q # p
    BY <1>1 DEF Occupies, LeftBy, Typed, TypeOK
  <1>5. \A s \in Threads : Idle(s)' <=> Idle(s)
    BY <1>3, <1>4 DEF Idle
  <1>6. f \notin Bases
    BY <1>1, <1>2 DEF Placement, BasesStay, Bases, Exited
  <1>7. BasesStay'
    <2>1. \A q \in Pthreads : Base[q] \in Threads \ {f}
      BY <1>6 DEF Bases
    <2>2. \A t \in Bases : t \in Threads
      BY DEF Bases
    <2>3. /\ cur' = cur /\ to' = to /\ stopState' = stopState
          /\ ready' = ready /\ waiting' = waiting /\ joiner' = joiner
      BY <1>1
    <2> QED BY <1>0, <1>4, <2>1, <2>2, <2>3 DEF Placement, BasesStay
  <1>8. OneDispatch'
    BY <1>1, <1>3 DEF Placement, OneDispatch, Typed, TypeOK, Users
  <1>9. StopsFirst'
    <2> SUFFICES ASSUME NEW q \in Pthreads, NEW s \in Threads,
                        Going(s)', Occupies(q, s)'
                 PROVE  /\ pc'[q] \in {"dequeue", "switch"}
                        /\ stopState'[q] = "BLOCKED"
                        /\ state'[s] = "RUNNING"
      BY DEF StopsFirst
    <2>1. s # f /\ Going(s) /\ Occupies(q, s)
      BY <1>2, <1>3, <1>4 DEF Idle
    <2>2. pc[q] \in {"dequeue", "switch"} /\ stopState[q] = "BLOCKED" /\ state[s] = "RUNNING"
      BY <2>1 DEF Placement, StopsFirst
    <2> QED BY <1>0, <1>1, <2>1, <2>2
  <1>10. StateWhileOn'
    <2> SUFFICES ASSUME NEW q \in Pthreads,
                        pc'[q] \in {"run", "toSleep", "asleep", "woken",
                                   "dequeue", "switch"}
                 PROVE  /\ pc'[q] = pc[q] /\ stopState'[q] = stopState[q]
                        /\ state'[cur'[q]] = state[cur[q]]
      BY DEF Placement, StateWhileOn
    <2>1. pc'[q] = pc[q] /\ cur'[q] = cur[q] /\ stopState'[q] = stopState[q]
      BY <1>0, <1>1
    <2>2. cur[q] \in Threads /\ Occupies(q, cur[q])
      BY <2>1 DEF Occupies, Typed, TypeOK
    <2>3. cur[q] # f
      BY <1>2, <2>2 DEF Idle
    <2> QED BY <1>0, <2>1, <2>2, <2>3
  <1>11. ExitedIsGone'
    <2> SUFFICES ASSUME NEW s \in Threads, state[s] \in Exited
                 PROVE  /\ ~Going(s)'
                        /\ \A q \in Pthreads : Occupies(q, s)' =>
                             pc'[q] \in {"dequeue", "switch"} /\ stopState'[q] = "DYING"
      BY <1>0 DEF ExitedIsGone
    <2>1. ~Going(s)'
      BY <1>3 DEF Placement, ExitedIsGone
    <2>2. \A q \in Pthreads : pc[q] \in {"dequeue", "switch"} =>
            pc'[q] = pc[q] /\ stopState'[q] = stopState[q]
      BY <1>0, <1>1
    <2> QED BY <1>4, <2>1, <2>2 DEF Placement, ExitedIsGone
  <1>12. UnbornIsNowhere' /\ ExclusiveExecution'
    <2>1. UnbornIsNowhere'
      BY <1>0, <1>4, <1>5 DEF Placement, UnbornIsNowhere
    <2>2. ExclusiveExecution'
      BY <1>4 DEF Placement, ExclusiveExecution
    <2> QED BY <2>1, <2>2
  <1>13. OneDisposal'
    <2>1. ASSUME NEW q \in Pthreads, NEW s \in Threads, LeftBy(q, s)'
          PROVE  /\ LeftBy(q, s) /\ state'[s] = state[s]
                 /\ stopState'[q] = stopState[q]
                 /\ Idle(s) => Idle(s)'
      <3>1. LeftBy(q, s) /\ q # p
        BY <1>4, <2>1
      <3>2. s # f
        BY <1>2, <3>1 DEF Placement, OneDisposal
      <3> QED BY <1>0, <1>1, <1>5, <3>1, <3>2
    <2>2. ASSUME NEW q \in Pthreads
          PROVE  /\ pc'[q] = "requeue" => stopState'[q] = "RUNABLE"
                 /\ pc'[q] = "reap" => stopState'[q] = "DYING"
      BY <1>0, <1>1 DEF Placement, OneDisposal
    <2>3. ASSUME NEW q \in Pthreads, NEW s \in Threads, LeftBy(q, s)'
          PROVE  /\ stopState'[q] # "BLOCKED" => state'[s] = stopState'[q] /\ Idle(s)'
                 /\ stopState'[q] = "BLOCKED" => state'[s] \in {"BLOCKED", "RUNNING"}
      BY <2>1, <2>3 DEF Placement, OneDisposal
    <2>4. \A q1, q2 \in Pthreads : \A s \in Threads :
            LeftBy(q1, s)' /\ LeftBy(q2, s)' => q1 = q2
      BY <2>1 DEF Placement, OneDisposal
    <2> QED BY <2>2, <2>3, <2>4 DEF OneDisposal
  <1> QED BY <1>7, <1>8, <1>9, <1>10, <1>11, <1>12, <1>13 DEF Placement, Typed

\* A thread that yielded goes back to the ready queue.
LEMMA RequeueStep ==
    ASSUME Typed, Placement, Typed', NEW p \in Pthreads, Requeue(p)
    PROVE  Placement'
  <1> USE UthreadAssumption
  <1>1. PICK f \in Threads :
          /\ f = from[p] /\ pc[p] = "requeue"
          /\ ReadyEnqueue(f, [pc EXCEPT ![p] = "resume"])
          /\ UNCHANGED <<state, joiner, cur, to, from, stopState, tpc, target, waiting>>
    BY DEF Requeue, threadVars, Typed, TypeOK, Locals
  <1>2. /\ ToSet(ready') = ToSet(ready) \cup {f}
        /\ IsInjective(ready) => IsInjective(ready')
        /\ pc'[p] = "resume"
        /\ \A q \in Pthreads \ {p} : \/ pc'[q] = pc[q]
                                     \/ pc[q] = "asleep" /\ pc'[q] = "woken"
    <2> DEFINE pcs == [pc EXCEPT ![p] = "resume"]
    <2>1. /\ pcs \in [Pthreads -> PthreadPC] /\ pcs[p] = "resume"
          /\ \A q \in Pthreads \ {p} : pcs[q] = pc[q]
      BY DEF Typed, TypeOK, PthreadPC
    <2>2. ReadyEnqueue(f, pcs)
      BY <1>1
    <2> HIDE DEF pcs
    <2>3. /\ ToSet(ready') = ToSet(ready) \cup {f}
          /\ IsInjective(ready) => IsInjective(ready')
          /\ \A q \in Pthreads : \/ pc'[q] = pcs[q]
                                 \/ pcs[q] = "asleep" /\ pc'[q] = "woken"
      BY <2>1, <2>2, EnqueueType DEF Typed, TypeOK
    <2> QED BY <2>1, <2>3
  <1>3. LeftBy(p, f) /\ Idle(f) /\ state[f] = "RUNABLE"
    BY <1>1 DEF LeftBy, Placement, OneDisposal
  <1>4. \A s \in Threads : /\ Dispatched(s)' <=> Dispatched(s) \/ s = f
                           /\ Going(s)' <=> Going(s) \/ s = f
                           /\ \A v \in Threads : StartsAtExit(v, s)' <=> StartsAtExit(v, s)
    BY <1>1, <1>2 DEF Dispatched, StartsAtExit, Going
  <1>5. \A q \in Pthreads : \A s \in Threads :
          /\ Occupies(q, s)' <=> Occupies(q, s)
          /\ LeftBy(q, s)' <=> LeftBy(q, s) /\ q # p
    BY <1>1, <1>2 DEF Occupies, LeftBy, Typed, TypeOK
  <1>6. \A s \in Threads : s # f => (Idle(s)' <=> Idle(s))
    BY <1>4, <1>5 DEF Idle
  <1>7. f \in Users
    BY <1>1, <1>3 DEF Placement, BasesStay, OneDisposal, Users
  <1>8. BasesStay'
    <2>1. ToSet(ready') \cup waiting' \subseteq Users
      BY <1>1, <1>2, <1>7 DEF Placement, BasesStay
    <2>2. ASSUME NEW q \in Pthreads
          PROVE  /\ pc'[q] \in {"toSleep", "asleep", "woken"}
                       => cur[q] = Base[q] /\ stopState[q] = "BLOCKED"
                 /\ pc'[q] \in {"dequeue", "switch"} /\ cur[q] = Base[q]
                       => stopState[q] = "BLOCKED"
      BY <1>2 DEF Placement, BasesStay
    <2> QED BY <1>1, <1>5, <2>1, <2>2 DEF Placement, BasesStay, Bases
  <1>9. OneDispatch'
    <2>1. /\ \A q \in Pthreads : to[q] # f
          /\ f \notin waiting /\ \A v \in Threads : ~StartsAtExit(v, f)
      BY <1>3 DEF Idle, Going, Dispatched
    <2>2. \A s \in waiting' : ~Dispatched(s)' /\ tpc'[s] = "block"
      BY <1>1, <1>4, <2>1 DEF Placement, OneDispatch, Typed, TypeOK, Users
    <2>3. \A v, s \in Threads : StartsAtExit(v, s)' =>
            ~Dispatched(s)' /\ tpc'[s] = "joinWait" /\ target'[s] = v
      BY <1>1, <1>4, <2>1 DEF Placement, OneDispatch
    <2> QED BY <1>1, <1>2, <2>1, <2>2, <2>3 DEF Placement, OneDispatch
  <1>10. StopsFirst'
    <2> SUFFICES ASSUME NEW q \in Pthreads, NEW s \in Threads,
                        Going(s)', Occupies(q, s)'
                 PROVE  /\ pc'[q] \in {"dequeue", "switch"}
                        /\ stopState'[q] = "BLOCKED"
                        /\ state'[s] = "RUNNING"
      BY DEF StopsFirst
    <2>1. s # f /\ Going(s) /\ Occupies(q, s)
      BY <1>3, <1>4, <1>5 DEF Idle
    <2>2. pc[q] \in {"dequeue", "switch"} /\ stopState[q] = "BLOCKED" /\ state[s] = "RUNNING"
      BY <2>1 DEF Placement, StopsFirst
    <2> QED BY <1>1, <1>2, <2>2
  <1>11. StateWhileOn'
    BY <1>1, <1>2 DEF Placement, StateWhileOn
  <1>12. ExitedIsGone'
    <2> SUFFICES ASSUME NEW s \in Threads, state[s] \in Exited
                 PROVE  /\ ~Going(s)'
                        /\ \A q \in Pthreads : Occupies(q, s)' =>
                             pc'[q] \in {"dequeue", "switch"} /\ stopState'[q] = "DYING"
      BY <1>1 DEF ExitedIsGone
    <2>1. s # f
      BY <1>3 DEF Exited
    <2> QED BY <1>1, <1>2, <1>4, <1>5, <2>1 DEF Placement, ExitedIsGone
  <1>13. UnbornIsNowhere' /\ ExclusiveExecution'
    BY <1>1, <1>3, <1>5, <1>6 DEF Placement, UnbornIsNowhere, ExclusiveExecution
  <1>14. OneDisposal'
    <2>1. ASSUME NEW q \in Pthreads, NEW s \in Threads, LeftBy(q, s)'
          PROVE  LeftBy(q, s) /\ s # f
      BY <1>3, <1>5, <2>1 DEF Placement, OneDisposal
    <2> QED BY <1>1, <1>2, <1>6, <2>1 DEF Placement, OneDisposal
  <1> QED BY <1>8, <1>9, <1>10, <1>11, <1>12, <1>13, <1>14 DEF Placement, Typed

\* The successor runs.
LEMMA ResumeStep ==
    ASSUME Typed, Placement, Typed', NEW p \in Pthreads, Resume(p)
    PROVE  Placement'
  <1> USE UthreadAssumption
  <1>1. PICK c \in Threads :
          /\ c = cur[p] /\ pc[p] = "resume"
          /\ pc' = [pc EXCEPT ![p] = "run"]
          /\ state' = [state EXCEPT ![c] = "RUNNING"]
          /\ from' = [from EXCEPT ![p] = None]
          /\ \A s \in Threads \ {c} : tpc'[s] = tpc[s]
          /\ UNCHANGED <<joiner, ready, cur, to, stopState, target, waiting>>
    BY DEF Resume, queueVars, Typed, TypeOK
  <1>2. Occupies(p, c) /\ \A q \in Pthreads : Occupies(q, c) => q = p
    BY <1>1 DEF Occupies, Placement, ExclusiveExecution
  <1>3. ~Going(c) /\ state[c] \notin Exited /\ state[c] # "UNBORN"
    BY <1>1, <1>2 DEF Placement, StopsFirst, ExitedIsGone, UnbornIsNowhere, Idle
  <1>4. \A s \in Threads : /\ Dispatched(s)' <=> Dispatched(s)
                           /\ Going(s)' <=> Going(s)
                           /\ \A v \in Threads : StartsAtExit(v, s)' <=> StartsAtExit(v, s)
    <2>1. \A s \in Threads : state'[s] \in Exited <=> state[s] \in Exited
      BY <1>1, <1>3 DEF Exited, Typed, TypeOK
    <2>2. ready' = ready /\ to' = to /\ waiting' = waiting /\ joiner' = joiner
      BY <1>1
    <2> QED BY <2>1, <2>2 DEF Dispatched, StartsAtExit, Going
  <1>5. \A q \in Pthreads : \A s \in Threads :
          /\ Occupies(q, s)' <=> Occupies(q, s)
          /\ LeftBy(q, s)' <=> LeftBy(q, s)
          /\ ~LeftBy(p, s)
    BY <1>1 DEF Occupies, LeftBy, Typed, TypeOK
  <1>6. \A s \in Threads : Idle(s)' <=> Idle(s)
    BY <1>4, <1>5 DEF Idle
  <1>7. BasesStay'
    <2>1. /\ pc'[p] = "run" /\ \A q \in Pthreads \ {p} : pc'[q] = pc[q]
          /\ \A s \in Threads : state'[s] \notin Exited \cup {"UNBORN"}
                                  \/ state'[s] = state[s]
          /\ UNCHANGED <<joiner, ready, cur, to, stopState, waiting>>
      BY <1>1 DEF Exited, Typed, TypeOK
    <2>2. /\ \A q \in Pthreads : Base[q] \in Threads
          /\ \A s \in Bases : s \in Threads
      BY DEF Bases
    <2> QED BY <1>5, <2>1, <2>2 DEF Placement, BasesStay
  <1>8. OneDispatch'
    <2>1. c \notin waiting /\ \A v \in Threads : ~StartsAtExit(v, c)
      BY <1>3 DEF Going
    <2>2. \A s \in waiting' : ~Dispatched(s)' /\ tpc'[s] = "block"
      BY <1>1, <1>4, <2>1 DEF Placement, OneDispatch, Typed, TypeOK, Users
    <2>3. \A v, s \in Threads : StartsAtExit(v, s)' =>
            ~Dispatched(s)' /\ tpc'[s] = "joinWait" /\ target'[s] = v
      BY <1>1, <1>4, <2>1 DEF Placement, OneDispatch
    <2> QED BY <1>1, <2>2, <2>3 DEF Placement, OneDispatch
  <1>9. StopsFirst'
    <2>1. \A s \in Threads : Going(s) => s # c
      BY <1>3
    <2> QED BY <1>1, <1>4, <1>5, <2>1 DEF Placement, StopsFirst, Typed, TypeOK
  <1>10. StateWhileOn'
    BY <1>1, <1>2 DEF Placement, StateWhileOn, Occupies, Typed, TypeOK
  <1>11. ExitedIsGone'
    <2> SUFFICES ASSUME NEW s \in Threads, state'[s] \in Exited
                 PROVE  /\ ~Going(s)'
                        /\ \A q \in Pthreads : Occupies(q, s)' =>
                             pc'[q] \in {"dequeue", "switch"} /\ stopState'[q] = "DYING"
      BY DEF ExitedIsGone
    <2>1. s # c /\ state[s] \in Exited
      BY <1>1 DEF Exited, Typed, TypeOK
    <2>2. ~Occupies(p, s)
      BY <1>1, <2>1 DEF Occupies
    <2> QED BY <1>1, <1>4, <1>5, <2>1, <2>2 DEF Placement, ExitedIsGone, Typed, TypeOK
  <1>12. UnbornIsNowhere' /\ ExclusiveExecution'
    <2>1. \A s \in Threads : state'[s] = "UNBORN" => state[s] = "UNBORN"
      BY <1>1 DEF Typed, TypeOK
    <2>2. UnbornIsNowhere'
      BY <2>1, <1>5, <1>6 DEF Placement, UnbornIsNowhere
    <2>3. ExclusiveExecution'
      BY <1>5 DEF Placement, ExclusiveExecution
    <2> QED BY <2>2, <2>3
  <1>13. OneDisposal'
    <2>1. ASSUME NEW q \in Pthreads, NEW s \in Threads, LeftBy(q, s), stopState[q] # "BLOCKED"
          PROVE  s # c
      BY <1>2, <2>1 DEF Placement, OneDisposal, Idle
    <2>2. \A q \in Pthreads : /\ stopState'[q] = stopState[q]
                              /\ pc'[q] \in {"requeue", "reap"} => pc'[q] = pc[q]
      BY <1>1 DEF Typed, TypeOK
    <2>3. \A s \in Threads : s # c => state'[s] = state[s]
      BY <1>1 DEF Typed, TypeOK
    <2>4. state'[c] = "RUNNING"
      BY <1>1 DEF Typed, TypeOK
    <2>5. \A q, r \in Pthreads : \A s \in Threads : LeftBy(q, s)' /\ LeftBy(r, s)' => q = r
      BY <1>5 DEF Placement, OneDisposal
    <2>6. \A q \in Pthreads : \A s \in Threads : LeftBy(q, s)' =>
            /\ stopState'[q] # "BLOCKED" => state'[s] = stopState'[q] /\ Idle(s)'
            /\ stopState'[q] = "BLOCKED" => state'[s] \in {"BLOCKED", "RUNNING"}
      BY <1>5, <1>6, <2>1, <2>2, <2>3, <2>4 DEF Placement, OneDisposal
    <2>7. \A q \in Pthreads : /\ pc'[q] = "requeue" => stopState'[q] = "RUNABLE"
                              /\ pc'[q] = "reap" => stopState'[q] = "DYING"
      BY <2>2 DEF Placement, OneDisposal
    <2> QED BY <2>5, <2>6, <2>7 DEF OneDisposal
  <1> QED BY <1>7, <1>8, <1>9, <1>10, <1>11, <1>12, <1>13 DEF Placement, Typed

\* Every step of the specification keeps Placement.
LEMMA PlacementStep ==
    ASSUME ~LateCheck, Typed, Placement, [Next]_vars
    PROVE  Placement'
  <1> USE UthreadAssumption
  <1>1. Typed'
    BY TypedStep
  <1>2. CASE UNCHANGED vars
    BY <1>2 DEF vars, queueVars, threadVars, Placement, Locals, BasesStay,
                OneDispatch, StopsFirst, StateWhileOn, ExitedIsGone,
                UnbornIsNowhere, OneDisposal, ExclusiveExecution, Idle, Going,
                Dispatched, StartsAtExit, LeftBy, Occupies
  <1>3. ASSUME NEW p \in Pthreads, Scheduler(p)
        PROVE  Placement'
    <2>1. CASE BaseLoop(p)
      BY <1>1, <2>1, StopStep
    <2>2. CASE DequeueHead(p) \/ DequeueBase(p)
      BY <1>1, <2>2, DequeueStep
    <2>3. CASE DequeueNothing(p) \/ Sleep(p) \/ WakeUp(p)
      BY <1>1, <2>3, IdleStep
    <2>4. CASE SetFromState(p)
      BY <1>1, <2>4, SetFromStateStep
    <2>5. CASE SwitchTo(p)
      BY <1>1, <2>5, SwitchToStep
    <2>6. CASE TestFrom(p)
      BY <1>1, <2>6, TestFromStep
    <2>7. CASE Reap(p)
      BY <1>1, <2>7, ReapStep
    <2>8. CASE Requeue(p)
      BY <1>1, <2>8, RequeueStep
    <2>9. CASE Resume(p)
      BY <1>1, <2>9, ResumeStep
    <2> QED BY <1>3, <2>1, <2>2, <2>3, <2>4, <2>5, <2>6, <2>7, <2>8, <2>9
            DEF Scheduler
  <1>4. ASSUME NEW p \in Pthreads, NEW t \in Threads, Call(p, t)
        PROVE  Placement'
    <2>1. ASSUME NEW u \in Threads, Create(p, t, u) PROVE Placement'
      BY <1>1, <2>1, CreateStep
    <2>2. ASSUME NEW u \in Threads, Unblock(p, t, u) PROVE Placement'
      BY <1>1, <2>2, UnblockStep
    <2>3. ASSUME NEW u \in Threads, JoinTest(p, t, u) \/ DetachTest(p, t, u)
          PROVE  Placement'
      <3>1. ASSUME NEW call, Claim(p, t, u, call) PROVE Placement'
        BY <1>1, <3>1, ClaimStep
      <3> QED BY <2>3, <3>1 DEF JoinTest, DetachTest
    <2>4. CASE Yield(p, t) \/ Wait(p, t)
      BY <1>1, <2>4, StopStep
    <2>5. CASE Exit(p, t)
      BY <1>1, <2>5, ExitStep
    <2>6. target[t] \in Threads \/ target[t] = None
      BY DEF Typed, TypeOK
    <2>7. CASE JoinLock(p, t)
      <3>1. CASE state[target[t]] \notin {"DYING", "DEAD"}
        BY <1>1, <2>7, <3>1, RegisterStep
      <3>2. CASE state[target[t]] \in {"DYING", "DEAD"}
        <4>1. /\ pc[p] = "run" /\ cur[p] = t
              /\ Release(t, target[t], state[target[t]] # "DEAD")
              /\ UNCHANGED <<queueVars, pc, cur, to, from, stopState>>
          BY <2>7, <3>2 DEF JoinLock, At
        <4> QED BY <1>1, <2>6, <4>1, ReleaseStep
      <3> QED BY <3>1, <3>2
    <2>8. CASE JoinReturn(p, t) \/ DetachLock(p, t)
      <3>1. /\ pc[p] = "run" /\ cur[p] = t
            /\ Release(t, target[t], state[target[t]] # "DEAD")
            /\ UNCHANGED <<queueVars, pc, cur, to, from, stopState>>
        BY <2>8 DEF JoinReturn, DetachLock, At
      <3> QED BY <1>1, <2>6, <3>1, ReleaseStep
    <2> QED BY <1>4, <2>1, <2>2, <2>3, <2>4, <2>5, <2>7, <2>8 DEF Call
  <1> QED BY <1>2, <1>3, <1>4 DEF Next

\* At the start only the main thread and the base threads exist, each on its
\* own pthread.
LEMMA PlacementInit == Init => Typed /\ Placement
  <1> USE UthreadAssumption
  <1> SUFFICES ASSUME Init PROVE Typed /\ Placement
    OBVIOUS
  <1>1. Typed
    BY EmptyQueue
       DEF Init, Typed, TypeOK, Locals, PthreadPC, ThreadPC, StopState,
           ThreadState, Users, Bases
  <1>2. /\ ToSet(ready) = {} /\ IsInjective(ready)
        /\ \A t \in Threads : ~Going(t)
    BY EmptyQueue DEF Init, Going, Dispatched, StartsAtExit
  <1>3. /\ \A p \in Pthreads : \A t \in Threads : ~LeftBy(p, t)
        /\ \A p, q \in Pthreads : cur[p] = cur[q] => p = q
    BY DEF Init, LeftBy
  <1>4. BasesStay
    BY <1>2, <1>3 DEF Init, BasesStay, Bases, Users, Exited
  <1>5. OneDispatch
    BY <1>2 DEF Init, OneDispatch, StartsAtExit, Dispatched
  <1>6. StopsFirst /\ StateWhileOn /\ ExitedIsGone
    <2>1. \A p \in Pthreads : pc[p] = "run" /\ state[cur[p]] = "RUNNING"
      BY DEF Init, Bases
    <2>2. \A t \in Threads : state[t] \notin Exited
      BY DEF Init, Exited
    <2> QED BY <1>2, <2>1, <2>2 DEF StopsFirst, StateWhileOn, ExitedIsGone
  <1>7. UnbornIsNowhere
    BY <1>2, <1>3 DEF Init, UnbornIsNowhere, Idle, Occupies, Bases
  <1>8. OneDisposal /\ ExclusiveExecution
    BY <1>3 DEF Init, OneDisposal, ExclusiveExecution, Occupies
  <1> QED BY <1>1, <1>4, <1>5, <1>6, <1>7, <1>8 DEF Placement, Typed

\* Unless a pthread is delayed past the next stop of the thread it left, every
\* thread is in one place: the queue, a wait queue, a joiner field or a
\* pthread, and one pthread at a time disposes of it.
THEOREM PlacementInvariant == ASSUME ~LateCheck PROVE Spec => []Placement
  <1>1. Typed /\ Placement /\ [Next]_vars => Typed' /\ Placement'
    BY TypedStep, PlacementStep
  <1> QED BY <1>1, PlacementInit, PTL DEF Spec

\* Under the same assumption no uthread ever executes on two pthreads, however
\* many there are and whatever their clients call.
THEOREM NeverOnTwoPthreads == ASSUME ~LateCheck PROVE Spec => []ExclusiveExecution
  <1>1. Placement => ExclusiveExecution
    BY DEF Placement
  <1> QED BY <1>1, PlacementInvariant, PTL
-----------------------------------------------------------------------------
(* The promise to the clients. *)

Arriving == {"after", "reap", "requeue", "resume"}

\* The step sends the threads in S on their way, and takes nobody off it.
Sends(S) == \A s \in Threads : InFlight(s)' <=> InFlight(s) \/ s \in S

\* A pthread moves on, and the queue stays.
LEMMA MoveSends ==
    ASSUME Typed, NEW p \in Pthreads, NEW l \in PthreadPC,
           pc' = [pc EXCEPT ![p] = l],
           pc[p] \in Arriving <=> l \in Arriving,
           UNCHANGED <<ready, cur, to>>
    PROVE  Sends({})
  BY DEF Sends, InFlight, Arriving, Typed, TypeOK

\* A thread enters the queue while a pthread moves on.
LEMMA EnqueueSends ==
    ASSUME Typed, NEW p \in Pthreads, NEW l \in PthreadPC, NEW t \in Threads,
           ReadyEnqueue(t, [pc EXCEPT ![p] = l]),
           pc[p] \in Arriving <=> l \in Arriving,
           UNCHANGED <<cur, to>>
    PROVE  Sends({t})
  <1> DEFINE pcs == [pc EXCEPT ![p] = l]
  <1>1. pcs \in [Pthreads -> PthreadPC]
    BY DEF Typed, TypeOK
  <1>2. \A q \in Pthreads : pcs[q] \in Arriving <=> pc[q] \in Arriving
    BY DEF Typed, TypeOK
  <1> HIDE DEF pcs
  <1>3. ReadyEnqueue(t, pcs)
    BY DEF pcs
  <1>4. /\ ToSet(ready') = ToSet(ready) \cup {t}
        /\ \A q \in Pthreads : \/ pc'[q] = pcs[q]
                               \/ pcs[q] = "asleep" /\ pc'[q] = "woken"
    BY <1>1, <1>3, EnqueueType DEF Typed, TypeOK
  <1>5. \A q \in Pthreads : pc'[q] \in Arriving <=> pc[q] \in Arriving
    BY <1>2, <1>4 DEF Arriving
  <1> QED BY <1>4, <1>5 DEF Sends, InFlight, Arriving

\* The calls that insert a thread while the caller goes on running.
LEMMA InsertSends ==
    ASSUME Typed, NEW u \in Threads, ReadyEnqueue(u, pc), UNCHANGED <<cur, to>>
    PROVE  Sends({u})
  <1>1. PICK p \in Pthreads : TRUE
    BY UthreadAssumption
  <1>2. [pc EXCEPT ![p] = pc[p]] = pc /\ pc[p] \in PthreadPC
    BY DEF Typed, TypeOK
  <1> QED BY <1>2, EnqueueSends

LEMMA CreateSends ==
    ASSUME Typed, NEW p \in Pthreads, NEW t \in Threads, NEW u \in Threads,
           Create(p, t, u)
    PROVE  Sends({u})
  BY InsertSends DEF Create

LEMMA UnblockSends ==
    ASSUME Typed, NEW p \in Pthreads, NEW t \in Threads, NEW u \in Threads,
           Unblock(p, t, u)
    PROVE  Sends({u})
  BY InsertSends DEF Unblock

LEMMA ExitSends ==
    ASSUME Typed, NEW p \in Pthreads, NEW t \in Threads, Exit(p, t)
    PROVE  Sends({joiner[t]} \ {None, Detached})
  <1>1. /\ "dequeue" \in PthreadPC
        /\ pc[p] \in Arriving <=> "dequeue" \in Arriving
        /\ UNCHANGED <<cur, to>>
    BY DEF Exit, At, Arriving, PthreadPC
  <1>2. CASE joiner[t] \in {None, Detached}
    <2>1. Sends({})
      BY <1>1, <1>2, MoveSends DEF Exit, queueVars
    <2> QED BY <1>2, <2>1 DEF Sends
  <1>3. CASE joiner[t] \notin {None, Detached}
    <2>1. joiner[t] \in Threads
      BY <1>3 DEF Typed, TypeOK
    <2>2. ReadyEnqueue(joiner[t], [pc EXCEPT ![p] = "dequeue"])
      BY <1>3 DEF Exit
    <2>3. Sends({joiner[t]})
      BY <1>1, <2>1, <2>2, EnqueueSends
    <2> QED BY <1>3, <2>3 DEF Sends
  <1> QED BY <1>2, <1>3

LEMMA RequeueSends ==
    ASSUME Typed, NEW p \in Pthreads, Requeue(p)
    PROVE  Sends({from[p]})
  <1>1. from[p] \in Threads
    BY DEF Requeue, Typed, TypeOK, Locals
  <1> QED BY <1>1, EnqueueSends DEF Requeue, Arriving, PthreadPC

\* The head of the queue becomes the successor of a pthread, which had none.
LEMMA DequeueSends ==
    ASSUME Typed, NEW p \in Pthreads
    PROVE  /\ DequeueHead(p) => Sends({})
           /\ DequeueBase(p) => Sends({Base[p]})
  <1>1. ASSUME DequeueHead(p) PROVE Sends({})
    <2>1. to[p] = None /\ pc[p] \notin Arriving
      BY <1>1 DEF DequeueHead, Typed, TypeOK, Locals, Arriving
    <2>2. /\ Head(ready) \in Threads
          /\ ToSet(ready) = ToSet(ready') \cup {Head(ready)}
      BY <1>1, TailQueue DEF DequeueHead, Typed, TypeOK
    <2>3. /\ to' = [to EXCEPT ![p] = Head(ready)] /\ cur' = cur
          /\ \A q \in Pthreads : pc'[q] \in Arriving <=> pc[q] \in Arriving
      BY <1>1, <2>1 DEF DequeueHead, Typed, TypeOK, Arriving
    <2> QED BY <2>1, <2>2, <2>3, UthreadAssumption
            DEF Sends, InFlight, Arriving, Typed, TypeOK
  <1>2. ASSUME DequeueBase(p) PROVE Sends({Base[p]})
    <2>1. to[p] = None /\ pc[p] \notin Arriving
      BY <1>2 DEF DequeueBase, Typed, TypeOK, Locals, Arriving
    <2>2. /\ to' = [to EXCEPT ![p] = Base[p]] /\ cur' = cur /\ ready' = ready
          /\ \A q \in Pthreads : pc'[q] \in Arriving <=> pc[q] \in Arriving
      BY <1>2, <2>1 DEF DequeueBase, Typed, TypeOK, Arriving, queueVars
    <2> QED BY <2>1, <2>2, UthreadAssumption
            DEF Sends, InFlight, Arriving, Typed, TypeOK
  <1> QED BY <1>1, <1>2

LEMMA SwitchSends ==
    ASSUME Typed, NEW p \in Pthreads, SwitchTo(p)
    PROVE  Sends({})
  <1>1. /\ to' = [to EXCEPT ![p] = None] /\ cur' = [cur EXCEPT ![p] = to[p]]
        /\ ready' = ready /\ pc' = [pc EXCEPT ![p] = "after"]
        /\ pc[p] = "spin"
    BY DEF SwitchTo, queueVars
  <1> QED BY <1>1, UthreadAssumption DEF Sends, InFlight, Typed, TypeOK

\* The thread that arrives is no longer on its way for this pthread.
LEMMA ResumeFlight ==
    ASSUME Typed, NEW p \in Pthreads, Resume(p), NEW s \in Threads, s # cur[p]
    PROVE  InFlight(s)' <=> InFlight(s)
  BY DEF Resume, InFlight, Typed, TypeOK, queueVars

\* All other steps send nobody.
LEMMA StopSends ==
    ASSUME Typed, NEW p \in Pthreads,
           \/ BaseLoop(p)
           \/ \E t \in Threads : Yield(p, t) \/ Wait(p, t)
    PROVE  Sends({})
  <1>1. /\ pc[p] = "run" /\ pc' = [pc EXCEPT ![p] = "dequeue"]
        /\ UNCHANGED <<ready, cur, to>>
    BY DEF BaseLoop, Yield, Wait, Stop, At, queueVars
  <1> QED BY <1>1, MoveSends DEF Arriving, PthreadPC

LEMMA PthreadSends ==
    ASSUME Typed, NEW p \in Pthreads,
           \/ DequeueNothing(p) \/ Sleep(p) \/ WakeUp(p)
           \/ SetFromState(p) \/ TestFrom(p) \/ Reap(p)
    PROVE  Sends({}) /\ UNCHANGED tpc
  <1>1. /\ UNCHANGED <<ready, cur, to, tpc>>
        /\ \E l \in PthreadPC : /\ pc' = [pc EXCEPT ![p] = l]
                                /\ pc[p] \in Arriving <=> l \in Arriving
    BY DEF DequeueNothing, Sleep, WakeUp, SetFromState, TestFrom, Reap,
           queueVars, threadVars, Arriving, PthreadPC
  <1> QED BY <1>1, MoveSends

\* The parts of join and detach leave the queue alone; the thread they belong
\* to is running and was not and will not be in uthread_block.
LEMMA JoinSends ==
    ASSUME Typed, NEW p \in Pthreads, NEW t \in Threads,
           \/ \E u \in Threads : JoinTest(p, t, u) \/ DetachTest(p, t, u)
           \/ JoinLock(p, t) \/ JoinReturn(p, t) \/ DetachLock(p, t)
    PROVE  /\ Sends({})
           /\ pc[p] = "run" /\ cur[p] = t /\ tpc[t] # "block"
           /\ \E l \in ThreadPC \ {"block"} : tpc' = [tpc EXCEPT ![t] = l]
  <1>1. pc[p] = "run" /\ cur[p] = t /\ tpc[t] # "block"
    BY DEF JoinTest, DetachTest, Claim, JoinLock, JoinReturn, DetachLock, At
  <1>2. \E l \in ThreadPC \ {"block"} : tpc' = [tpc EXCEPT ![t] = l]
    <2>1. tpc = [tpc EXCEPT ![t] = tpc[t]] /\ tpc[t] \in ThreadPC
      BY DEF Typed, TypeOK
    <2>2. ASSUME NEW u \in Threads, JoinTest(p, t, u) \/ DetachTest(p, t, u)
          PROVE  <1>2!:
      BY <1>1, <2>1, <2>2 DEF JoinTest, DetachTest, Claim, ThreadPC
    <2>3. ASSUME JoinLock(p, t) \/ JoinReturn(p, t) \/ DetachLock(p, t)
          PROVE  <1>2!:
      BY <2>3 DEF JoinLock, JoinReturn, DetachLock, Release, ThreadPC
    <2> QED BY <2>2, <2>3
  <1>3. /\ UNCHANGED <<ready, cur, to>>
        /\ pc' = pc \/ pc' = [pc EXCEPT ![p] = "dequeue"]
    BY DEF JoinTest, DetachTest, Claim, JoinLock, JoinReturn, DetachLock, Stop,
           queueVars
  <1>4. Sends({})
    <2>1. CASE pc' = pc
      BY <1>3, <2>1 DEF Sends, InFlight
    <2>2. CASE pc' = [pc EXCEPT ![p] = "dequeue"]
      BY <1>1, <1>3, <2>2, MoveSends DEF Arriving, PthreadPC
    <2> QED BY <1>3, <2>1, <2>2
  <1> QED BY <1>1, <1>2, <1>4
-----------------------------------------------------------------------------
(* What a step of pthread p does to the pthreads. *)

\* Another pthread sees nothing of it, but that it may be woken.
OthersStay(p) ==
    \A q \in Pthreads \ {p} :
        /\ pc'[q] = pc[q] \/ (pc[q] = "asleep" /\ pc'[q] = "woken")
        /\ cur'[q] = cur[q] /\ from'[q] = from[q] /\ stopState'[q] = stopState[q]

LEMMA EnqueueOthers ==
    ASSUME Typed, NEW p \in Pthreads, NEW l \in PthreadPC \ {"asleep"},
           NEW t \in Threads, ReadyEnqueue(t, [pc EXCEPT ![p] = l])
    PROVE  /\ pc'[p] = l
           /\ \A q \in Pthreads \ {p} :
                 pc'[q] = pc[q] \/ (pc[q] = "asleep" /\ pc'[q] = "woken")
  <1> DEFINE pcs == [pc EXCEPT ![p] = l]
  <1>1. /\ pcs \in [Pthreads -> PthreadPC] /\ pcs[p] = l
        /\ \A q \in Pthreads \ {p} : pcs[q] = pc[q]
        /\ ready \in Seq(Threads)
    BY DEF Typed, TypeOK
  <1>2. ReadyEnqueue(t, pcs)
    OBVIOUS
  <1> HIDE DEF pcs
  <1>3. \A q \in Pthreads : pc'[q] = pcs[q] \/ (pcs[q] = "asleep" /\ pc'[q] = "woken")
    BY <1>1, <1>2, EnqueueType
  <1> QED BY <1>1, <1>3

\* A call leaves its pthread running or lets it stop.
LEMMA CallMoves ==
    ASSUME Typed, NEW p \in Pthreads, NEW t \in Threads, Call(p, t)
    PROVE  /\ OthersStay(p) /\ UNCHANGED <<cur, from>>
           /\ pc[p] = "run" /\ cur[p] = t /\ t \in Users
           /\ pc'[p] \in {"run", "dequeue"}
  <1> USE DEF OthersStay
  <1>0. "run" \in PthreadPC /\ "dequeue" \in PthreadPC
    BY DEF PthreadPC
  <1>1. ASSUME NEW u \in Threads, Create(p, t, u) \/ Unblock(p, t, u)
        PROVE  /\ OthersStay(p) /\ UNCHANGED <<cur, from>>
               /\ pc[p] = "run" /\ cur[p] = t /\ t \in Users
               /\ pc'[p] = "run"
    <2>1. /\ ReadyEnqueue(u, pc) /\ pc[p] = "run" /\ cur[p] = t /\ t \in Users
          /\ UNCHANGED <<cur, from, stopState>>
      BY <1>1 DEF Create, Unblock, At
    <2>2. pc = [pc EXCEPT ![p] = "run"]
      BY <2>1 DEF Typed, TypeOK
    <2>3. ReadyEnqueue(u, [pc EXCEPT ![p] = "run"])
      BY <2>1, <2>2
    <2> QED BY <1>0, <2>1, <2>3, EnqueueOthers
  <1>2. CASE Exit(p, t)
    <2>1. /\ pc[p] = "run" /\ cur[p] = t /\ t \in Users
          /\ stopState' = [stopState EXCEPT ![p] = "DYING"]
          /\ UNCHANGED <<cur, from>>
      BY <1>2 DEF Exit, At
    <2>2. CASE pc' = [pc EXCEPT ![p] = "dequeue"]
      BY <2>1, <2>2 DEF Typed, TypeOK
    <2>3. CASE joiner[t] \notin {None, Detached}
               /\ ReadyEnqueue(joiner[t], [pc EXCEPT ![p] = "dequeue"])
      <3>1. joiner[t] \in Threads
        BY <2>3 DEF Typed, TypeOK
      <3>2. ReadyEnqueue(joiner[t], [pc EXCEPT ![p] = "dequeue"])
        BY <2>3
      <3>3. /\ pc'[p] = "dequeue"
            /\ \A q \in Pthreads \ {p} :
                  pc'[q] = pc[q] \/ (pc[q] = "asleep" /\ pc'[q] = "woken")
        BY <1>0, <3>1, <3>2, EnqueueOthers
      <3> QED BY <2>1, <3>3 DEF Typed, TypeOK
    <2> QED BY <1>2, <2>2, <2>3 DEF Exit
  <1>3. CASE \/ \E u \in Threads : JoinTest(p, t, u) \/ DetachTest(p, t, u)
             \/ Yield(p, t) \/ Wait(p, t)
             \/ JoinLock(p, t) \/ JoinReturn(p, t) \/ DetachLock(p, t)
    <2>1. /\ pc[p] = "run" /\ cur[p] = t /\ t \in Users
          /\ UNCHANGED <<cur, from>>
          /\ \/ UNCHANGED <<pc, stopState>>
             \/ \E s \in StopState : Stop(p, s)
      BY <1>3 DEF JoinTest, DetachTest, Claim, Yield, Wait, JoinLock, JoinReturn,
                  DetachLock, At, StopState
    <2> QED BY <2>1 DEF Stop, Typed, TypeOK
  <1> QED BY <1>1, <1>2, <1>3 DEF Call

LEMMA SchedulerMoves ==
    ASSUME Typed, NEW p \in Pthreads, Scheduler(p)
    PROVE  /\ OthersStay(p)
           /\ UNCHANGED <<joiner, stopState, target, waiting, claims>> \/ BaseLoop(p)
  <1> USE DEF OthersStay, Typed, TypeOK
  <1>1. CASE Requeue(p)
    <2>1. from[p] \in Threads
      BY <1>1 DEF Requeue, Locals
    <2>2. "resume" \in PthreadPC \ {"asleep"} /\ Typed
      BY DEF PthreadPC
    <2>3. \A q \in Pthreads \ {p} :
             pc'[q] = pc[q] \/ (pc[q] = "asleep" /\ pc'[q] = "woken")
      BY <1>1, <2>1, <2>2, EnqueueOthers DEF Requeue
    <2> QED BY <1>1, <2>3 DEF Requeue, threadVars
  <1>2. CASE Resume(p)
    BY <1>2 DEF Resume
  <1>3. CASE BaseLoop(p) \/ DequeueHead(p) \/ DequeueBase(p) \/ DequeueNothing(p)
    BY <1>3 DEF BaseLoop, Stop, DequeueHead, DequeueBase, DequeueNothing, threadVars
  <1>4. CASE Sleep(p) \/ WakeUp(p) \/ SetFromState(p)
    BY <1>4 DEF Sleep, WakeUp, SetFromState, threadVars
  <1>5. CASE SwitchTo(p) \/ TestFrom(p) \/ Reap(p)
    BY <1>5 DEF SwitchTo, TestFrom, Reap, threadVars
  <1> QED BY <1>1, <1>2, <1>3, <1>4, <1>5 DEF Scheduler
-----------------------------------------------------------------------------
\* A thread that is unblocked is sent on its way, and nothing takes it off
\* before it has returned from its block.
LEMMA KeptStep ==
    ASSUME Typed, UnblockKept, [Next]_vars
    PROVE  UnblockKept'
  <1> USE UthreadAssumption
  <1>0. owed \subseteq Threads
    BY DEF Typed, TypeOK
  <1>1. ASSUME NEW S, Sends(S), owed' \subseteq owed \cup (S \cap Threads)
        PROVE  UnblockKept'
    BY <1>0, <1>1 DEF UnblockKept, Sends
  <1>2. CASE UNCHANGED vars
    BY <1>2 DEF vars, queueVars, threadVars, UnblockKept, InFlight
  <1>3. ASSUME NEW p \in Pthreads, Scheduler(p)
        PROVE  UnblockKept'
    <2>1. CASE BaseLoop(p)
      BY <1>1, <2>1, StopSends DEF BaseLoop, threadVars
    <2>2. CASE DequeueHead(p)
      BY <1>1, <2>2, DequeueSends DEF DequeueHead, threadVars
    <2>3. CASE DequeueBase(p)
      BY <1>1, <2>3, DequeueSends DEF DequeueBase, threadVars
    <2>4. CASE \/ DequeueNothing(p) \/ Sleep(p) \/ WakeUp(p)
               \/ SetFromState(p) \/ TestFrom(p) \/ Reap(p)
      <3>1. owed' = owed
        BY <2>4 DEF DequeueNothing, Sleep, WakeUp, SetFromState, TestFrom, Reap,
                    threadVars
      <3>2. Sends({})
        BY <2>4, PthreadSends
      <3> QED BY <1>1, <3>1, <3>2
    <2>5. CASE SwitchTo(p)
      BY <1>1, <2>5, SwitchSends DEF SwitchTo, threadVars
    <2>6. CASE Requeue(p)
      BY <1>1, <2>6, RequeueSends DEF Requeue, threadVars
    <2>7. CASE Resume(p)
      BY <1>0, <2>7, ResumeFlight DEF Resume, UnblockKept
    <2> QED BY <1>3, <2>1, <2>2, <2>3, <2>4, <2>5, <2>6, <2>7 DEF Scheduler
  <1>4. ASSUME NEW p \in Pthreads, NEW t \in Threads, Call(p, t)
        PROVE  UnblockKept'
    <2>1. ASSUME NEW u \in Threads, Create(p, t, u) PROVE UnblockKept'
      BY <1>1, <2>1, CreateSends DEF Create, threadVars
    <2>2. ASSUME NEW u \in Threads, Unblock(p, t, u) PROVE UnblockKept'
      <3>1. owed' = owed \cup {u}
        BY <2>2 DEF Unblock
      <3>2. Sends({u})
        BY <2>2, UnblockSends
      <3> QED BY <1>1, <3>1, <3>2
    <2>3. CASE Yield(p, t) \/ Wait(p, t)
      BY <1>1, <2>3, StopSends DEF Yield, Wait, threadVars
    <2>4. CASE Exit(p, t)
      <3>1. owed' \subseteq owed \cup ({joiner[t]} \ {None, Detached})
        BY <2>4 DEF Exit
      <3>2. joiner[t] \in Threads \cup {None, Detached}
        BY DEF Typed, TypeOK
      <3>3. Sends({joiner[t]} \ {None, Detached})
        BY <2>4, ExitSends
      <3> QED BY <1>1, <3>1, <3>2, <3>3
    <2>5. CASE \/ \E u \in Threads : JoinTest(p, t, u) \/ DetachTest(p, t, u)
               \/ JoinLock(p, t) \/ JoinReturn(p, t) \/ DetachLock(p, t)
      <3>1. owed' = owed
        BY <2>5 DEF JoinTest, DetachTest, Claim, JoinLock, JoinReturn, DetachLock,
                    Release
      <3>2. Sends({})
        BY <2>5, JoinSends
      <3> QED BY <1>1, <3>1, <3>2
    <2> QED BY <1>4, <2>1, <2>2, <2>3, <2>4, <2>5 DEF Call
  <1> QED BY <1>2, <1>3, <1>4 DEF Next

\* No unblock is ever lost, for any number of pthreads and threads, and also
\* if a pthread is delayed after a switch.
THEOREM UnblockKeptCorrect == Spec => []UnblockKept
  <1>1. Init => Typed /\ UnblockKept
    BY PlacementInit DEF Init, UnblockKept
  <1>2. Typed /\ UnblockKept /\ [Next]_vars => Typed' /\ UnblockKept'
    BY TypedStep, KeptStep
  <1> QED BY <1>1, <1>2, PTL DEF Spec
-----------------------------------------------------------------------------
Stopping == {"dequeue", "switch", "spin"}      \* about to leave cur
Disposing == {"after", "requeue", "reap"}      \* left from, not yet disposed of

\* A thread that is enqueued without an unblock is not in uthread_block: it is
\* new, or it yielded.
CalledYield ==
    /\ \A t \in Threads : state[t] = "UNBORN" => tpc[t] = "user"
    /\ \A p \in Pthreads : stopState[p] = "RUNABLE" =>
         /\ pc[p] \in Stopping => tpc[cur[p]] = "user"
         /\ pc[p] \in Disposing => tpc[from[p]] = "user"

SInv == Typed /\ Placement /\ CalledYield

\* The thread a pthread executes was created, stops nowhere else and is nobody
\* else's to dispose of as RUNABLE.
LEMMA RunsAlone ==
    ASSUME SInv, NEW p \in Pthreads, pc[p] = "run"
    PROVE  /\ state[cur[p]] = "RUNNING"
           /\ ~InFlight(cur[p])
           /\ \A q \in Pthreads : stopState[q] = "RUNABLE" =>
                /\ pc[q] \in Stopping => cur[q] # cur[p]
                /\ pc[q] \in Disposing => from[q] # cur[p]
  <1>1. state[cur[p]] = "RUNNING" /\ ~Going(cur[p]) /\ cur[p] \in Threads
    BY RunningIsNotGoing DEF SInv, Typed, TypeOK
  <1>2. \A q \in Pthreads : Occupies(q, cur[p]) => q = p
    BY <1>1 DEF SInv, Placement, ExclusiveExecution, Occupies
  <1>3. ~InFlight(cur[p])
    BY <1>1, <1>2 DEF Going, Dispatched, InFlight, Occupies
  <1>4. \A q \in Pthreads : LeftBy(q, cur[p]) => stopState[q] = "BLOCKED"
    <2>1. ~Idle(cur[p])
      BY DEF Idle, Occupies
    <2> QED BY <1>1, <2>1 DEF SInv, Placement, OneDisposal
  <1> QED BY <1>1, <1>2, <1>3, <1>4 DEF Occupies, LeftBy, Stopping, Disposing

\* CalledYield after a step of a pthread that changes only where the thread it
\* executes is in its calls.
LEMMA CallKeepsYield ==
    ASSUME SInv, NEW p \in Pthreads, pc[p] = "run",
           NEW l \in ThreadPC, tpc' = [tpc EXCEPT ![cur[p]] = l],
           \A t \in Threads : state'[t] = "UNBORN" => state[t] = "UNBORN",
           UNCHANGED <<cur, from>>,
           \/ pc' = pc /\ stopState' = stopState
           \/ pc' = [pc EXCEPT ![p] = "dequeue"]
              /\ stopState' = [stopState EXCEPT ![p] = "BLOCKED"]
    PROVE  CalledYield'
  <1>1. \A t \in Threads : state'[t] = "UNBORN" => tpc'[t] = "user"
    BY RunsAlone DEF SInv, CalledYield, Typed, TypeOK
  <1>2. ASSUME NEW q \in Pthreads, stopState'[q] = "RUNABLE"
        PROVE  /\ pc'[q] \in Stopping => tpc'[cur'[q]] = "user"
               /\ pc'[q] \in Disposing => tpc'[from'[q]] = "user"
    <2>1. /\ stopState[q] = "RUNABLE"
          /\ pc'[q] = pc[q]
      BY <1>2 DEF SInv, Typed, TypeOK
    <2>2. /\ pc[q] \in Stopping => cur[q] # cur[p]
          /\ pc[q] \in Disposing => from[q] # cur[p]
      BY <2>1, RunsAlone
    <2>3. pc[q] \in Disposing => from[q] \in Threads
      BY DEF SInv, Placement, Locals, Typed, TypeOK, Disposing
    <2> QED BY <2>1, <2>2, <2>3 DEF SInv, CalledYield, Typed, TypeOK
  <1> QED BY <1>1, <1>2 DEF CalledYield

\* No thread becomes unborn, or enters a call.
NobodyCalls ==
    \A t \in Threads : /\ state'[t] = "UNBORN" => state[t] = "UNBORN"
                       /\ tpc'[t] = tpc[t] \/ tpc'[t] = "user"

\* What q leaves as RUNABLE it was leaving as RUNABLE, or its thread yields.
LeavesYielding(q) ==
    stopState'[q] = "RUNABLE" =>
        \/ /\ stopState[q] = "RUNABLE"
           /\ pc'[q] \in Stopping => pc[q] \in Stopping /\ cur'[q] = cur[q]
           /\ pc'[q] \in Disposing => \/ pc[q] = "spin" /\ from'[q] = cur[q]
                                      \/ pc[q] \in Disposing /\ from'[q] = from[q]
        \/ tpc[cur[q]] = "user" /\ cur'[q] = cur[q] /\ pc'[q] = "dequeue"

\* CalledYield after a step of the scheduler, or one that inserts a thread.
LEMMA MoveKeepsYield ==
    ASSUME SInv, NobodyCalls, \A q \in Pthreads : LeavesYielding(q)
    PROVE  CalledYield'
  <1>0. \A q \in Pthreads : cur[q] \in Threads
    BY DEF SInv, Typed, TypeOK
  <1>1. \A t \in Threads : state'[t] = "UNBORN" => tpc'[t] = "user"
    BY DEF SInv, CalledYield, NobodyCalls
  <1>2. ASSUME NEW q \in Pthreads, stopState'[q] = "RUNABLE"
        PROVE  /\ pc'[q] \in Stopping => tpc'[cur'[q]] = "user"
               /\ pc'[q] \in Disposing => tpc'[from'[q]] = "user"
    <2>1. CASE /\ stopState[q] = "RUNABLE"
               /\ pc'[q] \in Stopping => pc[q] \in Stopping /\ cur'[q] = cur[q]
               /\ pc'[q] \in Disposing =>
                     \/ pc[q] = "spin" /\ from'[q] = cur[q]
                     \/ pc[q] \in Disposing /\ from'[q] = from[q]
      <3>1. pc[q] \in Disposing => from[q] \in Threads
        BY DEF SInv, Placement, Locals, Typed, TypeOK, Disposing
      <3> QED BY <1>0, <2>1, <3>1 DEF SInv, CalledYield, NobodyCalls, Stopping
    <2>2. CASE tpc[cur[q]] = "user" /\ cur'[q] = cur[q] /\ pc'[q] = "dequeue"
      BY <1>0, <2>2 DEF Stopping, Disposing, NobodyCalls
    <2> QED BY <1>2, <2>1, <2>2 DEF LeavesYielding
  <1> QED BY <1>1, <1>2 DEF CalledYield

\* A pthread that does not move.
LEMMA StillLeaves ==
    ASSUME NEW q \in Pthreads, pc'[q] = pc[q], cur'[q] = cur[q],
           from'[q] = from[q], stopState'[q] = stopState[q]
    PROVE  LeavesYielding(q)
  BY DEF LeavesYielding, Disposing

\* A pthread that does not move while a thread is inserted.
LEMMA EnqueueLeaves ==
    ASSUME Typed, NEW u \in Threads, NEW pcs \in [Pthreads -> PthreadPC],
           ReadyEnqueue(u, pcs), UNCHANGED <<cur, from>>,
           NEW q \in Pthreads, pcs[q] = pc[q], stopState'[q] = stopState[q]
    PROVE  LeavesYielding(q)
  <1>1. ready \in Seq(Threads)
    BY DEF Typed, TypeOK
  <1>2. /\ ReadyEnqueue(u, pcs) /\ q \in Pthreads
        /\ pcs \in [Pthreads -> PthreadPC]
    OBVIOUS
  <1>3. pc'[q] = pcs[q] \/ pc'[q] = "woken"
    BY <1>1, <1>2, EnqueueType
  <1> QED BY <1>3 DEF LeavesYielding, Stopping, Disposing

LEMMA YieldStep ==
    ASSUME SInv, [Next]_vars
    PROVE  CalledYield'
  <1> USE UthreadAssumption
  <1>0. Typed /\ TypeOK
    BY DEF SInv, Typed
  <1>1. CASE UNCHANGED vars
    BY <1>1 DEF vars, queueVars, threadVars, SInv, CalledYield, Stopping, Disposing
  <1>2. ASSUME NEW p \in Pthreads, NobodyCalls, LeavesYielding(p),
               \A q \in Pthreads \ {p} :
                  /\ pc'[q] = pc[q] /\ cur'[q] = cur[q]
                  /\ from'[q] = from[q] /\ stopState'[q] = stopState[q]
        PROVE  CalledYield'
    BY <1>2, StillLeaves, MoveKeepsYield
  <1>3. ASSUME NEW p \in Pthreads, Scheduler(p)
        PROVE  CalledYield'
    <2> USE <1>0 DEF TypeOK, LeavesYielding, NobodyCalls
    <2>1. CASE BaseLoop(p)
      BY <1>2, <2>1 DEF BaseLoop, Stop, threadVars
    <2>2. CASE DequeueHead(p) \/ DequeueBase(p)
      <3>1. /\ pc[p] = "dequeue" /\ pc' = [pc EXCEPT ![p] = "switch"]
            /\ UNCHANGED <<state, cur, from, stopState, tpc>>
        BY <2>2 DEF DequeueHead, DequeueBase, threadVars
      <3>2. LeavesYielding(p)
        BY <3>1 DEF Stopping, Disposing
      <3> QED BY <1>2, <3>1, <3>2
    <2>3. CASE DequeueNothing(p) \/ Sleep(p) \/ WakeUp(p)
      <3>1. /\ UNCHANGED <<state, cur, from, stopState, tpc>>
            /\ \/ pc' = [pc EXCEPT ![p] = "toSleep"]
               \/ pc' = [pc EXCEPT ![p] = "asleep"]
               \/ pc[p] = "woken" /\ pc' = [pc EXCEPT ![p] = "dequeue"]
        BY <2>3 DEF DequeueNothing, Sleep, WakeUp, threadVars
      <3>2. pc[p] = "woken" => stopState[p] = "BLOCKED"
        BY DEF SInv, Placement, BasesStay
      <3>3. LeavesYielding(p)
        BY <3>1, <3>2 DEF Stopping, Disposing
      <3> QED BY <1>2, <3>1, <3>3
    <2>4. CASE SetFromState(p)
      <3>1. /\ pc[p] = "switch" /\ pc' = [pc EXCEPT ![p] = "spin"]
            /\ state' = [state EXCEPT ![cur[p]] = stopState[p]]
            /\ UNCHANGED <<cur, from, stopState, tpc>>
        BY <2>4 DEF SetFromState, threadVars
      <3>2. LeavesYielding(p)
        BY <3>1 DEF Stopping, Disposing
      <3> QED BY <1>2, <3>1, <3>2 DEF StopState
    <2>5. CASE SwitchTo(p)
      <3>1. LeavesYielding(p)
        BY <2>5 DEF SwitchTo, Stopping, Disposing
      <3> QED BY <1>2, <2>5, <3>1 DEF SwitchTo, threadVars
    <2>6. CASE TestFrom(p)
      <3>1. LeavesYielding(p)
        <4>1. /\ pc[p] = "after" /\ pc'[p] \in {"reap", "requeue", "resume"}
              /\ UNCHANGED <<cur, from, stopState>>
          BY <2>6 DEF TestFrom
        <4> QED BY <4>1 DEF Stopping, Disposing
      <3> QED BY <1>2, <2>6, <3>1 DEF TestFrom, threadVars
    <2>7. CASE Reap(p)
      <3>1. LeavesYielding(p)
        BY <2>7 DEF Reap, Stopping, Disposing
      <3>2. NobodyCalls
        BY <2>7 DEF Reap, threadVars
      <3> QED BY <1>2, <2>7, <3>1, <3>2 DEF Reap
    <2>8. CASE Requeue(p)
      <3> DEFINE pcs == [pc EXCEPT ![p] = "resume"]
      <3>1. /\ from[p] \in Threads /\ pcs \in [Pthreads -> PthreadPC]
            /\ pcs[p] = "resume" /\ \A q \in Pthreads \ {p} : pcs[q] = pc[q]
        BY <2>8 DEF Requeue, Typed, Locals, PthreadPC
      <3> HIDE DEF pcs
      <3>2. /\ ReadyEnqueue(from[p], pcs)
            /\ UNCHANGED <<state, cur, from, stopState, tpc>>
        BY <2>8 DEF Requeue, threadVars, pcs
      <3>3. pc'[p] = "resume"
        BY <3>1, <3>2, EnqueueType
      <3>4. LeavesYielding(p)
        BY <3>2, <3>3 DEF Stopping, Disposing
      <3>5. ASSUME NEW q \in Pthreads \ {p} PROVE LeavesYielding(q)
        <4>1. Typed /\ pcs[q] = pc[q] /\ stopState'[q] = stopState[q]
          BY <3>1, <3>2
        <4> QED BY <3>1, <3>2, <4>1, EnqueueLeaves
      <3> QED BY <3>2, <3>4, <3>5, MoveKeepsYield
    <2>9. CASE Resume(p)
      <3>1. LeavesYielding(p)
        BY <2>9 DEF Resume, Stopping, Disposing
      <3>2. NobodyCalls
        BY <2>9 DEF Resume
      <3> QED BY <1>2, <2>9, <3>1, <3>2 DEF Resume
    <2> QED BY <1>3, <2>1, <2>2, <2>3, <2>4, <2>5, <2>6, <2>7, <2>8, <2>9
            DEF Scheduler
  <1>4. ASSUME NEW p \in Pthreads, NEW t \in Threads, Call(p, t)
        PROVE  CalledYield'
    <2>1. ASSUME NEW u \in Threads, Create(p, t, u) \/ Unblock(p, t, u)
          PROVE  CalledYield'
      <3>1. /\ ReadyEnqueue(u, pc)
            /\ UNCHANGED <<cur, from, stopState, tpc>>
            /\ state' = state \/ state' = [state EXCEPT ![u] = "NASCENT"]
        BY <2>1 DEF Create, Unblock, threadVars
      <3>2. pc \in [Pthreads -> PthreadPC]
        BY <1>0 DEF TypeOK
      <3>3. \A q \in Pthreads : LeavesYielding(q)
        BY <1>0, <3>1, <3>2, EnqueueLeaves
      <3>4. NobodyCalls
        BY <1>0, <3>1 DEF TypeOK, NobodyCalls
      <3> QED BY <3>3, <3>4, MoveKeepsYield
    <2>2. CASE Yield(p, t)
      <3>1. LeavesYielding(p) /\ NobodyCalls
        BY <1>0, <2>2 DEF Yield, Stop, At, threadVars, LeavesYielding, NobodyCalls,
                          TypeOK
      <3> QED BY <1>0, <1>2, <2>2, <3>1 DEF Yield, Stop, TypeOK
    <2>3. CASE Wait(p, t)
      BY <1>0, <2>3, CallKeepsYield DEF Wait, Stop, At, ThreadPC
    <2>4. CASE Exit(p, t)
      <3> DEFINE pcs == [pc EXCEPT ![p] = "dequeue"]
      <3>1. /\ pcs \in [Pthreads -> PthreadPC]
            /\ \A q \in Pthreads \ {p} : pcs[q] = pc[q]
        BY <1>0 DEF TypeOK, PthreadPC
      <3> HIDE DEF pcs
      <3>2. /\ state' = [state EXCEPT ![t] = "DYING"]
            /\ stopState' = [stopState EXCEPT ![p] = "DYING"]
            /\ UNCHANGED <<cur, from, tpc>>
            /\ \/ pc' = pcs
               \/ joiner[t] \notin {None, Detached} /\ ReadyEnqueue(joiner[t], pcs)
        BY <2>4 DEF Exit, pcs
      <3>3. \A q \in Pthreads \ {p} : LeavesYielding(q)
        <4>0. \A q \in Pthreads \ {p} : stopState'[q] = stopState[q]
          BY <1>0, <3>2 DEF TypeOK
        <4>1. CASE pc' = pcs
          BY <3>1, <3>2, <4>0, <4>1, StillLeaves
        <4>2. CASE joiner[t] \notin {None, Detached} /\ ReadyEnqueue(joiner[t], pcs)
          <5>1. joiner[t] \in Threads
            BY <1>0, <4>2 DEF TypeOK
          <5> QED BY <1>0, <3>1, <3>2, <4>0, <4>2, <5>1, EnqueueLeaves
        <4> QED BY <3>2, <4>1, <4>2
      <3>4. NobodyCalls
        BY <1>0, <3>2 DEF TypeOK, NobodyCalls
      <3>5. LeavesYielding(p)
        BY <1>0, <3>2 DEF TypeOK, LeavesYielding
      <3> QED BY <3>3, <3>4, <3>5, MoveKeepsYield
    <2>5. CASE \/ \E u \in Threads : JoinTest(p, t, u) \/ DetachTest(p, t, u)
               \/ JoinLock(p, t) \/ JoinReturn(p, t) \/ DetachLock(p, t)
      <3>1. /\ pc[p] = "run" /\ cur[p] = t
            /\ \E l \in ThreadPC : tpc' = [tpc EXCEPT ![cur[p]] = l]
        BY <1>0, <2>5, JoinSends
      <3>2. /\ \A s \in Threads : state'[s] = "UNBORN" => state[s] = "UNBORN"
            /\ UNCHANGED <<cur, from>>
            /\ \/ pc' = pc /\ stopState' = stopState
               \/ pc' = [pc EXCEPT ![p] = "dequeue"]
                  /\ stopState' = [stopState EXCEPT ![p] = "BLOCKED"]
        BY <1>0, <2>5 DEF JoinTest, DetachTest, Claim, JoinLock, JoinReturn,
                          DetachLock, Release, Stop, TypeOK
      <3> QED BY <3>1, <3>2, CallKeepsYield
    <2> QED BY <1>4, <2>1, <2>2, <2>3, <2>4, <2>5 DEF Call
  <1> QED BY <1>1, <1>3, <1>4 DEF Next
-----------------------------------------------------------------------------
(* The refinement. *)

\* A step that sends only threads that are not in uthread_block, and takes
\* nobody into it or out of it.
LEMMA Invisible ==
    ASSUME NEW S, Sends(S),
           \A t \in Users : tpc'[t] = "block" <=> tpc[t] = "block",
           \A t \in S \cap Users : tpc[t] # "block"
    PROVE  UNCHANGED Sched!vars
  <1>1. Parked' = Parked
    BY DEF Parked
  <1>2. \A t \in Parked : InFlight(t)' <=> InFlight(t)
    BY DEF Sends, Parked, Users
  <1>3. {t \in Parked : InFlight(t)}' = {t \in Parked : InFlight(t)}
    BY <1>1, <1>2
  <1> QED BY <1>1, <1>3 DEF Sched!vars

LEMMA WaitBlocks ==
    ASSUME SInv, NEW p \in Pthreads, NEW t \in Threads, Wait(p, t)
    PROVE  Sched!Block(t)
  <1>1. /\ t \in Users /\ pc[p] = "run" /\ cur[p] = t /\ tpc[t] = "user"
        /\ tpc' = [tpc EXCEPT ![t] = "block"]
    BY DEF Wait, At
  <1>2. Parked' = Parked \cup {t} /\ t \notin Parked
    BY <1>1 DEF Parked, SInv, Typed, TypeOK, Users
  <1>3. ~InFlight(t)
    BY <1>1, RunsAlone
  <1>4. Sends({})
    BY StopSends DEF SInv
  <1>5. \A s \in Users : InFlight(s)' <=> InFlight(s)
    BY <1>4 DEF Sends, Users
  <1>6. Parked \subseteq Users
    BY DEF Parked
  <1>7. {s \in Parked : InFlight(s)}' = {s \in Parked : InFlight(s)}
    BY <1>1, <1>2, <1>3, <1>5, <1>6
  <1> QED BY <1>2, <1>7 DEF Sched!Block

LEMMA UnblockUnblocks ==
    ASSUME SInv, NEW p \in Pthreads, NEW t \in Threads, NEW u \in Threads,
           Unblock(p, t, u)
    PROVE  u \in Users /\ Sched!Unblock({u})
  <1>1. u \in Users /\ u \in waiting /\ tpc' = tpc
    BY DEF Unblock, SInv, Typed, TypeOK
  <1>2. ~Dispatched(u) /\ tpc[u] = "block" /\ Going(u)
    BY <1>1 DEF SInv, Placement, OneDispatch, Going
  <1>3. ~InFlight(u)
    <2>1. \A q \in Pthreads : Occupies(q, u) => pc[q] \in {"dequeue", "switch"}
      BY <1>2 DEF SInv, Placement, StopsFirst
    <2> QED BY <1>2, <2>1 DEF InFlight, Dispatched, Occupies
  <1>4. Parked' = Parked /\ u \in Parked /\ Parked \subseteq Users
    BY <1>1, <1>2 DEF Parked
  <1>5. \A s \in Users : InFlight(s)' <=> InFlight(s) \/ s = u
    BY UnblockSends DEF Sends, Users, SInv
  <1>6. {s \in Parked : InFlight(s)}' = {s \in Parked : InFlight(s)} \cup {u}
    BY <1>4, <1>5
  <1> QED BY <1>1, <1>3, <1>4, <1>6 DEF Sched!Unblock

LEMMA ResumeReturns ==
    ASSUME SInv, NEW p \in Pthreads, Resume(p)
    PROVE  \/ cur[p] \in Users /\ Sched!Return(cur[p])
           \/ UNCHANGED Sched!vars
  <1> DEFINE c == cur[p]
  <1>1. /\ c \in Threads /\ InFlight(c)
        /\ tpc' = [tpc EXCEPT ![c] = IF @ = "block" THEN "user" ELSE @]
    BY DEF Resume, InFlight, SInv, Typed, TypeOK
  <1>2. \A s \in Threads \ {c} : InFlight(s)' <=> InFlight(s)
    BY ResumeFlight DEF SInv
  <1>3. Parked' = Parked \ {c} /\ Parked \subseteq Threads
    BY <1>1 DEF Parked, SInv, Typed, TypeOK, Users
  <1>4. {s \in Parked : InFlight(s)}' = {s \in Parked : InFlight(s)} \ {c}
    BY <1>2, <1>3
  <1>5. CASE c \in Parked
    BY <1>1, <1>3, <1>4, <1>5 DEF Sched!Return, Parked
  <1>6. CASE c \notin Parked
    BY <1>3, <1>4, <1>6 DEF Sched!vars
  <1> QED BY <1>5, <1>6

LEMMA SchedStep ==
    ASSUME SInv, [Next]_vars
    PROVE  Sched!Next \/ UNCHANGED Sched!vars
  <1> USE UthreadAssumption
  <1>0. Typed
    BY DEF SInv
  <1>1. CASE UNCHANGED vars
    BY <1>1 DEF vars, queueVars, threadVars, Sched!vars, Parked, InFlight
  <1>2. ASSUME NEW S, Sends(S), UNCHANGED tpc,
               \A t \in S \cap Users : tpc[t] # "block"
        PROVE  UNCHANGED Sched!vars
    BY <1>2, Invisible
  <1>3. ASSUME NEW p \in Pthreads, Scheduler(p)
        PROVE  Sched!Next \/ UNCHANGED Sched!vars
    <2>1. CASE BaseLoop(p) \/ DequeueHead(p) \/ SwitchTo(p)
      <3>1. Sends({})
        BY <1>0, <2>1, StopSends, DequeueSends, SwitchSends
      <3> QED BY <1>2, <2>1, <3>1
              DEF BaseLoop, DequeueHead, SwitchTo, threadVars
    <2>2. CASE DequeueBase(p)
      <3>1. Sends({Base[p]}) /\ Base[p] \notin Users
        BY <1>0, <2>2, DequeueSends DEF Users, Bases
      <3> QED BY <1>2, <2>2, <3>1 DEF DequeueBase, threadVars
    <2>3. CASE \/ DequeueNothing(p) \/ Sleep(p) \/ WakeUp(p)
               \/ SetFromState(p) \/ TestFrom(p) \/ Reap(p)
      BY <1>0, <1>2, <2>3, PthreadSends
    <2>4. CASE Requeue(p)
      <3>1. pc[p] = "requeue" /\ UNCHANGED tpc
        BY <2>4 DEF Requeue, threadVars
      <3>2. stopState[p] = "RUNABLE"
        BY <3>1 DEF SInv, Placement, OneDisposal
      <3>3. tpc[from[p]] = "user"
        BY <3>1, <3>2 DEF SInv, CalledYield, Disposing
      <3>4. Sends({from[p]})
        BY <1>0, <2>4, RequeueSends
      <3> QED BY <1>2, <3>1, <3>3, <3>4
    <2>5. CASE Resume(p)
      BY <2>5, ResumeReturns DEF Sched!Next, Users
    <2> QED BY <1>3, <2>1, <2>2, <2>3, <2>4, <2>5 DEF Scheduler
  <1>4. ASSUME NEW p \in Pthreads, NEW t \in Threads, Call(p, t)
        PROVE  Sched!Next \/ UNCHANGED Sched!vars
    <2>1. ASSUME NEW u \in Threads, Create(p, t, u)
          PROVE  UNCHANGED Sched!vars
      <3>1. tpc[u] = "user" /\ UNCHANGED tpc
        BY <2>1 DEF Create, threadVars, SInv, CalledYield
      <3>2. Sends({u})
        BY <1>0, <2>1, CreateSends
      <3> QED BY <1>2, <3>1, <3>2
    <2>2. ASSUME NEW u \in Threads, Unblock(p, t, u)
          PROVE  Sched!Next
      <3>1. u \in Users /\ Sched!Unblock({u})
        BY <2>2, UnblockUnblocks
      <3>2. {u} \in SUBSET Users /\ {u} # {}
        BY <3>1
      <3> QED BY <3>1, <3>2 DEF Sched!Next
    <2>3. CASE Wait(p, t)
      <3>1. t \in Users
        BY <2>3 DEF Wait, At
      <3> QED BY <2>3, <3>1, WaitBlocks DEF Sched!Next
    <2>4. CASE Yield(p, t)
      BY <1>0, <1>2, <2>4, StopSends DEF Yield, threadVars
    <2>5. CASE Exit(p, t)
      <3>1. /\ pc[p] = "run" /\ cur[p] = t /\ UNCHANGED tpc
        BY <2>5 DEF Exit, At
      <3>2. state[t] = "RUNNING"
        BY <3>1, RunsAlone
      <3>3. ASSUME NEW j \in {joiner[t]} \ {None, Detached}, j \in Users
            PROVE  tpc[j] # "block"
        <4>1. StartsAtExit(t, j) /\ j \in Threads
          BY <3>2, <3>3 DEF StartsAtExit, Exited, Users
        <4>2. tpc[j] = "joinWait"
          BY <4>1 DEF SInv, Placement, OneDispatch
        <4> QED BY <4>2
      <3>4. Sends({joiner[t]} \ {None, Detached})
        BY <1>0, <2>5, ExitSends
      <3> QED BY <1>2, <3>1, <3>3, <3>4
    <2>6. CASE \/ \E u \in Threads : JoinTest(p, t, u) \/ DetachTest(p, t, u)
               \/ JoinLock(p, t) \/ JoinReturn(p, t) \/ DetachLock(p, t)
      <3>1. /\ Sends({}) /\ tpc[t] # "block"
            /\ \E l \in ThreadPC \ {"block"} : tpc' = [tpc EXCEPT ![t] = l]
        BY <1>0, <2>6, JoinSends
      <3>2. \A s \in Users : tpc'[s] = "block" <=> tpc[s] = "block"
        BY <1>0, <3>1 DEF Typed, TypeOK, Users
      <3> QED BY <3>1, <3>2, Invisible
    <2> QED BY <1>4, <2>1, <2>2, <2>3, <2>4, <2>5, <2>6 DEF Call
  <1> QED BY <1>1, <1>3, <1>4 DEF Next

LEMMA SInvInit == Init => SInv /\ Sched!Init
  <1> SUFFICES ASSUME Init PROVE SInv /\ Sched!Init
    OBVIOUS
  <1>1. Typed /\ Placement
    BY PlacementInit
  <1>2. CalledYield
    BY DEF Init, CalledYield, Stopping, Disposing
  <1>3. Parked = {}
    BY DEF Init, Parked, Users
  <1> QED BY <1>1, <1>2, <1>3 DEF SInv, Sched!Init

\* The scheduler keeps its promise to the code built on uthread_block and
\* uthread_unblock, for any number of pthreads and threads, as long as no
\* pthread is delayed between publishing a state and testing it for so long
\* that the thread runs elsewhere and stops again.
THEOREM ImplementsSchedCorrect ==
    ASSUME ~LateCheck PROVE Spec => ImplementsSched
  <1>1. Init => SInv /\ Sched!Init
    BY SInvInit
  <1>2. SInv /\ [Next]_vars => SInv'
    BY YieldStep, TypedStep, PlacementStep DEF SInv
  <1>3. SInv /\ [Next]_vars => [Sched!Next]_Sched!vars
    BY SchedStep
  <1> QED BY <1>1, <1>2, <1>3, PTL DEF Spec, ImplementsSched, Sched!Spec
-----------------------------------------------------------------------------
(* No pthread idles over work. *)

Slept == {p \in Pthreads : pc[p] \in {"asleep", "woken"}}
Fetchers == {p \in Pthreads : Fetching(p)}

\* pthread_num_sleeping is exact, and a pthread that is about to sleep has the
\* mutex without which nothing enters the queue.
SleepersCounted ==
    /\ numSleeping = Cardinality(Slept)
    /\ \A p \in Pthreads : pc[p] = "toSleep" => pmutex = p /\ ready = <<>>

Idling == SleepersCounted /\ NoIdleOverWork

LEMMA FinitePthreads ==
    ASSUME IsFiniteSet(Pthreads), NEW S \in SUBSET Pthreads
    PROVE  IsFiniteSet(S) /\ Cardinality(S) \in Nat
  BY FS_Subset, FS_CardinalityType

\* The queue gets no longer and nobody who fetches stops.
LEMMA StillMatched ==
    ASSUME IsFiniteSet(Pthreads), Typed, NoIdleOverWork,
           \A p \in Pthreads : pc'[p] = "asleep" => pc[p] = "asleep",
           ready' \in Seq(Threads), Len(ready') <= Len(ready),
           Fetchers \subseteq Fetchers'
    PROVE  NoIdleOverWork'
  <1>1. Fetchers' \subseteq Pthreads /\ Fetchers \subseteq Pthreads
    BY DEF Fetchers
  <1>2. /\ Cardinality(Fetchers) \in Nat /\ Cardinality(Fetchers') \in Nat
        /\ Cardinality(Fetchers) <= Cardinality(Fetchers')
    BY <1>1, FinitePthreads, FS_Subset
  <1>3. ASSUME NEW p \in Pthreads, pc'[p] = "asleep"
        PROVE  Len(ready') <= Cardinality(Fetchers')
    <2>1. Len(ready) <= Cardinality(Fetchers)
      BY <1>3 DEF NoIdleOverWork, Fetchers
    <2>2. Len(ready) \in Nat /\ Len(ready') \in Nat
      BY DEF Typed, TypeOK
    <2> QED BY <1>2, <2>1, <2>2
  <1> QED BY <1>3 DEF NoIdleOverWork, Fetchers

LEMMA EnqueuedLength ==
    ASSUME NEW q \in Seq(Threads), NEW t \in Threads
    PROVE  /\ Enqueued(q, t) \in Seq(Threads)
           /\ Len(Enqueued(q, t)) <= Len(q) + 1
  BY AppendQueue DEF Enqueued

\* Whoever inserts a thread while a pthread sleeps wakes one.
LEMMA EnqueueIdling ==
    ASSUME IsFiniteSet(Pthreads), Typed, Idling, cur' = cur,
           NEW p \in Pthreads, pc[p] \in {"run", "requeue"},
           NEW l \in {"run", "dequeue", "resume"}, NEW t \in Threads,
           ReadyEnqueue(t, [pc EXCEPT ![p] = l])
    PROVE  Idling'
  <1> DEFINE pcs == [pc EXCEPT ![p] = l]
  <1>1. /\ pc' \in Signalled(pcs) /\ pmutex = None
        /\ ready' = Enqueued(ready, t) /\ UNCHANGED <<pmutex, numSleeping>>
    BY DEF ReadyEnqueue
  <1>2. /\ pcs[p] = l
        /\ \A q \in Pthreads \ {p} : pcs[q] = pc[q]
        /\ pcs \in [Pthreads -> PthreadPC]
    BY DEF Typed, TypeOK, PthreadPC
  <1> HIDE DEF pcs
  <1>3. \A q \in Pthreads : pcs[q] # "toSleep"
    BY <1>1, <1>2, UthreadAssumption DEF Idling, SleepersCounted
  <1>4. {q \in Pthreads : pcs[q] \in {"asleep", "woken"}} = Slept
    BY <1>2 DEF Slept
  <1>5. CASE \A q \in Pthreads : pcs[q] # "asleep"
    <2>1. pc' = pcs
      BY <1>1, <1>5 DEF Signalled
    <2>2. Slept' = Slept
      BY <1>4, <2>1 DEF Slept
    <2> QED BY <1>1, <1>3, <1>5, <2>1, <2>2 DEF Idling, SleepersCounted, NoIdleOverWork
  <1>6. CASE \E q \in Pthreads : pcs[q] = "asleep"
    <2>1. numSleeping # 0
      <3>1. Slept # {} /\ Slept \subseteq Pthreads
        BY <1>4, <1>6
      <3> QED BY <3>1, FinitePthreads, FS_EmptySet DEF Idling, SleepersCounted
    <2>2. PICK q \in Pthreads : pcs[q] = "asleep" /\ pc' = [pcs EXCEPT ![q] = "woken"]
      BY <1>1, <1>6, <2>1 DEF Signalled
    <2>3. pc'[q] = "woken" /\ \A r \in Pthreads \ {q} : pc'[r] = pcs[r]
      BY <1>2, <2>2
    <2>4. Slept' = Slept
      BY <1>4, <2>2, <2>3 DEF Slept
    <2>5. q # p /\ pc[q] = "asleep"
      BY <1>2, <2>2
    <2>6. q \notin Fetchers /\ Fetchers \cup {q} \subseteq Fetchers'
      BY <1>2, <2>3, <2>5 DEF Fetchers, Fetching
    <2>7. Len(ready') <= Cardinality(Fetchers')
      <3>1. Len(ready) <= Cardinality(Fetchers)
        BY <2>5 DEF Idling, NoIdleOverWork, Fetchers
      <3>2. Fetchers \subseteq Pthreads /\ Fetchers' \subseteq Pthreads
        BY DEF Fetchers
      <3>3. IsFiniteSet(Fetchers) /\ Cardinality(Fetchers) \in Nat
            /\ IsFiniteSet(Fetchers') /\ Cardinality(Fetchers') \in Nat
        BY <3>2, FinitePthreads
      <3>4. Cardinality(Fetchers \cup {q}) = Cardinality(Fetchers) + 1
        BY <2>6, <3>3, FS_AddElement
      <3>5. Cardinality(Fetchers \cup {q}) <= Cardinality(Fetchers')
        BY <2>6, <3>3, FS_Subset
      <3>6. /\ Len(ready') <= Len(ready) + 1
            /\ Len(ready) \in Nat /\ Len(ready') \in Nat
        <4>1. ready \in Seq(Threads)
          BY DEF Typed, TypeOK
        <4> QED BY <1>1, <4>1, EnqueuedLength
      <3> QED BY <3>1, <3>3, <3>4, <3>5, <3>6
    <2>8. NoIdleOverWork'
      BY <2>7 DEF NoIdleOverWork, Fetchers
    <2>9. \A r \in Pthreads : pc'[r] # "toSleep"
      BY <1>3, <2>3
    <2> QED BY <1>1, <2>4, <2>8, <2>9 DEF Idling, SleepersCounted
  <1> QED BY <1>5, <1>6

\* A pthread moves on among the places where it neither sleeps nor is about to.
LEMMA MoveIdling ==
    ASSUME IsFiniteSet(Pthreads), Typed, Idling,
           UNCHANGED <<ready, pmutex, numSleeping>>,
           NEW p \in Pthreads, ~Fetching(p),
           NEW l \in PthreadPC \ {"toSleep", "asleep", "woken"},
           pc[p] \notin {"toSleep", "asleep", "woken"},
           pc' = [pc EXCEPT ![p] = l],
           \A q \in Pthreads \ {p} : cur'[q] = cur[q]
    PROVE  Idling'
  <1>1. pc'[p] = l /\ \A q \in Pthreads \ {p} : pc'[q] = pc[q]
    BY DEF Typed, TypeOK
  <1>2. Slept' = Slept
    BY <1>1 DEF Slept
  <1>3. Fetchers \subseteq Fetchers'
    BY <1>1 DEF Fetchers, Fetching
  <1>4. \A q \in Pthreads : pc'[q] \in {"toSleep", "asleep"} => pc'[q] = pc[q]
    BY <1>1
  <1>5. NoIdleOverWork'
    <2>1. ready' \in Seq(Threads) /\ Len(ready') <= Len(ready)
      BY DEF Typed, TypeOK
    <2> QED BY <1>3, <1>4, <2>1, StillMatched DEF Idling
  <1> QED BY <1>2, <1>4, <1>5 DEF Idling, SleepersCounted

LEMMA IdlingStep ==
    ASSUME IsFiniteSet(Pthreads), SInv, Idling, [Next]_vars
    PROVE  Idling'
  <1> USE UthreadAssumption
  <1>0. Typed /\ TypeOK
    BY DEF SInv, Typed
  <1>1. CASE UNCHANGED vars
    BY <1>1 DEF vars, queueVars, Idling, SleepersCounted, NoIdleOverWork, Slept,
                Fetching
  <1>2. ASSUME NEW p \in Pthreads, Scheduler(p)
        PROVE  Idling'
    <2>1. CASE BaseLoop(p)
      BY <1>0, <2>1, MoveIdling DEF BaseLoop, Stop, queueVars, Fetching, PthreadPC
    <2>2. CASE DequeueHead(p)
      <3>1. /\ pc[p] = "dequeue" /\ pc'[p] = "switch" /\ cur' = cur
            /\ \A q \in Pthreads \ {p} : pc'[q] = pc[q]
            /\ UNCHANGED <<pmutex, numSleeping>>
            /\ ready # <<>> /\ ready' = Tail(ready)
        BY <1>0, <2>2 DEF DequeueHead, TypeOK
      <3>2. Slept' = Slept
        BY <3>1 DEF Slept
      <3>3. \A q \in Pthreads : pc'[q] # "toSleep"
        BY <3>1 DEF Idling, SleepersCounted
      <3>4. ASSUME NEW q \in Pthreads, pc'[q] = "asleep"
            PROVE  Len(ready') <= Cardinality(Fetchers')
        <4>1. Len(ready) <= Cardinality(Fetchers)
          BY <3>1, <3>4 DEF Idling, NoIdleOverWork, Fetchers
        <4>2. /\ Fetchers \subseteq Fetchers' \cup {p}
              /\ Fetchers \subseteq Pthreads /\ Fetchers' \subseteq Pthreads
          BY <3>1 DEF Fetchers, Fetching
        <4>3. /\ IsFiniteSet(Fetchers') /\ Cardinality(Fetchers') \in Nat
              /\ Cardinality(Fetchers) \in Nat
          BY <4>2, FinitePthreads
        <4>4. /\ IsFiniteSet(Fetchers' \cup {p})
              /\ Cardinality(Fetchers' \cup {p}) <= Cardinality(Fetchers') + 1
          <5>1. /\ IsFiniteSet(Fetchers' \cup {p})
                /\ Cardinality(Fetchers' \cup {p}) =
                     IF p \in Fetchers' THEN Cardinality(Fetchers')
                                        ELSE Cardinality(Fetchers') + 1
            BY <4>3, FS_AddElement
          <5> QED BY <4>3, <5>1
        <4>5. Cardinality(Fetchers) <= Cardinality(Fetchers' \cup {p})
          BY <4>2, <4>4, FS_Subset
        <4>6. Cardinality(Fetchers' \cup {p}) \in Nat
          BY <4>4, FS_CardinalityType
        <4>7. Len(ready) \in Nat /\ Len(ready') = Len(ready) - 1
          BY <1>0, <3>1 DEF TypeOK
        <4> QED BY <4>1, <4>3, <4>4, <4>5, <4>6, <4>7
      <3>5. NoIdleOverWork'
        BY <3>4 DEF NoIdleOverWork, Fetchers
      <3> QED BY <3>1, <3>2, <3>3, <3>5 DEF Idling, SleepersCounted
    <2>3. CASE DequeueBase(p)
      BY <1>0, <2>3, MoveIdling DEF DequeueBase, queueVars, Fetching, PthreadPC
    <2>4. CASE DequeueNothing(p)
      <3>1. /\ pc[p] = "dequeue" /\ pc'[p] = "toSleep" /\ cur' = cur
            /\ \A q \in Pthreads \ {p} : pc'[q] = pc[q]
            /\ pmutex = None /\ pmutex' = p
            /\ UNCHANGED <<ready, numSleeping>> /\ ready = <<>>
        BY <1>0, <2>4 DEF DequeueNothing, TypeOK
      <3>2. Slept' = Slept
        BY <3>1 DEF Slept
      <3>3. \A q \in Pthreads : pc'[q] = "toSleep" => q = p
        BY <3>1 DEF Idling, SleepersCounted
      <3>4. Len(ready') <= Cardinality(Fetchers')
        <4>1. Len(ready') = 0
          BY <3>1
        <4>2. Cardinality(Fetchers') \in Nat
          BY FinitePthreads DEF Fetchers
        <4> QED BY <4>1, <4>2
      <3>5. NoIdleOverWork'
        BY <3>4 DEF NoIdleOverWork, Fetchers
      <3> QED BY <3>1, <3>2, <3>3, <3>5 DEF Idling, SleepersCounted
    <2>5. CASE Sleep(p)
      <3>1. /\ pc[p] = "toSleep" /\ pc'[p] = "asleep"
            /\ \A q \in Pthreads \ {p} : pc'[q] = pc[q]
            /\ numSleeping' = numSleeping + 1 /\ ready' = ready
        BY <1>0, <2>5 DEF Sleep, TypeOK
      <3>2. ready = <<>> /\ \A q \in Pthreads : pc'[q] # "toSleep"
        BY <3>1 DEF Idling, SleepersCounted
      <3>3. numSleeping' = Cardinality(Slept')
        <4>1. Slept' = Slept \cup {p} /\ p \notin Slept
          BY <3>1 DEF Slept
        <4>2. IsFiniteSet(Slept)
          BY FinitePthreads DEF Slept
        <4> QED BY <3>1, <4>1, <4>2, FS_AddElement DEF Idling, SleepersCounted
      <3>4. Len(ready') <= Cardinality(Fetchers')
        <4>1. Len(ready') = 0
          BY <3>1, <3>2
        <4>2. Cardinality(Fetchers') \in Nat
          BY FinitePthreads DEF Fetchers
        <4> QED BY <4>1, <4>2
      <3>5. NoIdleOverWork'
        BY <3>4 DEF NoIdleOverWork, Fetchers
      <3> QED BY <3>2, <3>3, <3>5 DEF Idling, SleepersCounted
    <2>6. CASE WakeUp(p)
      <3>1. /\ pc[p] = "woken" /\ pc'[p] = "dequeue" /\ cur' = cur
            /\ \A q \in Pthreads \ {p} : pc'[q] = pc[q]
            /\ numSleeping' = numSleeping - 1 /\ UNCHANGED <<ready, pmutex>>
        BY <1>0, <2>6 DEF WakeUp, TypeOK
      <3>2. cur[p] = Base[p]
        BY <3>1 DEF SInv, Placement, BasesStay
      <3>3. numSleeping' = Cardinality(Slept')
        <4>1. Slept' = Slept \ {p} /\ p \in Slept
          BY <3>1 DEF Slept
        <4>2. IsFiniteSet(Slept)
          BY FinitePthreads DEF Slept
        <4> QED BY <3>1, <4>1, <4>2, FS_RemoveElement DEF Idling, SleepersCounted
      <3>4. Fetchers \subseteq Fetchers'
        BY <3>1, <3>2 DEF Fetchers, Fetching
      <3>5. /\ \A q \in Pthreads : pc'[q] \in {"toSleep", "asleep"} => pc'[q] = pc[q]
            /\ ready' \in Seq(Threads) /\ Len(ready') <= Len(ready)
        BY <1>0, <3>1 DEF TypeOK
      <3>6. NoIdleOverWork'
        BY <1>0, <3>4, <3>5, StillMatched DEF Idling
      <3> QED BY <3>1, <3>3, <3>5, <3>6 DEF Idling, SleepersCounted
    <2>7. CASE SetFromState(p) \/ SwitchTo(p) \/ TestFrom(p) \/ Reap(p) \/ Resume(p)
      <3>1. /\ pc[p] \in {"switch", "spin", "after", "reap", "resume"}
            /\ \E l \in {"spin", "after", "reap", "requeue", "resume", "run"} :
                  pc' = [pc EXCEPT ![p] = l]
            /\ UNCHANGED <<ready, pmutex, numSleeping>>
            /\ \A q \in Pthreads \ {p} : cur'[q] = cur[q]
        BY <1>0, <2>7 DEF SetFromState, SwitchTo, TestFrom, Reap, Resume, queueVars,
                          TypeOK
      <3>2. ~Fetching(p)
        BY <3>1 DEF Fetching
      <3> QED BY <1>0, <3>1, <3>2, MoveIdling DEF PthreadPC
    <2>8. CASE Requeue(p)
      <3>1. from[p] \in Threads /\ pc[p] = "requeue" /\ cur' = cur
        BY <2>8 DEF Requeue, SInv, Typed, TypeOK, Locals
      <3> QED BY <1>0, <2>8, <3>1, EnqueueIdling DEF Requeue
    <2> QED BY <1>2, <2>1, <2>2, <2>3, <2>4, <2>5, <2>6, <2>7, <2>8 DEF Scheduler
  <1>3. ASSUME NEW p \in Pthreads, NEW t \in Threads, Call(p, t)
        PROVE  Idling'
    <2>0. /\ pc[p] = "run" /\ cur' = cur /\ ~Fetching(p)
      BY <1>0, <1>3, CallMoves DEF Fetching
    <2>1. ASSUME NEW u \in Threads, Create(p, t, u) \/ Unblock(p, t, u)
          PROVE  Idling'
      <3>1. pc = [pc EXCEPT ![p] = "run"] /\ ReadyEnqueue(u, pc)
        BY <1>0, <2>0, <2>1 DEF Create, Unblock, TypeOK
      <3>2. ReadyEnqueue(u, [pc EXCEPT ![p] = "run"])
        BY <3>1
      <3> QED BY <1>0, <2>0, <3>2, EnqueueIdling
    <2>2. CASE Exit(p, t) /\ joiner[t] \notin {None, Detached}
      <3>1. joiner[t] \in Threads
        BY <1>0, <2>2 DEF TypeOK
      <3>2. ReadyEnqueue(joiner[t], [pc EXCEPT ![p] = "dequeue"])
        BY <2>2 DEF Exit
      <3> QED BY <1>0, <2>0, <3>1, <3>2, EnqueueIdling
    <2>3. CASE \/ Exit(p, t) /\ joiner[t] \in {None, Detached}
               \/ Yield(p, t) \/ Wait(p, t)
               \/ \E u \in Threads : JoinTest(p, t, u) \/ DetachTest(p, t, u)
               \/ JoinLock(p, t) \/ JoinReturn(p, t) \/ DetachLock(p, t)
      <3>1. /\ UNCHANGED <<ready, pmutex, numSleeping>>
            /\ pc' = pc \/ pc' = [pc EXCEPT ![p] = "dequeue"]
        BY <2>3 DEF Exit, Yield, Wait, JoinTest, DetachTest, Claim, JoinLock,
                    JoinReturn, DetachLock, Stop, queueVars
      <3>2. pc' = [pc EXCEPT ![p] = "run"] \/ pc' = [pc EXCEPT ![p] = "dequeue"]
        BY <1>0, <2>0, <3>1 DEF TypeOK
      <3> QED BY <1>0, <2>0, <3>1, <3>2, MoveIdling DEF PthreadPC
    <2> QED BY <1>3, <2>1, <2>2, <2>3 DEF Call
  <1> QED BY <1>1, <1>2, <1>3 DEF Next

\* While a pthread sleeps, every thread in the ready queue has a pthread of its
\* own that was woken for it, for any number of both: no wake-up is lost
\* between the test of the queue and pthread_cond_wait.
THEOREM NoIdleOverWorkCorrect ==
    ASSUME ~LateCheck, IsFiniteSet(Pthreads) PROVE Spec => []NoIdleOverWork
  <1>1. Init => SInv /\ Idling
    <2> SUFFICES ASSUME Init PROVE SInv /\ Idling
      OBVIOUS
    <2>1. \A p \in Pthreads : pc[p] = "run"
      BY DEF Init
    <2>2. Slept = {} /\ numSleeping = 0
      BY <2>1 DEF Slept, Init
    <2> QED BY <2>1, <2>2, SInvInit, FS_EmptySet
            DEF Idling, SleepersCounted, NoIdleOverWork
  <1>2. SInv /\ Idling /\ [Next]_vars => SInv' /\ Idling'
    BY YieldStep, TypedStep, PlacementStep, IdlingStep DEF SInv
  <1>3. Idling => NoIdleOverWork
    BY DEF Idling
  <1> QED BY <1>1, <1>2, <1>3, PTL DEF Spec
-----------------------------------------------------------------------------
Claiming == {"join", "joinWait", "detach"}

\* A thread is claimed by one thread at a time, and once; until the claim is
\* done it is not freed, and its joiner field is the one of that claim.
ClaimedOnce ==
    /\ \A t \in Threads : target[t] # None <=> tpc[t] \in Claiming
    /\ \A t \in Threads : target[t] # None =>
         /\ target[t] \in Users /\ claims[target[t]] # 0
         /\ state[target[t]] \notin {"UNBORN", "FREED"}
         /\ joiner[target[t]] = IF tpc[t] = "joinWait" THEN t ELSE None
    /\ \A s, t \in Threads : target[s] = target[t] /\ target[t] # None => s = t

\* from_thread is set only between the switch and the end of the disposal.
FromSet == \A p \in Pthreads : from[p] # None => pc[p] \in Disposing \cup {"resume"}

Executes(p, t) == pc[p] = "run" /\ cur[p] = t

\* t yields, and p will put it back in the queue.
Yields(p, t) ==
    /\ stopState[p] = "RUNABLE"
    /\ \/ pc[p] \in Stopping /\ cur[p] = t
       \/ pc[p] \in {"after", "requeue"} /\ from[p] = t

\* Where a thread that was created and has not exited is.
Somewhere(t) ==
    \/ InFlight(t)
    \/ tpc[t] = "block" /\ t \in waiting
    \/ tpc[t] = "joinWait" /\ joiner[target[t]] = t
    \/ \E p \in Pthreads : Executes(p, t) \/ Yields(p, t)

AllSomewhere ==
    \A t \in Users : state[t] \in Exited \cup {"UNBORN"} \/ Somewhere(t)

\* The joiner of a thread that exited is on its way, or back.
JoinerStarted ==
    \A t \in Users :
        tpc[t] = "joinWait" /\ state[target[t]] \in Exited
            => InFlight(t) \/ \E p \in Pthreads : Executes(p, t)

JInv == SInv /\ ClaimedOnce /\ FromSet /\ AllSomewhere /\ JoinerStarted
-----------------------------------------------------------------------------
(* Creation and exit. *)

SameLife(s) == /\ state'[s] = "UNBORN" <=> state[s] = "UNBORN"
               /\ state'[s] \in Exited <=> state[s] \in Exited

LEMMA ReapIsDying ==
    ASSUME SInv, NEW p \in Pthreads, pc[p] = "reap"
    PROVE  from[p] \in Threads /\ state[from[p]] = "DYING"
  <1>1. from[p] \in Threads
    BY DEF SInv, Placement, Locals, Typed, TypeOK
  <1>2. LeftBy(p, from[p]) /\ stopState[p] = "DYING"
    BY DEF LeftBy, SInv, Placement, OneDisposal
  <1> QED BY <1>1, <1>2 DEF SInv, Placement, OneDisposal

\* The scheduler neither creates a thread nor makes one exit.
LEMMA SchedulerLife ==
    ASSUME SInv, NEW p \in Pthreads, Scheduler(p)
    PROVE  \A s \in Threads : SameLife(s)
  <1> USE DEF SameLife, Exited
  <1>0. /\ cur[p] \in Threads /\ state \in [Threads -> ThreadState]
        /\ stopState[p] \in StopState
    BY DEF SInv, Typed, TypeOK
  <1>1. CASE SetFromState(p)
    <2>1. /\ state[cur[p]] = IF stopState[p] = "DYING" THEN "DYING" ELSE "RUNNING"
          /\ state' = [state EXCEPT ![cur[p]] = stopState[p]]
      BY <1>1 DEF SetFromState, SInv, Placement, StateWhileOn
    <2> QED BY <1>0, <2>1 DEF StopState
  <1>2. CASE Reap(p)
    <2>1. state[from[p]] = "DYING"
      BY <1>2, ReapIsDying DEF Reap
    <2> QED BY <1>0, <1>2, <2>1 DEF Reap
  <1>3. CASE Resume(p)
    <2>1. Occupies(p, cur[p]) /\ pc[p] = "resume"
      BY <1>3 DEF Resume, Occupies
    <2>2. state[cur[p]] \notin Exited \cup {"UNBORN"}
      BY <1>0, <2>1 DEF SInv, Placement, ExitedIsGone, UnbornIsNowhere, Idle
    <2> QED BY <1>0, <1>3, <2>2 DEF Resume
  <1>4. CASE UNCHANGED state
    BY <1>4
  <1> QED BY <1>1, <1>2, <1>3, <1>4
          DEF Scheduler, BaseLoop, DequeueHead, DequeueBase, DequeueNothing,
              Sleep, WakeUp, SwitchTo, TestFrom, Requeue

\* Nor do the calls, but uthread_create and the return of start_proc.
LEMMA ReleaseLife ==
    ASSUME Typed, NEW t \in Threads, target[t] \in Threads,
           Release(t, target[t], state[target[t]] # "DEAD")
    PROVE  \A s \in Threads : SameLife(s)
  BY DEF Release, SameLife, Exited, Typed, TypeOK

\* The thread that calls is alive.
LEMMA CallerAlive ==
    ASSUME SInv, NEW p \in Pthreads, pc[p] = "run"
    PROVE  state[cur[p]] = "RUNNING"
  BY RunsAlone
-----------------------------------------------------------------------------
(* One claim at a time. *)

\* A step that makes no claim and ends none.
LEMMA ClaimsKept ==
    ASSUME Typed, ClaimedOnce, UNCHANGED <<target, joiner>>,
           \A t \in Threads : claims[t] # 0 => claims'[t] # 0,
           \A t \in Threads : \/ tpc'[t] = tpc[t]
                              \/ tpc[t] \notin Claiming /\ tpc'[t] \notin Claiming,
           \A t \in Threads : target[t] # None =>
              state'[target[t]] \notin {"UNBORN", "FREED"}
    PROVE  ClaimedOnce'
  <1>1. \A t \in Threads : target[t] # None => target[t] \in Threads
    BY DEF Typed, TypeOK
  <1>2. \A t \in Threads : tpc'[t] = "joinWait" <=> tpc[t] = "joinWait"
    BY DEF Claiming
  <1> QED BY <1>1, <1>2 DEF ClaimedOnce

LEMMA ReleaseClaims ==
    ASSUME Typed, ClaimedOnce, NEW t \in Threads, tpc[t] \in Claiming,
           Release(t, target[t], state[target[t]] # "DEAD")
    PROVE  ClaimedOnce'
  <1> DEFINE u == target[t]
  <1>1. u \in Threads
    BY DEF ClaimedOnce, Typed, TypeOK
  <1>2. /\ tpc' = [tpc EXCEPT ![t] = "user"]
        /\ target' = [target EXCEPT ![t] = None]
        /\ claims' = claims
        /\ \A v \in Threads \ {u} : joiner'[v] = joiner[v] /\ state'[v] = state[v]
    BY <1>1 DEF Release, Typed, TypeOK
  <1>3. tpc'[t] = "user" /\ target'[t] = None
    BY <1>2 DEF Typed, TypeOK
  <1>4. \A s \in Threads \ {t} : tpc'[s] = tpc[s] /\ target'[s] = target[s]
    BY <1>2 DEF Typed, TypeOK
  <1>5. \A s \in Threads \ {t} : target[s] # None => target[s] \in Threads \ {u}
    BY <1>1, UthreadAssumption DEF ClaimedOnce, Typed, TypeOK
  <1>6. \A s \in Threads : target'[s] # None <=> tpc'[s] \in Claiming
    BY <1>3, <1>4 DEF ClaimedOnce, Claiming
  <1>7. \A s \in Threads : target'[s] # None =>
          /\ target'[s] \in Users /\ claims'[target'[s]] # 0
          /\ state'[target'[s]] \notin {"UNBORN", "FREED"}
          /\ joiner'[target'[s]] = IF tpc'[s] = "joinWait" THEN s ELSE None
    BY <1>2, <1>3, <1>4, <1>5 DEF ClaimedOnce
  <1>8. \A s, v \in Threads : target'[s] = target'[v] /\ target'[v] # None => s = v
    BY <1>3, <1>4 DEF ClaimedOnce
  <1> QED BY <1>6, <1>7, <1>8 DEF ClaimedOnce

LEMMA ClaimedStep ==
    ASSUME MaxClaims <= 1, Typed, ClaimedOnce, [Next]_vars
    PROVE  ClaimedOnce'
  <1> USE UthreadAssumption
  <1>0. Typed
    OBVIOUS
  <1>1. CASE UNCHANGED vars
    BY <1>0, <1>1, ClaimsKept DEF vars, threadVars, ClaimedOnce
  <1>2. \A t \in Threads : target[t] # None => target[t] \in Threads
    BY <1>0 DEF Typed, TypeOK
  <1>3. ASSUME NEW p \in Pthreads, Scheduler(p)
        PROVE  ClaimedOnce'
    <2>1. CASE Reap(p)
      <3>1. \A t \in Threads : target[t] # None => joiner[target[t]] # Detached
        BY DEF ClaimedOnce
      <3>2. from[p] \in Threads
        BY <1>0, <2>1 DEF Reap, Typed, TypeOK, Locals
      <3>3. \A t \in Threads : target[t] # None =>
               state'[target[t]] \notin {"UNBORN", "FREED"}
        BY <1>0, <1>2, <2>1, <3>1, <3>2 DEF Reap, ClaimedOnce, Typed, TypeOK
      <3> QED BY <1>0, <2>1, <3>3, ClaimsKept DEF Reap, threadVars
    <2>2. CASE SetFromState(p) \/ Resume(p)
      <3>1. \A s \in Threads : state'[s] \in {"UNBORN", "FREED"} => state'[s] = state[s]
        BY <1>0, <2>2 DEF SetFromState, Resume, Typed, TypeOK, StopState
      <3>2. \A t \in Threads : \/ tpc'[t] = tpc[t]
                               \/ tpc[t] \notin Claiming /\ tpc'[t] \notin Claiming
        BY <1>0, <2>2 DEF SetFromState, Resume, threadVars, Typed, TypeOK, Claiming
      <3>3. UNCHANGED <<target, joiner, claims>>
        BY <2>2 DEF SetFromState, Resume, threadVars
      <3> QED BY <1>0, <1>2, <3>1, <3>2, <3>3, ClaimsKept DEF ClaimedOnce
    <2>3. CASE UNCHANGED <<state, joiner, tpc, target, claims>>
      BY <1>0, <2>3, ClaimsKept DEF ClaimedOnce
    <2> QED BY <1>3, <2>1, <2>2, <2>3
            DEF Scheduler, BaseLoop, DequeueHead, DequeueBase, DequeueNothing,
                Sleep, WakeUp, SwitchTo, TestFrom, Requeue, threadVars
  <1>4. ASSUME NEW p \in Pthreads, NEW t \in Threads, Call(p, t)
        PROVE  ClaimedOnce'
    <2>1. ASSUME NEW u \in Threads,
                 Create(p, t, u) \/ Unblock(p, t, u) \/ Yield(p, t) \/ Wait(p, t)
                 \/ Exit(p, t)
          PROVE  ClaimedOnce'
      <3>1. UNCHANGED <<target, joiner, claims>>
        BY <2>1 DEF Create, Unblock, Yield, Wait, Exit, threadVars
      <3>2. \A s \in Threads : state'[s] \in {"UNBORN", "FREED"} => state'[s] = state[s]
        BY <1>0, <2>1 DEF Create, Unblock, Yield, Wait, Exit, Typed, TypeOK
      <3>3. \A s \in Threads : \/ tpc'[s] = tpc[s]
                               \/ tpc[s] \notin Claiming /\ tpc'[s] \notin Claiming
        BY <1>0, <2>1 DEF Create, Unblock, Yield, Wait, Exit, At, threadVars,
                          Typed, TypeOK, Claiming
      <3> QED BY <1>0, <1>2, <3>1, <3>2, <3>3, ClaimsKept DEF ClaimedOnce
    <2>2. ASSUME NEW u \in Threads, JoinTest(p, t, u) \/ DetachTest(p, t, u)
          PROVE  ClaimedOnce'
      <3>1. PICK call \in {"join", "detach"} : Claim(p, t, u, call)
        BY <2>2 DEF JoinTest, DetachTest
      <3>2. /\ tpc[t] = "user" /\ target[t] = None /\ u \in Users
            /\ state[u] \notin {"UNBORN", "FREED"}
            /\ claims' = [claims EXCEPT ![u] = @ + 1]
            /\ claims[u] < MaxClaims
            /\ UNCHANGED <<state, joiner>>
        BY <3>1 DEF Claim, At, Claimable, ClaimedOnce, Claiming
      <3>0. claims[u] = 0
        <4>1. claims[u] \in 0..MaxClaims
          BY <1>0 DEF Typed, TypeOK
        <4> QED BY <3>2, <4>1
      <3>3. /\ \A s \in Threads : target[s] # u
            /\ \A s \in Threads : claims[s] # 0 => claims'[s] # 0
            /\ claims'[u] # 0
        BY <1>0, <3>0, <3>2 DEF ClaimedOnce, Typed, TypeOK
      <3>4. CASE UNCHANGED <<tpc, target>>
        BY <1>0, <1>2, <3>2, <3>3, <3>4, ClaimsKept DEF ClaimedOnce
      <3>5. CASE /\ joiner[u] = None
                 /\ tpc' = [tpc EXCEPT ![t] = call]
                 /\ target' = [target EXCEPT ![t] = u]
        <4>1. tpc'[t] = call /\ target'[t] = u
          BY <1>0, <3>5 DEF Typed, TypeOK
        <4>2. \A s \in Threads \ {t} : tpc'[s] = tpc[s] /\ target'[s] = target[s]
          BY <1>0, <3>5 DEF Typed, TypeOK
        <4>3. \A s \in Threads : target'[s] # None <=> tpc'[s] \in Claiming
          BY <4>1, <4>2 DEF ClaimedOnce, Claiming
        <4>4. \A s \in Threads : target'[s] # None =>
                /\ target'[s] \in Users /\ claims'[target'[s]] # 0
                /\ state'[target'[s]] \notin {"UNBORN", "FREED"}
                /\ joiner'[target'[s]] = IF tpc'[s] = "joinWait" THEN s ELSE None
          BY <1>2, <3>2, <3>3, <3>5, <4>1, <4>2 DEF ClaimedOnce
        <4>5. \A s, v \in Threads :
                 target'[s] = target'[v] /\ target'[v] # None => s = v
          BY <3>3, <4>1, <4>2 DEF ClaimedOnce
        <4> QED BY <4>3, <4>4, <4>5 DEF ClaimedOnce
      <3> QED BY <3>1, <3>4, <3>5 DEF Claim
    <2>3. CASE JoinLock(p, t) /\ state[target[t]] \notin {"DYING", "DEAD"}
      <3> DEFINE u == target[t]
      <3>1. /\ tpc[t] = "join" /\ u \in Threads
            /\ tpc' = [tpc EXCEPT ![t] = "joinWait"]
            /\ joiner' = [joiner EXCEPT ![u] = t]
            /\ UNCHANGED <<state, target, claims>>
        BY <1>2, <2>3 DEF JoinLock, At, ClaimedOnce, Claiming
      <3>2. tpc'[t] = "joinWait" /\ joiner'[u] = t
        BY <1>0, <3>1 DEF Typed, TypeOK
      <3>3. \A s \in Threads \ {t} :
               tpc'[s] = tpc[s] /\ (target[s] # None => joiner'[target[s]] = joiner[target[s]])
        BY <1>0, <1>2, <3>1 DEF ClaimedOnce, Typed, TypeOK
      <3> QED BY <1>0, <3>1, <3>2, <3>3 DEF ClaimedOnce, Claiming
    <2>4. CASE \/ JoinLock(p, t) /\ state[target[t]] \in {"DYING", "DEAD"}
               \/ JoinReturn(p, t) \/ DetachLock(p, t)
      <3>1. /\ tpc[t] \in Claiming
            /\ Release(t, target[t], state[target[t]] # "DEAD")
        BY <2>4 DEF JoinLock, JoinReturn, DetachLock, At, Claiming
      <3> QED BY <1>0, <3>1, ReleaseClaims
    <2> QED BY <1>4, <2>1, <2>2, <2>3, <2>4 DEF Call
  <1> QED BY <1>1, <1>3, <1>4 DEF Next

LEMMA FromStep ==
    ASSUME SInv, FromSet, [Next]_vars
    PROVE  FromSet'
  <1>1. CASE UNCHANGED vars
    BY <1>1 DEF vars, FromSet
  <1>2. ASSUME NEW p \in Pthreads, OthersStay(p),
               from'[p] # None => pc'[p] \in Disposing \cup {"resume"}
        PROVE  FromSet'
    <2>1. ASSUME NEW q \in Pthreads \ {p}, from'[q] # None
          PROVE  pc'[q] \in Disposing \cup {"resume"}
      BY <1>2, <2>1 DEF OthersStay, FromSet, Disposing
    <2> QED BY <1>2, <2>1 DEF FromSet
  <1>3. ASSUME NEW p \in Pthreads, NEW t \in Threads, Call(p, t)
        PROVE  FromSet'
    <2>1. OthersStay(p) /\ from' = from /\ pc[p] = "run"
      BY <1>3, CallMoves DEF SInv
    <2>2. from[p] = None
      BY <2>1 DEF FromSet, Disposing
    <2> QED BY <1>2, <2>1, <2>2
  <1>4. ASSUME NEW p \in Pthreads, Scheduler(p)
        PROVE  FromSet'
    <2>0. OthersStay(p)
      BY <1>4, SchedulerMoves DEF SInv
    <2>1. CASE Requeue(p)
      <3>1. pc'[p] = "resume"
        <4>1. from[p] \in Threads
          BY <2>1 DEF Requeue, Locals, SInv, Typed, TypeOK
        <4>2. "resume" \in PthreadPC \ {"asleep"} /\ Typed
          BY DEF PthreadPC, SInv
        <4> QED BY <2>1, <4>1, <4>2, EnqueueOthers DEF Requeue
      <3> QED BY <1>2, <2>0, <3>1
    <2>2. CASE SwitchTo(p) \/ TestFrom(p) \/ Reap(p) \/ Resume(p)
      <3>1. pc'[p] \in Disposing \cup {"resume"} \/ from'[p] = None
        BY <2>2 DEF SwitchTo, TestFrom, Reap, Resume, Disposing, SInv, Typed, TypeOK
      <3> QED BY <1>2, <2>0, <3>1
    <2>3. CASE pc[p] \notin Disposing \cup {"resume"} /\ from' = from
      BY <1>2, <2>0, <2>3 DEF FromSet
    <2> QED BY <1>4, <2>1, <2>2, <2>3
            DEF Scheduler, BaseLoop, DequeueHead, DequeueBase, DequeueNothing,
                Sleep, WakeUp, SetFromState, Disposing
  <1> QED BY <1>1, <1>3, <1>4 DEF Next
-----------------------------------------------------------------------------
(* No thread is lost. *)

\* A thread stays somewhere if it does on the pthread that moves, and is not
\* taken out of where it waits or from its way.
LEMMA StaysSomewhere ==
    ASSUME NEW p \in Pthreads, OthersStay(p), NEW t \in Users, Somewhere(t),
           InFlight(t) => Somewhere(t)',
           tpc[t] = "block" /\ t \in waiting => Somewhere(t)',
           tpc[t] = "joinWait" /\ joiner[target[t]] = t => Somewhere(t)',
           Executes(p, t) \/ Yields(p, t) => Somewhere(t)'
    PROVE  Somewhere(t)'
  <1>1. ASSUME NEW q \in Pthreads \ {p}, Executes(q, t) \/ Yields(q, t)
        PROVE  Executes(q, t)' \/ Yields(q, t)'
    BY <1>1 DEF OthersStay, Executes, Yields, Stopping
  <1>2. ASSUME NEW q \in Pthreads, Executes(q, t)' \/ Yields(q, t)'
        PROVE  Somewhere(t)'
    BY <1>2 DEF Somewhere
  <1> QED BY <1>1, <1>2 DEF Somewhere

LEMMA SchedulerKeepsAll ==
    ASSUME SInv, FromSet, AllSomewhere, NEW p \in Pthreads, Scheduler(p),
           NEW t \in Users, Somewhere(t)
    PROVE  Somewhere(t)'
  <1> USE UthreadAssumption
  <1>0. Typed /\ OthersStay(p) /\ t \in Threads
    BY SchedulerMoves DEF SInv, Users
  <1>1. ASSUME NEW S, Sends(S), UNCHANGED <<joiner, tpc, target, waiting>>,
               Executes(p, t) \/ Yields(p, t) => Somewhere(t)'
        PROVE  Somewhere(t)'
    <2>1. InFlight(t) => InFlight(t)'
      BY <1>0, <1>1 DEF Sends
    <2> QED BY <1>0, <1>1, <2>1, StaysSomewhere DEF Somewhere
  <1>2. CASE BaseLoop(p)
    <2>1. ~Executes(p, t) /\ ~Yields(p, t)
      BY <1>2 DEF BaseLoop, Executes, Yields, Stopping, Users, Bases
    <2> QED BY <1>0, <1>1, <1>2, <2>1, StopSends DEF BaseLoop, threadVars
  <1>3. CASE DequeueHead(p) \/ DequeueBase(p)
    <2>1. /\ pc[p] = "dequeue" /\ pc' = [pc EXCEPT ![p] = "switch"]
          /\ UNCHANGED <<cur, stopState, joiner, tpc, target, waiting>>
      BY <1>3 DEF DequeueHead, DequeueBase, threadVars
    <2>2. Executes(p, t) \/ Yields(p, t) => Yields(p, t)'
      BY <1>0, <2>1 DEF Executes, Yields, Stopping, Typed, TypeOK
    <2>3. \E S : Sends(S)
      BY <1>0, <1>3, DequeueSends
    <2> QED BY <1>1, <2>1, <2>2, <2>3 DEF Somewhere
  <1>4. CASE DequeueNothing(p) \/ Sleep(p) \/ WakeUp(p)
    <2>1. /\ pc[p] \in {"dequeue", "toSleep", "woken"}
          /\ pc[p] = "dequeue" => cur[p] = Base[p]
          /\ UNCHANGED <<joiner, tpc, target, waiting>>
      BY <1>4 DEF DequeueNothing, Sleep, WakeUp, threadVars
    <2>2. ~Executes(p, t) /\ ~Yields(p, t)
      BY <2>1 DEF Executes, Yields, Stopping, Users, Bases
    <2>3. Sends({})
      BY <1>0, <1>4, PthreadSends
    <2> QED BY <1>1, <2>1, <2>2, <2>3
  <1>5. CASE SetFromState(p)
    <2>1. /\ pc[p] = "switch" /\ pc' = [pc EXCEPT ![p] = "spin"]
          /\ UNCHANGED <<cur, stopState, joiner, tpc, target, waiting>>
      BY <1>5 DEF SetFromState, threadVars
    <2>2. Executes(p, t) \/ Yields(p, t) => Yields(p, t)'
      BY <1>0, <2>1 DEF Executes, Yields, Stopping, Typed, TypeOK
    <2>3. Sends({})
      BY <1>0, <1>5, PthreadSends
    <2> QED BY <1>1, <2>1, <2>2, <2>3 DEF Somewhere
  <1>6. CASE SwitchTo(p)
    <2>1. /\ pc[p] = "spin" /\ pc' = [pc EXCEPT ![p] = "after"]
          /\ from' = [from EXCEPT ![p] = cur[p]]
          /\ UNCHANGED <<stopState, joiner, tpc, target, waiting>>
      BY <1>6 DEF SwitchTo, threadVars
    <2>2. Executes(p, t) \/ Yields(p, t) => Yields(p, t)'
      BY <1>0, <2>1 DEF Executes, Yields, Typed, TypeOK
    <2>3. Sends({})
      BY <1>0, <1>6, SwitchSends
    <2> QED BY <1>1, <2>1, <2>2, <2>3 DEF Somewhere
  <1>7. CASE TestFrom(p)
    <2>1. /\ pc[p] = "after" /\ UNCHANGED <<from, stopState>>
          /\ UNCHANGED <<joiner, tpc, target, waiting>>
      BY <1>7 DEF TestFrom, threadVars
    <2>2. ASSUME Yields(p, t)
          PROVE  Yields(p, t)'
      <3>1. from[p] = t /\ stopState[p] = "RUNABLE" /\ LeftBy(p, t)
        BY <2>1, <2>2 DEF Yields, Stopping, LeftBy
      <3>2. state[t] = "RUNABLE"
        BY <1>0, <3>1 DEF SInv, Placement, OneDisposal
      <3>3. pc'[p] = "requeue"
        BY <1>0, <1>7, <3>1, <3>2 DEF TestFrom, Typed, TypeOK
      <3> QED BY <2>1, <3>1, <3>3 DEF Yields
    <2>3. ~Executes(p, t)
      BY <2>1 DEF Executes
    <2>4. Sends({})
      BY <1>0, <1>7, PthreadSends
    <2> QED BY <1>1, <2>1, <2>2, <2>3, <2>4 DEF Somewhere
  <1>8. CASE Reap(p)
    <2>1. ~Executes(p, t) /\ ~Yields(p, t)
      BY <1>8 DEF Reap, Executes, Yields, Stopping
    <2>2. Sends({}) /\ UNCHANGED <<joiner, tpc, target, waiting>>
      BY <1>0, <1>8, PthreadSends DEF Reap, threadVars
    <2> QED BY <1>1, <2>1, <2>2
  <1>9. CASE Requeue(p)
    <2>1. Sends({from[p]}) /\ UNCHANGED <<joiner, tpc, target, waiting>>
      BY <1>0, <1>9, RequeueSends DEF Requeue, threadVars
    <2>2. ~Executes(p, t) /\ (Yields(p, t) => from[p] = t)
      BY <1>9 DEF Requeue, Executes, Yields, Stopping
    <2>3. from[p] = t => InFlight(t)'
      BY <1>0, <2>1 DEF Sends
    <2> QED BY <1>1, <2>1, <2>2, <2>3 DEF Somewhere
  <1>10. CASE Resume(p)
    <2>1. CASE t = cur[p]
      <3>1. Executes(p, t)'
        BY <1>0, <1>10, <2>1 DEF Resume, Executes, Typed, TypeOK
      <3> QED BY <3>1 DEF Somewhere
    <2>2. CASE t # cur[p]
      <3>1. ~Executes(p, t) /\ ~Yields(p, t)
        BY <1>10, <2>2 DEF Resume, Executes, Yields, Stopping
      <3>2. InFlight(t)' <=> InFlight(t)
        BY <1>0, <1>10, <2>2, ResumeFlight
      <3>3. tpc'[t] = tpc[t] /\ UNCHANGED <<joiner, target, waiting>>
        BY <1>0, <1>10, <2>2 DEF Resume, Typed, TypeOK
      <3> QED BY <1>0, <3>1, <3>2, <3>3, StaysSomewhere DEF Somewhere
    <2> QED BY <2>1, <2>2
  <1> QED BY <1>2, <1>3, <1>4, <1>5, <1>6, <1>7, <1>8, <1>9, <1>10 DEF Scheduler

LEMMA CallSends ==
    ASSUME Typed, NEW p \in Pthreads, NEW t \in Threads, Call(p, t)
    PROVE  \A s \in Threads : InFlight(s) => InFlight(s)'
  <1>1. \E S : Sends(S)
    BY CreateSends, UnblockSends, StopSends, ExitSends, JoinSends DEF Call
  <1> QED BY <1>1 DEF Sends

\* What a call of t changes of the calls of the other threads.
LEMMA CallOthers ==
    ASSUME Typed, ClaimedOnce, NEW p \in Pthreads, NEW t \in Threads, Call(p, t),
           NEW s \in Threads, s # t
    PROVE  /\ tpc'[s] = tpc[s] /\ target'[s] = target[s]
           /\ tpc[s] = "joinWait" => joiner'[target[s]] = joiner[target[s]]
           /\ s \in waiting => s \in waiting' \/ InFlight(s)'
  <1> USE UthreadAssumption
  <1>0. Typed
    OBVIOUS
  <1>1. ASSUME NEW u \in Threads, Unblock(p, t, u)
        PROVE  s \in waiting => s \in waiting' \/ InFlight(s)'
    <2>1. waiting' = waiting \ {u} /\ Sends({u})
      BY <1>0, <1>1, UnblockSends DEF Unblock
    <2> QED BY <2>1 DEF Sends
  <1>2. (\E u \in Threads : Unblock(p, t, u)) \/ waiting \subseteq waiting'
    BY DEF Call, Create, Yield, Wait, Exit, JoinTest, DetachTest, Claim, JoinLock,
           JoinReturn, DetachLock, Release, threadVars
  <1>3. tpc'[s] = tpc[s] /\ target'[s] = target[s]
    BY <1>0 DEF Call, Create, Unblock, Yield, Wait, Exit, JoinTest, DetachTest,
                Claim, JoinLock, JoinReturn, DetachLock, Release, threadVars,
                Typed, TypeOK
  <1>4. ASSUME tpc[s] = "joinWait"
        PROVE  joiner'[target[s]] = joiner[target[s]]
    <2>1. target[s] \in Threads
      BY <1>0, <1>4 DEF ClaimedOnce, Claiming, Typed, TypeOK
    <2>2. target[t] # target[s]
      BY <2>1 DEF ClaimedOnce
    <2>3. \/ joiner' = joiner
          \/ \E j : joiner' = [joiner EXCEPT ![target[t]] = j]
      BY DEF Call, Create, Unblock, Yield, Wait, Exit, JoinTest, DetachTest,
             Claim, JoinLock, JoinReturn, DetachLock, Release
    <2> QED BY <1>0, <2>1, <2>2, <2>3 DEF Typed, TypeOK
  <1> QED BY <1>1, <1>2, <1>3, <1>4

LEMMA CallKeepsAll ==
    ASSUME SInv, ClaimedOnce, NEW p \in Pthreads, NEW t \in Threads, Call(p, t),
           NEW s \in Users, Somewhere(s)
    PROVE  state'[s] \in Exited \/ Somewhere(s)'
  <1>0. Typed /\ s \in Threads
    BY DEF SInv, Users
  <1>1. /\ OthersStay(p) /\ cur' = cur
        /\ pc[p] = "run" /\ cur[p] = t /\ t \in Users
        /\ pc'[p] \in {"run", "dequeue"}
    BY <1>0, CallMoves
  <1>2. CASE s # t
    <2>1. ~Executes(p, s) /\ ~Yields(p, s)
      BY <1>1, <1>2 DEF Executes, Yields, Stopping
    <2>2. InFlight(s) => InFlight(s)'
      BY <1>0, CallSends
    <2>3. /\ tpc'[s] = tpc[s] /\ target'[s] = target[s]
          /\ tpc[s] = "joinWait" => joiner'[target[s]] = joiner[target[s]]
          /\ s \in waiting => s \in waiting' \/ InFlight(s)'
      BY <1>0, <1>2, CallOthers
    <2> QED BY <1>1, <2>1, <2>2, <2>3, StaysSomewhere DEF Somewhere
  <1>3. CASE s = t
    <2>1. CASE pc'[p] = "run"
      BY <1>1, <1>3, <2>1 DEF Somewhere, Executes
    <2>2. CASE Yield(p, t)
      <3>1. Yields(p, t)'
        BY <1>0, <1>1, <2>2 DEF Yield, Stop, Yields, Stopping, Typed, TypeOK
      <3> QED BY <1>3, <3>1 DEF Somewhere
    <2>3. CASE Wait(p, t)
      <3>1. tpc'[t] = "block" /\ t \in waiting'
        BY <1>0, <2>3 DEF Wait, Typed, TypeOK
      <3> QED BY <1>3, <3>1 DEF Somewhere
    <2>4. CASE Exit(p, t)
      BY <1>0, <1>3, <2>4 DEF Exit, Exited, Typed, TypeOK
    <2>5. CASE JoinLock(p, t) /\ state[target[t]] \notin {"DYING", "DEAD"}
      <3>1. target[t] \in Threads
        BY <1>0, <2>5 DEF JoinLock, At, ClaimedOnce, Claiming, Typed, TypeOK
      <3>2. tpc'[t] = "joinWait" /\ target' = target /\ joiner'[target[t]] = t
        BY <1>0, <2>5, <3>1 DEF JoinLock, Typed, TypeOK
      <3> QED BY <1>3, <3>2 DEF Somewhere
    <2>6. CASE \/ \E u \in Threads : JoinTest(p, t, u) \/ DetachTest(p, t, u)
               \/ JoinLock(p, t) /\ state[target[t]] \in {"DYING", "DEAD"}
               \/ JoinReturn(p, t) \/ DetachLock(p, t)
      <3>1. pc' = pc
        BY <2>6 DEF JoinTest, DetachTest, Claim, JoinLock, JoinReturn, DetachLock
      <3> QED BY <1>1, <2>1, <3>1
    <2>7. ASSUME NEW u \in Threads, Create(p, t, u) \/ Unblock(p, t, u)
          PROVE  pc'[p] = "run"
      <3>1. ReadyEnqueue(u, pc) /\ "run" \in PthreadPC \ {"asleep"}
        BY <2>7 DEF Create, Unblock, PthreadPC
      <3>2. pc = [pc EXCEPT ![p] = "run"]
        BY <1>0, <1>1 DEF Typed, TypeOK
      <3>3. ReadyEnqueue(u, [pc EXCEPT ![p] = "run"])
        BY <3>1, <3>2
      <3> QED BY <1>0, <3>1, <3>3, EnqueueOthers
    <2> QED BY <2>1, <2>2, <2>3, <2>4, <2>5, <2>6, <2>7 DEF Call
  <1> QED BY <1>2, <1>3

\* uthread_create makes u, and the return of start_proc ends its caller; no
\* other call changes who is alive.
LEMMA CallLife ==
    ASSUME Typed, ClaimedOnce, NEW p \in Pthreads, NEW t \in Threads, Call(p, t)
    PROVE  \A s \in Threads :
             SameLife(s) \/ Create(p, t, s) \/ (Exit(p, t) /\ s = t)
  <1>0. Typed
    OBVIOUS
  <1>1. CASE \/ JoinLock(p, t) /\ state[target[t]] \in {"DYING", "DEAD"}
             \/ JoinReturn(p, t) \/ DetachLock(p, t)
    <2>1. /\ tpc[t] \in Claiming
          /\ Release(t, target[t], state[target[t]] # "DEAD")
      BY <1>1 DEF JoinLock, JoinReturn, DetachLock, At, Claiming
    <2>2. target[t] \in Threads
      BY <1>0, <2>1 DEF ClaimedOnce, Typed, TypeOK
    <2> QED BY <1>0, <2>1, <2>2, ReleaseLife
  <1>2. ASSUME NEW u \in Threads, Create(p, t, u)
        PROVE  \A s \in Threads : SameLife(s) \/ s = u
    BY <1>0, <1>2 DEF Create, SameLife, Typed, TypeOK
  <1>3. CASE Exit(p, t)
    BY <1>0, <1>3 DEF Exit, SameLife, Typed, TypeOK
  <1>4. CASE UNCHANGED state
    BY <1>4 DEF SameLife
  <1> QED BY <1>1, <1>2, <1>3, <1>4
          DEF Call, Unblock, Yield, Wait, JoinTest, DetachTest, Claim, JoinLock

LEMMA AllStep ==
    ASSUME SInv, ClaimedOnce, FromSet, AllSomewhere, [Next]_vars
    PROVE  AllSomewhere'
  <1>0. Typed /\ Users \subseteq Threads
    BY DEF SInv, Users
  <1>1. CASE UNCHANGED vars
    BY <1>1 DEF vars, queueVars, threadVars, AllSomewhere, Somewhere, InFlight,
                Executes, Yields
  <1>2. ASSUME NEW p \in Pthreads, Scheduler(p)
        PROVE  AllSomewhere'
    <2>1. \A s \in Users : SameLife(s)
      BY <1>0, <1>2, SchedulerLife
    <2>2. \A s \in Users : Somewhere(s) => Somewhere(s)'
      BY <1>2, SchedulerKeepsAll
    <2> QED BY <2>1, <2>2 DEF AllSomewhere, SameLife
  <1>3. ASSUME NEW p \in Pthreads, NEW t \in Threads, Call(p, t)
        PROVE  AllSomewhere'
    <2> SUFFICES ASSUME NEW s \in Users
                 PROVE  state'[s] \in Exited \cup {"UNBORN"} \/ Somewhere(s)'
      BY DEF AllSomewhere
    <2>1. CASE Create(p, t, s)
      <3>1. Sends({s})
        BY <1>0, <2>1, CreateSends
      <3> QED BY <1>0, <3>1 DEF Sends, Somewhere
    <2>2. CASE Exit(p, t) /\ s = t
      BY <1>0, <2>2 DEF Exit, Exited, Typed, TypeOK
    <2>3. CASE SameLife(s)
      <3>1. Somewhere(s) => state'[s] \in Exited \/ Somewhere(s)'
        BY <1>3, CallKeepsAll
      <3> QED BY <2>3, <3>1 DEF AllSomewhere, SameLife
    <2> QED BY <1>0, <1>3, <2>1, <2>2, <2>3, CallLife
  <1> QED BY <1>1, <1>2, <1>3 DEF Next
-----------------------------------------------------------------------------
(* A joiner is started. *)

LEMMA SchedulerFlight ==
    ASSUME SInv, NEW p \in Pthreads, Scheduler(p), NEW t \in Users
    PROVE  /\ InFlight(t) => InFlight(t)' \/ Executes(p, t)'
           /\ ~Executes(p, t)
           /\ target' = target
           /\ tpc'[t] = "joinWait" => tpc[t] = "joinWait"
  <1>0. Typed /\ t \in Threads
    BY DEF SInv, Users
  <1>1. CASE Resume(p)
    <2>1. pc[p] = "resume" /\ pc'[p] = "run" /\ cur' = cur /\ target' = target
      BY <1>0, <1>1 DEF Resume, Typed, TypeOK
    <2>2. InFlight(t) => InFlight(t)' \/ cur[p] = t
      BY <1>0, <1>1, ResumeFlight
    <2>3. tpc'[t] = "joinWait" => tpc[t] = "joinWait"
      BY <1>0, <1>1 DEF Resume, Typed, TypeOK
    <2> QED BY <2>1, <2>2, <2>3 DEF Executes
  <1>2. CASE ~Resume(p)
    <2>1. \E S : Sends(S)
      BY <1>0, <1>2, StopSends, DequeueSends, SwitchSends, PthreadSends, RequeueSends
         DEF Scheduler
    <2>2. UNCHANGED <<tpc, target>>
      BY <1>2 DEF Scheduler, BaseLoop, DequeueHead, DequeueBase, DequeueNothing,
                  Sleep, WakeUp, SetFromState, SwitchTo, TestFrom, Reap, Requeue,
                  threadVars
    <2>3. pc[p] = "run" => cur[p] = Base[p]
      BY <1>2 DEF Scheduler, BaseLoop, DequeueHead, DequeueBase, DequeueNothing,
                  Sleep, WakeUp, SetFromState, SwitchTo, TestFrom, Reap, Requeue
    <2> QED BY <1>0, <2>1, <2>2, <2>3 DEF Sends, Executes, Users, Bases
  <1> QED BY <1>1, <1>2

LEMMA ExecutesElsewhere ==
    ASSUME NEW p \in Pthreads, OthersStay(p), NEW q \in Pthreads \ {p},
           NEW t \in Users, Executes(q, t)
    PROVE  Executes(q, t)'
  BY DEF OthersStay, Executes

LEMMA JoinerStep ==
    ASSUME SInv, ClaimedOnce, JoinerStarted, [Next]_vars
    PROVE  JoinerStarted'
  <1>0. Typed /\ Users \subseteq Threads
    BY DEF SInv, Users
  <1>1. CASE UNCHANGED vars
    BY <1>1 DEF vars, queueVars, threadVars, JoinerStarted, InFlight, Executes
  <1>2. ASSUME NEW p \in Pthreads, Scheduler(p), NEW t \in Users,
               tpc'[t] = "joinWait", state'[target'[t]] \in Exited
        PROVE  InFlight(t)' \/ \E q \in Pthreads : Executes(q, t)'
    <2>1. tpc[t] = "joinWait" /\ target'[t] = target[t]
      BY <1>2, SchedulerFlight
    <2>2. target[t] \in Threads
      BY <1>0, <2>1, UthreadAssumption DEF ClaimedOnce, Claiming, Typed, TypeOK
    <2>3. state[target[t]] \in Exited
      BY <1>2, <2>1, <2>2, SchedulerLife DEF SameLife
    <2>4. InFlight(t) \/ \E q \in Pthreads : Executes(q, t)
      BY <2>1, <2>3 DEF JoinerStarted
    <2>5. OthersStay(p)
      BY <1>0, <1>2, SchedulerMoves
    <2> QED BY <1>2, <2>4, <2>5, SchedulerFlight, ExecutesElsewhere
  <1>3. ASSUME NEW p \in Pthreads, NEW c \in Threads, Call(p, c), NEW t \in Users,
               tpc'[t] = "joinWait", state'[target'[t]] \in Exited
        PROVE  InFlight(t)' \/ \E q \in Pthreads : Executes(q, t)'
    <2>0. /\ OthersStay(p) /\ pc[p] = "run" /\ cur[p] = c
      BY <1>0, <1>3, CallMoves
    <2>1. CASE t # c
      <3>1. tpc[t] = "joinWait" /\ target'[t] = target[t]
        BY <1>0, <1>3, <2>1, CallOthers
      <3>2. target[t] \in Threads /\ joiner[target[t]] = t
        BY <1>0, <3>1, UthreadAssumption DEF ClaimedOnce, Claiming, Typed, TypeOK
      <3>3. CASE SameLife(target[t])
        <4>1. InFlight(t) \/ \E q \in Pthreads : Executes(q, t)
          BY <1>3, <3>1, <3>3 DEF JoinerStarted, SameLife
        <4>2. ~Executes(p, t)
          BY <2>0, <2>1 DEF Executes
        <4>3. InFlight(t) => InFlight(t)'
          BY <1>0, <1>3, CallSends
        <4> QED BY <2>0, <4>1, <4>2, <4>3, ExecutesElsewhere
      <3>4. CASE Create(p, c, target[t])
        BY <1>0, <1>3, <3>1, <3>2, <3>4 DEF Create, Exited, Typed, TypeOK
      <3>5. CASE Exit(p, c) /\ target[t] = c
        <4>1. t \notin {None, Detached}
          BY <1>0, UthreadAssumption
        <4>2. Sends({joiner[c]} \ {None, Detached})
          BY <1>0, <3>5, ExitSends
        <4> QED BY <1>0, <3>2, <3>5, <4>1, <4>2 DEF Sends
      <3> QED BY <1>0, <1>3, <3>2, <3>3, <3>4, <3>5, CallLife
    <2>2. CASE t = c
      <3>1. JoinLock(p, c) /\ state[target[c]] \notin {"DYING", "DEAD"}
        BY <1>0, <1>3, <2>2
           DEF Call, Create, Unblock, Yield, Wait, Exit, JoinTest, DetachTest, Claim,
               JoinLock, JoinReturn, DetachLock, Release, At, threadVars,
               Typed, TypeOK
      <3>2. state' = state /\ target' = target /\ tpc[c] = "join"
        BY <3>1 DEF JoinLock, At
      <3>3. state[target[c]] # "FREED"
        BY <3>2 DEF ClaimedOnce, Claiming
      <3> QED BY <1>3, <2>2, <3>1, <3>2, <3>3 DEF Exited
    <2> QED BY <2>1, <2>2
  <1> QED BY <1>1, <1>2, <1>3 DEF Next, JoinerStarted
-----------------------------------------------------------------------------
LEMMA JInvStep ==
    ASSUME ~LateCheck, MaxClaims <= 1, JInv, [Next]_vars
    PROVE  JInv'
  <1>1. SInv'
    BY YieldStep, TypedStep, PlacementStep DEF JInv, SInv
  <1>2. Typed
    BY DEF JInv, SInv
  <1> QED BY <1>1, <1>2, ClaimedStep, FromStep, AllStep, JoinerStep DEF JInv

LEMMA JInvInit == Init => JInv
  <1> SUFFICES ASSUME Init PROVE JInv
    OBVIOUS
  <1> USE UthreadAssumption
  <1>1. SInv
    BY SInvInit
  <1>2. ClaimedOnce /\ FromSet
    BY DEF Init, ClaimedOnce, FromSet, Claiming
  <1>3. JoinerStarted
    BY DEF Init, JoinerStarted, Users
  <1>4. AllSomewhere
    <2>1. Executes(MainPthread, Main)
      BY DEF Init, Executes
    <2>2. \A t \in Users : t = Main \/ state[t] = "UNBORN"
      BY DEF Init, Users, Bases
    <2> QED BY <2>1, <2>2 DEF AllSomewhere, Somewhere
  <1> QED BY <1>1, <1>2, <1>3, <1>4 DEF JInv

\* A thread that waits to be unblocked, or in a join, or yields, is found there
\* by the thread or pthread that must start it again.
LEMMA NoneLost == JInv => NoThreadLost
  <1> SUFFICES ASSUME JInv, NEW t \in Users,
                      state[t] \notin Exited \cup {"UNBORN"}
               PROVE  \/ \E p \in Pthreads : cur[p] = t
                      \/ t \in waiting
                      \/ tpc[t] = "joinWait" /\ joiner[target[t]] = t
                      \/ InFlight(t)
                      \/ \E p \in Pthreads : from[p] = t /\ pc[p] \in {"after", "requeue"}
    BY DEF NoThreadLost, Exited
  <1>1. Somewhere(t)
    BY DEF JInv, AllSomewhere
  <1> QED BY <1>1 DEF Somewhere, Executes, Yields

\* The thread that executes was not sent on its way, so its join returns
\* because somebody else's exit started it.
LEMMA Meets == JInv => JoinMeetsExit
  <1> SUFFICES ASSUME JInv PROVE JoinAfterExit /\ JoinerReleased
    BY DEF JoinMeetsExit
  <1>0. SInv /\ Typed /\ Placement /\ ClaimedOnce /\ Users \subseteq Threads
    BY DEF JInv, SInv, Users
  <1>1. ASSUME NEW p \in Pthreads, NEW t \in Users, At(p, t, "joinWait")
        PROVE  state[target[t]] \in {"DYING", "DEAD"}
    <2>1. /\ target[t] \in Threads /\ joiner[target[t]] = t
          /\ state[target[t]] # "FREED"
      BY <1>0, <1>1, UthreadAssumption DEF At, ClaimedOnce, Claiming, Typed, TypeOK
    <2>2. ~Going(t)
      BY <1>0, <1>1, RunningIsNotGoing DEF At
    <2>3. state[target[t]] \in Exited
      BY <2>1, <2>2 DEF Going, StartsAtExit
    <2> QED BY <2>1, <2>3 DEF Exited
  <1>2. JoinerReleased
    BY DEF JInv, JoinerStarted, JoinerReleased, Executes, Occupies, Exited
  <1> QED BY <1>1, <1>2 DEF JoinAfterExit

\* Who frees a thread comes second, after the pthread that left its stack or
\* after the thread that claimed it, and nobody comes third.
LEMMA FreedIsUnused == JInv => NoUseAfterFree
  <1> SUFFICES ASSUME JInv, NEW t \in Threads, state[t] = "FREED"
               PROVE  /\ ~InFlight(t)
                      /\ \A p \in Pthreads :
                           cur[p] # t /\ (from[p] = t => pc[p] = "resume")
                      /\ \A u \in Threads :
                           target[u] # t /\ (joiner[u] = t => state[u] \in Exited)
    BY DEF NoUseAfterFree, Exited
  <1> USE UthreadAssumption
  <1>0. Typed /\ Placement /\ ClaimedOnce /\ FromSet
    BY DEF JInv, SInv
  <1>1. ~Going(t) /\ \A p \in Pthreads : ~Occupies(p, t) /\ ~LeftBy(p, t)
    <2>1. ~Going(t)
      BY <1>0 DEF Placement, ExitedIsGone, Exited
    <2>2. ASSUME NEW p \in Pthreads, Occupies(p, t)
          PROVE  FALSE
      <3>1. pc[p] \in {"dequeue", "switch"} /\ stopState[p] = "DYING" /\ cur[p] = t
        BY <1>0, <2>2 DEF Placement, ExitedIsGone, Exited, Occupies
      <3>2. state[cur[p]] = "DYING"
        BY <1>0, <3>1 DEF Placement, StateWhileOn
      <3> QED BY <3>1, <3>2
    <2>3. ASSUME NEW p \in Pthreads, LeftBy(p, t)
          PROVE  FALSE
      <3>1. stopState[p] \in StopState
        BY <1>0 DEF Typed, TypeOK
      <3> QED BY <1>0, <2>3, <3>1 DEF Placement, OneDisposal, StopState
    <2> QED BY <2>1, <2>2, <2>3
  <1>2. \A p \in Pthreads : cur[p] # t /\ (from[p] = t => pc[p] = "resume")
    BY <1>0, <1>1 DEF Occupies, LeftBy, FromSet, Disposing
  <1>3. ~InFlight(t)
    BY <1>1, <1>2 DEF InFlight, Going, Dispatched
  <1>4. \A u \in Threads : target[u] # t /\ (joiner[u] = t => state[u] \in Exited)
    BY <1>0, <1>1 DEF ClaimedOnce, Going, StartsAtExit
  <1> QED BY <1>2, <1>3, <1>4

\* No thread is forgotten, whatever its clients do with the scheduler.
THEOREM NoThreadLostCorrect ==
    ASSUME ~LateCheck, MaxClaims <= 1 PROVE Spec => []NoThreadLost
  BY JInvInit, JInvStep, NoneLost, PTL DEF Spec

\* A join returns when its target has exited, and not before.
THEOREM JoinMeetsExitCorrect ==
    ASSUME ~LateCheck, MaxClaims <= 1 PROVE Spec => []JoinMeetsExit
  BY JInvInit, JInvStep, Meets, PTL DEF Spec

\* The TCB and stack of a thread are freed once, after their last use.
THEOREM NoUseAfterFreeCorrect ==
    ASSUME ~LateCheck, MaxClaims <= 1 PROVE Spec => []NoUseAfterFree
  BY JInvInit, JInvStep, FreedIsUnused, PTL DEF Spec
-----------------------------------------------------------------------------
(* The refinement of ThreadLife. *)

LifeOf(t) ==
    CASE state[t] = "UNBORN" -> "unborn"
      [] state[t] \in {"DYING", "DEAD", "FREED"} -> "exited"
      [] OTHER -> "alive"

JoiningOf(t) == IF tpc[t] \in {"join", "joinWait"} THEN target[t] ELSE None

LEMMA SameLifeOf ==
    ASSUME NEW s \in Threads, SameLife(s)
    PROVE  LifeOf(s)' = LifeOf(s)
  BY DEF SameLife, LifeOf, Exited

\* A step that changes nobody's life and nobody's join.
LEMMA LifeStutters ==
    ASSUME \A s \in Users : LifeOf(s)' = LifeOf(s) /\ JoiningOf(s)' = JoiningOf(s)
    PROVE  UNCHANGED Life!lifeVars
  BY DEF LifeOf, JoiningOf, Life!lifeVars

LEMMA LifeStep ==
    ASSUME JInv, [Next]_vars
    PROVE  Life!LifeNext \/ UNCHANGED Life!lifeVars
  <1> USE UthreadAssumption
  <1>0. /\ SInv /\ Typed /\ ClaimedOnce /\ JoinAfterExit
        /\ Users \subseteq Threads /\ None \notin Users
    BY Meets DEF JInv, SInv, Users, JoinMeetsExit
  <1>1. CASE UNCHANGED vars
    BY <1>1, LifeStutters DEF vars, threadVars, LifeOf, JoiningOf
  <1>2. ASSUME NEW p \in Pthreads, Scheduler(p)
        PROVE  UNCHANGED Life!lifeVars
    <2>1. \A s \in Users : LifeOf(s)' = LifeOf(s)
      BY <1>0, <1>2, SchedulerLife, SameLifeOf
    <2>2. \A s \in Users : JoiningOf(s)' = JoiningOf(s)
      <3>1. CASE Resume(p)
        BY <1>0, <3>1 DEF Resume, JoiningOf, Typed, TypeOK
      <3>2. CASE UNCHANGED <<tpc, target>>
        BY <3>2 DEF JoiningOf
      <3> QED BY <1>2, <3>1, <3>2
              DEF Scheduler, BaseLoop, DequeueHead, DequeueBase, DequeueNothing,
                  Sleep, WakeUp, SetFromState, SwitchTo, TestFrom, Reap, Requeue,
                  threadVars
    <2> QED BY <2>1, <2>2, LifeStutters
  <1>3. ASSUME NEW p \in Pthreads, NEW t \in Threads, Call(p, t)
        PROVE  Life!LifeNext \/ UNCHANGED Life!lifeVars
    <2>0. /\ t \in Users /\ pc[p] = "run" /\ cur[p] = t
          /\ LifeOf(t) = "alive"
      BY <1>0, <1>3, CallMoves, CallerAlive DEF LifeOf
    <2>1. \A s \in Users \ {t} : JoiningOf(s)' = JoiningOf(s)
      BY <1>0, <1>3, CallOthers DEF JoiningOf
    <2>2. tpc[t] = "user" => JoiningOf(t) = None
      BY DEF JoiningOf
    <2>3. ASSUME NEW u \in Threads, Create(p, t, u)
          PROVE  Life!Start(t, u) /\ u \in Users
      <3>1. /\ u \in Users /\ LifeOf(u) = "unborn" /\ LifeOf(u)' = "alive"
            /\ tpc[t] = "user" /\ UNCHANGED <<tpc, target>>
            /\ \A s \in Users \ {u} : LifeOf(s)' = LifeOf(s)
        BY <1>0, <2>3 DEF Create, At, LifeOf, threadVars, Typed, TypeOK
      <3>2. \A s \in Users : JoiningOf(s)' = JoiningOf(s)
        BY <3>1 DEF JoiningOf
      <3> QED BY <2>0, <2>2, <3>1, <3>2 DEF Life!Start, Life!Runs, LifeOf, JoiningOf
    <2>4. CASE Exit(p, t)
      <3>1. /\ LifeOf(t)' = "exited"
            /\ tpc[t] = "user" /\ UNCHANGED <<tpc, target>>
            /\ \A s \in Users \ {t} : LifeOf(s)' = LifeOf(s)
        BY <1>0, <2>4 DEF Exit, At, LifeOf, Typed, TypeOK
      <3>2. \A s \in Users : JoiningOf(s)' = JoiningOf(s)
        BY <3>1 DEF JoiningOf
      <3>3. Life!End(t)
        BY <2>0, <2>2, <3>1, <3>2 DEF Life!End, Life!Runs, LifeOf, JoiningOf
      <3> QED BY <2>0, <3>3 DEF Life!LifeNext
    <2>5. ASSUME ~Exit(p, t), \A u \in Threads : ~Create(p, t, u)
          PROVE  \A s \in Users : LifeOf(s)' = LifeOf(s)
      BY <1>0, <1>3, <2>5, CallLife, SameLifeOf
    <2>6. ASSUME NEW u \in Users, u # t, Claim(p, t, u, "join"), joiner[u] = None
          PROVE  Life!Join(t, u)
      <3>1. /\ tpc[t] = "user" /\ JoiningOf(t)' = u /\ LifeOf(u) # "unborn"
            /\ state' = state
        BY <1>0, <2>6 DEF Claim, At, Claimable, JoiningOf, LifeOf, Typed, TypeOK
      <3> QED BY <2>0, <2>1, <2>2, <3>1
              DEF Life!Join, Life!Runs, LifeOf, JoiningOf
    <2>7. ASSUME tpc[t] \in {"join", "joinWait"}, ~Exit(p, t),
                 \A u \in Threads : ~Create(p, t, u),
                 state[target[t]] \in {"DYING", "DEAD"},
                 Release(t, target[t], state[target[t]] # "DEAD")
          PROVE  Life!JoinEnds(t)
      <3>1. target[t] \in Users /\ LifeOf(target[t]) = "exited"
        BY <1>0, <2>7 DEF ClaimedOnce, Claiming, LifeOf
      <3>2. JoiningOf(t) = target[t] /\ JoiningOf(t)' = None
        BY <1>0, <2>7 DEF Release, JoiningOf, Typed, TypeOK
      <3> QED BY <1>0, <2>0, <2>1, <2>5, <2>7, <3>1, <3>2
              DEF Life!JoinEnds, LifeOf, JoiningOf
    <2>8. ASSUME ~Exit(p, t), \A u \in Threads : ~Create(p, t, u)
          PROVE  Life!LifeNext \/ UNCHANGED Life!lifeVars
      <3>0. JoiningOf(t)' = JoiningOf(t) => UNCHANGED Life!lifeVars
        BY <2>1, <2>5, <2>8, LifeStutters
      <3>1. ASSUME NEW u \in Threads, JoinTest(p, t, u)
            PROVE  Life!LifeNext \/ UNCHANGED Life!lifeVars
        <4>1. u # t /\ Claim(p, t, u, "join") /\ u \in Users
          BY <3>1 DEF JoinTest, Claim, Claimable
        <4>2. CASE joiner[u] = None
          BY <2>0, <2>6, <4>1, <4>2 DEF Life!LifeNext
        <4>3. CASE joiner[u] # None
          BY <3>0, <4>1, <4>3 DEF Claim, JoiningOf
        <4> QED BY <4>2, <4>3
      <3>2. CASE \/ \E u \in Threads : DetachTest(p, t, u) \/ Unblock(p, t, u)
                 \/ Yield(p, t) \/ Wait(p, t) \/ DetachLock(p, t)
        <4>1. JoiningOf(t)' = JoiningOf(t)
          BY <1>0, <3>2 DEF DetachTest, Claim, Unblock, Yield, Wait, DetachLock,
                            Release, At, threadVars, JoiningOf, Typed, TypeOK
        <4> QED BY <3>0, <4>1
      <3>3. CASE JoinLock(p, t) /\ state[target[t]] \notin {"DYING", "DEAD"}
        <4>1. JoiningOf(t)' = JoiningOf(t)
          BY <1>0, <3>3 DEF JoinLock, At, JoiningOf, Typed, TypeOK
        <4> QED BY <3>0, <4>1
      <3>4. CASE \/ JoinLock(p, t) /\ state[target[t]] \in {"DYING", "DEAD"}
                 \/ JoinReturn(p, t)
        <4>1. state[target[t]] \in {"DYING", "DEAD"}
          BY <1>0, <2>0, <3>4 DEF JoinReturn, JoinAfterExit
        <4>2. /\ tpc[t] \in {"join", "joinWait"}
              /\ Release(t, target[t], state[target[t]] # "DEAD")
          BY <3>4 DEF JoinLock, JoinReturn, At
        <4> QED BY <2>0, <2>7, <2>8, <4>1, <4>2 DEF Life!LifeNext
      <3> QED BY <1>3, <2>8, <3>1, <3>2, <3>3, <3>4 DEF Call
    <2> QED BY <2>0, <2>3, <2>4, <2>8 DEF Life!LifeNext
  <1> QED BY <1>1, <1>2, <1>3 DEF Next

LEMMA LifeInitially == Init => Life!LifeInit
  <1> SUFFICES ASSUME Init PROVE Life!LifeInit
    OBVIOUS
  <1>1. \A t \in Users : /\ LifeOf(t) = IF t = Main THEN "alive" ELSE "unborn"
                         /\ JoiningOf(t) = None
    BY UthreadAssumption DEF Init, LifeOf, JoiningOf, Users, Bases
  <1> QED BY <1>1 DEF Life!LifeInit, LifeOf, JoiningOf

\* To the programs that create and join threads, every step of the library is
\* one of ThreadLife or invisible.
THEOREM ImplementsLifeCorrect ==
    ASSUME ~LateCheck, MaxClaims <= 1 PROVE Spec => ImplementsLife
  <1>1. JInv /\ [Next]_vars => [Life!LifeNext]_Life!lifeVars
    BY LifeStep
  <1> QED BY <1>1, LifeInitially, JInvInit, JInvStep, PTL
          DEF Spec, ImplementsLife, Life!LifeSpec
-----------------------------------------------------------------------------
(***************************************************************************)
(* The earlier uthread packages, for every number of pthreads and threads. *)
(*                                                                         *)
(* A thread that yields is in the ready queue before it leaves its stack,  *)
(* and nothing looks at from_thread->state but to dispose of a thread that *)
(* exited.  So, unlike above, nothing here depends on how long  *)
(* a pthread is delayed: no uthread executes on two pthreads, and none is  *)
(* enqueued twice, with LateCheck and without.                             *)
(***************************************************************************)

\* Nobody sleeps in ready_queue_dequeue, and nobody puts a thread it left back.
NoSleepers ==
    \A p \in Pthreads : pc[p] \notin {"toSleep", "asleep", "woken", "requeue"}

\* A thread that is sent to a pthread while it still executes is on its way
\* to stop: it blocks, joins or yields, and is RUNNING until it has.
SpinStopsFirst ==
    \A p \in Pthreads : \A t \in Threads :
        Going(t) /\ Occupies(p, t) =>
            pc[p] \in {"dequeue", "switch"} /\ state[t] = "RUNNING"

\* A thread that exits may be disposed of by a pthread that left it long
\* before, while the pthread it exits on still dequeues a successor.
SpinStateWhileOn ==
    \A p \in Pthreads :
        /\ pc[p] = "run" => state[cur[p]] = "RUNNING"
        /\ pc[p] \in {"dequeue", "switch"} =>
              IF stopState[p] = "DYING" THEN state[cur[p]] \in Exited
                                        ELSE state[cur[p]] = "RUNNING"

\* A thread not created yet is nowhere.
UnbornIsIdle ==
    \A t \in Threads : state[t] = "UNBORN" => Idle(t) /\ tpc[t] = "user"

\* What was seen DYING has exited, whoever disposed of it meanwhile.
ReapsExited == \A p \in Pthreads : pc[p] = "reap" => state[from[p]] \in Exited

SpinPlacement ==
    /\ NoSleepers
    /\ OneDispatch
    /\ SpinStopsFirst
    /\ SpinStateWhileOn
    /\ ExitedIsGone
    /\ UnbornIsIdle
    /\ ReapsExited
    /\ ExclusiveExecution

SpinInv == Typed /\ SpinPlacement
-----------------------------------------------------------------------------
(* Types: all steps but two are steps of Uthread. *)

\* With nobody asleep ready_queue_enqueue inserts and does no more.
LEMMA SpinEnqueue ==
    ASSUME Typed, NoSleepers, NEW t \in Threads, NEW p \in Pthreads,
           NEW l \in {"run", "dequeue"}, ReadyEnqueue(t, [pc EXCEPT ![p] = l])
    PROVE  /\ ready' \in Seq(Threads)
           /\ ToSet(ready') = ToSet(ready) \cup {t}
           /\ IsInjective(ready) => IsInjective(ready')
           /\ pc' = [pc EXCEPT ![p] = l]
           /\ pmutex' = pmutex /\ numSleeping' = numSleeping
  <1> DEFINE pcs == [pc EXCEPT ![p] = l]
  <1>1. /\ pcs \in [Pthreads -> PthreadPC] /\ ready \in Seq(Threads)
        /\ \A q \in Pthreads : pcs[q] # "asleep"
    BY DEF Typed, TypeOK, NoSleepers, PthreadPC
  <1>2. ReadyEnqueue(t, pcs)
    OBVIOUS
  <1> HIDE DEF pcs
  <1>3. /\ ready' \in Seq(Threads)
        /\ ToSet(ready') = ToSet(ready) \cup {t}
        /\ IsInjective(ready) => IsInjective(ready')
        /\ pmutex' = pmutex /\ numSleeping' = numSleeping
    BY <1>1, <1>2, EnqueueType
  <1>4. pc' = pcs
    BY <1>1, <1>2 DEF ReadyEnqueue, Signalled
  <1> QED BY <1>3, <1>4 DEF pcs

\* The same for a thread that goes on running.
LEMMA SpinInsert ==
    ASSUME Typed, NoSleepers, NEW t \in Threads, NEW p \in Pthreads,
           pc[p] = "run", ReadyEnqueue(t, pc)
    PROVE  /\ ready' \in Seq(Threads)
           /\ ToSet(ready') = ToSet(ready) \cup {t}
           /\ IsInjective(ready) => IsInjective(ready')
           /\ pc' = pc
  <1>1. [pc EXCEPT ![p] = "run"] = pc
    BY DEF Typed, TypeOK
  <1>2. ReadyEnqueue(t, [pc EXCEPT ![p] = "run"]) /\ "run" \in {"run", "dequeue"}
    BY <1>1
  <1>3. \A l \in {"run", "dequeue"} : ReadyEnqueue(t, [pc EXCEPT ![p] = l]) =>
          /\ ready' \in Seq(Threads)
          /\ ToSet(ready') = ToSet(ready) \cup {t}
          /\ IsInjective(ready) => IsInjective(ready')
          /\ pc' = [pc EXCEPT ![p] = l]
    BY SpinEnqueue
  <1> QED BY <1>1, <1>2, <1>3

\* The steps the two libraries share.
SharedScheduler(p) ==
    DequeueHead(p) \/ SetFromState(p) \/ SwitchTo(p) \/ Reap(p) \/ Resume(p)

SharedCall(p, t) ==
    \/ \E u \in Threads : \/ Create(p, t, u) \/ Unblock(p, t, u)
                          \/ JoinTest(p, t, u) \/ DetachTest(p, t, u)
    \/ Wait(p, t) \/ Exit(p, t)
    \/ JoinLock(p, t) \/ JoinReturn(p, t) \/ DetachLock(p, t)

\* A thread, or pthread_base, yields.
Yielding(p) == pc[p] = "run" /\ SpinYieldBy(p, cur[p])

LEMMA SpinSteps ==
    ASSUME SpinNext
    PROVE  \E p \in Pthreads :
             \/ SharedScheduler(p) \/ SpinTestFrom(p)
             \/ Yielding(p) /\ (cur[p] \in Users => tpc[cur[p]] = "user")
             \/ \E t \in Threads : SharedCall(p, t)
  <1>1. PICK p \in Pthreads : SpinScheduler(p) \/ \E t \in Threads : SpinCall(p, t)
    BY DEF SpinNext
  <1>2. CASE SpinScheduler(p)
    BY <1>2 DEF SpinScheduler, SpinBaseLoop, SpinDequeue, SpinSwitch, SpinReap,
                SpinResume, SharedScheduler, Yielding, Users
  <1>3. ASSUME NEW t \in Threads, SpinCall(p, t)
        PROVE  \/ Yielding(p) /\ (cur[p] \in Users => tpc[cur[p]] = "user")
               \/ SharedCall(p, t)
    BY <1>3 DEF SpinCall, SpinCreate, SpinUnblock, SpinYield, SpinBlock, SpinExit,
                SpinJoin, SpinDetach, At, SharedCall, Yielding
  <1> QED BY <1>1, <1>2, <1>3

LEMMA SharedIsNext ==
    ASSUME NEW p \in Pthreads,
           SharedScheduler(p) \/ \E t \in Threads : SharedCall(p, t)
    PROVE  Next
  BY DEF SharedScheduler, SharedCall, Next, Scheduler, Call

LEMMA SpinTypedStep ==
    ASSUME SpinInv, [SpinNext]_vars
    PROVE  Typed'
  <1> USE UthreadAssumption
  <1>0. Typed /\ NoSleepers
    BY DEF SpinInv, SpinPlacement
  <1>1. CASE UNCHANGED vars
    BY <1>0, <1>1, TypedStep
  <1>2. ASSUME NEW p \in Pthreads,
               SharedScheduler(p) \/ \E t \in Threads : SharedCall(p, t)
        PROVE  Typed'
    BY <1>0, <1>2, SharedIsNext, TypedStep
  <1>3. ASSUME NEW p \in Pthreads, Yielding(p)
        PROVE  Typed'
    <2>1. cur[p] \in Threads /\ "dequeue" \in {"run", "dequeue"}
      BY <1>0 DEF Typed, TypeOK
    <2>2. /\ ready' \in Seq(Threads)
          /\ pc' = [pc EXCEPT ![p] = "dequeue"]
          /\ pmutex' = pmutex /\ numSleeping' = numSleeping
      BY <1>0, <1>3, <2>1, SpinEnqueue DEF Yielding, SpinYieldBy
    <2> QED BY <1>0, <1>3, <2>2
            DEF Yielding, SpinYieldBy, Typed, TypeOK, Locals, threadVars,
                PthreadPC, StopState
  <1>4. ASSUME NEW p \in Pthreads, SpinTestFrom(p)
        PROVE  Typed'
    BY <1>0, <1>4 DEF SpinTestFrom, Typed, TypeOK, Locals, threadVars, queueVars,
                      PthreadPC
  <1> QED BY <1>1, <1>2, <1>3, <1>4, SpinSteps
-----------------------------------------------------------------------------
(* What a step does to the relations. *)

\* The thread a pthread executes is sent nowhere and executes nowhere else.
LEMMA SpinRuns ==
    ASSUME SpinInv, NEW p \in Pthreads, pc[p] = "run"
    PROVE  /\ cur[p] \in Threads /\ state[cur[p]] = "RUNNING" /\ ~Going(cur[p])
           /\ \A q \in Pthreads : Occupies(q, cur[p]) => q = p
  <1>1. cur[p] \in Threads /\ Occupies(p, cur[p])
    BY DEF SpinInv, Typed, TypeOK, Occupies
  <1>2. state[cur[p]] = "RUNNING" /\ ~Going(cur[p])
    BY <1>1 DEF SpinInv, SpinPlacement, SpinStopsFirst, SpinStateWhileOn
  <1> QED BY <1>1, <1>2 DEF SpinInv, SpinPlacement, ExclusiveExecution

\* The step sends no thread that is not in S, and no thread exits but X; who
\* exited does not come back.
Relates(S, X) ==
    /\ \A s \in Threads :
         /\ Going(s)' => Going(s) \/ s \in S
         /\ state'[s] \in Exited <=> state[s] \in Exited \/ s = X
         /\ state'[s] = "UNBORN" => state[s] = "UNBORN" /\ tpc'[s] = tpc[s]
    /\ \A s \in S \cap Threads :
         state[s] \notin Exited /\ state'[s] \notin Exited \cup {"UNBORN"}
    /\ X \in Threads => ~Going(X) /\ X \notin S

\* Pthread q does not move, and what it executes is not sent and does not stop.
Stays(q, S, X) ==
    /\ pc'[q] = pc[q] /\ cur'[q] = cur[q] /\ from'[q] = from[q]
    /\ stopState'[q] = stopState[q]
    /\ pc[q] # "spin" =>
         /\ cur[q] \notin S /\ cur[q] # X
         /\ state[cur[q]] = "RUNNING" => state'[cur[q]] = "RUNNING"

\* Pthread p moves, and is on the stack of c afterwards.
MovesOn(p, c) ==
    /\ cur'[p] = c
    /\ pc'[p] \notin {"toSleep", "asleep", "woken", "requeue"}
    /\ pc'[p] # "spin" =>
         /\ \A q \in Pthreads \ {p} : ~Occupies(q, c)
         /\ Going(c)' => pc'[p] \in {"dequeue", "switch"} /\ state'[c] = "RUNNING"
    /\ pc'[p] = "run" => state'[c] = "RUNNING"
    /\ pc'[p] \in {"dequeue", "switch"} =>
         IF stopState'[p] = "DYING" THEN state'[c] \in Exited
                                    ELSE state'[c] = "RUNNING"
    /\ pc'[p] \in {"after", "reap", "resume"} =>
         state'[c] \notin Exited \cup {"UNBORN"}
    /\ pc'[p] = "reap" => state'[from'[p]] \in Exited

LEMMA SpinFrame ==
    ASSUME SpinInv, Typed', OneDispatch', NEW p \in Pthreads, NEW c \in Threads,
           NEW S, NEW X, Relates(S, X), MovesOn(p, c),
           \A q \in Pthreads \ {p} : Stays(q, S, X)
    PROVE  SpinPlacement'
  <1> USE UthreadAssumption
  <1>0. /\ Typed /\ Typed'
        /\ \A q \in Pthreads : cur[q] \in Threads /\ cur'[q] \in Threads
        /\ \A q \in Pthreads : pc'[q] \in PthreadPC
        /\ \A q \in Pthreads : pc'[q] = "reap" => from'[q] \in Threads
    <2>1. /\ Typed /\ Typed'
      BY DEF SpinInv
    <2> QED BY <2>1 DEF Typed, TypeOK, Locals
  <1>1. \A q \in Pthreads \ {p} : \A s \in Threads :
           Occupies(q, s)' <=> Occupies(q, s)
    BY DEF Occupies, Stays
  <1>2. ExclusiveExecution'
    <2>1. \A q \in Pthreads \ {p} : \A s \in Threads :
             ~(Occupies(p, s)' /\ Occupies(q, s)')
      BY <1>1 DEF Occupies, MovesOn
    <2> QED BY <1>1, <2>1 DEF ExclusiveExecution, SpinInv, SpinPlacement
  <1>3. NoSleepers' /\ ReapsExited'
    BY <1>0 DEF NoSleepers, ReapsExited, Relates, Stays, MovesOn, SpinInv, SpinPlacement
  <1>4. SpinStateWhileOn'
    BY <1>0 DEF SpinStateWhileOn, Relates, Stays, MovesOn, SpinInv, SpinPlacement
  <1>5. SpinStopsFirst'
    <2> SUFFICES ASSUME NEW q \in Pthreads, NEW s \in Threads,
                        Going(s)', Occupies(q, s)'
                 PROVE  pc'[q] \in {"dequeue", "switch"} /\ state'[s] = "RUNNING"
      BY DEF SpinStopsFirst
    <2>1. CASE q = p
      BY <2>1 DEF Occupies, MovesOn
    <2>2. CASE q # p
      <3>1. Occupies(q, s) /\ cur[q] = s /\ pc[q] # "spin"
        BY <1>1, <2>2 DEF Occupies
      <3>2. Going(s)
        BY <2>2, <3>1 DEF Relates, Stays
      <3> QED BY <2>2, <3>1, <3>2 DEF Stays, SpinInv, SpinPlacement, SpinStopsFirst
    <2> QED BY <2>1, <2>2
  <1>6. ExitedIsGone'
    <2> SUFFICES ASSUME NEW s \in Threads, state'[s] \in Exited
                 PROVE  /\ ~Going(s)'
                        /\ \A q \in Pthreads : Occupies(q, s)' =>
                             pc'[q] \in {"dequeue", "switch"} /\ stopState'[q] = "DYING"
      BY DEF ExitedIsGone
    <2>1. state[s] \in Exited \/ s = X
      BY DEF Relates
    <2>2. ~Going(s)'
      BY <2>1 DEF Relates, SpinInv, SpinPlacement, ExitedIsGone
    <2>3. ASSUME NEW q \in Pthreads \ {p}, Occupies(q, s)'
          PROVE  pc'[q] \in {"dequeue", "switch"} /\ stopState'[q] = "DYING"
      <3>1. Occupies(q, s) /\ s # X
        BY <1>1, <2>3 DEF Occupies, Stays
      <3> QED BY <2>1, <3>1 DEF Stays, SpinInv, SpinPlacement, ExitedIsGone
    <2>4. ASSUME Occupies(p, s)'
          PROVE  pc'[p] \in {"dequeue", "switch"} /\ stopState'[p] = "DYING"
      <3>1. s = c /\ pc'[p] # "spin"
        BY <2>4 DEF Occupies, MovesOn
      <3>2. pc'[p] \in {"dequeue", "switch"}
        BY <1>0, <3>1 DEF PthreadPC, Exited, MovesOn
      <3> QED BY <3>1, <3>2 DEF Exited, MovesOn
    <2> QED BY <2>2, <2>3, <2>4
  <1>7. UnbornIsIdle'
    <2> SUFFICES ASSUME NEW s \in Threads, state'[s] = "UNBORN"
                 PROVE  Idle(s)' /\ tpc'[s] = "user"
      BY DEF UnbornIsIdle
    <2>1. state[s] = "UNBORN" /\ tpc'[s] = tpc[s] /\ s \notin S
      BY DEF Relates
    <2>2. Idle(s) /\ tpc[s] = "user"
      BY <2>1 DEF SpinInv, SpinPlacement, UnbornIsIdle
    <2>3. ~Going(s)'
      BY <2>1, <2>2 DEF Relates, Idle
    <2>4. ~Occupies(p, s)'
      BY <1>0 DEF Occupies, Exited, PthreadPC, MovesOn
    <2> QED BY <1>1, <2>1, <2>2, <2>3, <2>4 DEF Idle
  <1> QED BY <1>2, <1>3, <1>4, <1>5, <1>6, <1>7 DEF SpinPlacement

\* A step that touches no queue: it may clear a joiner field, make a thread
\* exit, or move a thread that is not sent anywhere.
LEMMA SpinQuiet ==
    ASSUME SpinInv, UNCHANGED <<ready, to, waiting>>,
           \A s \in Threads : joiner'[s] = joiner[s] \/ joiner'[s] = Detached,
           \A s \in Threads : state[s] \in Exited => state'[s] \in Exited,
           \A s \in Threads : Going(s) => tpc'[s] = tpc[s] /\ target'[s] = target[s]
    PROVE  OneDispatch' /\ \A s \in Threads : Going(s)' => Going(s)
  <1> USE UthreadAssumption
  <1>1. \A s \in Threads :
          /\ Dispatched(s)' <=> Dispatched(s)
          /\ \A v \in Threads : StartsAtExit(v, s)' => StartsAtExit(v, s)
    BY DEF Dispatched, StartsAtExit
  <1>2. \A s \in waiting : s \in Threads /\ Going(s)
    BY DEF SpinInv, Typed, TypeOK, Users, Going
  <1>3. \A v, s \in Threads : StartsAtExit(v, s) => Going(s)
    BY DEF Going
  <1>4. OneDispatch
    BY DEF SpinInv, SpinPlacement
  <1>5. \A s \in waiting' : ~Dispatched(s)' /\ tpc'[s] = "block"
    BY <1>1, <1>2, <1>4 DEF OneDispatch
  <1>6. \A v, s \in Threads : StartsAtExit(v, s)' =>
          ~Dispatched(s)' /\ tpc'[s] = "joinWait" /\ target'[s] = v
    BY <1>1, <1>3, <1>4 DEF OneDispatch
  <1>7. OneDispatch'
    BY <1>4, <1>5, <1>6 DEF OneDispatch
  <1>8. \A s \in Threads : Going(s)' => Going(s)
    BY <1>1 DEF Going
  <1> QED BY <1>7, <1>8

\* The thread a pthread arrives on exists, has not exited, and is not sent on.
LEMMA SpinArrives ==
    ASSUME SpinInv, NEW p \in Pthreads, pc[p] \in {"after", "reap", "resume"}
    PROVE  /\ cur[p] \in Threads /\ ~Going(cur[p])
           /\ state[cur[p]] \notin Exited \cup {"UNBORN"}
           /\ \A q \in Pthreads : Occupies(q, cur[p]) => q = p
           /\ from[p] \in Threads
  <1>1. /\ cur[p] \in Threads /\ Occupies(p, cur[p])
        /\ pc[p] \notin {"dequeue", "switch"}
        /\ from[p] \in Threads
    BY DEF SpinInv, Typed, TypeOK, Locals, Occupies
  <1> QED BY <1>1 DEF SpinInv, SpinPlacement, SpinStopsFirst, ExitedIsGone,
                      UnbornIsIdle, Idle, ExclusiveExecution
-----------------------------------------------------------------------------
(* The calls. *)

LEMMA SpinCreateStep ==
    ASSUME SpinInv, Typed', NEW p \in Pthreads, NEW t \in Threads,
           NEW u \in Threads, Create(p, t, u)
    PROVE  SpinPlacement'
  <1> USE UthreadAssumption
  <1>0. Typed /\ NoSleepers
    BY DEF SpinInv, SpinPlacement
  <1>1. /\ pc[p] = "run" /\ cur[p] = t /\ state[u] = "UNBORN"
        /\ state' = [state EXCEPT ![u] = "NASCENT"]
        /\ ReadyEnqueue(u, pc)
        /\ UNCHANGED <<joiner, cur, to, from, stopState, tpc, target, waiting>>
    BY DEF Create, At, threadVars
  <1>2. /\ pc' = pc
        /\ ToSet(ready') = ToSet(ready) \cup {u}
        /\ IsInjective(ready) => IsInjective(ready')
    BY <1>0, <1>1, SpinInsert
  <1>3. /\ state[t] = "RUNNING" /\ ~Going(t)
        /\ \A q \in Pthreads : Occupies(q, t) => q = p
    BY <1>1, SpinRuns
  <1>4. Idle(u)
    BY <1>1 DEF SpinInv, SpinPlacement, UnbornIsIdle
  <1>5. \A s \in Threads :
          /\ state'[s] = IF s = u THEN "NASCENT" ELSE state[s]
          /\ Dispatched(s)' <=> Dispatched(s) \/ s = u
          /\ \A v \in Threads : StartsAtExit(v, s)' <=> StartsAtExit(v, s)
    BY <1>0, <1>1, <1>2 DEF Dispatched, StartsAtExit, Exited, Typed, TypeOK
  <1>6. \A s \in Threads : Going(s)' => Going(s) \/ s = u
    BY <1>1, <1>5 DEF Going
  <1>7. OneDispatch'
    BY <1>1, <1>2, <1>4, <1>5
       DEF SpinInv, SpinPlacement, OneDispatch, Idle, Going, Dispatched
  <1>8. Relates({u}, None)
    BY <1>1, <1>5, <1>6 DEF Relates, Exited
  <1>9. MovesOn(p, t)
    BY <1>0, <1>1, <1>2, <1>3, <1>5, <1>6 DEF MovesOn, Occupies
  <1>10. \A q \in Pthreads : Stays(q, {u}, None)
    BY <1>0, <1>1, <1>2, <1>4, <1>5 DEF Stays, Idle, Occupies, Typed, TypeOK
  <1> QED BY <1>7, <1>8, <1>9, <1>10, SpinFrame

\* The caller is in the queue before it stops.
LEMMA SpinYieldStep ==
    ASSUME SpinInv, Typed', NEW p \in Pthreads, Yielding(p)
    PROVE  SpinPlacement'
  <1> USE UthreadAssumption
  <1> DEFINE t == cur[p]
  <1>0. Typed /\ NoSleepers
    BY DEF SpinInv, SpinPlacement
  <1>1. /\ pc[p] = "run"
        /\ ReadyEnqueue(t, [pc EXCEPT ![p] = "dequeue"])
        /\ stopState' = [stopState EXCEPT ![p] = "RUNABLE"]
        /\ UNCHANGED <<state, joiner, cur, to, from, tpc, target, waiting>>
    BY DEF Yielding, SpinYieldBy, threadVars
  <1>2. /\ t \in Threads /\ state[t] = "RUNNING" /\ ~Going(t)
        /\ \A q \in Pthreads : Occupies(q, t) => q = p
    BY <1>1, SpinRuns
  <1>3. /\ pc' = [pc EXCEPT ![p] = "dequeue"]
        /\ ToSet(ready') = ToSet(ready) \cup {t}
        /\ IsInjective(ready) => IsInjective(ready')
    BY <1>0, <1>1, <1>2, SpinEnqueue
  <1>4. \A s \in Threads :
          /\ Dispatched(s)' <=> Dispatched(s) \/ s = t
          /\ \A v \in Threads : StartsAtExit(v, s)' <=> StartsAtExit(v, s)
    BY <1>1, <1>3 DEF Dispatched, StartsAtExit
  <1>5. \A s \in Threads : Going(s)' => Going(s) \/ s = t
    BY <1>1, <1>4 DEF Going
  <1>6. OneDispatch'
    BY <1>1, <1>2, <1>3, <1>4 DEF SpinInv, SpinPlacement, OneDispatch, Going, Dispatched
  <1>7. Relates({t}, None)
    BY <1>1, <1>2, <1>5 DEF Relates, Exited
  <1>8. MovesOn(p, t)
    BY <1>0, <1>1, <1>2, <1>3 DEF MovesOn, Occupies, Typed, TypeOK
  <1>9. \A q \in Pthreads \ {p} : Stays(q, {t}, None)
    BY <1>0, <1>1, <1>2, <1>3 DEF Stays, Occupies, Typed, TypeOK
  <1> QED BY <1>2, <1>6, <1>7, <1>8, <1>9, SpinFrame

LEMMA SpinWaitStep ==
    ASSUME SpinInv, Typed', NEW p \in Pthreads, NEW t \in Threads, Wait(p, t)
    PROVE  SpinPlacement'
  <1> USE UthreadAssumption
  <1>0. Typed
    BY DEF SpinInv
  <1>1. /\ pc[p] = "run" /\ cur[p] = t
        /\ pc' = [pc EXCEPT ![p] = "dequeue"]
        /\ stopState' = [stopState EXCEPT ![p] = "BLOCKED"]
        /\ tpc' = [tpc EXCEPT ![t] = "block"]
        /\ waiting' = waiting \cup {t}
        /\ UNCHANGED <<state, joiner, ready, cur, to, from, target>>
    BY DEF Wait, At, Stop, queueVars
  <1>2. /\ state[t] = "RUNNING" /\ ~Going(t)
        /\ \A q \in Pthreads : Occupies(q, t) => q = p
    BY <1>1, SpinRuns
  <1>3. \A s \in Threads :
          /\ Dispatched(s)' <=> Dispatched(s)
          /\ \A v \in Threads : StartsAtExit(v, s)' <=> StartsAtExit(v, s)
          /\ Going(s)' => Going(s) \/ s = t
    BY <1>1 DEF Dispatched, StartsAtExit, Going
  <1>4. OneDispatch'
    <2>1. ~Dispatched(t) /\ \A v \in Threads : ~StartsAtExit(v, t)
      BY <1>2 DEF Going
    <2>2. \A s \in waiting' : ~Dispatched(s)' /\ tpc'[s] = "block"
      BY <1>0, <1>1, <1>3, <2>1
         DEF SpinInv, SpinPlacement, OneDispatch, Typed, TypeOK, Users
    <2>3. \A v, s \in Threads : StartsAtExit(v, s)' =>
            ~Dispatched(s)' /\ tpc'[s] = "joinWait" /\ target'[s] = v
      BY <1>0, <1>1, <1>3, <2>1
         DEF SpinInv, SpinPlacement, OneDispatch, Typed, TypeOK
    <2> QED BY <1>1, <2>2, <2>3 DEF SpinInv, SpinPlacement, OneDispatch
  <1>5. Relates({t}, None)
    BY <1>0, <1>1, <1>2, <1>3 DEF Relates, Exited, Typed, TypeOK
  <1>6. MovesOn(p, t)
    BY <1>0, <1>1, <1>2 DEF MovesOn, Occupies, Typed, TypeOK
  <1>7. \A q \in Pthreads \ {p} : Stays(q, {t}, None)
    BY <1>0, <1>1, <1>2 DEF Stays, Occupies, Typed, TypeOK
  <1> QED BY <1>4, <1>5, <1>6, <1>7, SpinFrame

\* The unblocked thread leaves the wait queue for the ready queue.
LEMMA SpinUnblockStep ==
    ASSUME SpinInv, Typed', NEW p \in Pthreads, NEW t \in Threads,
           NEW u \in Threads, Unblock(p, t, u)
    PROVE  SpinPlacement'
  <1> USE UthreadAssumption
  <1>0. Typed /\ NoSleepers
    BY DEF SpinInv, SpinPlacement
  <1>1. /\ pc[p] = "run" /\ cur[p] = t /\ u \in waiting
        /\ waiting' = waiting \ {u}
        /\ ReadyEnqueue(u, pc)
        /\ UNCHANGED <<state, joiner, cur, to, from, stopState, tpc, target>>
    BY DEF Unblock, At
  <1>2. /\ pc' = pc
        /\ ToSet(ready') = ToSet(ready) \cup {u}
        /\ IsInjective(ready) => IsInjective(ready')
    BY <1>0, <1>1, SpinInsert
  <1>3. /\ state[t] = "RUNNING" /\ ~Going(t)
        /\ \A q \in Pthreads : Occupies(q, t) => q = p
    BY <1>1, SpinRuns
  <1>4. \A s \in Threads :
          /\ Dispatched(s)' <=> Dispatched(s) \/ s = u
          /\ \A v \in Threads : StartsAtExit(v, s)' <=> StartsAtExit(v, s)
          /\ Going(s)' => Going(s)
    BY <1>1, <1>2 DEF Dispatched, StartsAtExit, Going
  <1>5. OneDispatch'
    BY <1>1, <1>2, <1>4 DEF SpinInv, SpinPlacement, OneDispatch, Dispatched
  <1>6. Relates({}, None)
    BY <1>1, <1>4 DEF Relates
  <1>7. MovesOn(p, t)
    BY <1>1, <1>2, <1>3, <1>4 DEF MovesOn, Occupies
  <1>8. \A q \in Pthreads \ {p} : Stays(q, {}, None)
    BY <1>0, <1>1, <1>2 DEF Stays, Typed, TypeOK
  <1> QED BY <1>5, <1>6, <1>7, <1>8, SpinFrame

\* The thread that exits starts its joiner.
LEMMA SpinExitStep ==
    ASSUME SpinInv, Typed', NEW p \in Pthreads, NEW t \in Threads, Exit(p, t)
    PROVE  SpinPlacement'
  <1> USE UthreadAssumption
  <1>0. Typed /\ NoSleepers
    BY DEF SpinInv, SpinPlacement
  <1>1. /\ pc[p] = "run" /\ cur[p] = t
        /\ state' = [state EXCEPT ![t] = "DYING"]
        /\ stopState' = [stopState EXCEPT ![p] = "DYING"]
        /\ UNCHANGED <<joiner, cur, to, from, tpc, target, waiting>>
    BY DEF Exit, At
  <1>2. /\ state[t] = "RUNNING" /\ ~Going(t)
        /\ \A q \in Pthreads : Occupies(q, t) => q = p
    BY <1>1, SpinRuns
  <1>3. /\ pc' = [pc EXCEPT ![p] = "dequeue"]
        /\ ToSet(ready') = ToSet(ready) \cup ({joiner[t]} \cap Threads)
        /\ IsInjective(ready) => IsInjective(ready')
    <2>1. CASE joiner[t] \in {None, Detached}
      BY <2>1 DEF Exit, queueVars
    <2>2. CASE joiner[t] \notin {None, Detached}
      <3>1. /\ joiner[t] \in Threads
            /\ ReadyEnqueue(joiner[t], [pc EXCEPT ![p] = "dequeue"])
        BY <1>0, <2>2 DEF Exit, Typed, TypeOK
      <3>2. "dequeue" \in {"run", "dequeue"}
        OBVIOUS
      <3>3. /\ ToSet(ready') = ToSet(ready) \cup {joiner[t]}
            /\ IsInjective(ready) => IsInjective(ready')
            /\ pc' = [pc EXCEPT ![p] = "dequeue"]
        BY <1>0, <3>1, <3>2, SpinEnqueue
      <3> QED BY <3>1, <3>3
    <2> QED BY <2>1, <2>2
  <1>4. \A s \in Threads :
          /\ state'[s] = IF s = t THEN "DYING" ELSE state[s]
          /\ Dispatched(s)' <=> Dispatched(s) \/ s = joiner[t]
          /\ \A v \in Threads : StartsAtExit(v, s)' <=> StartsAtExit(v, s) /\ v # t
          /\ StartsAtExit(t, s) <=> joiner[t] = s
    BY <1>0, <1>1, <1>2, <1>3 DEF Dispatched, StartsAtExit, Exited, Typed, TypeOK
  <1>5. \A s \in Threads : Going(s)' => Going(s)
    BY <1>1, <1>4 DEF Going
  <1>6. OneDispatch'
    <2>1. OneDispatch
      BY DEF SpinInv, SpinPlacement
    <2>2. joiner[t] \in Threads =>
            /\ StartsAtExit(t, joiner[t]) /\ ~Dispatched(joiner[t])
            /\ joiner[t] \notin waiting
            /\ \A v \in Threads : StartsAtExit(v, joiner[t]) => v = t
      BY <1>4, <2>1 DEF OneDispatch
    <2>3. IsInjective(ready')
      BY <1>3, <2>1 DEF OneDispatch
    <2>4. \A q \in Pthreads : to'[q] \notin ToSet(ready')
      BY <1>1, <1>3, <2>1, <2>2 DEF OneDispatch, Dispatched
    <2>5. \A q, r \in Pthreads : to'[q] = to'[r] /\ to'[q] # None => q = r
      BY <1>1, <2>1 DEF OneDispatch
    <2>6. \A s \in waiting' : ~Dispatched(s)' /\ tpc'[s] = "block"
      <3>1. waiting \subseteq Threads
        BY <1>0 DEF Typed, TypeOK, Users
      <3> QED BY <1>1, <1>4, <2>1, <2>2, <3>1 DEF OneDispatch
    <2>7. \A v, s \in Threads : StartsAtExit(v, s)' =>
            ~Dispatched(s)' /\ tpc'[s] = "joinWait" /\ target'[s] = v
      BY <1>1, <1>4, <2>1, <2>2 DEF OneDispatch
    <2> QED BY <2>3, <2>4, <2>5, <2>6, <2>7 DEF OneDispatch
  <1>7. Relates({}, t)
    BY <1>1, <1>2, <1>4, <1>5 DEF Relates, Exited
  <1>8. MovesOn(p, t)
    BY <1>0, <1>1, <1>2, <1>3, <1>4, <1>5 DEF MovesOn, Occupies, Exited, Typed, TypeOK
  <1>9. \A q \in Pthreads \ {p} : Stays(q, {}, t)
    BY <1>0, <1>1, <1>2, <1>3, <1>4 DEF Stays, Occupies, Typed, TypeOK
  <1> QED BY <1>6, <1>7, <1>8, <1>9, SpinFrame

\* The test of joiner without the lock only moves the caller, and so do the
\* critical sections of join and detach that find the target has exited.
LEMMA SpinCallerStep ==
    ASSUME SpinInv, Typed', NEW p \in Pthreads, NEW t \in Threads,
           pc[p] = "run", cur[p] = t,
           UNCHANGED <<queueVars, pc, cur, to, from, stopState, waiting>>,
           \/ \E u \in Threads : \E call \in {"join", "detach"} : Claim(p, t, u, call)
           \/ Release(t, target[t], state[target[t]] # "DEAD")
    PROVE  SpinPlacement'
  <1> USE UthreadAssumption
  <1>0. Typed
    BY DEF SpinInv
  <1>1. /\ \A s \in Threads \ {t} : tpc'[s] = tpc[s] /\ target'[s] = target[s]
        /\ \A s \in Threads : joiner'[s] = joiner[s] \/ joiner'[s] = Detached
        /\ \A s \in Threads : \/ state'[s] = state[s]
                              \/ state[s] = "DEAD" /\ state'[s] = "FREED"
    <2>1. ASSUME NEW u \in Threads, NEW call \in {"join", "detach"},
                 Claim(p, t, u, call)
          PROVE  <1>1!:
      BY <1>0, <2>1 DEF Claim, Typed, TypeOK
    <2>2. CASE Release(t, target[t], state[target[t]] # "DEAD")
      BY <1>0, <2>2 DEF Release, Typed, TypeOK
    <2> QED BY <2>1, <2>2
  <1>2. /\ t \in Threads /\ state[t] = "RUNNING" /\ ~Going(t)
        /\ \A q \in Pthreads : Occupies(q, t) => q = p
    BY SpinRuns
  <1>3. OneDispatch' /\ \A s \in Threads : Going(s)' => Going(s)
    BY <1>1, <1>2, SpinQuiet DEF Exited, queueVars
  <1>4. Relates({}, None)
    <2>1. \A s \in Threads : state[s] = "UNBORN" => s # t
      BY <1>2
    <2> QED BY <1>1, <1>3, <2>1 DEF Relates, Exited
  <1>5. MovesOn(p, t)
    BY <1>1, <1>2, <1>3 DEF MovesOn, Occupies
  <1>6. \A q \in Pthreads \ {p} : Stays(q, {}, None)
    BY <1>0, <1>1 DEF Stays, Typed, TypeOK
  <1> QED BY <1>3, <1>4, <1>5, <1>6, SpinFrame

\* uthread_join that registers the caller and stops.
LEMMA SpinRegisterStep ==
    ASSUME SpinInv, Typed', NEW p \in Pthreads, NEW t \in Threads,
           JoinLock(p, t), state[target[t]] \notin {"DYING", "DEAD"}
    PROVE  SpinPlacement'
  <1> USE UthreadAssumption
  <1>0. Typed
    BY DEF SpinInv
  <1>1. /\ pc[p] = "run" /\ cur[p] = t
        /\ pc' = [pc EXCEPT ![p] = "dequeue"]
        /\ stopState' = [stopState EXCEPT ![p] = "BLOCKED"]
        /\ joiner' = [joiner EXCEPT ![target[t]] = t]
        /\ tpc' = [tpc EXCEPT ![t] = "joinWait"]
        /\ UNCHANGED <<state, target, waiting, ready, cur, to, from>>
    BY DEF JoinLock, At, Stop, queueVars
  <1>2. /\ state[t] = "RUNNING" /\ ~Going(t)
        /\ \A q \in Pthreads : Occupies(q, t) => q = p
    BY <1>1, SpinRuns
  <1>3. \A s \in Threads :
          /\ Dispatched(s)' <=> Dispatched(s)
          /\ \A v \in Threads : StartsAtExit(v, s)' =>
               StartsAtExit(v, s) \/ (s = t /\ v = target[t])
    BY <1>0, <1>1 DEF Dispatched, StartsAtExit, Typed, TypeOK
  <1>4. \A s \in Threads : Going(s)' => Going(s) \/ s = t
    BY <1>1, <1>3 DEF Going
  <1>5. OneDispatch'
    <2>1. ~Dispatched(t) /\ t \notin waiting /\ \A v \in Threads : ~StartsAtExit(v, t)
      BY <1>2 DEF Going
    <2>2. ASSUME NEW v \in Threads, NEW s \in Threads, StartsAtExit(v, s)'
          PROVE  ~Dispatched(s)' /\ tpc'[s] = "joinWait" /\ target'[s] = v
      <3>1. /\ tpc'[t] = "joinWait" /\ \A r \in Threads \ {t} : tpc'[r] = tpc[r]
            /\ target' = target
        BY <1>0, <1>1 DEF Typed, TypeOK
      <3>2. CASE StartsAtExit(v, s)
        BY <1>3, <2>1, <3>1, <3>2 DEF SpinInv, SpinPlacement, OneDispatch
      <3>3. CASE s = t /\ v = target[t]
        BY <1>3, <2>1, <3>1, <3>3
      <3> QED BY <1>3, <2>2, <3>2, <3>3
    <2>3. \A s \in waiting' : ~Dispatched(s)' /\ tpc'[s] = "block"
      BY <1>0, <1>1, <1>3, <2>1
         DEF SpinInv, SpinPlacement, OneDispatch, Typed, TypeOK, Users
    <2> QED BY <1>1, <2>2, <2>3 DEF SpinInv, SpinPlacement, OneDispatch
  <1>6. Relates({t}, None)
    BY <1>0, <1>1, <1>2, <1>4 DEF Relates, Exited, Typed, TypeOK
  <1>7. MovesOn(p, t)
    BY <1>0, <1>1, <1>2 DEF MovesOn, Occupies, Typed, TypeOK
  <1>8. \A q \in Pthreads \ {p} : Stays(q, {t}, None)
    BY <1>0, <1>1, <1>2 DEF Stays, Occupies, Typed, TypeOK
  <1> QED BY <1>5, <1>6, <1>7, <1>8, SpinFrame
-----------------------------------------------------------------------------
(* The scheduler. *)

LEMMA SpinDequeueStep ==
    ASSUME SpinInv, Typed', NEW p \in Pthreads, DequeueHead(p)
    PROVE  SpinPlacement'
  <1> USE UthreadAssumption
  <1>0. Typed
    BY DEF SpinInv
  <1> DEFINE h == Head(ready)
             c == cur[p]
  <1>1. /\ pc[p] = "dequeue" /\ ready # <<>> /\ ready \in Seq(Threads)
        /\ to' = [to EXCEPT ![p] = h] /\ ready' = Tail(ready)
        /\ pc' = [pc EXCEPT ![p] = "switch"]
        /\ to[p] = None /\ c \in Threads
        /\ UNCHANGED <<state, joiner, cur, from, stopState, tpc, target, waiting>>
    BY <1>0 DEF DequeueHead, threadVars, Typed, TypeOK, Locals
  <1>2. /\ h \in Threads /\ ToSet(ready) = ToSet(ready') \cup {h}
        /\ IsInjective(ready) => IsInjective(ready') /\ h \notin ToSet(ready')
    BY <1>1, TailQueue
  <1> HIDE DEF h
  <1>3. \A q \in Pthreads : to'[q] = IF q = p THEN h ELSE to[q]
    BY <1>0, <1>1 DEF Typed, TypeOK
  <1>4. \A s \in Threads :
          /\ Dispatched(s)' <=> Dispatched(s)
          /\ \A v \in Threads : StartsAtExit(v, s)' <=> StartsAtExit(v, s)
          /\ Going(s)' => Going(s)
    BY <1>1, <1>2, <1>3 DEF Dispatched, StartsAtExit, Going
  <1>5. OneDispatch'
    <2>1. \A s \in waiting : s \in Threads
      BY <1>0 DEF Typed, TypeOK, Users
    <2> QED BY <1>1, <1>2, <1>3, <1>4, <2>1 DEF SpinInv, SpinPlacement, OneDispatch
  <1>6. Relates({}, None)
    BY <1>1, <1>4 DEF Relates
  <1>7. MovesOn(p, c)
    <2>1. /\ pc'[p] = "switch" /\ Occupies(p, c)
          /\ \A q \in Pthreads : Occupies(q, c) => q = p
      BY <1>0, <1>1 DEF Occupies, Typed, TypeOK, SpinInv, SpinPlacement, ExclusiveExecution
    <2>2. /\ Going(c) => state[c] = "RUNNING"
          /\ IF stopState[p] = "DYING" THEN state[c] \in Exited
                                       ELSE state[c] = "RUNNING"
      BY <1>1, <2>1 DEF SpinInv, SpinPlacement, SpinStopsFirst, SpinStateWhileOn
    <2> QED BY <1>1, <1>4, <2>1, <2>2 DEF MovesOn
  <1>8. \A q \in Pthreads \ {p} : Stays(q, {}, None)
    BY <1>0, <1>1 DEF Stays, Typed, TypeOK
  <1> QED BY <1>1, <1>5, <1>6, <1>7, <1>8, SpinFrame

LEMMA SpinPublishStep ==
    ASSUME SpinInv, Typed', NEW p \in Pthreads, SetFromState(p)
    PROVE  SpinPlacement'
  <1> USE UthreadAssumption
  <1>0. Typed
    BY DEF SpinInv
  <1> DEFINE c == cur[p]
  <1>1. /\ pc[p] = "switch" /\ c \in Threads /\ stopState[p] \in StopState
        /\ state' = [state EXCEPT ![c] = stopState[p]]
        /\ pc' = [pc EXCEPT ![p] = "spin"]
        /\ UNCHANGED <<ready, joiner, cur, to, from, stopState, tpc, target, waiting>>
    BY <1>0 DEF SetFromState, queueVars, threadVars, Typed, TypeOK
  <1>2. /\ Occupies(p, c) /\ \A q \in Pthreads : Occupies(q, c) => q = p
        /\ IF stopState[p] = "DYING" THEN state[c] \in Exited ELSE state[c] = "RUNNING"
    BY <1>1 DEF Occupies, SpinInv, SpinPlacement, SpinStateWhileOn, ExclusiveExecution
  <1>3. /\ \A s \in Threads \ {c} : state'[s] = state[s]
        /\ state'[c] = stopState[p]
        /\ state'[c] \in Exited <=> state[c] \in Exited
    BY <1>0, <1>1, <1>2 DEF Exited, StopState, Typed, TypeOK
  <1>4. OneDispatch' /\ \A s \in Threads : Going(s)' => Going(s)
    BY <1>1, <1>3, SpinQuiet
  <1>5. Relates({}, None)
    BY <1>1, <1>3, <1>4 DEF Relates, StopState
  <1>6. MovesOn(p, c)
    BY <1>0, <1>1 DEF MovesOn, Typed, TypeOK
  <1>7. \A q \in Pthreads \ {p} : Stays(q, {}, None)
    BY <1>0, <1>1, <1>2, <1>3 DEF Stays, Occupies, Typed, TypeOK
  <1> QED BY <1>1, <1>4, <1>5, <1>6, <1>7, SpinFrame

\* The successor has stopped wherever it was: what is sent and RUNNING is
\* still on its way to stop, and the pthread waits while it is.
LEMMA SpinSwitchStep ==
    ASSUME SpinInv, Typed', NEW p \in Pthreads, SwitchTo(p)
    PROVE  SpinPlacement'
  <1> USE UthreadAssumption
  <1>0. Typed
    BY DEF SpinInv
  <1>1. PICK c \in Threads :
        /\ c = to[p] /\ pc[p] = "spin" /\ state[c] # "RUNNING"
        /\ cur' = [cur EXCEPT ![p] = c] /\ to' = [to EXCEPT ![p] = None]
        /\ from' = [from EXCEPT ![p] = cur[p]]
        /\ pc' = [pc EXCEPT ![p] = "after"]
        /\ UNCHANGED <<state, ready, joiner, stopState, tpc, target, waiting>>
    BY <1>0 DEF SwitchTo, queueVars, threadVars, Typed, TypeOK, Locals
  <1>2. \A q \in Pthreads : to'[q] = IF q = p THEN None ELSE to[q]
    BY <1>0, <1>1 DEF Typed, TypeOK
  <1>3. Going(c)
    BY <1>1 DEF Going, Dispatched
  <1>4. /\ \A q \in Pthreads : ~Occupies(q, c)
        /\ state[c] \notin Exited \cup {"UNBORN"}
    BY <1>1, <1>3 DEF SpinInv, SpinPlacement, SpinStopsFirst, ExitedIsGone,
                      UnbornIsIdle, Idle
  <1>5. \A s \in Threads :
          /\ Dispatched(s)' <=> Dispatched(s) /\ s # c
          /\ \A v \in Threads : StartsAtExit(v, s)' <=> StartsAtExit(v, s)
    BY <1>1, <1>2 DEF Dispatched, StartsAtExit, SpinInv, SpinPlacement, OneDispatch
  <1>6. \A s \in Threads : Going(s)' => Going(s) /\ s # c
    BY <1>1, <1>5 DEF Going, Dispatched, SpinInv, SpinPlacement, OneDispatch
  <1>7. OneDispatch'
    <2>1. \A s \in waiting : s \in Threads
      BY <1>0 DEF Typed, TypeOK, Users
    <2>2. None \notin ToSet(ready)
      BY <1>0, QueueElements DEF Typed, TypeOK
    <2> QED BY <1>1, <1>2, <1>5, <2>1, <2>2 DEF SpinInv, SpinPlacement, OneDispatch
  <1>8. Relates({}, None)
    BY <1>1, <1>6 DEF Relates
  <1>9. MovesOn(p, c)
    <2>1. /\ cur'[p] = c /\ pc'[p] = "after" /\ ~Going(c)'
          /\ state'[c] \notin Exited \cup {"UNBORN"}
      BY <1>0, <1>1, <1>4, <1>6 DEF Typed, TypeOK
    <2> QED BY <1>4, <2>1 DEF MovesOn
  <1>10. \A q \in Pthreads \ {p} : Stays(q, {}, None)
    BY <1>0, <1>1 DEF Stays, Typed, TypeOK
  <1> QED BY <1>1, <1>7, <1>8, <1>9, <1>10, SpinFrame

\* On the successor's stack: dispose of a thread that exited, then run.
LEMMA SpinArrivalStep ==
    ASSUME SpinInv, Typed', NEW p \in Pthreads,
           SpinTestFrom(p) \/ Reap(p) \/ Resume(p)
    PROVE  SpinPlacement'
  <1> USE UthreadAssumption
  <1>0. Typed
    BY DEF SpinInv
  <1> DEFINE c == cur[p]
  <1>1. /\ pc[p] \in {"after", "reap", "resume"}
        /\ UNCHANGED <<ready, joiner, cur, to, stopState, target, waiting>>
        /\ \A q \in Pthreads \ {p} : pc'[q] = pc[q] /\ from'[q] = from[q]
    BY <1>0 DEF SpinTestFrom, Reap, Resume, queueVars, threadVars, Typed, TypeOK
  <1>2. /\ c \in Threads /\ ~Going(c) /\ state[c] \notin Exited \cup {"UNBORN"}
        /\ \A q \in Pthreads : Occupies(q, c) => q = p
        /\ from[p] \in Threads
    BY <1>1, SpinArrives
  <1>3. /\ \A s \in Threads \ {c} : tpc'[s] = tpc[s]
        /\ \A s \in Threads : state'[s] \in Exited <=> state[s] \in Exited
        /\ \A s \in Threads : state'[s] = "UNBORN" => state[s] = "UNBORN"
        /\ \A s \in Threads : state[s] = "RUNNING" => state'[s] = "RUNNING"
        /\ pc'[p] \in {"reap", "resume", "run"}
        /\ pc'[p] = "run" => state'[c] = "RUNNING"
        /\ pc'[p] = "reap" => state'[from'[p]] \in Exited
    <2>1. CASE SpinTestFrom(p)
      BY <1>0, <2>1 DEF SpinTestFrom, Exited, threadVars, Typed, TypeOK
    <2>2. CASE Reap(p)
      <3>1. state[from[p]] \in Exited
        BY <2>2 DEF Reap, SpinInv, SpinPlacement, ReapsExited
      <3> QED BY <1>0, <1>2, <2>2, <3>1 DEF Reap, Exited, threadVars, Typed, TypeOK
    <2>3. CASE Resume(p)
      BY <1>0, <1>2, <2>3 DEF Resume, Exited, Typed, TypeOK
    <2> QED BY <2>1, <2>2, <2>3
  <1>4. OneDispatch' /\ \A s \in Threads : Going(s)' => Going(s)
    BY <1>1, <1>2, <1>3, SpinQuiet
  <1>5. Relates({}, None)
    BY <1>2, <1>3, <1>4 DEF Relates
  <1>6. MovesOn(p, c)
    <2>1. state'[c] \notin Exited \cup {"UNBORN"}
      BY <1>2, <1>3
    <2> QED BY <1>1, <1>2, <1>3, <1>4, <2>1 DEF MovesOn, Occupies
  <1>7. \A q \in Pthreads \ {p} : Stays(q, {}, None)
    <2>1. \A q \in Pthreads : cur[q] \in Threads
      BY <1>0 DEF Typed, TypeOK
    <2>2. UNCHANGED <<cur, stopState>>
      BY <1>1
    <2> QED BY <1>1, <1>3, <2>1, <2>2 DEF Stays
  <1> QED BY <1>2, <1>4, <1>5, <1>6, <1>7, SpinFrame

LEMMA SpinPlacementStep ==
    ASSUME SpinInv, [SpinNext]_vars
    PROVE  SpinInv'
  <1> USE UthreadAssumption
  <1>0. Typed /\ Typed'
    BY SpinTypedStep DEF SpinInv
  <1>1. CASE UNCHANGED vars
    <2>1. SpinPlacement'
      BY <1>1 DEF vars, queueVars, threadVars, SpinInv, SpinPlacement, NoSleepers,
                  OneDispatch, SpinStopsFirst, SpinStateWhileOn, ExitedIsGone,
                  UnbornIsIdle, ReapsExited, ExclusiveExecution, Idle, Going,
                  Dispatched, StartsAtExit, Occupies
    <2> QED BY <1>0, <2>1 DEF SpinInv
  <1>2. ASSUME NEW p \in Pthreads, SharedScheduler(p) \/ SpinTestFrom(p)
        PROVE  SpinPlacement'
    BY <1>0, <1>2, SpinDequeueStep, SpinPublishStep, SpinSwitchStep,
       SpinArrivalStep DEF SharedScheduler
  <1>3. ASSUME NEW p \in Pthreads, NEW t \in Threads, SharedCall(p, t)
        PROVE  SpinPlacement'
    <2>1. ASSUME NEW u \in Threads, JoinTest(p, t, u) \/ DetachTest(p, t, u)
          PROVE  SpinPlacement'
      <3>1. PICK call \in {"join", "detach"} : Claim(p, t, u, call)
        BY <2>1 DEF JoinTest, DetachTest
      <3>2. /\ pc[p] = "run" /\ cur[p] = t
            /\ UNCHANGED <<queueVars, pc, cur, to, from, stopState, waiting>>
        BY <3>1 DEF Claim, At
      <3> QED BY <1>0, <3>1, <3>2, SpinCallerStep
    <2>2. CASE \/ JoinLock(p, t) /\ state[target[t]] \in {"DYING", "DEAD"}
               \/ JoinReturn(p, t) \/ DetachLock(p, t)
      <3>1. /\ pc[p] = "run" /\ cur[p] = t
            /\ Release(t, target[t], state[target[t]] # "DEAD")
            /\ UNCHANGED <<queueVars, pc, cur, to, from, stopState, waiting>>
        BY <2>2 DEF JoinLock, JoinReturn, DetachLock, At, Release
      <3> QED BY <1>0, <3>1, SpinCallerStep
    <2>3. CASE JoinLock(p, t) /\ state[target[t]] \notin {"DYING", "DEAD"}
      BY <1>0, <2>3, SpinRegisterStep
    <2> QED BY <1>0, <1>3, <2>1, <2>2, <2>3, SpinCreateStep, SpinUnblockStep,
               SpinWaitStep, SpinExitStep DEF SharedCall
  <1>4. ASSUME NEW p \in Pthreads, Yielding(p)
        PROVE  SpinPlacement'
    BY <1>0, <1>4, SpinYieldStep
  <1> QED BY <1>0, <1>1, <1>2, <1>3, <1>4, SpinSteps DEF SpinInv

\* At the start the base thread of the calling pthread is in the queue.
LEMMA SpinInitially == SpinInit => SpinInv
  <1> USE UthreadAssumption
  <1> SUFFICES ASSUME SpinInit PROVE SpinInv
    OBVIOUS
  <1> DEFINE b == Base[MainPthread]
  <1>0. b \in Threads /\ b # Main /\ \A p \in Pthreads : cur[p] # b
    BY DEF SpinInit
  <1>1. /\ ready \in Seq(Threads) /\ ToSet(ready) = {b} /\ IsInjective(ready)
    <2>1. /\ <<>> \in Seq(Threads) /\ ToSet(<<>>) = {} /\ IsInjective(<<>>)
      BY EmptyQueue
    <2>2. ready = Append(<<>>, b)
      BY DEF SpinInit
    <2>3. \A q \in Seq(Threads) :
             /\ Append(q, b) \in Seq(Threads)
             /\ ToSet(Append(q, b)) = ToSet(q) \cup {b}
             /\ IsInjective(q) /\ b \notin ToSet(q) => IsInjective(Append(q, b))
      BY <1>0, AppendQueue
    <2>4. PICK q \in Seq(Threads) : q = <<>>
      BY <2>1
    <2>5. ToSet(q) = {} /\ IsInjective(q) /\ ready = Append(q, b)
      BY <2>1, <2>2, <2>4
    <2> HIDE DEF b
    <2>6. b \notin ToSet(q)
      BY <2>5
    <2> QED BY <2>3, <2>5, <2>6
  <1>2. Typed
    BY <1>1 DEF SpinInit, Typed, TypeOK, Locals, PthreadPC, ThreadPC, StopState,
                ThreadState, Users, Bases
  <1>3. \A t \in Threads : /\ Dispatched(t) <=> t = b
                           /\ Going(t) <=> t = b
                           /\ \A u \in Threads : ~StartsAtExit(u, t)
    BY <1>0, <1>1 DEF SpinInit, Going, Dispatched, StartsAtExit
  <1>4. /\ \A p \in Pthreads : pc[p] = "run" /\ state[cur[p]] = "RUNNING"
        /\ \A p, q \in Pthreads : cur[p] = cur[q] => p = q
        /\ \A t \in Threads : state[t] \notin Exited
    BY DEF SpinInit, Bases, Exited
  <1>5. NoSleepers /\ SpinStopsFirst /\ SpinStateWhileOn /\ ExitedIsGone /\ ReapsExited
    BY <1>0, <1>3, <1>4
       DEF NoSleepers, SpinStopsFirst, SpinStateWhileOn, ExitedIsGone, ReapsExited,
           Occupies
  <1>6. OneDispatch /\ ExclusiveExecution
    BY <1>0, <1>1, <1>3, <1>4 DEF SpinInit, OneDispatch, ExclusiveExecution, Occupies
  <1>7. UnbornIsIdle
    <2>1. \A t \in Threads : state[t] = "UNBORN" => t # b /\ \A p \in Pthreads : cur[p] # t
      BY <1>0, <1>4 DEF SpinInit, Bases
    <2> QED BY <1>3, <2>1 DEF SpinInit, UnbornIsIdle, Idle, Occupies
  <1> QED BY <1>2, <1>5, <1>6, <1>7 DEF SpinInv, SpinPlacement

\* No uthread executes on two pthreads, however long a pthread is delayed.
THEOREM SpinExclusive == SpinSpec => []ExclusiveExecution
  <1>1. SpinInv => ExclusiveExecution
    BY DEF SpinInv, SpinPlacement
  <1> QED BY <1>1, SpinInitially, SpinPlacementStep, PTL DEF SpinSpec

LEMMA SpinOnce == SpinInv => EnqueuedOnce
  <1> SUFFICES ASSUME SpinInv PROVE EnqueuedOnce
    OBVIOUS
  <1> USE UthreadAssumption
  <1>0. Typed /\ OneDispatch /\ UnbornIsIdle /\ ready \in Seq(Threads)
    BY DEF SpinInv, SpinPlacement, Typed, TypeOK
  <1>1. ASSUME NEW p \in Pthreads, pc[p] = "run"
        PROVE  cur[p] \notin ToSet(ready) /\ joiner[cur[p]] \notin ToSet(ready)
    <2>1. /\ cur[p] \in Threads /\ state[cur[p]] = "RUNNING" /\ ~Going(cur[p])
      BY <1>1, SpinRuns
    <2>2. \A s \in ToSet(ready) : s \in Threads /\ Dispatched(s)
      BY <1>0, QueueElements DEF Dispatched
    <2>3. CASE joiner[cur[p]] \in Threads
      <3>1. StartsAtExit(cur[p], joiner[cur[p]])
        BY <2>1 DEF StartsAtExit, Exited
      <3> QED BY <1>0, <2>1, <2>2, <2>3, <3>1 DEF OneDispatch, Going
    <2>4. CASE joiner[cur[p]] \notin Threads
      BY <2>1, <2>2, <2>4 DEF Going
    <2> QED BY <2>3, <2>4
  <1>2. \A t \in Threads :
          t \in waiting \/ state[t] = "UNBORN" => t \notin ToSet(ready)
    BY <1>0 DEF OneDispatch, UnbornIsIdle, Idle, Going, Dispatched
  <1> QED BY <1>0, <1>1, <1>2 DEF EnqueuedOnce, OneDispatch

\* uthread_enqueue is never given a thread that is in the queue, by whichever
\* of its callers: the list stays a list.
THEOREM EnqueuedOnceCorrect == SpinSpec => []EnqueuedOnce
  BY SpinInitially, SpinPlacementStep, SpinOnce, PTL DEF SpinSpec
-----------------------------------------------------------------------------
(* No thread is lost. *)

SpinSomewhere(t) ==
    \/ InFlight(t)
    \/ tpc[t] = "block" /\ t \in waiting
    \/ tpc[t] = "joinWait" /\ joiner[target[t]] = t
    \/ \E p \in Pthreads : Executes(p, t)

SpinAllThere ==
    \A t \in Users : state[t] \in Exited \cup {"UNBORN"} \/ SpinSomewhere(t)

SpinJInv == SpinInv /\ ClaimedOnce /\ SpinAllThere

\* What the scheduler does to the threads on their way, but for the last step
\* of a switch.
LEMMA SpinSchedulerSends ==
    ASSUME Typed, NEW p \in Pthreads,
           DequeueHead(p) \/ SetFromState(p) \/ SwitchTo(p) \/ SpinTestFrom(p) \/ Reap(p)
    PROVE  /\ Sends({}) /\ UNCHANGED <<joiner, tpc, target, waiting, claims>>
           /\ pc[p] # "run"
           /\ \A q \in Pthreads \ {p} : pc'[q] = pc[q] /\ cur'[q] = cur[q]
  <1>1. CASE DequeueHead(p)
    BY <1>1, DequeueSends DEF DequeueHead, threadVars, Typed, TypeOK
  <1>2. CASE SetFromState(p) \/ Reap(p)
    BY <1>2, PthreadSends DEF SetFromState, Reap, threadVars, Typed, TypeOK
  <1>3. CASE SwitchTo(p)
    BY <1>3, SwitchSends DEF SwitchTo, threadVars, Typed, TypeOK
  <1>4. CASE SpinTestFrom(p)
    <2>1. /\ pc[p] = "after" /\ UNCHANGED <<ready, cur, to, joiner, tpc, target, waiting, claims>>
          /\ \E l \in {"reap", "resume"} : pc' = [pc EXCEPT ![p] = l]
      BY <1>4 DEF SpinTestFrom, threadVars, queueVars
    <2>2. {"reap", "resume"} \subseteq PthreadPC \cap Arriving /\ "after" \in Arriving
      BY DEF PthreadPC, Arriving
    <2>3. Sends({})
      BY <2>1, <2>2, MoveSends
    <2> QED BY <2>1, <2>3 DEF Typed, TypeOK
  <1> QED BY <1>1, <1>2, <1>3, <1>4

LEMMA SpinYieldSends ==
    ASSUME Typed, NEW p \in Pthreads, Yielding(p)
    PROVE  /\ Sends({cur[p]}) /\ cur[p] \in Threads
           /\ UNCHANGED <<state, joiner, tpc, target, waiting, claims, cur>>
  <1>1. /\ cur[p] \in Threads /\ pc[p] = "run" /\ UNCHANGED <<cur, to>>
        /\ ReadyEnqueue(cur[p], [pc EXCEPT ![p] = "dequeue"])
    BY DEF Yielding, SpinYieldBy, Typed, TypeOK
  <1>2. "dequeue" \in PthreadPC /\ "dequeue" \notin Arriving /\ "run" \notin Arriving
    BY DEF PthreadPC, Arriving
  <1>3. Sends({cur[p]})
    BY <1>1, <1>2, EnqueueSends
  <1> QED BY <1>1, <1>3 DEF Yielding, SpinYieldBy, threadVars

LEMMA SpinClaimedStep ==
    ASSUME MaxClaims <= 1, SpinInv, ClaimedOnce, [SpinNext]_vars
    PROVE  ClaimedOnce'
  <1>0. Typed
    BY DEF SpinInv
  <1>1. CASE UNCHANGED vars
    BY <1>0, <1>1, ClaimedStep
  <1>2. ASSUME NEW p \in Pthreads,
               SharedScheduler(p) \/ \E t \in Threads : SharedCall(p, t)
        PROVE  ClaimedOnce'
    BY <1>0, <1>2, SharedIsNext, ClaimedStep
  <1>3. ASSUME NEW p \in Pthreads, Yielding(p) \/ SpinTestFrom(p)
        PROVE  ClaimedOnce'
    <2>1. UNCHANGED <<state, joiner, tpc, target, claims>>
      BY <1>3 DEF Yielding, SpinYieldBy, SpinTestFrom, threadVars
    <2> QED BY <1>0, <2>1, ClaimsKept DEF ClaimedOnce
  <1> QED BY <1>1, <1>2, <1>3, SpinSteps

\* A call leaves its caller executing or somewhere else, and the others where
\* they are or on their way.
LEMMA SpinCallKeepsAll ==
    ASSUME SpinInv, ClaimedOnce, NEW p \in Pthreads, NEW t \in Threads,
           SharedCall(p, t), NEW s \in Users, SpinSomewhere(s)
    PROVE  state'[s] \in Exited \/ SpinSomewhere(s)'
  <1>0. Typed /\ s \in Threads /\ Call(p, t)
    BY DEF SpinInv, Users, SharedCall, Call
  <1>1. /\ OthersStay(p) /\ cur' = cur /\ pc[p] = "run" /\ cur[p] = t
    BY <1>0, CallMoves
  <1>2. CASE s # t
    <2>1. ASSUME NEW q \in Pthreads, Executes(q, s)
          PROVE  Executes(q, s)'
      BY <1>1, <1>2, <2>1 DEF Executes, OthersStay
    <2>2. InFlight(s) => InFlight(s)'
      BY <1>0, CallSends
    <2>3. /\ tpc'[s] = tpc[s] /\ target'[s] = target[s]
          /\ tpc[s] = "joinWait" => joiner'[target[s]] = joiner[target[s]]
          /\ s \in waiting => s \in waiting' \/ InFlight(s)'
      BY <1>0, <1>2, CallOthers
    <2> QED BY <2>1, <2>2, <2>3 DEF SpinSomewhere
  <1>3. CASE s = t
    <2>1. CASE pc'[p] = "run"
      BY <1>1, <1>3, <2>1 DEF SpinSomewhere, Executes
    <2>2. CASE Wait(p, t)
      <3>1. tpc'[t] = "block" /\ t \in waiting'
        BY <1>0, <2>2 DEF Wait, Typed, TypeOK
      <3> QED BY <1>3, <3>1 DEF SpinSomewhere
    <2>3. CASE Exit(p, t)
      BY <1>0, <1>3, <2>3 DEF Exit, Exited, Typed, TypeOK
    <2>4. CASE JoinLock(p, t) /\ state[target[t]] \notin {"DYING", "DEAD"}
      <3>1. target[t] \in Threads
        BY <1>0, <2>4 DEF JoinLock, At, ClaimedOnce, Claiming, Typed, TypeOK
      <3>2. tpc'[t] = "joinWait" /\ target' = target /\ joiner'[target[t]] = t
        BY <1>0, <2>4, <3>1 DEF JoinLock, Typed, TypeOK
      <3> QED BY <1>3, <3>2 DEF SpinSomewhere
    <2>5. CASE \/ \E u \in Threads : JoinTest(p, t, u) \/ DetachTest(p, t, u)
               \/ JoinLock(p, t) /\ state[target[t]] \in {"DYING", "DEAD"}
               \/ JoinReturn(p, t) \/ DetachLock(p, t)
      <3>1. pc' = pc
        BY <2>5 DEF JoinTest, DetachTest, Claim, JoinLock, JoinReturn, DetachLock
      <3> QED BY <1>1, <2>1, <3>1
    <2>6. ASSUME NEW u \in Threads, Create(p, t, u) \/ Unblock(p, t, u)
          PROVE  pc'[p] = "run"
      <3>1. ReadyEnqueue(u, pc) /\ NoSleepers
        BY <2>6 DEF Create, Unblock, SpinInv, SpinPlacement
      <3>2. pc' = pc
        BY <1>0, <1>1, <3>1, SpinInsert
      <3> QED BY <1>1, <3>2
    <2> QED BY <2>1, <2>2, <2>3, <2>4, <2>5, <2>6 DEF SharedCall
  <1> QED BY <1>2, <1>3

LEMMA SpinAllStep ==
    ASSUME SpinInv, ClaimedOnce, SpinAllThere, [SpinNext]_vars
    PROVE  SpinAllThere'
  <1> USE UthreadAssumption
  <1>0. Typed /\ Users \subseteq Threads
    BY DEF SpinInv, Users
  <1>1. CASE UNCHANGED vars
    BY <1>1 DEF vars, queueVars, threadVars, SpinAllThere, SpinSomewhere, InFlight,
                Executes
  <1>2. ASSUME NEW p \in Pthreads, NEW t \in Threads, SharedCall(p, t)
        PROVE  SpinAllThere'
    <2> SUFFICES ASSUME NEW s \in Users
                 PROVE  state'[s] \in Exited \cup {"UNBORN"} \/ SpinSomewhere(s)'
      BY DEF SpinAllThere
    <2>0. Call(p, t)
      BY <1>2 DEF SharedCall, Call
    <2>1. CASE Create(p, t, s)
      <3>1. Sends({s})
        BY <1>0, <2>1, CreateSends
      <3> QED BY <1>0, <3>1 DEF Sends, SpinSomewhere
    <2>2. CASE Exit(p, t) /\ s = t
      BY <1>0, <2>2 DEF Exit, Exited, Typed, TypeOK
    <2>3. CASE SameLife(s)
      <3>1. SpinSomewhere(s) => state'[s] \in Exited \/ SpinSomewhere(s)'
        BY <1>2, SpinCallKeepsAll
      <3> QED BY <2>3, <3>1 DEF SpinAllThere, SameLife
    <2> QED BY <1>0, <2>0, <2>1, <2>2, <2>3, CallLife
  <1>3. ASSUME NEW s \in Users, UNCHANGED <<joiner, tpc, target, waiting>>,
               InFlight(s) => InFlight(s)' \/ \E q \in Pthreads : Executes(q, s)',
               \A q \in Pthreads : Executes(q, s) => Executes(q, s)' \/ InFlight(s)',
               state'[s] = "UNBORN" <=> state[s] = "UNBORN",
               state[s] \in Exited => state'[s] \in Exited
        PROVE  state'[s] \in Exited \cup {"UNBORN"} \/ SpinSomewhere(s)'
    BY <1>3 DEF SpinAllThere, SpinSomewhere
  <1>4. ASSUME NEW p \in Pthreads, SharedScheduler(p) \/ SpinTestFrom(p)
        PROVE  SpinAllThere'
    <2>1. ASSUME NEW s \in Users
          PROVE  /\ state'[s] = "UNBORN" <=> state[s] = "UNBORN"
                 /\ state[s] \in Exited => state'[s] \in Exited
      <3>0. s \in Threads /\ cur[p] \in Threads
        BY <1>0, <2>1 DEF Typed, TypeOK
      <3>1. CASE SetFromState(p)
        <4>1. IF stopState[p] = "DYING" THEN state[cur[p]] \in Exited
                                        ELSE state[cur[p]] = "RUNNING"
          BY <3>1 DEF SetFromState, SpinInv, SpinPlacement, SpinStateWhileOn
        <4>2. stopState[p] \in StopState
          BY <1>0 DEF Typed, TypeOK
        <4> QED BY <1>0, <3>0, <3>1, <4>1, <4>2
                DEF SetFromState, Exited, StopState, Typed, TypeOK
      <3>2. CASE Reap(p)
        <4>1. state[from[p]] \in Exited
          BY <3>2 DEF Reap, SpinInv, SpinPlacement, ReapsExited
        <4> QED BY <1>0, <3>0, <3>2, <4>1 DEF Reap, Exited, Typed, TypeOK
      <3>3. CASE Resume(p)
        <4>1. state[cur[p]] \notin Exited \cup {"UNBORN"}
          BY <3>3, SpinArrives DEF Resume
        <4> QED BY <1>0, <3>0, <3>3, <4>1 DEF Resume, Typed, TypeOK
      <3>4. CASE UNCHANGED state
        BY <3>4
      <3> QED BY <1>4, <3>1, <3>2, <3>3, <3>4
              DEF SharedScheduler, DequeueHead, SwitchTo, SpinTestFrom
    <2>2. CASE Resume(p)
      <3> SUFFICES ASSUME NEW s \in Users
                   PROVE  state'[s] \in Exited \cup {"UNBORN"} \/ SpinSomewhere(s)'
        BY DEF SpinAllThere
      <3>1. /\ UNCHANGED <<joiner, target, waiting, cur>>
            /\ pc' = [pc EXCEPT ![p] = "run"] /\ pc[p] = "resume"
            /\ tpc' = [tpc EXCEPT ![cur[p]] = IF @ = "block" THEN "user" ELSE @]
        BY <2>2 DEF Resume
      <3>2. CASE s = cur[p]
        BY <1>0, <3>1, <3>2 DEF SpinSomewhere, Executes, Typed, TypeOK
      <3>3. CASE s # cur[p]
        <4>1. /\ tpc'[s] = tpc[s]
              /\ InFlight(s)' <=> InFlight(s)
          BY <1>0, <2>2, <3>1, <3>3, ResumeFlight DEF Typed, TypeOK
        <4>2. ASSUME NEW q \in Pthreads, Executes(q, s)
              PROVE  Executes(q, s)'
          BY <1>0, <3>1, <3>3, <4>2 DEF Executes, Typed, TypeOK
        <4> QED BY <2>1, <3>1, <4>1, <4>2 DEF SpinAllThere, SpinSomewhere
      <3> QED BY <3>2, <3>3
    <2>3. CASE ~Resume(p)
      <3>1. /\ Sends({}) /\ UNCHANGED <<joiner, tpc, target, waiting>>
            /\ pc[p] # "run"
            /\ \A q \in Pthreads \ {p} : pc'[q] = pc[q] /\ cur'[q] = cur[q]
        BY <1>0, <1>4, <2>3, SpinSchedulerSends DEF SharedScheduler
      <3>2. \A s \in Users : InFlight(s) => InFlight(s)'
        BY <1>0, <3>1 DEF Sends
      <3>3. \A s \in Users : \A q \in Pthreads : Executes(q, s) => Executes(q, s)'
        BY <3>1 DEF Executes
      <3> QED BY <1>3, <2>1, <3>1, <3>2, <3>3 DEF SpinAllThere
    <2> QED BY <2>2, <2>3
  <1>5. ASSUME NEW p \in Pthreads, Yielding(p)
        PROVE  SpinAllThere'
    <2>1. /\ Sends({cur[p]}) /\ cur[p] \in Threads
          /\ UNCHANGED <<state, joiner, tpc, target, waiting, cur>>
      BY <1>0, <1>5, SpinYieldSends
    <2>2. NoSleepers /\ "dequeue" \in {"run", "dequeue"}
      BY DEF SpinInv, SpinPlacement
    <2>3. pc' = [pc EXCEPT ![p] = "dequeue"]
      BY <1>0, <1>5, <2>1, <2>2, SpinEnqueue DEF Yielding, SpinYieldBy
    <2>4. \A s \in Users : InFlight(s) => InFlight(s)'
      BY <1>0, <2>1 DEF Sends
    <2>5. \A s \in Users : \A q \in Pthreads :
             Executes(q, s) => Executes(q, s)' \/ InFlight(s)'
      BY <1>0, <2>1, <2>3 DEF Executes, Sends, Typed, TypeOK
    <2> QED BY <1>3, <2>1, <2>4, <2>5 DEF SpinAllThere
  <1> QED BY <1>1, <1>2, <1>4, <1>5, SpinSteps

LEMMA SpinJInitially == SpinInit => SpinJInv
  <1> SUFFICES ASSUME SpinInit PROVE SpinJInv
    OBVIOUS
  <1> USE UthreadAssumption
  <1>1. SpinInv
    BY SpinInitially
  <1>2. ClaimedOnce
    BY DEF SpinInit, ClaimedOnce, Claiming
  <1>3. Executes(MainPthread, Main)
    BY DEF SpinInit, Executes
  <1>4. \A t \in Users : t = Main \/ state[t] = "UNBORN"
    BY DEF SpinInit, Users, Bases
  <1> QED BY <1>1, <1>2, <1>3, <1>4 DEF SpinJInv, SpinAllThere, SpinSomewhere

\* Nor does a thread disappear between the queue, a wait queue, a joiner field
\* and the pthreads, if no thread is joined or detached twice.
THEOREM EnqueuedOnceAndKeptCorrect ==
    ASSUME MaxClaims <= 1 PROVE SpinSpec => []EnqueuedOnceAndKept
  <1>1. SpinJInv /\ [SpinNext]_vars => SpinJInv'
    BY SpinPlacementStep, SpinClaimedStep, SpinAllStep DEF SpinJInv
  <1>2. SpinJInv => EnqueuedOnceAndKept
    BY SpinOnce DEF SpinJInv, SpinAllThere, SpinSomewhere, EnqueuedOnceAndKept,
                    NoThreadLost, Executes, Exited
  <1> QED BY <1>1, <1>2, SpinJInitially, PTL DEF SpinSpec
-----------------------------------------------------------------------------
(* The refinement of ThreadSched: the promise is the one of Uthread. *)

LEMMA SpinWaitBlocks ==
    ASSUME SpinInv, NEW p \in Pthreads, NEW t \in Threads, Wait(p, t)
    PROVE  Sched!Block(t)
  <1>0. Typed
    BY DEF SpinInv
  <1>1. /\ t \in Users /\ pc[p] = "run" /\ cur[p] = t /\ tpc[t] = "user"
        /\ tpc' = [tpc EXCEPT ![t] = "block"]
    BY DEF Wait, At
  <1>2. Parked' = Parked \cup {t} /\ t \notin Parked /\ Parked \subseteq Users
    BY <1>0, <1>1 DEF Parked, Typed, TypeOK, Users
  <1>3. ~InFlight(t)
    <2>1. ~Going(t) /\ \A q \in Pthreads : Occupies(q, t) => q = p
      BY <1>1, SpinRuns
    <2> QED BY <1>1, <2>1 DEF InFlight, Going, Dispatched, Occupies
  <1>4. \A s \in Users : InFlight(s)' <=> InFlight(s)
    <2>1. Sends({})
      BY <1>0, StopSends
    <2> QED BY <2>1 DEF Sends, Users
  <1>5. {s \in Parked : InFlight(s)}' = {s \in Parked : InFlight(s)}
    BY <1>1, <1>2, <1>3, <1>4
  <1> QED BY <1>2, <1>5 DEF Sched!Block

LEMMA SpinUnblockUnblocks ==
    ASSUME SpinInv, NEW p \in Pthreads, NEW t \in Threads, NEW u \in Threads,
           Unblock(p, t, u)
    PROVE  u \in Users /\ Sched!Unblock({u})
  <1>0. Typed
    BY DEF SpinInv
  <1>1. u \in Users /\ u \in waiting /\ tpc' = tpc
    BY <1>0 DEF Unblock, Typed, TypeOK
  <1>2. ~Dispatched(u) /\ tpc[u] = "block" /\ Going(u)
    BY <1>1 DEF SpinInv, SpinPlacement, OneDispatch, Going
  <1>3. ~InFlight(u)
    <2>1. \A q \in Pthreads : Occupies(q, u) => pc[q] \in {"dequeue", "switch"}
      BY <1>2 DEF SpinInv, SpinPlacement, SpinStopsFirst
    <2> QED BY <1>2, <2>1 DEF InFlight, Dispatched, Occupies
  <1>4. Parked' = Parked /\ u \in Parked /\ Parked \subseteq Users
    BY <1>1, <1>2 DEF Parked
  <1>5. \A s \in Users : InFlight(s)' <=> InFlight(s) \/ s = u
    BY <1>0, UnblockSends DEF Sends, Users
  <1>6. {s \in Parked : InFlight(s)}' = {s \in Parked : InFlight(s)} \cup {u}
    BY <1>4, <1>5
  <1> QED BY <1>1, <1>3, <1>4, <1>6 DEF Sched!Unblock

LEMMA SpinResumeReturns ==
    ASSUME Typed, NEW p \in Pthreads, Resume(p)
    PROVE  \/ cur[p] \in Users /\ Sched!Return(cur[p])
           \/ UNCHANGED Sched!vars
  <1> DEFINE c == cur[p]
  <1>1. /\ c \in Threads /\ InFlight(c)
        /\ tpc' = [tpc EXCEPT ![c] = IF @ = "block" THEN "user" ELSE @]
    BY DEF Resume, InFlight, Typed, TypeOK
  <1>2. \A s \in Threads \ {c} : InFlight(s)' <=> InFlight(s)
    BY ResumeFlight
  <1>3. Parked' = Parked \ {c} /\ Parked \subseteq Threads
    BY <1>1 DEF Parked, Typed, TypeOK, Users
  <1>4. {s \in Parked : InFlight(s)}' = {s \in Parked : InFlight(s)} \ {c}
    BY <1>2, <1>3
  <1>5. CASE c \in Parked
    BY <1>1, <1>3, <1>4, <1>5 DEF Sched!Return, Parked
  <1>6. CASE c \notin Parked
    BY <1>3, <1>4, <1>6 DEF Sched!vars
  <1> QED BY <1>5, <1>6

LEMMA SpinSchedStep ==
    ASSUME SpinInv, [SpinNext]_vars
    PROVE  Sched!Next \/ UNCHANGED Sched!vars
  <1> USE UthreadAssumption
  <1>0. Typed
    BY DEF SpinInv
  <1>1. CASE UNCHANGED vars
    BY <1>1 DEF vars, queueVars, threadVars, Sched!vars, Parked, InFlight
  <1>2. ASSUME NEW S, Sends(S), UNCHANGED tpc,
               \A t \in S \cap Users : tpc[t] # "block"
        PROVE  UNCHANGED Sched!vars
    BY <1>2, Invisible
  <1>3. ASSUME NEW p \in Pthreads, SharedScheduler(p) \/ SpinTestFrom(p)
        PROVE  Sched!Next \/ UNCHANGED Sched!vars
    <2>1. CASE Resume(p)
      BY <1>0, <2>1, SpinResumeReturns DEF Sched!Next, Users
    <2>2. CASE ~Resume(p)
      BY <1>0, <1>2, <1>3, <2>2, SpinSchedulerSends DEF SharedScheduler
    <2> QED BY <2>1, <2>2
  <1>4. ASSUME NEW p \in Pthreads, Yielding(p),
               cur[p] \in Users => tpc[cur[p]] = "user"
        PROVE  UNCHANGED Sched!vars
    <2>1. Sends({cur[p]}) /\ UNCHANGED tpc
      BY <1>0, <1>4, SpinYieldSends
    <2> QED BY <1>2, <1>4, <2>1
  <1>5. ASSUME NEW p \in Pthreads, NEW t \in Threads, SharedCall(p, t)
        PROVE  Sched!Next \/ UNCHANGED Sched!vars
    <2>1. ASSUME NEW u \in Threads, Create(p, t, u)
          PROVE  UNCHANGED Sched!vars
      <3>1. tpc[u] = "user" /\ UNCHANGED tpc
        BY <2>1 DEF Create, threadVars, SpinInv, SpinPlacement, UnbornIsIdle
      <3>2. Sends({u})
        BY <1>0, <2>1, CreateSends
      <3> QED BY <1>2, <3>1, <3>2
    <2>2. ASSUME NEW u \in Threads, Unblock(p, t, u)
          PROVE  Sched!Next
      <3>1. u \in Users /\ Sched!Unblock({u})
        BY <2>2, SpinUnblockUnblocks
      <3>2. {u} \in SUBSET Users /\ {u} # {}
        BY <3>1
      <3> QED BY <3>1, <3>2 DEF Sched!Next
    <2>3. CASE Wait(p, t)
      <3>1. t \in Users
        BY <2>3 DEF Wait, At
      <3> QED BY <2>3, <3>1, SpinWaitBlocks DEF Sched!Next
    <2>4. CASE Exit(p, t)
      <3>1. /\ pc[p] = "run" /\ cur[p] = t /\ UNCHANGED tpc
        BY <2>4 DEF Exit, At
      <3>2. state[t] = "RUNNING"
        BY <3>1, SpinRuns
      <3>3. ASSUME NEW j \in {joiner[t]} \ {None, Detached}, j \in Users
            PROVE  tpc[j] # "block"
        <4>1. StartsAtExit(t, j) /\ j \in Threads
          BY <3>2, <3>3 DEF StartsAtExit, Exited, Users
        <4>2. tpc[j] = "joinWait"
          BY <4>1 DEF SpinInv, SpinPlacement, OneDispatch
        <4> QED BY <4>2
      <3>4. Sends({joiner[t]} \ {None, Detached})
        BY <1>0, <2>4, ExitSends
      <3> QED BY <1>2, <3>1, <3>3, <3>4
    <2>5. CASE \/ \E u \in Threads : JoinTest(p, t, u) \/ DetachTest(p, t, u)
               \/ JoinLock(p, t) \/ JoinReturn(p, t) \/ DetachLock(p, t)
      <3>1. /\ Sends({}) /\ tpc[t] # "block"
            /\ \E l \in ThreadPC \ {"block"} : tpc' = [tpc EXCEPT ![t] = l]
        BY <1>0, <2>5, JoinSends
      <3>2. \A s \in Users : tpc'[s] = "block" <=> tpc[s] = "block"
        BY <1>0, <3>1 DEF Typed, TypeOK, Users
      <3> QED BY <3>1, <3>2, Invisible
    <2> QED BY <1>5, <2>1, <2>2, <2>3, <2>4, <2>5 DEF SharedCall
  <1> QED BY <1>1, <1>3, <1>4, <1>5, SpinSteps

\* The earlier packages keep the same promise to the code built on
\* uthread_block and uthread_unblock, however long a pthread is delayed.
THEOREM SpinImplementsSched == SpinSpec => ImplementsSched
  <1>1. SpinInit => Sched!Init
    <2> SUFFICES ASSUME SpinInit PROVE Sched!Init
      OBVIOUS
    <2>1. Parked = {}
      BY DEF SpinInit, Parked, Users
    <2> QED BY <2>1 DEF Sched!Init
  <1>2. SpinInv /\ [SpinNext]_vars => [Sched!Next]_Sched!vars
    BY SpinSchedStep
  <1> QED BY <1>1, <1>2, SpinInitially, SpinPlacementStep, PTL
          DEF SpinSpec, ImplementsSched, Sched!Spec
=============================================================================
