----------------------------- MODULE UthreadInv ----------------------------
(***************************************************************************)
(* The inductive invariant behind ExclusiveExecution: where a thread can   *)
(* be, and what may still send it to a pthread.  It holds when no pthread  *)
(* is delayed past the next stop of the thread it left (LateCheck = FALSE).*)
(***************************************************************************)
EXTENDS Uthread

Exited == {"DYING", "DEAD", "FREED"}

\* A dispatch of t is under way: in the ready queue, or chosen by a pthread.
Dispatched(t) == t \in ToSet(ready) \/ \E p \in Pthreads : to[p] = t

\* u will start t when it exits.
StartsAtExit(u, t) == joiner[u] = t /\ state[u] \notin Exited

\* Something will send t to a pthread without t doing anything more.
Going(t) == Dispatched(t) \/ t \in waiting
            \/ \E u \in Threads : StartsAtExit(u, t)

\* Nothing will, and no pthread executes t.
Idle(t) == ~Going(t) /\ \A p \in Pthreads : ~Occupies(p, t)

\* p left the stack of t and still has to dispose of t.
LeftBy(p, t) == \/ pc[p] = "spin" /\ cur[p] = t
                \/ pc[p] \in {"after", "requeue", "reap"} /\ from[p] = t

\* The local variables of uthread_switch are set while they are used.
Locals ==
    \A p \in Pthreads :
        /\ to[p] # None <=> pc[p] \in {"switch", "spin"}
        /\ pc[p] \in {"after", "requeue", "reap", "resume"} => from[p] # None

\* A base thread executes on its own pthread, is dispatched only there, and
\* only ever blocks.
BasesStay ==
    /\ ToSet(ready) \cup waiting \subseteq Users
    /\ \A u \in Threads : joiner[u] \in Users \cup {None, Detached}
    /\ \A p \in Pthreads :
         /\ state[Base[p]] \notin Exited \cup {"UNBORN"}
         /\ cur[p] \in Bases => cur[p] = Base[p]
         /\ to[p] \in Bases => to[p] = Base[p] /\ cur[p] # Base[p]
         /\ pc[p] \in {"toSleep", "asleep", "woken"}
              => cur[p] = Base[p] /\ stopState[p] = "BLOCKED"
         /\ pc[p] \in {"dequeue", "switch"} /\ cur[p] = Base[p]
              => stopState[p] = "BLOCKED"
         /\ \A t \in Bases : LeftBy(p, t) => stopState[p] = "BLOCKED"

\* At most one thing sends a thread to a pthread.
OneDispatch ==
    /\ IsInjective(ready)
    /\ \A p \in Pthreads : to[p] \notin ToSet(ready)
    /\ \A p, q \in Pthreads : to[p] = to[q] /\ to[p] # None => p = q
    /\ \A t \in waiting : ~Dispatched(t) /\ tpc[t] = "block"
    /\ \A u, t \in Threads : StartsAtExit(u, t) =>
         ~Dispatched(t) /\ tpc[t] = "joinWait" /\ target[t] = u

\* A thread that is sent to a pthread while it still executes is on its way
\* to stop, and says so by RUNNING until it has.
StopsFirst ==
    \A p \in Pthreads : \A t \in Threads :
        Going(t) /\ Occupies(p, t) =>
            /\ pc[p] \in {"dequeue", "switch"}
            /\ stopState[p] = "BLOCKED"
            /\ state[t] = "RUNNING"

\* The state field of a thread that executes client code or stops.
StateWhileOn ==
    \A p \in Pthreads :
        /\ pc[p] \in {"run", "toSleep", "asleep", "woken"}
              => state[cur[p]] = "RUNNING"
        /\ pc[p] \in {"dequeue", "switch"} =>
              state[cur[p]] = IF stopState[p] = "DYING" THEN "DYING"
                                                        ELSE "RUNNING"

\* A thread that exited never comes back.
ExitedIsGone ==
    \A t \in Threads : state[t] \in Exited =>
        /\ ~Going(t)
        /\ \A p \in Pthreads : Occupies(p, t) =>
             pc[p] \in {"dequeue", "switch"} /\ stopState[p] = "DYING"

\* A thread not created yet is nowhere.
UnbornIsNowhere ==
    \A t \in Threads : state[t] = "UNBORN" =>
        Idle(t) /\ \A p \in Pthreads : ~LeftBy(p, t)

\* One pthread at a time disposes of a thread; until it has, the thread is
\* what that pthread published, unless it was blocked and runs again.
OneDisposal ==
    /\ \A p, q \in Pthreads : \A t \in Threads :
         LeftBy(p, t) /\ LeftBy(q, t) => p = q
    /\ \A p \in Pthreads : \A t \in Threads : LeftBy(p, t) =>
         /\ stopState[p] # "BLOCKED" => state[t] = stopState[p] /\ Idle(t)
         /\ stopState[p] = "BLOCKED" => state[t] \in {"BLOCKED", "RUNNING"}
    /\ \A p \in Pthreads :
         /\ pc[p] = "requeue" => stopState[p] = "RUNABLE"
         /\ pc[p] = "reap" => stopState[p] = "DYING"

Placement ==
    /\ Locals
    /\ BasesStay
    /\ OneDispatch
    /\ StopsFirst
    /\ StateWhileOn
    /\ ExitedIsGone
    /\ UnbornIsNowhere
    /\ OneDisposal
    /\ ExclusiveExecution
=============================================================================
