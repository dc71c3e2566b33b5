----------------------------- MODULE ThreadLife -----------------------------
(***************************************************************************)
(* What uthread_create, uthread_join and the return of a thread's          *)
(* procedure promise to the programs: a thread runs from its creation to   *)
(* its return, and a join returns when its target has exited, not before.  *)
(* The programs of CS213/code-10 are built on this; Uthread implements it. *)
(***************************************************************************)
CONSTANTS Threads, Main,
          None     \* no thread

VARIABLES
    life,       \* life[t]: not created yet, alive or exited
    joining     \* joining[t]: the thread whose exit t waits for, or None

lifeVars == <<life, joining>>

LifeInit ==
    /\ life = [t \in Threads |-> IF t = Main THEN "alive" ELSE "unborn"]
    /\ joining = [t \in Threads |-> None]

Runs(t) == life[t] = "alive" /\ joining[t] = None

\* uthread_create, called by t
Start(t, u) ==
    /\ Runs(t)
    /\ life[u] = "unborn"
    /\ life' = [life EXCEPT ![u] = "alive"]
    /\ UNCHANGED joining

\* start_proc of t returns
End(t) ==
    /\ Runs(t)
    /\ life' = [life EXCEPT ![t] = "exited"]
    /\ UNCHANGED joining

\* t calls uthread_join on u, and returns from it
Join(t, u) ==
    /\ Runs(t)
    /\ life[u] # "unborn"
    /\ joining' = [joining EXCEPT ![t] = u]
    /\ UNCHANGED life

JoinEnds(t) ==
    /\ joining[t] # None
    /\ life[joining[t]] = "exited"
    /\ joining' = [joining EXCEPT ![t] = None]
    /\ UNCHANGED life

LifeNext ==
    \E t \in Threads : \/ End(t) \/ JoinEnds(t)
                       \/ \E u \in Threads : Start(t, u) \/ Join(t, u)

LifeSpec == LifeInit /\ [][LifeNext]_lifeVars
=============================================================================
