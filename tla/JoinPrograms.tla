---------------------------- MODULE JoinPrograms ----------------------------
(***************************************************************************)
(* The programs that create threads and join them: q1.c prints four words  *)
(* in order, q2.c counts up and down and prints the count.  The versions   *)
(* of CS213/code-10 and CS213/soln-7 order the calls differently: the      *)
(* first joins each thread before it creates the next and locks around     *)
(* each addition, the second lets the threads join each other and locks    *)
(* around the loop.                                                        *)
(*                                                                         *)
(* A program gives each thread its calls in order.  An addition made under *)
(* the lock is one step.                                                   *)
(***************************************************************************)
EXTENDS Integers, SequencesExt, ThreadLife

CONSTANT N     \* the number of additions of q2.c

ASSUME JoinAssumption ==
    /\ Threads = {"main", "p0", "p1", "p2"} /\ Main = "main"
    /\ None \notin Threads
    /\ N \in Nat

VARIABLES
    source,    \* which of the four programs runs
    done,      \* done[t]: the calls that t has completed
    said,      \* the words printed, by the thread that prints each
    cnt

joinVars == <<source, done, said, cnt, lifeVars>>

create(t) == <<"create", t>>
join(t) == <<"join", t>>
add(n) == <<"add", n>>
print == <<"print">>

Workers == <<"p0", "p1", "p2">>
Times(n, call) == [i \in 1..n |-> call]

\* main and the workers of q1.c
Q1Alternates(t) ==
    IF t = "main"
    THEN <<create("p0"), join("p0"), create("p1"), join("p1"),
           create("p2"), join("p2"), print>>
    ELSE <<print>>

Q1Chain(t) ==
    CASE t = "main" -> <<create("p0"), create("p1"), create("p2"), join("p2"), print>>
      [] t = "p0" -> <<print>>
      [] t = "p1" -> <<join("p0"), print>>
      [] t = "p2" -> <<join("p1"), print>>

Q2Main == <<create("p0"), create("p1"), create("p2"),
            join("p0"), join("p1"), join("p2"), print>>

\* countUp and countDown, with the lock inside and outside the loop
Q2Each(t) == IF t = "main" THEN Q2Main ELSE Times(N, add(1)) \o Times(N, add(-1))
Q2Loop(t) == IF t = "main" THEN Q2Main ELSE <<add(N), add(-N)>>

Sources == {"code-10/q1", "soln-7/q1", "code-10/q2", "soln-7/q2"}

Program(t) == CASE source = "code-10/q1" -> Q1Alternates(t)
                [] source = "soln-7/q1" -> Q1Chain(t)
                [] source = "code-10/q2" -> Q2Each(t)
                [] source = "soln-7/q2" -> Q2Loop(t)

JoinInit ==
    /\ LifeInit
    /\ source \in Sources
    /\ done = [t \in Threads |-> 0]
    /\ said = <<>>
    /\ cnt = 0

\* The call that t makes next, or is in.
Call(t) == Program(t)[done[t] + 1]
Pending(t) == done[t] < Len(Program(t))
Completes(t) == done' = [done EXCEPT ![t] = @ + 1]

Creates(t) ==
    /\ Call(t)[1] = "create" /\ Start(t, Call(t)[2])
    /\ Completes(t)
    /\ UNCHANGED <<said, cnt>>

BeginsJoin(t) ==
    /\ Call(t)[1] = "join" /\ Join(t, Call(t)[2])
    /\ UNCHANGED <<done, said, cnt>>

EndsJoin(t) ==
    /\ JoinEnds(t)
    /\ Completes(t)
    /\ UNCHANGED <<said, cnt>>

Adds(t) ==
    /\ Call(t)[1] = "add" /\ Runs(t)
    /\ cnt' = cnt + Call(t)[2]
    /\ Completes(t)
    /\ UNCHANGED <<said, lifeVars>>

PrintsWord(t) ==
    /\ Call(t)[1] = "print" /\ Runs(t)
    /\ said' = Append(said, t)
    /\ Completes(t)
    /\ UNCHANGED <<cnt, lifeVars>>

Returns(t) ==
    /\ ~Pending(t) /\ End(t)
    /\ UNCHANGED <<done, said, cnt>>

JoinNext ==
    /\ UNCHANGED source
    /\ \E t \in Threads :
         \/ Pending(t) /\ (\/ Creates(t) \/ BeginsJoin(t) \/ EndsJoin(t)
                           \/ Adds(t) \/ PrintsWord(t))
         \/ Returns(t)
-----------------------------------------------------------------------------
\* What main prints comes last and is right: the words in order, the count
\* back at zero although threads count up and down at the same time.
MainPrintsLast ==
    /\ source \in {"code-10/q1", "soln-7/q1"} => IsPrefix(said, Workers \o <<"main">>)
    /\ said # <<>> /\ Last(said) = "main" =>
         cnt = 0 /\ \A t \in Threads \ {"main"} : life[t] = "exited"

\* A thread lives and waits for nobody, or for one that has exited.
JoinMoves ==
    \E t \in Threads :
        life[t] = "alive" /\ (joining[t] # None => life[joining[t]] = "exited")

JoinDone == \A t \in Threads : life[t] = "exited"
=============================================================================
