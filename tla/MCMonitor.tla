------------------------------ MODULE MCMonitor ----------------------------
(***************************************************************************)
(* The programs built on threads, mutexes and condition variables, as one  *)
(* instance: the first state chooses the program that runs, the variables  *)
(* of the others stay as they start.                                       *)
(***************************************************************************)
EXTENDS ProdCons, Barrier, Ordering, JoinPrograms, Well

VARIABLE program

vars == <<program, prodConsVars, barrierVars, countDownVars, orderingVars,
          joinVars, wellVars>>

Init ==
    /\ program \in {"ProdCons", "Barrier", "CountDown", "Ordering",
                    "LoopOrdering", "JoinPrograms", "Well"}
    /\ ProdConsInit /\ BarrierInit /\ CountDownInit /\ OrderingInit
    /\ JoinInit /\ WellInit
    /\ program # "Well" => endOf = [x \in People |-> "little"]
    /\ program # "JoinPrograms" => source = "code-10/q1"

ProgramStep ==
    /\ UNCHANGED program
    /\ \/ program = "ProdCons" /\ ProdConsNext
       \/ program # "ProdCons" /\ UNCHANGED prodConsVars
    /\ \/ program = "Barrier" /\ BarrierNext
       \/ program # "Barrier" /\ UNCHANGED barrierVars
    /\ \/ program = "CountDown" /\ CountDownNext
       \/ program # "CountDown" /\ UNCHANGED countDownVars
    /\ \/ program = "Ordering" /\ OrderingNext
       \/ program = "LoopOrdering" /\ LoopOrderingNext
       \/ program \notin {"Ordering", "LoopOrdering"} /\ UNCHANGED orderingVars
    /\ \/ program = "JoinPrograms" /\ JoinNext
       \/ program # "JoinPrograms" /\ UNCHANGED joinVars
    /\ \/ program = "Well" /\ WellNext
       \/ program # "Well" /\ UNCHANGED wellVars

\* All threads have made their calls, or, in CountDown, a decrement was lost.
Done == CASE program = "ProdCons" -> ProdConsDone
          [] program = "Barrier" -> BarrierDone
          [] program = "CountDown" -> CountDownDone
          [] program \in {"Ordering", "LoopOrdering"} -> OrderingDone
          [] program = "JoinPrograms" -> JoinDone
          [] program = "Well" -> WellDone

\* The end of a program: where another state has no step, TLC reports a deadlock.
Finished == Done /\ UNCHANGED vars

Next == ProgramStep \/ Finished

Spec == Init /\ [][Next]_vars

MCSymmetry == Permutations(People)
-----------------------------------------------------------------------------
\* What the printing programs print comes in the intended order: behind the
\* barriers no thread is ahead of another, in CountDown all pass or none does,
\* and main prints when the threads it waits for have ended.
PrintsInOrder == AsBeforeBs /\ InOrder /\ AllPassOrNone /\ MainPrintsLast

\* The bounded counter stays in its bounds, and every change of it reaches
\* somebody who waits for it.
CounterSound == ItemsInBounds /\ NoSignalLost

\* The well: its fields agree with the people, no waiting time falls outside
\* the histogram, and whoever waits will be signalled.
WellConsistent == OneKindInside /\ WaitingTimeInRange /\ NobodyForgotten

\* No program comes to a standstill: as long as a thread has calls to make,
\* one of those threads is not asleep; nobody waits for a signal or an exit that
\* will not come.  Except in CountDown, when a decrement was lost.
SomebodyAwake ==
    CASE program = "ProdCons" -> ProdConsMoves
      [] program = "Barrier" -> BarrierMoves
      [] program = "CountDown" -> CountDownMoves
      [] program \in {"Ordering", "LoopOrdering"} -> OrderingMoves
      [] program = "JoinPrograms" -> JoinMoves
      [] program = "Well" -> WellMoves

NoStandstill == SomebodyAwake \/ Done
=============================================================================
