----------------------------- MODULE USemProofs ----------------------------
(***************************************************************************)
(* Proofs about USem, for every set of threads, every initial value and    *)
(* every number of signals.                                                *)
(***************************************************************************)
EXTENDS USem, BasicLemmas, FiniteSetTheorems

\* Whatever the operations do, the variables keep their types: the queue holds
\* threads only, and an unblock is pending only for a thread that is stopped.
THEOREM TypeCorrect == Spec => []TypeOK
  <1> USE DEF Sched!Block, Sched!Unblock, Sched!Return, Sched!Init
  <1>1. Init => TypeOK
    BY USemAssumption, EmptyQueue DEF Init, TypeOK
  <1>2. TypeOK /\ [Next]_vars => TypeOK'
    <2> SUFFICES ASSUME TypeOK, [Next]_vars PROVE TypeOK'
      OBVIOUS
    <2> USE DEF TypeOK
    <2>1. ASSUME NEW t \in Threads, Signal(t) PROVE TypeOK'
      <3>1. CASE waiters # <<>>
        <4>1. Head(waiters) \in Threads /\ Tail(waiters) \in Seq(Threads)
          BY <3>1, TailQueue
        <4> QED BY <2>1, <3>1, <4>1, USemAssumption DEF Signal
      <3>2. CASE waiters = <<>>
        BY <2>1, <3>2, USemAssumption DEF Signal
      <3> QED BY <3>1, <3>2
    <2>2. ASSUME NEW t \in Threads, TakePermit(t) PROVE TypeOK'
      BY <2>2 DEF TakePermit
    <2>3. ASSUME NEW t \in Threads, Enqueue(t) PROVE TypeOK'
      BY <2>3, AppendQueue DEF Enqueue
    <2>4. ASSUME NEW t \in Threads, Return(t) PROVE TypeOK'
      BY <2>4 DEF Return
    <2>5. CASE UNCHANGED vars
      BY <2>5 DEF vars
    <2> QED BY <2>1, <2>2, <2>3, <2>4, <2>5 DEF Next
  <1> QED BY <1>1, <1>2, PTL DEF Spec

\* A stopped thread is in the wait queue, once, until it is unblocked.  The
\* property is inductive as it stands, given the types.
THEOREM StoppedIsQueuedCorrect == Spec => []StoppedIsQueued
  <1> USE DEF Sched!Block, Sched!Unblock, Sched!Return, Sched!Init
  <1>1. Init => StoppedIsQueued
    BY EmptyQueue DEF Init, StoppedIsQueued
  <1>2. TypeOK /\ StoppedIsQueued /\ [Next]_vars => StoppedIsQueued'
    <2> SUFFICES ASSUME TypeOK, StoppedIsQueued, [Next]_vars
                 PROVE  StoppedIsQueued'
      OBVIOUS
    <2> USE DEF TypeOK, StoppedIsQueued
    <2>1. ASSUME NEW t \in Threads, Signal(t) PROVE StoppedIsQueued'
      <3>1. CASE waiters # <<>>
        <4> DEFINE h == Head(waiters)
        <4>1. /\ waiters' = Tail(waiters) /\ tokens' = tokens \cup {h}
              /\ parked' = parked /\ pc' = pc
          BY <2>1, <3>1 DEF Signal
        <4>2. /\ ToSet(waiters) = ToSet(Tail(waiters)) \cup {h}
              /\ h \notin ToSet(Tail(waiters))
              /\ IsInjective(Tail(waiters))
          BY <3>1, TailQueue
        <4>3. ToSet(waiters') = ToSet(waiters) \ {h}
          BY <4>1, <4>2
        <4> HIDE DEF h
        <4>4. ASSUME NEW u \in Threads
              PROVE  u \in ToSet(waiters') <=> u \in parked' \ tokens'
          BY <4>1, <4>3
        <4> QED BY <4>1, <4>2, <4>4
      <3>2. CASE waiters = <<>>
        BY <2>1, <3>2 DEF Signal
      <3> QED BY <3>1, <3>2
    <2>2. ASSUME NEW t \in Threads, TakePermit(t) PROVE StoppedIsQueued'
      BY <2>2 DEF TakePermit, Active
    <2>3. ASSUME NEW t \in Threads, Enqueue(t) PROVE StoppedIsQueued'
      BY <2>3, AppendQueue DEF Enqueue, Active
    <2>4. ASSUME NEW t \in Threads, Return(t) PROVE StoppedIsQueued'
      BY <2>4 DEF Return
    <2>5. CASE UNCHANGED vars
      BY <2>5 DEF vars
    <2> QED BY <2>1, <2>2, <2>3, <2>4, <2>5 DEF Next
  <1> QED BY <1>1, <1>2, TypeCorrect, PTL DEF Spec

\* The set of woken threads is finite, and changes by the thread that moves.
LEMMA InFlightFinite ==
    ASSUME TypeOK
    PROVE  IsFiniteSet(InFlight) /\ Cardinality(InFlight) \in Nat
  <1>1. InFlight \subseteq Threads
    BY DEF InFlight, TypeOK
  <1> QED BY <1>1, USemAssumption, FS_Subset, FS_CardinalityType

\* No lost wakeup: while a thread stays queued, the free permits do not
\* outnumber the woken threads.  A signal adds one of each; a permit that a
\* newcomer takes, or that a woken thread takes, leaves the balance; and a
\* thread queues itself only when there is no free permit.
THEOREM NoLostWakeupCorrect == Spec => []NoLostWakeup
  <1> USE DEF Sched!Block, Sched!Unblock, Sched!Return, Sched!Init
  <1>1. Init => NoLostWakeup
    BY DEF Init, NoLostWakeup
  <1>2. TypeOK /\ TypeOK' /\ StoppedIsQueued /\ NoLostWakeup /\ [Next]_vars
          => NoLostWakeup'
    <2> SUFFICES ASSUME TypeOK, TypeOK', StoppedIsQueued, NoLostWakeup,
                        [Next]_vars
                 PROVE  NoLostWakeup'
      OBVIOUS
    <2>a. /\ IsFiniteSet(InFlight) /\ Cardinality(InFlight) \in Nat
          /\ Cardinality(InFlight') \in Nat
      BY InFlightFinite, USemAssumption, FS_Subset, FS_CardinalityType
         DEF InFlight, TypeOK
    <2>1. ASSUME NEW t \in Threads, Signal(t) PROVE NoLostWakeup'
      <3>1. CASE waiters # <<>>
        <4> DEFINE h == Head(waiters)
        <4>1. h \in parked \ tokens
          BY <3>1, TailQueue DEF TypeOK, StoppedIsQueued
        <4>2. h \notin InFlight
          BY <4>1 DEF InFlight
        <4>3. InFlight' = InFlight \cup {h}
          BY <2>1, <3>1 DEF Signal, InFlight
        <4>4. Cardinality(InFlight') = Cardinality(InFlight) + 1
          BY <2>a, <4>2, <4>3, FS_AddElement
        <4>5. value' = value + 1
          BY <2>1 DEF Signal
        <4> QED BY <2>a, <3>1, <4>4, <4>5 DEF NoLostWakeup, TypeOK
      <3>2. CASE waiters = <<>>
        BY <2>1, <3>2 DEF Signal, NoLostWakeup
      <3> QED BY <3>1, <3>2
    <2>2. ASSUME NEW t \in Threads, TakePermit(t) PROVE NoLostWakeup'
      <3>1. InFlight' = InFlight \ {t}
        BY <2>2 DEF TakePermit, Active, InFlight, TypeOK
      <3>2. Cardinality(InFlight') >= Cardinality(InFlight) - 1
        BY <2>a, <3>1, FS_RemoveElement
      <3>3. value' = value - 1 /\ waiters' = waiters
        BY <2>2 DEF TakePermit
      <3> QED BY <2>a, <3>2, <3>3 DEF NoLostWakeup, TypeOK
    <2>3. ASSUME NEW t \in Threads, Enqueue(t) PROVE NoLostWakeup'
      <3>1. value' < 1 /\ value' \in Int
        BY <2>3 DEF Enqueue, TypeOK
      <3> QED BY <2>a, <3>1 DEF NoLostWakeup
    <2>4. ASSUME NEW t \in Threads, Return(t) PROVE NoLostWakeup'
      <3>1. pc[t] = "wait" /\ t \in tokens /\ t \in parked
        BY <2>4 DEF Return, TypeOK, StoppedIsQueued
      <3>2. InFlight' = InFlight
        BY <2>4, <3>1 DEF Return, InFlight, TypeOK
      <3> QED BY <2>4, <3>2 DEF Return, NoLostWakeup
    <2>5. CASE UNCHANGED vars
      BY <2>5 DEF vars, NoLostWakeup, InFlight
    <2> QED BY <2>1, <2>2, <2>3, <2>4, <2>5 DEF Next
  <1> QED BY <1>1, <1>2, TypeCorrect, StoppedIsQueuedCorrect, PTL DEF Spec

\* The value accounts for every signal and every wait that returned, and is
\* not negative once a wait has returned.
Balanced ==
    /\ value = InitialValue + signals - passed
    /\ passed > 0 => value >= 0

\* Waits never return more often than permits were there.
THEOREM PermitsConservedCorrect == Spec => []PermitsConserved
  <1>1. Init => Balanced
    BY USemAssumption DEF Init, Balanced
  <1>2. TypeOK /\ Balanced /\ [Next]_vars => Balanced'
    <2> SUFFICES ASSUME TypeOK, Balanced, [Next]_vars PROVE Balanced'
      OBVIOUS
    <2> USE USemAssumption DEF TypeOK, Balanced
    <2>1. ASSUME NEW t \in Threads, Signal(t) PROVE Balanced'
      BY <2>1 DEF Signal
    <2>2. ASSUME NEW t \in Threads, TakePermit(t) PROVE Balanced'
      BY <2>2 DEF TakePermit
    <2>3. ASSUME NEW t \in Threads, Enqueue(t) PROVE Balanced'
      BY <2>3 DEF Enqueue
    <2>4. ASSUME NEW t \in Threads, Return(t) PROVE Balanced'
      BY <2>4 DEF Return
    <2>5. CASE UNCHANGED vars
      BY <2>5 DEF vars
    <2> QED BY <2>1, <2>2, <2>3, <2>4, <2>5 DEF Next
  <1>3. TypeOK /\ Balanced => PermitsConserved
    BY USemAssumption DEF TypeOK, Balanced, PermitsConserved
  <1> QED BY <1>1, <1>2, <1>3, TypeCorrect, PTL DEF Spec
=============================================================================
