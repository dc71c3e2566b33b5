---------------------------- MODULE UMutexProofs ---------------------------
(***************************************************************************)
(* Proofs about UMutex, for every set of threads and every set of          *)
(* condition variables.                                                    *)
(***************************************************************************)
EXTENDS UMutex, BasicLemmas, FiniteSetTheorems

\* Who is inside, as the fields of the mutex tell it.
Inside ==
    /\ FieldsAgree
    /\ holder # None => Readers = {}

\* The inductive invariant.  The types need the other two parts: the reader
\* count stays natural because only those inside unlock, and the pending
\* unblocks belong to stopped threads because only those are queued.
IInv == TypeOK /\ Inside /\ StoppedIsQueued

\* The set of readers is finite, so that its members can be counted.
LEMMA ReadersFinite ==
    ASSUME TypeOK
    PROVE  IsFiniteSet(Readers) /\ Cardinality(Readers) \in Nat
  <1>1. Readers \subseteq Threads
    BY DEF Readers
  <1> QED BY <1>1, UMutexAssumption, FS_Subset, FS_CardinalityType

\* A reader is counted; when nobody is counted, nobody reads.
LEMMA CountedReaders ==
    ASSUME IInv
    PROVE  /\ \A t \in Readers : readerCount >= 1
           /\ readerCount = 0 => Readers = {}
  <1>1. /\ IsFiniteSet(Readers) /\ readerCount = Cardinality(Readers)
        /\ Cardinality(Readers) \in Nat
    BY ReadersFinite DEF IInv, Inside, FieldsAgree
  <1> QED BY <1>1, FS_EmptySet

\* What uthread_mutex_unlock does to the fields, for a thread t inside.
LEMMA ReleaseFields ==
    ASSUME IInv, NEW t \in Threads, pc[t] \in {"writing", "reading"},
           ReleaseMutex
    PROVE  /\ holder' = None
           /\ pc[t] = "writing" => holder = t /\ readerCount = 0 /\ readerCount' = 0
           /\ pc[t] = "reading" => /\ holder = None
                                   /\ readerCount \in Nat \ {0}
                                   /\ readerCount' = readerCount - 1
  <1>1. holder' = None
    BY DEF ReleaseMutex
  <1>2. CASE pc[t] = "writing"
    <2>1. holder = t /\ t # None
      BY <1>2, UMutexAssumption DEF IInv, Inside, FieldsAgree, Writers
    <2>2. Readers = {}
      BY <2>1 DEF IInv, Inside
    <2>3. readerCount = 0
      BY <2>2, FS_EmptySet DEF IInv, Inside, FieldsAgree
    <2> QED BY <1>1, <1>2, <2>1, <2>3 DEF ReleaseMutex
  <1>3. CASE pc[t] = "reading"
    <2>1. t \in Readers
      BY <1>3 DEF Readers
    <2>2. holder = None /\ readerCount \in Nat \ {0}
      BY <2>1, CountedReaders DEF IInv, Inside, TypeOK
    <2> QED BY <1>1, <1>3, <2>2 DEF ReleaseMutex
  <1> QED BY <1>2, <1>3

\* What it does to the queues and to the pending unblocks.
LEMMA ReleaseQueues ==
    ASSUME IInv, ReleaseMutex
    PROVE  /\ waiterQ' \in Seq(Threads)
           /\ readerQ' \in Seq(Threads)
           /\ tokens \subseteq tokens' /\ tokens' \subseteq parked
           /\ IsInjective(waiterQ') /\ IsInjective(readerQ')
           /\ ToSet(waiterQ') = ToSet(waiterQ) \ tokens'
           /\ ToSet(readerQ') = ToSet(readerQ) \ tokens'
           /\ tokens' \subseteq tokens \cup ToSet(waiterQ) \cup ToSet(readerQ)
  <1> USE DEF IInv, TypeOK, StoppedIsQueued
  <1> DEFINE left == IF holder # None THEN readerCount ELSE readerCount - 1
  <1>0. /\ (ToSet(waiterQ) \cup ToSet(readerQ)) \cap tokens = {}
        /\ ToSet(waiterQ) \cap ToSet(readerQ) = {}
        /\ ToSet(waiterQ) \cup ToSet(readerQ) \subseteq parked
    OBVIOUS
  <1>1. CASE left # 0
    BY <1>0, <1>1 DEF ReleaseMutex
  <1>2. CASE left = 0 /\ waiterQ # <<>>
    <2> DEFINE h == Head(waiterQ)
    <2>1. /\ tokens' = tokens \cup {h} /\ waiterQ' = Tail(waiterQ)
          /\ readerQ' = readerQ
      BY <1>2 DEF ReleaseMutex
    <2>2. /\ Tail(waiterQ) \in Seq(Threads)
          /\ IsInjective(Tail(waiterQ))
          /\ ToSet(waiterQ) = ToSet(Tail(waiterQ)) \cup {h}
          /\ h \notin ToSet(Tail(waiterQ))
      BY <1>2, TailQueue
    <2> HIDE DEF h
    <2>3. h \in ToSet(waiterQ) /\ h \notin ToSet(readerQ)
      BY <2>2, <1>0
    <2>4. ToSet(waiterQ') = ToSet(waiterQ) \ tokens'
      BY <1>0, <2>1, <2>2
    <2>5. ToSet(readerQ') = ToSet(readerQ) \ tokens'
      BY <1>0, <2>1, <2>3
    <2>6. IsInjective(waiterQ') /\ IsInjective(readerQ')
      BY <2>1, <2>2
    <2>7. waiterQ' \in Seq(Threads) /\ readerQ' \in Seq(Threads)
      BY <2>1, <2>2
    <2> QED BY <1>0, <2>1, <2>3, <2>4, <2>5, <2>6, <2>7
  <1>3. CASE left = 0 /\ waiterQ = <<>>
    <2>1. /\ tokens' = tokens \cup ToSet(readerQ) /\ readerQ' = <<>>
          /\ waiterQ' = waiterQ
      BY <1>3 DEF ReleaseMutex
    <2>2. ToSet(readerQ') = {} /\ IsInjective(readerQ')
          /\ readerQ' \in Seq(Threads)
      BY <2>1, EmptyQueue
    <2>3. ToSet(waiterQ) = {}
      BY <1>3, EmptyQueue
    <2>4. ToSet(waiterQ') = ToSet(waiterQ) \ tokens'
      BY <2>1, <2>3
    <2>5. ToSet(readerQ') = ToSet(readerQ) \ tokens'
      BY <2>1, <2>2
    <2>6. tokens' \subseteq parked
      BY <1>0, <2>1
    <2> QED BY <2>1, <2>2, <2>4, <2>5, <2>6
  <1> QED BY <1>1, <1>2, <1>3

\* A removal from a condition variable's queue changes that queue only.
LEMMA CondQueueUpdate ==
    ASSUME TypeOK, NEW c \in Conds, NEW q \in Seq(Threads),
           condQ' = [condQ EXCEPT ![c] = q]
    PROVE  /\ condQ' \in [Conds -> Seq(Threads)]
           /\ condQ'[c] = q
           /\ \A d \in Conds \ {c} : condQ'[d] = condQ[d]
  BY DEF TypeOK

\* Every step keeps the types.
LEMMA TypeStep == IInv /\ [Next]_vars => TypeOK'
  <1> SUFFICES ASSUME IInv, [Next]_vars PROVE TypeOK'
    OBVIOUS
  <1> USE DEF Sched!Block, Sched!Unblock, Sched!Return, mutexVars, schedVars
  <1>a. TypeOK
    BY DEF IInv
  <1>1. ASSUME NEW t \in Threads, Acquire(t) PROVE TypeOK'
    BY <1>1, <1>a DEF Acquire, TypeOK, MutexPC
  <1>2. ASSUME NEW t \in Threads, AcquireWait(t) PROVE TypeOK'
    BY <1>2, <1>a, AppendQueue DEF AcquireWait, TypeOK, MutexPC
  <1>3. ASSUME NEW t \in Threads, AcquireRead(t) PROVE TypeOK'
    BY <1>3, <1>a DEF AcquireRead, TypeOK, MutexPC
  <1>4. ASSUME NEW t \in Threads, AcquireReadWait(t) PROVE TypeOK'
    BY <1>4, <1>a, AppendQueue DEF AcquireReadWait, TypeOK, MutexPC
  <1>5. ASSUME NEW t \in Threads, Unlock(t) PROVE TypeOK'
    <2>1. holder' = None /\ readerCount' \in Nat
      BY <1>5, <1>a, ReleaseFields DEF Unlock, At, TypeOK
    <2>2. /\ waiterQ' \in Seq(Threads) /\ readerQ' \in Seq(Threads)
          /\ tokens' \subseteq parked
      BY <1>5, ReleaseQueues DEF Unlock
    <2> QED BY <1>5, <1>a, <2>1, <2>2 DEF Unlock, TypeOK, MutexPC
  <1>6. ASSUME NEW t \in Threads, NEW c \in Conds, CondWait(t, c) PROVE TypeOK'
    <2>1. holder' = None /\ readerCount' \in Nat
      BY <1>6, <1>a, ReleaseFields DEF CondWait, At, TypeOK
    <2>2. /\ waiterQ' \in Seq(Threads) /\ readerQ' \in Seq(Threads)
          /\ tokens' \subseteq parked
      BY <1>6, ReleaseQueues DEF CondWait
    <2>3. condQ' \in [Conds -> Seq(Threads)]
      BY <1>6, <1>a, AppendQueue DEF CondWait, TypeOK
    <2> QED BY <1>6, <1>a, <2>1, <2>2, <2>3 DEF CondWait, TypeOK, MutexPC
  <1>7. ASSUME NEW t \in Threads, NEW c \in Conds, CondSignal(t, c) PROVE TypeOK'
    <2>1. Tail(condQ[c]) \in Seq(Threads)
      BY <1>7, <1>a, TailQueue DEF CondSignal, TypeOK
    <2> QED BY <1>7, <1>a, <2>1 DEF CondSignal, TypeOK
  <1>8. ASSUME NEW t \in Threads, NEW c \in Conds, CondBroadcast(t, c)
        PROVE  TypeOK'
    BY <1>8, <1>a, EmptyQueue DEF CondBroadcast, TypeOK
  <1>9. ASSUME NEW t \in Threads, Return(t) PROVE TypeOK'
    BY <1>9, <1>a DEF Return, TypeOK
  <1>10. CASE UNCHANGED vars
    BY <1>10, <1>a DEF vars, TypeOK
  <1> QED BY <1>1, <1>2, <1>3, <1>4, <1>5, <1>6, <1>7, <1>8, <1>9, <1>10 DEF Next

\* Every step keeps the fields in agreement with the threads inside.
LEMMA InsideStep == IInv /\ [Next]_vars => Inside'
  <1> SUFFICES ASSUME IInv, [Next]_vars PROVE Inside'
    OBVIOUS
  <1> USE DEF mutexVars, schedVars
  <1>a. TypeOK /\ Inside
    BY DEF IInv
  <1>b. IsFiniteSet(Readers) /\ Cardinality(Readers) \in Nat
    BY <1>a, ReadersFinite
  <1>c. \A t \in Threads : t # None
    BY UMutexAssumption
  <1>1. ASSUME NEW t \in Threads, Acquire(t) PROVE Inside'
    <2>1. holder = None /\ readerCount = 0 /\ Readers = {} /\ Writers = {}
      BY <1>1, <1>a, CountedReaders DEF Acquire, Busy, TypeOK, Inside, FieldsAgree
    <2>2. Writers' = {t} /\ Readers' = {}
      BY <1>1, <1>a, <2>1 DEF Acquire, TypeOK, Writers, Readers
    <2> QED BY <1>1, <1>c, <2>1, <2>2, FS_EmptySet DEF Acquire, Inside, FieldsAgree
  <1>2. ASSUME NEW t \in Threads, AcquireWait(t) PROVE Inside'
    <2>1. Writers' = Writers /\ Readers' = Readers
      BY <1>2, <1>a DEF AcquireWait, At, TypeOK, Writers, Readers
    <2> QED BY <1>2, <1>a, <2>1 DEF AcquireWait, Inside, FieldsAgree
  <1>3. ASSUME NEW t \in Threads, AcquireRead(t) PROVE Inside'
    <2>1. Writers' = Writers /\ Readers' = Readers \cup {t} /\ t \notin Readers
      BY <1>3, <1>a DEF AcquireRead, At, TypeOK, Writers, Readers
    <2>2. Cardinality(Readers') = Cardinality(Readers) + 1
      BY <1>b, <2>1, FS_AddElement
    <2> QED BY <1>3, <1>a, <2>1, <2>2 DEF AcquireRead, Inside, FieldsAgree
  <1>4. ASSUME NEW t \in Threads, AcquireReadWait(t) PROVE Inside'
    <2>1. Writers' = Writers /\ Readers' = Readers
      BY <1>4, <1>a DEF AcquireReadWait, At, TypeOK, Writers, Readers
    <2> QED BY <1>4, <1>a, <2>1 DEF AcquireReadWait, Inside, FieldsAgree
  <1>5. ASSUME NEW t \in Threads, pc[t] \in {"writing", "reading"}, ReleaseMutex,
               NEW l \in {"out", "lock"}, pc' = [pc EXCEPT ![t] = l]
        PROVE  Inside'
    <2>1. Writers' = Writers \ {t} /\ Readers' = Readers \ {t}
      BY <1>5, <1>a DEF TypeOK, Writers, Readers
    <2>2. CASE pc[t] = "writing"
      <3>1. holder = t /\ holder' = None /\ readerCount = 0 /\ readerCount' = 0
        BY <1>5, <2>2, ReleaseFields
      <3>2. Writers' = {} /\ Readers' = {} /\ Readers = {}
        BY <1>a, <1>c, <2>1, <3>1 DEF Inside, FieldsAgree
      <3> QED BY <3>1, <3>2, FS_EmptySet DEF Inside, FieldsAgree
    <2>3. CASE pc[t] = "reading"
      <3>1. holder = None /\ holder' = None /\ readerCount' = readerCount - 1
        BY <1>5, <2>3, ReleaseFields
      <3>2. t \in Readers /\ Writers = {}
        BY <1>a, <2>3, <3>1 DEF Inside, FieldsAgree, Readers
      <3>3. Cardinality(Readers') = Cardinality(Readers) - 1
        BY <1>b, <2>1, <3>2, FS_RemoveElement
      <3> QED BY <1>a, <2>1, <3>1, <3>2, <3>3 DEF Inside, FieldsAgree
    <2> QED BY <1>5, <2>2, <2>3
  <1>6. ASSUME NEW t \in Threads, NEW c \in Conds,
               CondSignal(t, c) \/ CondBroadcast(t, c)
        PROVE  Inside'
    BY <1>6, <1>a DEF CondSignal, CondBroadcast, Inside, FieldsAgree, Writers,
                      Readers
  <1>7. ASSUME NEW t \in Threads, Return(t) PROVE Inside'
    BY <1>7, <1>a DEF Return, Inside, FieldsAgree, Writers, Readers
  <1>8. CASE UNCHANGED vars
    BY <1>8, <1>a DEF vars, Inside, FieldsAgree, Writers, Readers
  <1>9. ASSUME NEW t \in Threads, Unlock(t) PROVE Inside'
    BY <1>5, <1>9 DEF Unlock, At
  <1>10. ASSUME NEW t \in Threads, NEW c \in Conds, CondWait(t, c) PROVE Inside'
    BY <1>5, <1>10 DEF CondWait, At
  <1> QED BY <1>1, <1>2, <1>3, <1>4, <1>6, <1>7, <1>8, <1>9, <1>10 DEF Next

\* A mutex queue after a thread that is not stopped joins it.
LEMMA BlockOn ==
    ASSUME TypeOK, StoppedIsQueued, NEW t \in Threads, t \notin parked
    PROVE  /\ t \notin ToSet(waiterQ) \cup ToSet(readerQ) \cup InCondQ
           /\ t \notin tokens
  BY DEF TypeOK, StoppedIsQueued

\* Taking threads out of one condition variable's queue, as a signal and a
\* broadcast do.
LEMMA CondTake ==
    ASSUME TypeOK, StoppedIsQueued, NEW c \in Conds, NEW q \in Seq(Threads),
           NEW S, ToSet(q) = ToSet(condQ[c]) \ S, IsInjective(q),
           S \subseteq ToSet(condQ[c]),
           condQ' = [condQ EXCEPT ![c] = q],
           tokens' = tokens \cup S,
           UNCHANGED <<mutexVars, pc, parked>>
    PROVE  StoppedIsQueued'
  <1> USE DEF StoppedIsQueued, mutexVars
  <1>1. /\ condQ'[c] = q
        /\ \A d \in Conds \ {c} : condQ'[d] = condQ[d]
    BY CondQueueUpdate
  <1>2. S \subseteq InCondQ
    BY DEF InCondQ
  <1>3. InCondQ' = InCondQ \ S
    <2>1. ASSUME NEW d \in Conds PROVE ToSet(condQ'[d]) = ToSet(condQ[d]) \ S
      <3>1. CASE d = c
        BY <1>1, <3>1
      <3>2. CASE d # c
        BY <1>1, <3>2
      <3> QED BY <3>1, <3>2
    <2> QED BY <2>1 DEF InCondQ
  <1>4. \A d \in Conds : IsInjective(condQ'[d])
    BY <1>1
  <1>5. \A d, e \in Conds : d # e => ToSet(condQ'[d]) \cap ToSet(condQ'[e]) = {}
    BY <1>1
  <1>6. InCondQ' \cap (ToSet(waiterQ') \cup ToSet(readerQ')) = {}
    BY <1>3
  <1>7. ToSet(waiterQ') \cup ToSet(readerQ') \cup InCondQ' = parked' \ tokens'
    BY <1>2, <1>3
  <1>8. /\ \A t \in ToSet(waiterQ') \cup InCondQ' : pc'[t] = "lock"
        /\ \A t \in ToSet(readerQ') : pc'[t] = "rdlock"
    BY <1>3
  <1> QED BY <1>4, <1>5, <1>6, <1>7, <1>8

\* Every step keeps each stopped thread in exactly one queue.
LEMMA QueuedStep == IInv /\ [Next]_vars => StoppedIsQueued'
  <1> SUFFICES ASSUME IInv, [Next]_vars PROVE StoppedIsQueued'
    OBVIOUS
  <1> USE DEF mutexVars, schedVars
  <1>a. TypeOK /\ StoppedIsQueued
    BY DEF IInv
  <1>b. condQ' = condQ => InCondQ' = InCondQ
    BY DEF InCondQ
  <1>1. ASSUME NEW t \in Threads, t \notin parked, pc' = [pc EXCEPT ![t] = "writing"]
                 \/ pc' = [pc EXCEPT ![t] = "reading"],
               UNCHANGED <<waiterQ, readerQ, condQ, parked, tokens>>
        PROVE  StoppedIsQueued'
    BY <1>1, <1>a, <1>b, BlockOn DEF StoppedIsQueued, TypeOK
  <1>2. ASSUME NEW t \in Threads, AcquireWait(t) PROVE StoppedIsQueued'
    <2>1. /\ t \notin parked /\ parked' = parked \cup {t} /\ tokens' = tokens
          /\ waiterQ' = Append(waiterQ, t) /\ readerQ' = readerQ /\ condQ' = condQ
          /\ pc' = [pc EXCEPT ![t] = "lock"]
      BY <1>2 DEF AcquireWait, Sched!Block
    <2>2. t \notin ToSet(waiterQ) \cup ToSet(readerQ) \cup InCondQ \cup tokens
      BY <1>a, <2>1, BlockOn
    <2>3. ToSet(waiterQ') = ToSet(waiterQ) \cup {t} /\ IsInjective(waiterQ')
      BY <1>a, <2>1, <2>2, AppendQueue DEF TypeOK, StoppedIsQueued
    <2>4. pc'[t] = "lock" /\ \A u \in Threads \ {t} : pc'[u] = pc[u]
      BY <1>a, <2>1 DEF TypeOK
    <2>5. /\ \A u \in ToSet(waiterQ') \cup InCondQ' : pc'[u] = "lock"
          /\ \A u \in ToSet(readerQ') : pc'[u] = "rdlock"
      BY <1>a, <1>b, <2>1, <2>2, <2>3, <2>4 DEF TypeOK, StoppedIsQueued
    <2>6. /\ ToSet(waiterQ') \cap ToSet(readerQ') = {}
          /\ InCondQ' \cap (ToSet(waiterQ') \cup ToSet(readerQ')) = {}
          /\ ToSet(waiterQ') \cup ToSet(readerQ') \cup InCondQ' = parked' \ tokens'
      BY <1>a, <1>b, <2>1, <2>2, <2>3 DEF StoppedIsQueued
    <2> QED BY <1>a, <2>1, <2>3, <2>5, <2>6 DEF StoppedIsQueued
  <1>3. ASSUME NEW t \in Threads, AcquireReadWait(t) PROVE StoppedIsQueued'
    <2>1. /\ t \notin parked /\ parked' = parked \cup {t} /\ tokens' = tokens
          /\ readerQ' = Append(readerQ, t) /\ waiterQ' = waiterQ /\ condQ' = condQ
          /\ pc' = [pc EXCEPT ![t] = "rdlock"]
      BY <1>3 DEF AcquireReadWait, Sched!Block
    <2>2. t \notin ToSet(waiterQ) \cup ToSet(readerQ) \cup InCondQ \cup tokens
      BY <1>a, <2>1, BlockOn
    <2>3. ToSet(readerQ') = ToSet(readerQ) \cup {t} /\ IsInjective(readerQ')
      BY <1>a, <2>1, <2>2, AppendQueue DEF TypeOK, StoppedIsQueued
    <2>4. pc'[t] = "rdlock" /\ \A u \in Threads \ {t} : pc'[u] = pc[u]
      BY <1>a, <2>1 DEF TypeOK
    <2>5. /\ \A u \in ToSet(waiterQ') \cup InCondQ' : pc'[u] = "lock"
          /\ \A u \in ToSet(readerQ') : pc'[u] = "rdlock"
      BY <1>a, <1>b, <2>1, <2>2, <2>3, <2>4 DEF TypeOK, StoppedIsQueued
    <2>6. /\ ToSet(waiterQ') \cap ToSet(readerQ') = {}
          /\ InCondQ' \cap (ToSet(waiterQ') \cup ToSet(readerQ')) = {}
          /\ ToSet(waiterQ') \cup ToSet(readerQ') \cup InCondQ' = parked' \ tokens'
      BY <1>a, <1>b, <2>1, <2>2, <2>3 DEF StoppedIsQueued
    <2> QED BY <1>a, <2>1, <2>3, <2>5, <2>6 DEF StoppedIsQueued
  <1>4. ASSUME NEW t \in Threads, Unlock(t) PROVE StoppedIsQueued'
    <2>1. /\ t \notin parked /\ parked' = parked /\ condQ' = condQ
          /\ pc' = [pc EXCEPT ![t] = "out"]
      BY <1>4 DEF Unlock, At
    <2>2. /\ IsInjective(waiterQ') /\ IsInjective(readerQ')
          /\ ToSet(waiterQ') = ToSet(waiterQ) \ tokens'
          /\ ToSet(readerQ') = ToSet(readerQ) \ tokens'
          /\ tokens \subseteq tokens'
          /\ tokens' \subseteq tokens \cup ToSet(waiterQ) \cup ToSet(readerQ)
      BY <1>4, ReleaseQueues DEF Unlock
    <2>3. t \notin ToSet(waiterQ) \cup ToSet(readerQ) \cup InCondQ
      BY <1>a, <2>1, BlockOn
    <2>4. /\ \A u \in ToSet(waiterQ') \cup InCondQ' : pc'[u] = "lock"
          /\ \A u \in ToSet(readerQ') : pc'[u] = "rdlock"
      BY <1>a, <1>b, <2>1, <2>2, <2>3 DEF TypeOK, StoppedIsQueued
    <2>5. InCondQ \cap tokens' = {}
      BY <1>a, <2>2 DEF StoppedIsQueued
    <2>6. /\ ToSet(waiterQ') \cap ToSet(readerQ') = {}
          /\ InCondQ' \cap (ToSet(waiterQ') \cup ToSet(readerQ')) = {}
          /\ ToSet(waiterQ') \cup ToSet(readerQ') \cup InCondQ' = parked' \ tokens'
      BY <1>a, <1>b, <2>1, <2>2, <2>5 DEF StoppedIsQueued
    <2> QED BY <1>a, <2>1, <2>2, <2>4, <2>6 DEF StoppedIsQueued
  <1>5. ASSUME NEW t \in Threads, NEW c \in Conds, CondWait(t, c)
        PROVE  StoppedIsQueued'
    <2> DEFINE q == Append(condQ[c], t)
    <2>1. /\ t \notin parked /\ parked' = parked \cup {t}
          /\ condQ' = [condQ EXCEPT ![c] = q]
          /\ pc' = [pc EXCEPT ![t] = "lock"]
      BY <1>5 DEF CondWait, At
    <2>2. /\ IsInjective(waiterQ') /\ IsInjective(readerQ')
          /\ ToSet(waiterQ') = ToSet(waiterQ) \ tokens'
          /\ ToSet(readerQ') = ToSet(readerQ) \ tokens'
          /\ tokens \subseteq tokens'
          /\ tokens' \subseteq tokens \cup ToSet(waiterQ) \cup ToSet(readerQ)
      BY <1>5, ReleaseQueues DEF CondWait
    <2>3. t \notin ToSet(waiterQ) \cup ToSet(readerQ) \cup InCondQ \cup tokens
      BY <1>a, <2>1, BlockOn
    <2>4. t \notin ToSet(condQ[c])
      BY <2>3 DEF InCondQ
    <2>5. q \in Seq(Threads) /\ ToSet(q) = ToSet(condQ[c]) \cup {t}
          /\ IsInjective(q)
      BY <1>a, <2>4, AppendQueue DEF TypeOK, StoppedIsQueued
    <2> HIDE DEF q
    <2>6. /\ condQ'[c] = q
          /\ \A d \in Conds \ {c} : condQ'[d] = condQ[d]
      BY <1>a, <2>1, <2>5, CondQueueUpdate
    <2>7. InCondQ' = InCondQ \cup {t}
      BY <2>5, <2>6 DEF InCondQ
    <2>8. \A d \in Conds : IsInjective(condQ'[d])
      BY <1>a, <2>5, <2>6 DEF StoppedIsQueued
    <2>9. \A d, e \in Conds : d # e => ToSet(condQ'[d]) \cap ToSet(condQ'[e]) = {}
      <3>1. \A d \in Conds : t \notin ToSet(condQ[d])
        BY <2>3 DEF InCondQ
      <3> QED BY <1>a, <2>5, <2>6, <3>1 DEF StoppedIsQueued
    <2>10. /\ \A u \in ToSet(waiterQ') \cup InCondQ' : pc'[u] = "lock"
           /\ \A u \in ToSet(readerQ') : pc'[u] = "rdlock"
      BY <1>a, <2>1, <2>2, <2>3, <2>7 DEF TypeOK, StoppedIsQueued
    <2>11. InCondQ \cap tokens' = {} /\ t \notin tokens'
      BY <1>a, <2>2, <2>3 DEF StoppedIsQueued
    <2>12. /\ ToSet(waiterQ') \cap ToSet(readerQ') = {}
           /\ InCondQ' \cap (ToSet(waiterQ') \cup ToSet(readerQ')) = {}
           /\ ToSet(waiterQ') \cup ToSet(readerQ') \cup InCondQ' = parked' \ tokens'
      BY <1>a, <2>1, <2>2, <2>3, <2>7, <2>11 DEF StoppedIsQueued
    <2> QED BY <2>2, <2>8, <2>9, <2>10, <2>12 DEF StoppedIsQueued
  <1>6. ASSUME NEW t \in Threads, NEW c \in Conds, CondSignal(t, c)
        PROVE  StoppedIsQueued'
    <2> DEFINE h == Head(condQ[c])  q == Tail(condQ[c])
    <2>1. condQ[c] \in Seq(Threads) /\ condQ[c] # <<>> /\ IsInjective(condQ[c])
      BY <1>6, <1>a DEF CondSignal, TypeOK, StoppedIsQueued
    <2>2. /\ q \in Seq(Threads) /\ IsInjective(q)
          /\ ToSet(q) = ToSet(condQ[c]) \ {h} /\ {h} \subseteq ToSet(condQ[c])
      BY <2>1, TailQueue
    <2>3. /\ condQ' = [condQ EXCEPT ![c] = q]
          /\ tokens' = tokens \cup {h}
          /\ UNCHANGED <<mutexVars, pc, parked>>
      BY <1>6 DEF CondSignal, Sched!Unblock
    <2> QED BY <1>a, <2>2, <2>3, CondTake
  <1>7. ASSUME NEW t \in Threads, NEW c \in Conds, CondBroadcast(t, c)
        PROVE  StoppedIsQueued'
    <2> DEFINE S == ToSet(condQ[c])
    <2>1. <<>> \in Seq(Threads) /\ IsInjective(<<>>) /\ ToSet(<<>>) = S \ S
      BY EmptyQueue
    <2>2. /\ condQ' = [condQ EXCEPT ![c] = <<>>]
          /\ tokens' = tokens \cup S
          /\ UNCHANGED <<mutexVars, pc, parked>>
      BY <1>7 DEF CondBroadcast, Sched!Unblock
    <2> QED BY <1>a, <2>1, <2>2, CondTake
  <1>8. ASSUME NEW t \in Threads, Return(t) PROVE StoppedIsQueued'
    BY <1>8, <1>a, <1>b DEF Return, Sched!Return, StoppedIsQueued, TypeOK
  <1>9. CASE UNCHANGED vars
    BY <1>9, <1>a, <1>b DEF vars, StoppedIsQueued
  <1>10. ASSUME NEW t \in Threads, Acquire(t) \/ AcquireRead(t)
         PROVE  StoppedIsQueued'
    BY <1>1, <1>10 DEF Acquire, AcquireRead, At
  <1> QED BY <1>2, <1>3, <1>4, <1>5, <1>6, <1>7, <1>8, <1>9, <1>10 DEF Next

\* Every step keeps every queue served: the unlock that empties the mutex
\* either wakes a writer, or finds none and wakes every reader.
LEMMA StrandedStep ==
    IInv /\ IInv' /\ NoStrandedWaiter /\ [Next]_vars => NoStrandedWaiter'
  <1> SUFFICES ASSUME IInv, IInv', NoStrandedWaiter, [Next]_vars
               PROVE  NoStrandedWaiter'
    OBVIOUS
  <1> USE DEF mutexVars, schedVars
  <1>a. TypeOK /\ StoppedIsQueued /\ TypeOK'
    BY DEF IInv
  <1>b. \A t \in Threads : t # None
    BY UMutexAssumption
  <1>1. ASSUME NEW t \in Threads, Acquire(t) PROVE NoStrandedWaiter'
    BY <1>1, <1>b DEF Acquire, Busy, NoStrandedWaiter
  <1>2. ASSUME NEW t \in Threads, AcquireWait(t) PROVE NoStrandedWaiter'
    <2>1. waiterQ' # <<>>
      BY <1>2, <1>a, AppendQueue DEF AcquireWait, TypeOK
    <2> QED BY <1>2, <2>1 DEF AcquireWait, Busy, NoStrandedWaiter
  <1>3. ASSUME NEW t \in Threads, AcquireRead(t) PROVE NoStrandedWaiter'
    <2>1. readerQ # <<>> => WriterComing
      BY <1>3 DEF AcquireRead, NoStrandedWaiter
    <2>2. WriterComing => WriterComing'
      BY <1>3, <1>a DEF AcquireRead, At, WriterComing, TypeOK
    <2> QED BY <1>3, <2>1, <2>2 DEF AcquireRead, NoStrandedWaiter
  <1>4. ASSUME NEW t \in Threads, AcquireReadWait(t) PROVE NoStrandedWaiter'
    <2>1. WriterComing => WriterComing'
      BY <1>4, <1>a DEF AcquireReadWait, At, WriterComing, TypeOK, Sched!Block
    <2> QED BY <1>4, <2>1 DEF AcquireReadWait, Busy, NoStrandedWaiter
  <1>5. ASSUME NEW t \in Threads, t \notin parked,
               pc[t] \in {"writing", "reading"}, ReleaseMutex,
               NEW l \in {"out", "lock"}, pc' = [pc EXCEPT ![t] = l],
               parked' \subseteq parked \cup {t}
        PROVE  NoStrandedWaiter'
    <2>1. tokens \subseteq tokens'
      BY <1>5, ReleaseQueues
    <2>2. WriterComing => WriterComing'
      BY <1>5, <1>a, <2>1 DEF WriterComing, TypeOK
    <2> DEFINE left == IF holder # None THEN readerCount ELSE readerCount - 1
    <2>3. CASE left # 0
      <3>1. readerCount' # 0 /\ waiterQ' = waiterQ /\ readerQ' = readerQ
        BY <1>5, <2>3 DEF ReleaseMutex
      <3>2. holder = None
        BY <1>5, <3>1, ReleaseFields
      <3>3. readerCount' \in Nat
        BY <1>a DEF TypeOK
      <3> QED BY <2>2, <3>1, <3>2, <3>3 DEF NoStrandedWaiter, Busy
    <2>4. CASE left = 0 /\ waiterQ # <<>>
      <3> DEFINE h == Head(waiterQ)
      <3>1. tokens' = tokens \cup {h}
        BY <1>5, <2>4 DEF ReleaseMutex
      <3>2. h \in ToSet(waiterQ) /\ h \in Threads
        BY <1>a, <2>4, TailQueue DEF TypeOK
      <3>3. pc[h] = "lock"
        BY <1>a, <3>2 DEF StoppedIsQueued
      <3> HIDE DEF h
      <3>4. pc'[h] = "lock" /\ h \in tokens'
        BY <1>5, <1>a, <3>1, <3>3, <3>2 DEF TypeOK
      <3>5. WriterComing'
        BY <3>2, <3>4 DEF WriterComing
      <3> QED BY <3>5 DEF NoStrandedWaiter
    <2>5. CASE left = 0 /\ waiterQ = <<>>
      BY <1>5, <2>5 DEF ReleaseMutex, NoStrandedWaiter
    <2> QED BY <2>3, <2>4, <2>5
  <1>6. ASSUME NEW t \in Threads, NEW c \in Conds,
               CondSignal(t, c) \/ CondBroadcast(t, c)
        PROVE  NoStrandedWaiter'
    <2>1. WriterComing => WriterComing'
      BY <1>6 DEF CondSignal, CondBroadcast, Sched!Unblock, WriterComing
    <2> QED BY <1>6, <2>1 DEF CondSignal, CondBroadcast, NoStrandedWaiter, Busy
  <1>7. ASSUME NEW t \in Threads, Return(t) PROVE NoStrandedWaiter'
    <2>1. WriterComing => WriterComing'
      BY <1>7 DEF Return, Sched!Return, WriterComing
    <2> QED BY <1>7, <2>1 DEF Return, NoStrandedWaiter, Busy
  <1>8. CASE UNCHANGED vars
    BY <1>8 DEF vars, NoStrandedWaiter, Busy, WriterComing
  <1>9. ASSUME NEW t \in Threads, Unlock(t) PROVE NoStrandedWaiter'
    BY <1>5, <1>9 DEF Unlock, At
  <1>10. ASSUME NEW t \in Threads, NEW c \in Conds, CondWait(t, c)
         PROVE  NoStrandedWaiter'
    BY <1>5, <1>10 DEF CondWait, At
  <1> QED BY <1>1, <1>2, <1>3, <1>4, <1>6, <1>7, <1>8, <1>9, <1>10 DEF Next

\* The inductive invariant holds of every behaviour.
LEMMA Invariant == Spec => []IInv
  <1>1. Init => IInv
    <2>1. Init => TypeOK
      BY EmptyQueue DEF Init, TypeOK, MutexPC, Sched!Init
    <2>2. Init => Inside
      BY FS_EmptySet DEF Init, Inside, FieldsAgree, Writers, Readers
    <2>3. Init => StoppedIsQueued
      BY EmptyQueue DEF Init, StoppedIsQueued, InCondQ, Sched!Init
    <2> QED BY <2>1, <2>2, <2>3 DEF IInv
  <1>2. IInv /\ [Next]_vars => IInv'
    BY TypeStep, InsideStep, QueuedStep DEF IInv
  <1> QED BY <1>1, <1>2, PTL DEF Spec

\* The variables keep their types; in particular the reader count is never
\* negative and an unblock is pending only for a thread that is stopped.
THEOREM TypeCorrect == Spec => []TypeOK
  <1>1. IInv => TypeOK
    BY DEF IInv
  <1> QED BY <1>1, Invariant, PTL

\* holder and reader_count name exactly the threads inside: the assertions in
\* uthread_mutex_unlock and the cond calls hold for clients that lock first.
THEOREM FieldsAgreeCorrect == Spec => []FieldsAgree
  <1>1. IInv => FieldsAgree
    BY DEF IInv, Inside
  <1> QED BY <1>1, Invariant, PTL

\* A writer is alone: holder names one thread, and excludes readers.
THEOREM MutualExclusionCorrect == Spec => []MutualExclusion
  <1>1. IInv => MutualExclusion
    BY DEF IInv, Inside, FieldsAgree, MutualExclusion
  <1> QED BY <1>1, Invariant, PTL

\* A stopped thread without a pending unblock is in exactly one queue, once.
THEOREM StoppedIsQueuedCorrect == Spec => []StoppedIsQueued
  <1>1. IInv => StoppedIsQueued
    BY DEF IInv
  <1> QED BY <1>1, Invariant, PTL

\* No thread is left in a queue that no unlock will serve.
THEOREM NoStrandedWaiterCorrect == Spec => []NoStrandedWaiter
  <1>1. Init => NoStrandedWaiter
    BY DEF Init, NoStrandedWaiter
  <1> QED BY <1>1, StrandedStep, Invariant, PTL DEF Spec

\* A thread that tries to lock is outside, for the abstract monitor.
LEMMA LockerOutside ==
    ASSUME IInv, NEW t \in Threads, At(t, {"out", "lock", "rdlock"})
    PROVE  Mon!Outside(t)
  <1>1. t # holder /\ t \notin Readers
    <2>1. t \notin Writers /\ t \notin Readers
      BY DEF At, Writers, Readers
    <2> QED BY <2>1, UMutexAssumption DEF IInv, Inside, FieldsAgree
  <1>2. Mon!AllWaiting(condQ) = InCondQ
    <2>1. DOMAIN condQ = Conds
      BY DEF IInv, TypeOK
    <2>2. \A c \in Conds : Mon!ToSet(condQ[c]) = ToSet(condQ[c])
      BY DEF Mon!ToSet, ToSet
    <2> QED BY <2>1, <2>2 DEF Mon!AllWaiting, InCondQ
  <1>3. t \notin InCondQ
    BY DEF At, IInv, StoppedIsQueued
  <1> QED BY <1>1, <1>2, <1>3 DEF Mon!Outside

\* What leaving the mutex is for the abstract monitor.
LEMMA ReleaseIsExit ==
    ASSUME IInv, NEW t \in Threads, At(t, {"writing", "reading"}), ReleaseMutex,
           NEW l \in MutexPC \ {"reading"}, pc' = [pc EXCEPT ![t] = l]
    PROVE  /\ t = holder \/ t \in Readers
           /\ pc[t] = "writing" => t = holder /\ Readers' = Readers
           /\ holder' = None
           /\ Readers' = Readers \ {t}
  <1>1. pc \in [Threads -> MutexPC]
    BY DEF IInv, TypeOK
  <1>2. Readers' = Readers \ {t}
    BY <1>1 DEF Readers
  <1>3. pc[t] = "writing" => t \notin Readers
    BY DEF Readers
  <1> QED BY <1>2, <1>3, ReleaseFields DEF At, Readers

\* Every step of the implementation is a step of the monitor, or changes
\* nothing that shows.
LEMMA MonitorStep == IInv /\ [Next]_vars => [Mon!Next]_(Mon!monitorVars)
  <1> SUFFICES ASSUME IInv, [Next]_vars
               PROVE  Mon!Next \/ UNCHANGED <<holder, Readers, condQ>>
    BY DEF Mon!monitorVars
  <1>0. pc \in [Threads -> MutexPC]
    BY DEF IInv, TypeOK
  <1>1. ASSUME NEW t \in Threads, Acquire(t) PROVE Mon!Enter(t)
    <2>1. Readers = {}
      <3>1. readerCount \in Nat /\ ~(readerCount > 0)
        BY <1>1 DEF Acquire, Busy, IInv, TypeOK
      <3>2. readerCount = 0
        BY <3>1
      <3> QED BY <3>2, CountedReaders
    <2>2. Readers' = Readers
      BY <1>0, <1>1 DEF Acquire, Readers, At
    <2>3. Mon!Outside(t)
      BY <1>1, LockerOutside DEF Acquire, At
    <2> QED BY <1>1, <2>1, <2>2, <2>3 DEF Acquire, Busy, Mon!Enter
  <1>2. ASSUME NEW t \in Threads, AcquireRead(t) PROVE Mon!EnterRead(t)
    <2>1. Readers' = Readers \cup {t}
      BY <1>0, <1>2 DEF AcquireRead, Readers
    <2>2. Mon!Outside(t)
      BY <1>2, LockerOutside DEF AcquireRead, At
    <2> QED BY <1>2, <2>1, <2>2 DEF AcquireRead, Mon!EnterRead
  <1>3. ASSUME NEW t \in Threads, AcquireWait(t) \/ AcquireReadWait(t) \/ Return(t)
        PROVE  UNCHANGED <<holder, Readers, condQ>>
    <2>1. CASE AcquireWait(t)
      BY <1>0, <2>1 DEF AcquireWait, At, Readers
    <2>2. CASE AcquireReadWait(t)
      BY <1>0, <2>2 DEF AcquireReadWait, At, Readers
    <2>3. CASE Return(t)
      BY <2>3 DEF Return, Readers, mutexVars
    <2> QED BY <1>3, <2>1, <2>2, <2>3
  <1>4. ASSUME NEW t \in Threads, Unlock(t) PROVE Mon!Exit(t)
    <2>1. ReleaseMutex /\ pc' = [pc EXCEPT ![t] = "out"] /\ UNCHANGED condQ
      BY <1>4 DEF Unlock
    <2>2. "out" \in MutexPC \ {"reading"}
      BY DEF MutexPC
    <2> QED BY <1>4, <2>1, <2>2, ReleaseIsExit DEF Unlock, Mon!Exit
  <1>5. ASSUME NEW t \in Threads, NEW c \in Conds, CondWait(t, c) PROVE Mon!Wait(t, c)
    <2>1. /\ ReleaseMutex /\ pc' = [pc EXCEPT ![t] = "lock"]
          /\ At(t, {"writing", "reading"}) /\ pc[t] = "writing"
          /\ condQ' = [condQ EXCEPT ![c] = Append(@, t)]
      BY <1>5 DEF CondWait, At
    <2>2. "lock" \in MutexPC \ {"reading"}
      BY DEF MutexPC
    <2> QED BY <2>1, <2>2, ReleaseIsExit DEF Mon!Wait, Mon!Waits
  <1>6. ASSUME NEW t \in Threads, NEW c \in Conds, CondSignal(t, c) PROVE Mon!Signal(t, c)
    <2>1. t = holder
      BY <1>6 DEF CondSignal, At, IInv, Inside, FieldsAgree, Writers
    <2> QED BY <1>6, <2>1 DEF CondSignal, mutexVars, Readers, Mon!Signal, Mon!Signalled
  <1>7. ASSUME NEW t \in Threads, NEW c \in Conds, CondBroadcast(t, c)
        PROVE  Mon!Broadcast(t, c)
    <2>1. t = holder
      BY <1>7 DEF CondBroadcast, At, IInv, Inside, FieldsAgree, Writers
    <2> QED BY <1>7, <2>1 DEF CondBroadcast, mutexVars, Readers, Mon!Broadcast, Mon!Broadcasted
  <1>8. CASE UNCHANGED vars
    BY <1>8 DEF vars, mutexVars, Readers
  <1> QED BY <1>1, <1>2, <1>3, <1>4, <1>5, <1>6, <1>7, <1>8 DEF Next, Mon!Next

\* The mutex and its condition variables are, to the programs that use them,
\* the abstract monitor.
THEOREM ImplementsMonitorCorrect == Spec => ImplementsMonitor
  <1>1. Init => Mon!Init
    BY DEF Init, Mon!Init, Readers
  <1> QED BY <1>1, MonitorStep, Invariant, PTL DEF Spec, ImplementsMonitor, Mon!Spec
=============================================================================
