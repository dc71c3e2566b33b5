---------------------------- MODULE MonitorProofs ---------------------------
(***************************************************************************)
(* The monitor programs, for every number of threads, rounds and places.   *)
(*                                                                         *)
(* The programs share no variable, so each has an inductive invariant of   *)
(* its own; a step of MCMonitor is a step of one of them and leaves the    *)
(* others alone.                                                           *)
(***************************************************************************)
EXTENDS MCMonitor, BasicLemmas, FiniteSetTheorems

(* Condition variables. *)

LEMMA WaitingOf ==
    ASSUME NEW C, NEW S, NEW w \in [C -> Seq(S)], NEW x
    PROVE  x \in AllWaiting(w) <=> \E c \in C : x \in ToSet(w[c])
  BY DEF AllWaiting

\* A signal takes the first thread out of the queue.
LEMMA SignalQueue ==
    ASSUME NEW C, NEW S, NEW w \in [C -> Seq(S)], NEW c \in C
    PROVE  /\ Signalled(w, c) \in [C -> Seq(S)]
           /\ \A d \in C : d # c => Signalled(w, c)[d] = w[d]
           /\ ToSet(Signalled(w, c)[c]) \subseteq ToSet(w[c])
           /\ IsInjective(w[c]) => IsInjective(Signalled(w, c)[c])
           /\ w[c] = <<>> => Signalled(w, c)[c] = <<>>
           /\ w[c] # <<>> /\ IsInjective(w[c]) =>
                \E h \in ToSet(w[c]) :
                    /\ h \notin ToSet(Signalled(w, c)[c])
                    /\ ToSet(w[c]) = ToSet(Signalled(w, c)[c]) \cup {h}
  <1> DEFINE v == Signalled(w, c)
  <1>1. CASE w[c] = <<>>
    <2>1. v = w
      BY <1>1 DEF Signalled
    <2> QED BY <1>1, <2>1
  <1>2. CASE w[c] # <<>>
    <2>1. v = [w EXCEPT ![c] = Tail(w[c])] /\ w[c] \in Seq(S)
      BY <1>2 DEF Signalled
    <2>2. /\ Tail(w[c]) \in Seq(S) /\ Head(w[c]) \in ToSet(w[c])
          /\ ToSet(w[c]) = ToSet(Tail(w[c])) \cup {Head(w[c])}
          /\ IsInjective(w[c]) => /\ IsInjective(Tail(w[c]))
                                  /\ Head(w[c]) \notin ToSet(Tail(w[c]))
      BY <1>2, <2>1, TailQueue
    <2>3. v \in [C -> Seq(S)] /\ v[c] = Tail(w[c]) /\ \A d \in C : d # c => v[d] = w[d]
      BY <2>1, <2>2
    <2> HIDE DEF v
    <2>4. ToSet(v[c]) \subseteq ToSet(w[c]) /\ (IsInjective(w[c]) => IsInjective(v[c]))
      BY <2>2, <2>3
    <2>5. IsInjective(w[c]) =>
            /\ Head(w[c]) \in ToSet(w[c]) /\ Head(w[c]) \notin ToSet(v[c])
            /\ ToSet(w[c]) = ToSet(v[c]) \cup {Head(w[c])}
      BY <2>2, <2>3
    <2> QED BY <1>2, <2>3, <2>4, <2>5 DEF v
  <1> QED BY <1>1, <1>2

\* A thread that waits goes to the end of the queue.
LEMMA WaitQueueing ==
    ASSUME NEW C, NEW S, NEW w \in [C -> Seq(S)], NEW c \in C, NEW t \in S
    PROVE  /\ Waits(w, t, c) \in [C -> Seq(S)]
           /\ \A d \in C : d # c => Waits(w, t, c)[d] = w[d]
           /\ ToSet(Waits(w, t, c)[c]) = ToSet(w[c]) \cup {t}
           /\ IsInjective(w[c]) /\ t \notin ToSet(w[c]) => IsInjective(Waits(w, t, c)[c])
  <1> DEFINE q == Append(w[c], t)
  <1>1. /\ q \in Seq(S) /\ ToSet(q) = ToSet(w[c]) \cup {t}
        /\ IsInjective(w[c]) /\ t \notin ToSet(w[c]) => IsInjective(q)
    <2>1. w[c] \in Seq(S)
      OBVIOUS
    <2> QED BY <2>1, AppendQueue
  <1>2. Waits(w, t, c) = [w EXCEPT ![c] = q]
    BY DEF Waits
  <1> HIDE DEF q
  <1> QED BY <1>1, <1>2
-----------------------------------------------------------------------------
(* The bounded counter. *)

\* While a thread waits it has a round to do, and is queued once.
Sides == {"canAdd", "canRemove"}

CounterTyped == waitQ \in [Sides -> Seq(Actors)] /\ ItemsInBounds

CounterInv == CounterTyped /\ NoSignalLost

\* Who is on its way on a side: whoever has a round to do and is not queued.
ComingFacts ==
    /\ \A t \in Producers : t \in Coming(Producers) <=>
          round[t] < Iterations /\ t \notin ToSet(waitQ["canAdd"])
    /\ \A t \in Consumers : t \in Coming(Consumers) <=>
          round[t] < Iterations /\ t \notin ToSet(waitQ["canRemove"])
    /\ Coming(Producers) \subseteq Producers /\ Coming(Consumers) \subseteq Consumers
    /\ IsFiniteSet(Coming(Producers)) /\ Cardinality(Coming(Producers)) \in Nat
    /\ IsFiniteSet(Coming(Consumers)) /\ Cardinality(Coming(Consumers)) \in Nat

LEMMA ComingIs == CounterTyped => ComingFacts
  <1> SUFFICES ASSUME CounterTyped PROVE ComingFacts
    OBVIOUS
  <1>1. \A t \in Actors : t \in AllWaiting(waitQ) <=>
           t \in ToSet(waitQ["canAdd"]) \/ t \in ToSet(waitQ["canRemove"])
    BY WaitingOf DEF CounterTyped, Sides
  <1>2. IsFiniteSet(Producers) /\ IsFiniteSet(Consumers)
    BY ProdConsAssumption, FS_Subset DEF Actors
  <1>3. /\ Coming(Producers) \subseteq Producers /\ Coming(Consumers) \subseteq Consumers
        /\ IsFiniteSet(Coming(Producers)) /\ Cardinality(Coming(Producers)) \in Nat
        /\ IsFiniteSet(Coming(Consumers)) /\ Cardinality(Coming(Consumers)) \in Nat
    <2>1. Coming(Producers) \subseteq Producers /\ Coming(Consumers) \subseteq Consumers
      BY DEF Coming
    <2> QED BY <1>2, <2>1, FS_Subset, FS_CardinalityType
  <1>4. /\ \A t \in Producers : t \in Coming(Producers) <=>
             round[t] < Iterations /\ t \notin ToSet(waitQ["canAdd"])
        /\ \A t \in Consumers : t \in Coming(Consumers) <=>
             round[t] < Iterations /\ t \notin ToSet(waitQ["canRemove"])
    BY <1>1, ProdConsAssumption DEF Coming, Tries, CounterTyped, ItemsInBounds, Actors
  <1> QED BY <1>3, <1>4 DEF ComingFacts

LEMMA ComingIsNext == CounterTyped' => ComingFacts'
  BY ComingIs, PTL

\* A signal that reaches somebody adds it to those on their way.
LEMMA OneMoreComing ==
    ASSUME NEW A, NEW B, NEW h, IsFiniteSet(A), IsFiniteSet(B), h \in B, h \notin A,
           A \subseteq B
    PROVE  Cardinality(A) + 1 <= Cardinality(B)
  <1>1. Cardinality(A \cup {h}) = Cardinality(A) + 1
    BY FS_AddElement
  <1>2. Cardinality(A \cup {h}) <= Cardinality(B)
    BY FS_Subset
  <1> QED BY <1>1, <1>2

\* Whoever has done its round may be the one that is missing.
LEMMA OneLessComing ==
    ASSUME NEW A, NEW B, NEW t, IsFiniteSet(A), IsFiniteSet(B), A \ {t} \subseteq B
    PROVE  Cardinality(A) - 1 <= Cardinality(B)
  <1>1. /\ IsFiniteSet(A \ {t})
        /\ Cardinality(A \ {t}) = IF t \in A THEN Cardinality(A) - 1 ELSE Cardinality(A)
    BY FS_RemoveElement
  <1>2. Cardinality(A \ {t}) <= Cardinality(B)
    BY <1>1, FS_Subset
  <1>3. Cardinality(A) \in Nat /\ Cardinality(B) \in Nat
    BY FS_CardinalityType
  <1> QED BY <1>1, <1>2, <1>3

LEMMA ProduceKeeps ==
    ASSUME CounterInv, NEW t \in Producers, Produce(t)
    PROVE  CounterInv'
  <1>1. ComingFacts /\ CounterTyped /\ t \in Actors
    BY ComingIs DEF CounterInv, Actors
  <1>2. /\ items' = items + 1 /\ items \in Nat /\ items < MaxItems /\ MaxItems \in Nat
        /\ round[t] < Iterations /\ round' = [round EXCEPT ![t] = @ + 1]
        /\ t \in Coming(Producers)
    BY ProdConsAssumption, <1>1 DEF Produce, Change, CounterTyped, ItemsInBounds, Coming, Tries
  <1>3. /\ waitQ' \in [Sides -> Seq(Actors)]
        /\ waitQ'["canAdd"] = waitQ["canAdd"]
        /\ ToSet(waitQ'["canRemove"]) \subseteq ToSet(waitQ["canRemove"])
        /\ IsInjective(waitQ'["canRemove"])
        /\ waitQ'["canRemove"] # <<>> =>
             \E h \in ToSet(waitQ["canRemove"]) : h \notin ToSet(waitQ'["canRemove"])
    <2>1. /\ waitQ \in [Sides -> Seq(Actors)]
          /\ "canRemove" \in Sides /\ "canAdd" \in Sides /\ "canAdd" # "canRemove"
          /\ IsInjective(waitQ["canRemove"])
      BY <1>1 DEF CounterTyped, ItemsInBounds, Sides
    <2>2. waitQ' = Signalled(waitQ, "canRemove")
      BY DEF Produce
    <2> DEFINE v == Signalled(waitQ, "canRemove")
    <2>3. v \in [Sides -> Seq(Actors)]
      BY <2>1, SignalQueue
    <2>4. v["canAdd"] = waitQ["canAdd"]
      BY <2>1 DEF Signalled
    <2>5. ToSet(v["canRemove"]) \subseteq ToSet(waitQ["canRemove"]) /\ IsInjective(v["canRemove"])
      BY <2>1, SignalQueue
    <2>6. v["canRemove"] # <<>> =>
            \E h \in ToSet(waitQ["canRemove"]) : h \notin ToSet(v["canRemove"])
      BY <2>1, SignalQueue
    <2> QED BY <2>2, <2>3, <2>4, <2>5, <2>6
  <1>4. CounterTyped'
    <2>1. \A u \in Actors : round'[u] = IF u = t THEN round[u] + 1 ELSE round[u]
      BY <1>1, <1>2 DEF CounterTyped, ItemsInBounds
    <2>2. round' \in [Actors -> 0..Iterations]
      BY <1>1, <1>2, ProdConsAssumption DEF CounterTyped, ItemsInBounds
    <2>3. t \notin ToSet(waitQ["canAdd"]) /\ t \notin Consumers
      BY <1>1, <1>2, ProdConsAssumption DEF ComingFacts
    <2>4. /\ ToSet(waitQ'["canAdd"]) \subseteq {u \in Producers : round'[u] < Iterations}
          /\ ToSet(waitQ'["canRemove"]) \subseteq {u \in Consumers : round'[u] < Iterations}
      BY <1>1, <1>3, <2>1, <2>3 DEF CounterTyped, ItemsInBounds, Actors
    <2>5. items' \in 0..MaxItems
      BY <1>2
    <2> QED BY <1>1, <1>3, <2>2, <2>4, <2>5 DEF CounterTyped, ItemsInBounds
  <1>5. ComingFacts'
    BY <1>4, ComingIsNext
  <1>6. \A u \in Actors : u # t => round'[u] = round[u]
    BY <1>1, <1>2 DEF CounterTyped, ItemsInBounds
  <1>7. waitQ'["canRemove"] # <<>> => items' <= Cardinality(Coming(Consumers)')
    <2> SUFFICES ASSUME waitQ'["canRemove"] # <<>>
                 PROVE  items + 1 <= Cardinality(Coming(Consumers)')
      BY <1>2
    <2>1. PICK h \in ToSet(waitQ["canRemove"]) : h \notin ToSet(waitQ'["canRemove"])
      BY <1>3
    <2>2. h \in Consumers /\ h # t /\ round[h] < Iterations /\ h \in Actors
      BY <1>1, ProdConsAssumption DEF CounterTyped, ItemsInBounds, Actors
    <2>3. h \in Coming(Consumers)' /\ h \notin Coming(Consumers)
      BY <1>1, <1>5, <1>6, <2>1, <2>2 DEF ComingFacts
    <2>4. Coming(Consumers) \subseteq Coming(Consumers)'
      BY <1>1, <1>3, <1>5, <1>6, ProdConsAssumption DEF ComingFacts, Actors
    <2>5. Cardinality(Coming(Consumers)) + 1 <= Cardinality(Coming(Consumers)')
      BY <1>1, <1>5, <2>3, <2>4, OneMoreComing DEF ComingFacts
    <2>6. waitQ["canRemove"] # <<>>
      BY <2>1, EmptyQueue
    <2>7. items <= Cardinality(Coming(Consumers))
      BY <2>6 DEF CounterInv, NoSignalLost
    <2> QED BY <1>1, <1>2, <1>5, <2>5, <2>7 DEF ComingFacts
  <1>8. waitQ'["canAdd"] # <<>> => MaxItems - items' <= Cardinality(Coming(Producers)')
    <2> SUFFICES ASSUME waitQ["canAdd"] # <<>>
                 PROVE  MaxItems - (items + 1) <= Cardinality(Coming(Producers)')
      BY <1>2, <1>3
    <2>1. Coming(Producers) \ {t} \subseteq Coming(Producers)'
      BY <1>1, <1>3, <1>5, <1>6 DEF ComingFacts, Actors
    <2>2. Cardinality(Coming(Producers)) - 1 <= Cardinality(Coming(Producers)')
      BY <1>1, <1>5, <2>1, OneLessComing DEF ComingFacts
    <2>3. MaxItems - items <= Cardinality(Coming(Producers))
      BY DEF CounterInv, NoSignalLost
    <2> QED BY <1>1, <1>2, <1>5, <2>2, <2>3 DEF ComingFacts
  <1> QED BY <1>4, <1>7, <1>8 DEF CounterInv, NoSignalLost

LEMMA ConsumeKeeps ==
    ASSUME CounterInv, NEW t \in Consumers, Consume(t)
    PROVE  CounterInv'
  <1>1. ComingFacts /\ CounterTyped /\ t \in Actors
    BY ComingIs DEF CounterInv, Actors
  <1>2. /\ items' = items - 1 /\ items \in Nat \ {0} /\ items <= MaxItems /\ MaxItems \in Nat
        /\ round[t] < Iterations /\ round' = [round EXCEPT ![t] = @ + 1]
        /\ t \in Coming(Consumers)
    BY ProdConsAssumption, <1>1 DEF Consume, Change, CounterTyped, ItemsInBounds, Coming, Tries
  <1>3. /\ waitQ' \in [Sides -> Seq(Actors)]
        /\ waitQ'["canRemove"] = waitQ["canRemove"]
        /\ ToSet(waitQ'["canAdd"]) \subseteq ToSet(waitQ["canAdd"])
        /\ IsInjective(waitQ'["canAdd"])
        /\ waitQ'["canAdd"] # <<>> =>
             \E h \in ToSet(waitQ["canAdd"]) : h \notin ToSet(waitQ'["canAdd"])
    <2>1. /\ waitQ \in [Sides -> Seq(Actors)]
          /\ "canAdd" \in Sides /\ "canRemove" \in Sides /\ "canAdd" # "canRemove"
          /\ IsInjective(waitQ["canAdd"])
      BY <1>1 DEF CounterTyped, ItemsInBounds, Sides
    <2>2. waitQ' = Signalled(waitQ, "canAdd")
      BY DEF Consume
    <2> DEFINE v == Signalled(waitQ, "canAdd")
    <2>3. v \in [Sides -> Seq(Actors)]
      BY <2>1, SignalQueue
    <2>4. v["canRemove"] = waitQ["canRemove"]
      BY <2>1 DEF Signalled
    <2>5. ToSet(v["canAdd"]) \subseteq ToSet(waitQ["canAdd"]) /\ IsInjective(v["canAdd"])
      BY <2>1, SignalQueue
    <2>6. v["canAdd"] # <<>> =>
            \E h \in ToSet(waitQ["canAdd"]) : h \notin ToSet(v["canAdd"])
      BY <2>1, SignalQueue
    <2> QED BY <2>2, <2>3, <2>4, <2>5, <2>6
  <1>4. CounterTyped'
    <2>1. \A u \in Actors : round'[u] = IF u = t THEN round[u] + 1 ELSE round[u]
      BY <1>1, <1>2 DEF CounterTyped, ItemsInBounds
    <2>2. round' \in [Actors -> 0..Iterations]
      BY <1>1, <1>2, ProdConsAssumption DEF CounterTyped, ItemsInBounds
    <2>3. t \notin ToSet(waitQ["canRemove"]) /\ t \notin Producers
      BY <1>1, <1>2, ProdConsAssumption DEF ComingFacts
    <2>4. /\ ToSet(waitQ'["canAdd"]) \subseteq {u \in Producers : round'[u] < Iterations}
          /\ ToSet(waitQ'["canRemove"]) \subseteq {u \in Consumers : round'[u] < Iterations}
      BY <1>1, <1>3, <2>1, <2>3 DEF CounterTyped, ItemsInBounds, Actors
    <2>5. items' \in 0..MaxItems
      BY <1>2
    <2> QED BY <1>1, <1>3, <2>2, <2>4, <2>5 DEF CounterTyped, ItemsInBounds
  <1>5. ComingFacts'
    BY <1>4, ComingIsNext
  <1>6. \A u \in Actors : u # t => round'[u] = round[u]
    BY <1>1, <1>2 DEF CounterTyped, ItemsInBounds
  <1>7. waitQ'["canAdd"] # <<>> => MaxItems - items' <= Cardinality(Coming(Producers)')
    <2> SUFFICES ASSUME waitQ'["canAdd"] # <<>>
                 PROVE  MaxItems - (items - 1) <= Cardinality(Coming(Producers)')
      BY <1>2
    <2>1. PICK h \in ToSet(waitQ["canAdd"]) : h \notin ToSet(waitQ'["canAdd"])
      BY <1>3
    <2>2. h \in Producers /\ h # t /\ round[h] < Iterations /\ h \in Actors
      BY <1>1, ProdConsAssumption DEF CounterTyped, ItemsInBounds, Actors
    <2>3. h \in Coming(Producers)' /\ h \notin Coming(Producers)
      BY <1>1, <1>5, <1>6, <2>1, <2>2 DEF ComingFacts
    <2>4. Coming(Producers) \subseteq Coming(Producers)'
      BY <1>1, <1>3, <1>5, <1>6, ProdConsAssumption DEF ComingFacts, Actors
    <2>5. Cardinality(Coming(Producers)) + 1 <= Cardinality(Coming(Producers)')
      BY <1>1, <1>5, <2>3, <2>4, OneMoreComing DEF ComingFacts
    <2>6. waitQ["canAdd"] # <<>>
      BY <2>1, EmptyQueue
    <2>7. MaxItems - items <= Cardinality(Coming(Producers))
      BY <2>6 DEF CounterInv, NoSignalLost
    <2> QED BY <1>1, <1>2, <1>5, <2>5, <2>7 DEF ComingFacts
  <1>8. waitQ'["canRemove"] # <<>> => items' <= Cardinality(Coming(Consumers)')
    <2> SUFFICES ASSUME waitQ["canRemove"] # <<>>
                 PROVE  items - 1 <= Cardinality(Coming(Consumers)')
      BY <1>2, <1>3
    <2>1. Coming(Consumers) \ {t} \subseteq Coming(Consumers)'
      BY <1>1, <1>3, <1>5, <1>6 DEF ComingFacts, Actors
    <2>2. Cardinality(Coming(Consumers)) - 1 <= Cardinality(Coming(Consumers)')
      BY <1>1, <1>5, <2>1, OneLessComing DEF ComingFacts
    <2>3. items <= Cardinality(Coming(Consumers))
      BY DEF CounterInv, NoSignalLost
    <2> QED BY <1>1, <1>2, <1>5, <2>2, <2>3 DEF ComingFacts
  <1> QED BY <1>4, <1>7, <1>8 DEF CounterInv, NoSignalLost

\* Who waits leaves as many of the other side on their way; its own side has
\* nothing to take.
LEMMA ActorWaitsKeeps ==
    ASSUME CounterInv, NEW t \in Actors,
           \/ t \in Producers /\ ProducerWaits(t)
           \/ t \in Consumers /\ ConsumerWaits(t)
    PROVE  CounterInv'
  <1> DEFINE own == IF t \in Producers THEN "canAdd" ELSE "canRemove"
             other == IF t \in Producers THEN "canRemove" ELSE "canAdd"
  <1>1. /\ own \in Sides /\ other \in Sides
        /\ own # other
        /\ t \in Producers <=> t \notin Consumers
        /\ t \in Producers => own = "canAdd" /\ other = "canRemove" /\ items = MaxItems
        /\ t \in Consumers => own = "canRemove" /\ other = "canAdd" /\ items = 0
        /\ waitQ' = Waits(waitQ, t, own) /\ items' = items /\ round' = round
        /\ round[t] < Iterations /\ t \notin AllWaiting(waitQ)
    BY ProdConsAssumption DEF ProducerWaits, ConsumerWaits, Tries, Actors, Sides
  <1> HIDE DEF own, other
  <1>2. ComingFacts /\ CounterTyped
    BY ComingIs DEF CounterInv
  <1>3. /\ waitQ' \in [Sides -> Seq(Actors)]
        /\ waitQ'[other] = waitQ[other]
        /\ ToSet(waitQ'[own]) = ToSet(waitQ[own]) \cup {t}
        /\ IsInjective(waitQ'[own])
    <2>1. /\ waitQ \in [Sides -> Seq(Actors)]
          /\ IsInjective(waitQ["canRemove"]) /\ IsInjective(waitQ["canAdd"])
      BY <1>2 DEF CounterTyped, ItemsInBounds, Sides
    <2>2. t \notin ToSet(waitQ[own])
      BY <1>1, <2>1, WaitingOf
    <2>3. IsInjective(waitQ[own])
      BY <1>1, <2>1
    <2> DEFINE v == Waits(waitQ, t, own)
    <2>4. v \in [Sides -> Seq(Actors)] /\ v[other] = waitQ[other]
      BY <1>1, <2>1, WaitQueueing
    <2>5. ToSet(v[own]) = ToSet(waitQ[own]) \cup {t}
      BY <1>1, <2>1, AppendQueue DEF Waits
    <2>6. IsInjective(v[own])
      BY <1>1, <2>1, <2>2, <2>3, WaitQueueing
    <2> QED BY <1>1, <2>4, <2>5, <2>6
  <1>4. CounterTyped'
    BY <1>1, <1>2, <1>3 DEF CounterTyped, ItemsInBounds, Actors, Sides
  <1>5. ComingFacts'
    BY <1>4, ComingIsNext
  <1>6. CASE t \in Producers
    <2>1. Coming(Consumers)' = Coming(Consumers)
      BY <1>1, <1>2, <1>3, <1>5, <1>6 DEF ComingFacts
    <2>2. waitQ'["canRemove"] # <<>> => items' <= Cardinality(Coming(Consumers)')
      BY <1>1, <1>3, <1>6, <2>1 DEF CounterInv, NoSignalLost
    <2>3. MaxItems - items' <= Cardinality(Coming(Producers)')
      BY <1>1, <1>5, <1>6, ProdConsAssumption DEF ComingFacts
    <2> QED BY <1>4, <2>2, <2>3 DEF CounterInv, NoSignalLost
  <1>7. CASE t \in Consumers
    <2>1. Coming(Producers)' = Coming(Producers)
      BY <1>1, <1>2, <1>3, <1>5, <1>7 DEF ComingFacts
    <2>2. waitQ'["canAdd"] # <<>> => MaxItems - items' <= Cardinality(Coming(Producers)')
      BY <1>1, <1>3, <1>7, <2>1 DEF CounterInv, NoSignalLost
    <2>3. items' <= Cardinality(Coming(Consumers)')
      BY <1>1, <1>5, <1>7, ProdConsAssumption DEF ComingFacts
    <2> QED BY <1>4, <2>2, <2>3 DEF CounterInv, NoSignalLost
  <1> QED BY <1>1, <1>6, <1>7

LEMMA CounterInvInit == ProdConsInit => CounterInv
  <1> SUFFICES ASSUME ProdConsInit PROVE CounterInv
    OBVIOUS
  <1>1. waitQ["canAdd"] = <<>> /\ waitQ["canRemove"] = <<>>
    BY DEF ProdConsInit
  <1>2. CounterTyped
    BY <1>1, EmptyQueue, ProdConsAssumption DEF ProdConsInit, CounterTyped, ItemsInBounds, Sides
  <1> QED BY <1>1, <1>2 DEF CounterInv, NoSignalLost

LEMMA CounterInvStep == CounterInv /\ [ProdConsNext]_prodConsVars => CounterInv'
  <1> SUFFICES ASSUME CounterInv, [ProdConsNext]_prodConsVars PROVE CounterInv'
    OBVIOUS
  <1>1. CASE UNCHANGED prodConsVars
    BY <1>1 DEF prodConsVars, CounterInv, CounterTyped, ItemsInBounds, NoSignalLost,
                Coming, Tries, AllWaiting
  <1>2. ASSUME NEW t \in Producers, Produce(t) \/ ProducerWaits(t) PROVE CounterInv'
    BY <1>2, ProduceKeeps, ActorWaitsKeeps DEF Actors
  <1>3. ASSUME NEW t \in Consumers, Consume(t) \/ ConsumerWaits(t) PROVE CounterInv'
    BY <1>3, ConsumeKeeps, ActorWaitsKeeps DEF Actors
  <1> QED BY <1>1, <1>2, <1>3 DEF ProdConsNext

\* The count stays between 0 and MAX_ITEMS and no change of it is lost on
\* those who wait, however many producers and consumers run pc.c.
THEOREM CounterSoundCorrect == Spec => []CounterSound
  <1>1. Init => CounterInv
    BY CounterInvInit DEF Init
  <1>2. CounterInv /\ [Next]_vars => CounterInv'
    BY CounterInvStep DEF Next, ProgramStep, Finished, vars
  <1>3. CounterInv => CounterSound
    BY DEF CounterInv, CounterTyped, CounterSound
  <1> QED BY <1>1, <1>2, <1>3, PTL DEF Spec
-----------------------------------------------------------------------------
(* The barriers. *)

\* The count is of the threads that came, and until all have nobody leaves the
\* queue.
Came == {t \in Parties : stage[t] \notin {"a", "call"}}

BarrierInv ==
    /\ stage \in [Parties -> Stages]
    /\ goQ \in [{"go"} -> Seq(Parties)]
    /\ arrivals = Cardinality(Came)
    /\ arrivals < Cardinality(Parties) =>
         \A t \in Parties : /\ stage[t] \notin {"b", "end"}
                            /\ stage[t] = "wait" => t \in ToSet(goQ["go"])

LEMMA BarrierInvInit == BarrierInit => BarrierInv
  <1> SUFFICES ASSUME BarrierInit PROVE BarrierInv
    OBVIOUS
  <1>1. Came = {}
    BY DEF BarrierInit, Came
  <1>2. goQ \in [{"go"} -> Seq(Parties)]
    BY EmptyQueue DEF BarrierInit
  <1> QED BY <1>1, <1>2, FS_EmptySet DEF BarrierInit, BarrierInv, Stages

LEMMA BarrierInvStep == BarrierInv /\ [BarrierNext]_barrierVars => BarrierInv'
  <1> SUFFICES ASSUME BarrierInv, [BarrierNext]_barrierVars PROVE BarrierInv'
    OBVIOUS
  <1> USE DEF Stages
  <1>1. IsFiniteSet(Came) /\ Cardinality(Came) \in Nat /\ Cardinality(Parties) \in Nat
    <2>1. Came \subseteq Parties
      BY DEF Came
    <2> QED BY <2>1, BarrierAssumption, FS_Subset, FS_CardinalityType
  <1>2. CASE UNCHANGED barrierVars
    BY <1>2 DEF barrierVars, BarrierInv, Came
  <1>3. ASSUME NEW t \in Parties, PrintA(t) PROVE BarrierInv'
    <2>1. Came' = Came
      BY <1>3 DEF PrintA, Moves, Came, BarrierInv
    <2> QED BY <1>3, <2>1 DEF PrintA, Moves, BarrierInv
  <1>4. ASSUME NEW t \in Parties, ArriveWait(t) PROVE BarrierInv'
    <2>1. Came' = Came \cup {t} /\ t \notin Came
      BY <1>4 DEF ArriveWait, Moves, Came, BarrierInv
    <2>2. Cardinality(Came') = Cardinality(Came) + 1
      BY <1>1, <2>1, FS_AddElement
    <2>3. /\ goQ' \in [{"go"} -> Seq(Parties)]
          /\ ToSet(goQ'["go"]) = ToSet(goQ["go"]) \cup {t}
      BY <1>4, AppendQueue DEF ArriveWait, Waits, BarrierInv
    <2>4. stage' \in [Parties -> Stages] /\ arrivals' = arrivals + 1
      BY <1>4 DEF ArriveWait, Moves, BarrierInv
    <2>5. ASSUME NEW u \in Parties
          PROVE  /\ stage'[u] \notin {"b", "end"}
                 /\ stage'[u] = "wait" => u \in ToSet(goQ'["go"])
      BY <1>1, <1>4, <2>3 DEF ArriveWait, Moves, BarrierInv
    <2> QED BY <2>2, <2>3, <2>4, <2>5 DEF BarrierInv
  <1>5. ASSUME NEW t \in Parties, ArriveLast(t) PROVE BarrierInv'
    <2>1. Came' = Came \cup {t} /\ t \notin Came
      BY <1>5 DEF ArriveLast, Moves, Came, BarrierInv
    <2>2. Cardinality(Came') = Cardinality(Came) + 1
      BY <1>1, <2>1, FS_AddElement
    <2>3. goQ' \in [{"go"} -> Seq(Parties)]
      BY <1>5, EmptyQueue DEF ArriveLast, Broadcasted, BarrierInv
    <2>4. stage' \in [Parties -> Stages] /\ arrivals' = arrivals + 1
      BY <1>5 DEF ArriveLast, Moves, BarrierInv
    <2>5. ~(arrivals' < Cardinality(Parties))
      BY <1>1, <1>5 DEF ArriveLast, BarrierInv
    <2> QED BY <2>2, <2>3, <2>4, <2>5 DEF BarrierInv
  <1>6. ASSUME NEW t \in Parties, Released(t) PROVE BarrierInv'
    <2>1. Came' = Came
      BY <1>6 DEF Released, Moves, Came, BarrierInv
    <2>2. ~(arrivals < Cardinality(Parties))
      <3>1. t \notin ToSet(goQ["go"]) /\ stage[t] = "wait"
        BY <1>6, WaitingOf DEF Released, Moves, BarrierInv
      <3> QED BY <3>1 DEF BarrierInv
    <2> QED BY <1>6, <2>1, <2>2 DEF Released, Moves, BarrierInv
  <1>7. ASSUME NEW t \in Parties, PrintB(t) PROVE BarrierInv'
    <2>1. Came' = Came
      BY <1>7 DEF PrintB, Moves, Came, BarrierInv
    <2> QED BY <1>7, <2>1 DEF PrintB, Moves, BarrierInv
  <1> QED BY <1>2, <1>3, <1>4, <1>5, <1>6, <1>7 DEF BarrierNext

LEMMA BarrierHolds == BarrierInv => AsBeforeBs
  <1> SUFFICES ASSUME BarrierInv, NEW t \in Parties, stage[t] \in {"b", "end"},
                      NEW u \in Parties
               PROVE  stage[u] # "a"
    BY DEF AsBeforeBs
  <1>1. Came \subseteq Parties
    BY DEF Came
  <1>2. Cardinality(Came) = Cardinality(Parties)
    <2>1. Cardinality(Came) <= Cardinality(Parties) /\ IsFiniteSet(Came)
      BY <1>1, BarrierAssumption, FS_Subset
    <2>2. Cardinality(Came) \in Nat /\ Cardinality(Parties) \in Nat
      BY <2>1, BarrierAssumption, FS_CardinalityType
    <2> QED BY <2>1, <2>2 DEF BarrierInv
  <1>3. Came = Parties
    BY <1>1, <1>2, BarrierAssumption, FS_Subset
  <1> QED BY <1>3 DEF Came

\* The count of code-10 is never below the decrements to come, and neither is
\* what was read to be stored.
Places == {"a", "minus", "store", "test", "b", "end"}
NotStored == {t \in Letters : place[t] \in {"a", "minus", "store"}}

CountDownInv ==
    /\ place \in [Letters -> Places]
    /\ threadnum \in Int /\ read \in [Letters -> Int]
    /\ threadnum >= Cardinality(NotStored)
    /\ \A t \in Letters : place[t] = "store" => read[t] >= Cardinality(NotStored)
    /\ AllPassOrNone

LEMMA CountDownInvInit == CountDownInit => CountDownInv
  <1> SUFFICES ASSUME CountDownInit PROVE CountDownInv
    OBVIOUS
  <1>1. NotStored = Letters
    BY DEF CountDownInit, NotStored
  <1>2. Cardinality(Letters) \in Nat
    BY CountDownAssumption, FS_CardinalityType
  <1> QED BY <1>1, <1>2 DEF CountDownInit, CountDownInv, Places, AllPassOrNone

LEMMA CountDownInvStep == CountDownInv /\ [CountDownNext]_countDownVars => CountDownInv'
  <1> SUFFICES ASSUME CountDownInv, [CountDownNext]_countDownVars PROVE CountDownInv'
    OBVIOUS
  <1> USE DEF Places
  <1>1. IsFiniteSet(NotStored) /\ Cardinality(NotStored) \in Nat
    <2>1. NotStored \subseteq Letters
      BY DEF NotStored
    <2> QED BY <2>1, CountDownAssumption, FS_Subset, FS_CardinalityType
  <1>2. CASE UNCHANGED countDownVars
    BY <1>2 DEF countDownVars, CountDownInv, NotStored, AllPassOrNone
  <1>3. ASSUME NEW t \in Letters, PrintsA(t) PROVE CountDownInv'
    <2>1. NotStored' = NotStored
      BY <1>3 DEF PrintsA, Passes, CountDownInv, NotStored
    <2>2. AllPassOrNone'
      BY <1>3 DEF PrintsA, Passes, CountDownInv, AllPassOrNone
    <2> QED BY <1>3, <2>1, <2>2 DEF PrintsA, Passes, CountDownInv
  <1>4. ASSUME NEW t \in Letters, ReadsCount(t) PROVE CountDownInv'
    <2>1. NotStored' = NotStored
      BY <1>4 DEF ReadsCount, Passes, CountDownInv, NotStored
    <2>2. AllPassOrNone'
      BY <1>4 DEF ReadsCount, Passes, CountDownInv, AllPassOrNone
    <2> QED BY <1>4, <2>1, <2>2 DEF ReadsCount, Passes, CountDownInv
  <1>5. ASSUME NEW t \in Letters, StoresCount(t) PROVE CountDownInv'
    <2>1. NotStored' = NotStored \ {t} /\ t \in NotStored
      BY <1>5 DEF StoresCount, Passes, CountDownInv, NotStored
    <2>2. Cardinality(NotStored') = Cardinality(NotStored) - 1
      BY <1>1, <2>1, FS_RemoveElement
    <2>3. AllPassOrNone'
      BY <1>5 DEF StoresCount, Passes, CountDownInv, AllPassOrNone
    <2> QED BY <1>1, <1>5, <2>2, <2>3 DEF StoresCount, Passes, CountDownInv
  <1>6. ASSUME NEW t \in Letters, WaitsForLetter(t) PROVE CountDownInv'
    <2>1. place' = place /\ threadnum' = threadnum /\ read' = read
      BY <1>6 DEF WaitsForLetter, Passes, CountDownInv
    <2> QED BY <2>1 DEF CountDownInv, NotStored, AllPassOrNone
  <1>7. ASSUME NEW t \in Letters, LastLetter(t) PROVE CountDownInv'
    <2>1. threadnum = 0 /\ NotStored = {}
      BY <1>1, <1>7, FS_EmptySet DEF LastLetter, CountDownInv
    <2>2. NotStored' = NotStored
      BY <1>7 DEF LastLetter, Passes, CountDownInv, NotStored
    <2>3. AllPassOrNone'
      <3>1. \A u \in Letters : place[u] \in {"test", "b", "end"}
        BY <2>1 DEF CountDownInv, NotStored
      <3> QED BY <1>7, <2>1, <3>1 DEF LastLetter, Passes, CountDownInv, AllPassOrNone
    <2> QED BY <1>7, <2>2, <2>3 DEF LastLetter, Passes, CountDownInv
  <1>8. ASSUME NEW t \in Letters, PrintsB(t) PROVE CountDownInv'
    <2>1. NotStored' = NotStored
      BY <1>8 DEF PrintsB, Passes, CountDownInv, NotStored
    <2>2. AllPassOrNone'
      BY <1>8 DEF PrintsB, Passes, CountDownInv, AllPassOrNone
    <2> QED BY <1>8, <2>1, <2>2 DEF PrintsB, Passes, CountDownInv
  <1> QED BY <1>2, <1>3, <1>4, <1>5, <1>6, <1>7, <1>8 DEF CountDownNext
-----------------------------------------------------------------------------
(* Zero, one and two. *)

\* How far the three procedures are says what is printed; who waits before
\* the flag is set is in the queue that its setter signals.
PrintedSoFar ==
    CASE at["p2"] = "end" -> <<"zero", "one", "two">>
      [] at["p2"] # "end" /\ at["p1"] = "end" -> <<"zero", "one">>
      [] at["p2"] # "end" /\ at["p1"] # "end" /\ at["p0"] # "start" -> <<"zero">>
      [] OTHER -> <<>>

OrderingInv ==
    /\ gone \in [{"p0", "p1"} -> BOOLEAN]
    /\ at \in [{"p0", "p1", "p2"} -> {"start", "printed", "wait", "unlocked", "end"}]
    /\ canGoQ \in [{"oneCanGo", "twoCanGo"} -> Seq({"p1", "p2"})]
    /\ printed = PrintedSoFar
    /\ at["p0"] # "wait"
    /\ gone["p0"] <=> at["p0"] = "end"
    /\ gone["p1"] <=> at["p1"] = "end"
    /\ at["p1"] = "end" => gone["p0"]
    /\ at["p2"] \in {"unlocked", "end"} => gone["p1"]
    /\ at["p1"] = "wait" /\ ~gone["p0"] => "p1" \in ToSet(canGoQ["oneCanGo"])
    /\ at["p2"] = "wait" /\ ~gone["p1"] => "p2" \in ToSet(canGoQ["twoCanGo"])

LEMMA OrderingInvInit == OrderingInit => OrderingInv
  BY EmptyQueue DEF OrderingInit, OrderingInv, PrintedSoFar

CanGo == {"oneCanGo", "twoCanGo"}

\* The queues after a signal and after a wait.
LEMMA CanGoQueues ==
    ASSUME canGoQ \in [CanGo -> Seq({"p1", "p2"})], NEW c \in CanGo, NEW p \in {"p1", "p2"}
    PROVE  /\ Signalled(canGoQ, c) \in [CanGo -> Seq({"p1", "p2"})]
           /\ \A d \in CanGo : d # c => Signalled(canGoQ, c)[d] = canGoQ[d]
           /\ Waits(canGoQ, p, c) \in [CanGo -> Seq({"p1", "p2"})]
           /\ \A d \in CanGo : d # c => Waits(canGoQ, p, c)[d] = canGoQ[d]
           /\ p \in ToSet(Waits(canGoQ, p, c)[c])
           /\ p \notin AllWaiting(canGoQ) => p \notin ToSet(canGoQ[c])
  <1>1. /\ Signalled(canGoQ, c) \in [CanGo -> Seq({"p1", "p2"})]
        /\ \A d \in CanGo : d # c => Signalled(canGoQ, c)[d] = canGoQ[d]
    <2>1. Signalled(canGoQ, c) \in [CanGo -> Seq({"p1", "p2"})]
      BY SignalQueue
    <2> QED BY <2>1 DEF Signalled
  <1>2. /\ Waits(canGoQ, p, c) \in [CanGo -> Seq({"p1", "p2"})]
        /\ \A d \in CanGo : d # c => Waits(canGoQ, p, c)[d] = canGoQ[d]
    BY DEF Waits
  <1>3. ToSet(Waits(canGoQ, p, c)[c]) = ToSet(canGoQ[c]) \cup {p}
    BY AppendQueue DEF Waits
  <1> QED BY <1>1, <1>2, <1>3, WaitingOf

\* A word after what is printed.
LEMMA AppendWord ==
    ASSUME NEW a, NEW b, NEW c, NEW d
    PROVE  /\ Append(<<>>, a) = <<a>>
           /\ Append(<<a>>, b) = <<a, b>>
           /\ Append(<<a, b>>, c) = <<a, b, c>>
           /\ Append(<<a, b, c>>, d) = <<a, b, c>> \o <<d>>
  <1> DEFINE S == {a, b, c, d}
  <1>1. /\ a \in S /\ b \in S /\ c \in S /\ d \in S
        /\ <<>> \in Seq(S) /\ Len(<<>>) = 0
        /\ <<a>> \in Seq(S) /\ Len(<<a>>) = 1
        /\ <<a, b>> \in Seq(S) /\ Len(<<a, b>>) = 2
        /\ <<a, b, c>> \in Seq(S) /\ Len(<<a, b, c>>) = 3
    OBVIOUS
  <1>2. Append(<<a>>, b) = <<a, b>>
    <2> DEFINE v == Append(<<a>>, b)
               w == <<a, b>>
    <2>1. v \in Seq(S) /\ Len(v) = 2 /\ v[1] = a /\ v[2] = b
      BY <1>1, AppendProperties
    <2>2. w \in Seq(S) /\ Len(w) = 2 /\ w[1] = a /\ w[2] = b
      BY <1>1
    <2> HIDE DEF v, w, S
    <2>3. v = w
      BY <2>1, <2>2, SeqEqual
    <2> QED BY <2>3 DEF v, w
  <1>3. Append(<<a, b>>, c) = <<a, b, c>>
    <2> DEFINE v == Append(<<a, b>>, c)
               w == <<a, b, c>>
    <2>1. v \in Seq(S) /\ Len(v) = 3 /\ v[1] = a /\ v[2] = b /\ v[3] = c
      BY <1>1, AppendProperties
    <2>2. w \in Seq(S) /\ Len(w) = 3 /\ w[1] = a /\ w[2] = b /\ w[3] = c
      BY <1>1
    <2> HIDE DEF v, w, S
    <2>3. v = w
      BY <2>1, <2>2, SeqEqual
    <2> QED BY <2>3 DEF v, w
  <1>4. Append(<<a, b, c>>, d) = <<a, b, c>> \o <<d>>
    BY <1>1, AppendIsConcat
  <1> QED BY <1>2, <1>3, <1>4

LEMMA OrderingInvStep ==
    OrderingInv /\ [OrderingNext \/ LoopOrderingNext]_orderingVars => OrderingInv'
  <1> SUFFICES ASSUME OrderingInv, [OrderingNext \/ LoopOrderingNext]_orderingVars
               PROVE  OrderingInv'
    OBVIOUS
  <1>1. CASE UNCHANGED orderingVars
    BY <1>1 DEF orderingVars, OrderingInv, PrintedSoFar
  <1>2. /\ canGoQ \in [CanGo -> Seq({"p1", "p2"})]
        /\ "oneCanGo" \in CanGo /\ "twoCanGo" \in CanGo
        /\ "p1" \in {"p1", "p2"} /\ "p2" \in {"p1", "p2"}
        /\ \A p \in {"p1", "p2"}, c \in CanGo :
              p \notin AllWaiting(canGoQ) => p \notin ToSet(canGoQ[c])
    <2>1. canGoQ \in [CanGo -> Seq({"p1", "p2"})]
      BY DEF OrderingInv, CanGo
    <2> QED BY <2>1, CanGoQueues DEF CanGo
  <1>3. ASSUME canGoQ' = Signalled(canGoQ, "oneCanGo")
        PROVE  /\ canGoQ' \in [{"oneCanGo", "twoCanGo"} -> Seq({"p1", "p2"})]
               /\ canGoQ'["twoCanGo"] = canGoQ["twoCanGo"]
    BY <1>2, <1>3, CanGoQueues DEF CanGo
  <1>4. ASSUME canGoQ' = Signalled(canGoQ, "twoCanGo")
        PROVE  /\ canGoQ' \in [{"oneCanGo", "twoCanGo"} -> Seq({"p1", "p2"})]
               /\ canGoQ'["oneCanGo"] = canGoQ["oneCanGo"]
    BY <1>2, <1>4, CanGoQueues DEF CanGo
  <1>5. ASSUME canGoQ' = Waits(canGoQ, "p1", "oneCanGo")
        PROVE  /\ canGoQ' \in [{"oneCanGo", "twoCanGo"} -> Seq({"p1", "p2"})]
               /\ canGoQ'["twoCanGo"] = canGoQ["twoCanGo"]
               /\ "p1" \in ToSet(canGoQ'["oneCanGo"])
    BY <1>2, <1>5, CanGoQueues DEF CanGo
  <1>6. ASSUME canGoQ' = Waits(canGoQ, "p2", "twoCanGo")
        PROVE  /\ canGoQ' \in [{"oneCanGo", "twoCanGo"} -> Seq({"p1", "p2"})]
               /\ canGoQ'["oneCanGo"] = canGoQ["oneCanGo"]
               /\ "p2" \in ToSet(canGoQ'["twoCanGo"])
    BY <1>2, <1>6, CanGoQueues DEF CanGo
  <1>19. Append(<<"zero">>, "one") = <<"zero", "one">>
    BY AppendWord
  <1>20. Append(<<"zero", "one">>, "two") = <<"zero", "one", "two">>
    BY AppendWord
  <1> USE DEF OrderingInv, PrintedSoFar, CanGo
  <1>7. CASE PrintZero
    BY <1>7 DEF PrintZero, Goes, Prints
  <1>8. CASE ZeroGoes
    BY <1>3, <1>8 DEF ZeroGoes, Goes
  <1>9. CASE OneWaits
    BY <1>5, <1>9 DEF OneWaits, Goes
  <1>10. CASE OneGoes
    <2>1. gone["p0"] /\ at["p0"] = "end" /\ at["p1"] # "end" /\ at["p2"] \notin {"unlocked", "end"}
      BY <1>2, <1>10 DEF OneGoes, MayGo
    <2>2. printed' = <<"zero", "one">>
      <3>1. printed = <<"zero">>
        BY <2>1
      <3>2. printed' = Append(printed, "one")
        BY <1>10 DEF OneGoes, Prints
      <3> QED BY <1>19, <3>1, <3>2
    <2>3. PrintedSoFar' = <<"zero", "one">>
      BY <1>10, <2>1 DEF OneGoes
    <2> HIDE DEF PrintedSoFar
    <2> QED BY <1>4, <1>10, <2>1, <2>2, <2>3 DEF OneGoes
  <1>11. CASE TwoWaits
    BY <1>6, <1>11 DEF TwoWaits, Goes
  <1>12. CASE TwoGoes
    BY <1>2, <1>12 DEF TwoGoes, MayGo
  <1>13. CASE PrintTwo
    BY <1>13 DEF PrintTwo, Goes, Prints
  <1>14. CASE LoopWaits("p1", "p0", "oneCanGo")
    BY <1>5, <1>14 DEF LoopWaits
  <1>15. CASE LoopWaits("p2", "p1", "twoCanGo")
    BY <1>6, <1>15 DEF LoopWaits
  <1>16. CASE LoopZero
    BY <1>3, <1>16 DEF LoopZero, LoopGoes, Prints
  <1>17. CASE LoopOne
    <2>1. gone["p0"] /\ at["p0"] = "end" /\ at["p1"] # "end" /\ at["p2"] \notin {"unlocked", "end"}
      BY <1>17 DEF LoopOne, LoopGoes
    <2>2. printed' = <<"zero", "one">>
      <3>1. printed = <<"zero">>
        BY <2>1
      <3>2. printed' = Append(printed, "one")
        BY <1>17 DEF LoopOne, LoopGoes, Prints
      <3> QED BY <1>19, <3>1, <3>2
    <2>3. PrintedSoFar' = <<"zero", "one">>
      BY <1>17, <2>1 DEF LoopOne, LoopGoes
    <2> HIDE DEF PrintedSoFar
    <2> QED BY <1>4, <1>17, <2>1, <2>2, <2>3 DEF LoopOne, LoopGoes
  <1>18. CASE LoopTwo
    <2>1. /\ gone["p1"] /\ at["p1"] = "end" /\ at["p0"] = "end"
          /\ gone' = gone /\ canGoQ' = canGoQ
          /\ at' = [at EXCEPT !["p2"] = "end"] /\ at["p2"] \in {"start", "wait"}
      BY <1>18 DEF LoopTwo, LoopGoes
    <2>2. printed' = Append(<<"zero", "one">>, "two")
      <3>1. printed = <<"zero", "one">>
        BY <2>1
      <3> QED BY <1>18, <3>1 DEF LoopTwo, LoopGoes, Prints
    <2>3. PrintedSoFar' = <<"zero", "one", "two">>
      BY <2>1
    <2> HIDE DEF PrintedSoFar
    <2> QED BY <1>20, <2>1, <2>2, <2>3
  <1> QED BY <1>1, <1>7, <1>8, <1>9, <1>10, <1>11, <1>12, <1>13, <1>14, <1>15, <1>16,
             <1>17, <1>18 DEF OrderingNext, LoopOrderingNext

LEMMA OrderingHolds == OrderingInv => InOrder
  <1> SUFFICES ASSUME OrderingInv PROVE InOrder
    OBVIOUS
  <1>1. printed \in {<<>>, <<"zero">>, <<"zero", "one">>, <<"zero", "one", "two">>}
    BY DEF OrderingInv, PrintedSoFar
  <1>2. CASE printed = <<>>
    BY <1>2 DEF InOrder, IsPrefix
  <1>3. CASE printed = <<"zero">>
    BY <1>3 DEF InOrder, IsPrefix
  <1>4. CASE printed = <<"zero", "one">>
    BY <1>4 DEF InOrder, IsPrefix
  <1>5. CASE printed = <<"zero", "one", "two">>
    BY <1>5 DEF InOrder, IsPrefix
  <1> QED BY <1>1, <1>2, <1>3, <1>4, <1>5
-----------------------------------------------------------------------------
(* Threads that are created and joined. *)

\* The calls of every program, whichever thread makes them.
ProgramFacts ==
    \A t \in Threads :
        /\ Len(Program(t)) \in Nat
        /\ \A i \in 1..Len(Program(t)) :
             /\ Program(t)[i][1] = "create" =>
                  /\ t = "main" /\ Program(t)[i][2] \in Threads
                  /\ Program(t)[i] = create(Program(t)[i][2])
             /\ Program(t)[i][1] = "join" =>
                  /\ Program(t)[i][2] \in Threads
                  /\ Program(t)[i] = join(Program(t)[i][2])

\* What q2.c of code-10 adds, one at a time.
LEMMA Q2Calls ==
    ASSUME NEW t \in Threads, t # "main"
    PROVE  /\ Len(Q2Each(t)) = 2 * N
           /\ \A i \in 1..(2 * N) : Q2Each(t)[i] = IF i <= N THEN add(1) ELSE add(-1)
  <1> DEFINE up == Times(N, add(1))
             down == Times(N, add(-1))
             S == {add(1), add(-1)}
  <1>1. /\ up \in Seq(S) /\ Len(up) = N /\ \A i \in 1..N : up[i] = add(1)
        /\ down \in Seq(S) /\ Len(down) = N /\ \A i \in 1..N : down[i] = add(-1)
    <2> HIDE DEF S
    <2>1. add(1) \in S /\ add(-1) \in S
      BY DEF S
    <2> QED BY <2>1, JoinAssumption DEF Times
  <1>2. Q2Each(t) = up \o down
    BY DEF Q2Each
  <1> HIDE DEF up, down, S
  <1>3. /\ Len(up \o down) = N + N
        /\ \A i \in 1..(N + N) : (up \o down)[i] = IF i <= N THEN up[i] ELSE down[i - N]
    <2>1. /\ Len(up \o down) = Len(up) + Len(down)
          /\ \A i \in 1..(Len(up) + Len(down)) :
                (up \o down)[i] = IF i <= Len(up) THEN up[i] ELSE down[i - Len(up)]
      BY <1>1, ConcatProperties
    <2> QED BY <1>1, <2>1
  <1> QED BY <1>1, <1>2, <1>3, JoinAssumption

LEMMA ProgramsAreRight == source \in Sources => ProgramFacts
  <1> SUFFICES ASSUME source \in Sources, NEW t \in Threads
               PROVE  /\ Len(Program(t)) \in Nat
                      /\ \A i \in 1..Len(Program(t)) :
                           /\ Program(t)[i][1] = "create" =>
                                /\ t = "main" /\ Program(t)[i][2] \in Threads
                                /\ Program(t)[i] = create(Program(t)[i][2])
                           /\ Program(t)[i][1] = "join" =>
                                /\ Program(t)[i][2] \in Threads
                                /\ Program(t)[i] = join(Program(t)[i][2])
    BY DEF ProgramFacts
  <1> USE JoinAssumption DEF create, join, add, print
  <1>1. CASE source = "code-10/q1"
    BY <1>1 DEF Program, Q1Alternates
  <1>2. CASE source = "soln-7/q1"
    BY <1>2 DEF Program, Q1Chain
  <1>3. CASE source = "code-10/q2"
    <2>1. CASE t = "main"
      BY <1>3, <2>1 DEF Program, Q2Each, Q2Main
    <2>2. CASE t # "main"
      BY <1>3, <2>2, Q2Calls DEF Program
    <2> QED BY <2>1, <2>2
  <1>4. CASE source = "soln-7/q2"
    BY <1>4 DEF Program, Q2Loop, Q2Main
  <1> QED BY <1>1, <1>2, <1>3, <1>4 DEF Sources

\* A thread runs after main has created it, and returns when it has made all
\* its calls; a join that is done was of a thread that has exited.
Starts(t, u) == \E i \in 1..done[t] : Program(t)[i] = create(u)

JoinFacts ==
    /\ done \in [Threads -> Nat]
    /\ life \in [Threads -> {"unborn", "alive", "exited"}]
    /\ joining \in [Threads -> Threads \cup {None}]
    /\ \A t \in Threads :
         /\ done[t] <= Len(Program(t))
         /\ life[t] = "unborn" => done[t] = 0 /\ joining[t] = None
         /\ life[t] = "exited" => done[t] = Len(Program(t)) /\ joining[t] = None
         /\ \A i \in 1..done[t] : Program(t)[i][1] = "join" => life[Program(t)[i][2]] = "exited"
         /\ joining[t] # None => Pending(t) /\ Call(t) = join(joining[t])
         /\ life[t] # "unborn" /\ t # "main" => Starts("main", t)

Joins == source \in Sources /\ JoinFacts

LEMMA JoinsInit == JoinInit => Joins
  BY JoinAssumption, ProgramsAreRight
  DEF JoinInit, LifeInit, Joins, JoinFacts, ProgramFacts

\* A step leaves the program as it is and completes at most one call.
LEMMA JoinsStep == Joins /\ [JoinNext]_joinVars => Joins'
  <1> SUFFICES ASSUME Joins, [JoinNext]_joinVars PROVE Joins'
    OBVIOUS
  <1>1. source' = source /\ ProgramFacts /\ \A t : Program(t)' = Program(t)
    <2>1. source' = source
      BY DEF JoinNext, joinVars
    <2> QED BY <2>1, ProgramsAreRight DEF Program, Joins
  <1> SUFFICES JoinFacts'
    BY <1>1 DEF Joins
  <1>2. JoinFacts
    BY DEF Joins
  <1>9. \A x \in Threads : /\ Len(Program(x)) \in Nat /\ done[x] \in Nat
                           /\ done[x] <= Len(Program(x))
                           /\ Pending(x) => done[x] + 1 <= Len(Program(x))
    <2>1. \A x \in Threads : /\ Len(Program(x)) \in Nat /\ done[x] \in Nat
                             /\ done[x] <= Len(Program(x))
      BY <1>1, <1>2 DEF ProgramFacts, JoinFacts
    <2> QED BY <2>1 DEF Pending
  <1>10. \A x \in Threads : \A i \in 1..done[x] :
            Program(x)[i][1] = "join" => Program(x)[i][2] \in Threads
    <2>1. \A x \in Threads : \A i \in 1..Len(Program(x)) :
             Program(x)[i][1] = "join" => Program(x)[i][2] \in Threads
      BY <1>1 DEF ProgramFacts
    <2> QED BY <1>9, <2>1
  <1>3. CASE UNCHANGED joinVars
    BY <1>1, <1>2, <1>3 DEF joinVars, lifeVars, JoinFacts, Pending, Call, Starts
  <1>4. ASSUME NEW t \in Threads, Pending(t), Creates(t) PROVE JoinFacts'
    <2>1. PICK v \in Threads : Program(t)[done[t] + 1] = create(v) /\ t = "main"
      BY <1>1, <1>2, <1>4 DEF JoinFacts, ProgramFacts, Creates, Call, Pending
    <2>2. /\ life[t] = "alive" /\ joining[t] = None /\ life[v] = "unborn" /\ v # t
          /\ life' = [life EXCEPT ![v] = "alive"] /\ joining' = joining
          /\ done' = [done EXCEPT ![t] = @ + 1]
      BY <1>4, <2>1 DEF Creates, Start, Runs, Completes, Call, create
    <2>3. \A x \in Threads : /\ life[x] = "exited" => life'[x] = "exited"
                             /\ life'[x] = "exited" => life[x] = "exited"
                             /\ life'[x] # "unborn" => life[x] # "unborn" \/ x = v
                             /\ life'[x] = "unborn" => life[x] = "unborn" /\ x # t
      BY <1>2, <2>2 DEF JoinFacts
    <2>4. Program(t)[done[t] + 1][1] # "join"
      BY <2>1 DEF create
    <2>5. \A x \in Threads : done'[x] = IF x = t THEN done[x] + 1 ELSE done[x]
      BY <1>2, <2>2 DEF JoinFacts
    <2>6. Starts("main", v)'
      BY <1>1, <1>2, <2>1, <2>5, JoinAssumption DEF Starts, JoinFacts
    <2>7. \A x : Starts("main", x) => Starts("main", x)'
      BY <1>1, <1>2, <2>5, JoinAssumption DEF Starts, JoinFacts
    <2>8. /\ done' \in [Threads -> Nat]
          /\ life' \in [Threads -> {"unborn", "alive", "exited"}]
          /\ joining' \in [Threads -> Threads \cup {None}]
      BY <1>2, <2>2 DEF JoinFacts
    <2>9. ASSUME NEW x \in Threads
          PROVE  /\ done'[x] <= Len(Program(x))
                 /\ life'[x] = "unborn" => done'[x] = 0 /\ joining'[x] = None
                 /\ life'[x] = "exited" => done'[x] = Len(Program(x)) /\ joining'[x] = None
                 /\ \A i \in 1..done'[x] : Program(x)[i][1] = "join" =>
                       life'[Program(x)[i][2]] = "exited"
                 /\ joining'[x] # None => Pending(x)' /\ Call(x)' = join(joining'[x])
                 /\ life'[x] # "unborn" /\ x # "main" => Starts("main", x)'
      <3>1. done'[x] <= Len(Program(x))
        BY <1>4, <1>9, <2>5
      <3>2. life'[x] = "unborn" => done'[x] = 0 /\ joining'[x] = None
        BY <1>2, <2>2, <2>3, <2>5 DEF JoinFacts
      <3>3. life'[x] = "exited" => done'[x] = Len(Program(x)) /\ joining'[x] = None
        BY <1>2, <2>2, <2>3, <2>5 DEF JoinFacts
      <3>4. ASSUME NEW i \in 1..done'[x], Program(x)[i][1] = "join"
            PROVE  life'[Program(x)[i][2]] = "exited"
        <4>1. i \in 1..done[x]
          BY <1>2, <2>4, <2>5, <3>4 DEF JoinFacts
        <4>2. Program(x)[i][2] \in Threads
          BY <1>10, <3>4, <4>1
        <4> QED BY <1>2, <2>3, <3>4, <4>1, <4>2 DEF JoinFacts
      <3>5. joining'[x] # None => Pending(x)' /\ Call(x)' = join(joining'[x])
        BY <1>1, <1>2, <2>2, <2>5 DEF JoinFacts, Pending, Call
      <3>6. life'[x] # "unborn" /\ x # "main" => Starts("main", x)'
        BY <1>2, <2>3, <2>6, <2>7 DEF JoinFacts
      <3> QED BY <3>1, <3>2, <3>3, <3>4, <3>5, <3>6
    <2> QED BY <1>1, <2>8, <2>9 DEF JoinFacts
  <1>5. ASSUME NEW t \in Threads, Pending(t), BeginsJoin(t) PROVE JoinFacts'
    <2>1. PICK v \in Threads : Program(t)[done[t] + 1] = join(v)
      BY <1>1, <1>2, <1>5 DEF JoinFacts, ProgramFacts, BeginsJoin, Call, Pending
    <2>2. /\ life[t] = "alive" /\ life' = life /\ done' = done
          /\ joining' = [joining EXCEPT ![t] = v]
      BY <1>5, <2>1 DEF BeginsJoin, Join, Runs, Call, join
    <2>3. joining' \in [Threads -> Threads \cup {None}]
      BY <1>2, <2>2 DEF JoinFacts
    <2>4. ASSUME NEW x \in Threads
          PROVE  /\ life'[x] = "unborn" => joining'[x] = None
                 /\ life'[x] = "exited" => joining'[x] = None
                 /\ joining'[x] # None => Pending(x)' /\ Call(x)' = join(joining'[x])
      BY <1>1, <1>2, <1>5, <2>1, <2>2 DEF JoinFacts, Pending, Call
    <2>5. \A x : Starts("main", x)' <=> Starts("main", x)
      BY <1>1, <2>2 DEF Starts
    <2> QED BY <1>1, <1>2, <2>2, <2>3, <2>4, <2>5 DEF JoinFacts
  <1>6. ASSUME NEW t \in Threads, Pending(t), EndsJoin(t) PROVE JoinFacts'
    <2>1. PICK v \in Threads : /\ v = joining[t] /\ v # None /\ life[v] = "exited"
                               /\ Program(t)[done[t] + 1] = join(v)
      BY <1>2, <1>6 DEF JoinFacts, EndsJoin, JoinEnds, Call
    <2>2. /\ life' = life /\ done' = [done EXCEPT ![t] = @ + 1]
          /\ joining' = [joining EXCEPT ![t] = None]
      BY <1>6 DEF EndsJoin, JoinEnds, Completes
    <2>3. \A x \in Threads : done'[x] = IF x = t THEN done[x] + 1 ELSE done[x]
      BY <1>2, <2>2 DEF JoinFacts
    <2>4. life[t] = "alive"
      BY <1>2, <2>1 DEF JoinFacts
    <2>5. \A x : Starts("main", x) => Starts("main", x)'
      BY <1>1, <1>2, <2>3, JoinAssumption DEF Starts, JoinFacts
    <2>6. /\ done' \in [Threads -> Nat]
          /\ joining' \in [Threads -> Threads \cup {None}]
      BY <1>2, <2>2 DEF JoinFacts
    <2>7. ASSUME NEW x \in Threads
          PROVE  /\ done'[x] <= Len(Program(x))
                 /\ life'[x] = "unborn" => done'[x] = 0 /\ joining'[x] = None
                 /\ life'[x] = "exited" => done'[x] = Len(Program(x)) /\ joining'[x] = None
                 /\ \A i \in 1..done'[x] : Program(x)[i][1] = "join" =>
                       life'[Program(x)[i][2]] = "exited"
                 /\ joining'[x] # None => Pending(x)' /\ Call(x)' = join(joining'[x])
                 /\ life'[x] # "unborn" /\ x # "main" => Starts("main", x)'
      <3>1. done'[x] <= Len(Program(x))
        BY <1>6, <1>9, <2>3
      <3>2. life'[x] = "unborn" => done'[x] = 0 /\ joining'[x] = None
        BY <1>2, <2>2, <2>3, <2>4 DEF JoinFacts
      <3>3. life'[x] = "exited" => done'[x] = Len(Program(x)) /\ joining'[x] = None
        BY <1>2, <2>2, <2>3, <2>4 DEF JoinFacts
      <3>4. ASSUME NEW i \in 1..done'[x], Program(x)[i][1] = "join"
            PROVE  life'[Program(x)[i][2]] = "exited"
        <4>1. CASE i \in 1..done[x]
          BY <1>2, <2>2, <3>4, <4>1 DEF JoinFacts
        <4>2. CASE x = t /\ i = done[t] + 1
          BY <2>1, <2>2, <4>2 DEF join
        <4> QED BY <1>2, <2>3, <3>4, <4>1, <4>2 DEF JoinFacts
      <3>5. joining'[x] # None => Pending(x)' /\ Call(x)' = join(joining'[x])
        BY <1>1, <1>2, <2>2, <2>3 DEF JoinFacts, Pending, Call
      <3>6. life'[x] # "unborn" /\ x # "main" => Starts("main", x)'
        BY <1>2, <2>2, <2>5 DEF JoinFacts
      <3> QED BY <3>1, <3>2, <3>3, <3>4, <3>5, <3>6
    <2> QED BY <1>1, <1>2, <2>2, <2>6, <2>7 DEF JoinFacts
  <1>7. ASSUME NEW t \in Threads, Pending(t), Adds(t) \/ PrintsWord(t) PROVE JoinFacts'
    <2>1. /\ life' = life /\ joining' = joining /\ done' = [done EXCEPT ![t] = @ + 1]
          /\ life[t] = "alive" /\ joining[t] = None
          /\ Program(t)[done[t] + 1][1] # "join"
      BY <1>7 DEF Adds, PrintsWord, Completes, Runs, lifeVars, Call
    <2>2. \A x \in Threads : done'[x] = IF x = t THEN done[x] + 1 ELSE done[x]
      BY <1>2, <2>1 DEF JoinFacts
    <2>3. \A x : Starts("main", x) => Starts("main", x)'
      BY <1>1, <1>2, <2>2, JoinAssumption DEF Starts, JoinFacts
    <2>4. done' \in [Threads -> Nat]
      BY <1>2, <2>1 DEF JoinFacts
    <2>5. ASSUME NEW x \in Threads
          PROVE  /\ done'[x] <= Len(Program(x))
                 /\ life'[x] = "unborn" => done'[x] = 0 /\ joining'[x] = None
                 /\ life'[x] = "exited" => done'[x] = Len(Program(x)) /\ joining'[x] = None
                 /\ \A i \in 1..done'[x] : Program(x)[i][1] = "join" =>
                       life'[Program(x)[i][2]] = "exited"
                 /\ joining'[x] # None => Pending(x)' /\ Call(x)' = join(joining'[x])
                 /\ life'[x] # "unborn" /\ x # "main" => Starts("main", x)'
      <3>1. done'[x] <= Len(Program(x))
        BY <1>7, <1>9, <2>2
      <3>2. life'[x] = "unborn" => done'[x] = 0 /\ joining'[x] = None
        BY <1>2, <2>1, <2>2 DEF JoinFacts
      <3>3. life'[x] = "exited" => done'[x] = Len(Program(x)) /\ joining'[x] = None
        BY <1>2, <2>1, <2>2 DEF JoinFacts
      <3>4. ASSUME NEW i \in 1..done'[x], Program(x)[i][1] = "join"
            PROVE  life'[Program(x)[i][2]] = "exited"
        <4>1. i \in 1..done[x]
          BY <1>2, <2>1, <2>2, <3>4 DEF JoinFacts
        <4> QED BY <1>2, <2>1, <3>4, <4>1 DEF JoinFacts
      <3>5. joining'[x] # None => Pending(x)' /\ Call(x)' = join(joining'[x])
        BY <1>1, <1>2, <2>1, <2>2 DEF JoinFacts, Pending, Call
      <3>6. life'[x] # "unborn" /\ x # "main" => Starts("main", x)'
        BY <1>2, <2>1, <2>3 DEF JoinFacts
      <3> QED BY <3>1, <3>2, <3>3, <3>4, <3>5, <3>6
    <2> QED BY <1>1, <1>2, <2>1, <2>4, <2>5 DEF JoinFacts
  <1>8. ASSUME NEW t \in Threads, Returns(t) PROVE JoinFacts'
    <2>1. /\ life' = [life EXCEPT ![t] = "exited"] /\ joining' = joining /\ done' = done
          /\ life[t] = "alive" /\ joining[t] = None
      BY <1>8 DEF Returns, End, Runs
    <2>2. done[t] = Len(Program(t))
      BY <1>1, <1>2, <1>8 DEF Returns, Pending, JoinFacts, ProgramFacts
    <2>3. \A x : Starts("main", x)' <=> Starts("main", x)
      BY <1>1, <2>1 DEF Starts
    <2>4. life' \in [Threads -> {"unborn", "alive", "exited"}]
      BY <1>2, <2>1 DEF JoinFacts
    <2>5. ASSUME NEW x \in Threads
          PROVE  /\ life'[x] = "unborn" => life[x] = "unborn"
                 /\ life[x] = "exited" => life'[x] = "exited"
                 /\ life'[x] = "exited" => life[x] = "exited" \/ x = t
                 /\ life'[x] # "unborn" => life[x] # "unborn"
      BY <1>2, <2>1 DEF JoinFacts
    <2>6. ASSUME NEW x \in Threads, NEW i \in 1..done[x], Program(x)[i][1] = "join"
          PROVE  life'[Program(x)[i][2]] = "exited"
      <3>1. Program(x)[i][2] \in Threads
        BY <1>10, <2>6
      <3> QED BY <1>2, <2>5, <2>6, <3>1 DEF JoinFacts
    <2>7. ASSUME NEW x \in Threads
          PROVE  joining'[x] # None => Pending(x)' /\ Call(x)' = join(joining'[x])
      BY <1>1, <1>2, <2>1 DEF JoinFacts, Pending, Call
    <2>8. ASSUME NEW x \in Threads
          PROVE  /\ done'[x] <= Len(Program(x))
                 /\ life'[x] = "unborn" => done'[x] = 0 /\ joining'[x] = None
                 /\ life'[x] = "exited" => done'[x] = Len(Program(x)) /\ joining'[x] = None
                 /\ life'[x] # "unborn" /\ x # "main" => Starts("main", x)'
      BY <1>2, <1>9, <2>1, <2>2, <2>3, <2>5 DEF JoinFacts
    <2> QED BY <1>1, <1>2, <2>1, <2>4, <2>6, <2>7, <2>8 DEF JoinFacts
  <1> QED BY <1>3, <1>4, <1>5, <1>6, <1>7, <1>8 DEF JoinNext

Q1 == {"code-10/q1", "soln-7/q1"}

\* The last call of a program of q1.c is its only print, and so it is for main
\* in q2.c, whose other threads only add.
LEMMA PrintFacts ==
    ASSUME source \in Sources, NEW t \in Threads
    PROVE  /\ source \in Q1 \/ t = "main" =>
                /\ Len(Program(t)) >= 1
                /\ \A i \in 1..Len(Program(t)) :
                     /\ Program(t)[i][1] = "print" <=> i = Len(Program(t))
                     /\ Program(t)[i][1] # "add"
           /\ source \notin Q1 /\ t # "main" =>
                \A i \in 1..Len(Program(t)) : Program(t)[i][1] = "add"
  <1> USE JoinAssumption DEF create, join, add, print
  <1>1. CASE source = "code-10/q1"
    BY <1>1 DEF Program, Q1Alternates, Q1
  <1>2. CASE source = "soln-7/q1"
    BY <1>2 DEF Program, Q1Chain, Q1
  <1>3. CASE source = "code-10/q2"
    <2>1. CASE t = "main"
      BY <1>3, <2>1 DEF Program, Q2Each, Q2Main, Q1
    <2>2. CASE t # "main"
      BY <1>3, <2>2, Q2Calls DEF Program, Q1
    <2> QED BY <2>1, <2>2
  <1>4. CASE source = "soln-7/q2"
    BY <1>4 DEF Program, Q2Loop, Q2Main, Q1
  <1> QED BY <1>1, <1>2, <1>3, <1>4 DEF Sources

Printed(t) == done[t] = Len(Program(t))
Reached(t) == life[t] # "unborn" /\ Len(Program(t)) <= done[t] + 1

LEMMA CallsLeft ==
    ASSUME NEW t, NEW n, Len(Program(t)) = n
    PROVE  /\ Reached(t) => n <= done[t] + 1
           /\ Printed(t) => done[t] = n
  BY DEF Reached, Printed

\* A thread gets to its last call when those it has to wait for have printed,
\* and main when all have exited.
LEMMA JoinOrder ==
    ASSUME Joins
    PROVE  /\ source \in Q1 /\ Reached("p1") => Printed("p0")
           /\ source \in Q1 /\ Reached("p2") => Printed("p1")
           /\ Reached("main") => \A t \in Threads \ {"main"} : life[t] = "exited" /\ Printed(t)
  <1>1. /\ \A t \in Threads : /\ done[t] \in Nat
                              /\ life[t] = "exited" => Printed(t)
                              /\ life[t] # "unborn" /\ t # "main" => Starts("main", t)
        /\ \A t \in Threads : \A i \in 1..done[t] :
             Program(t)[i][1] = "join" => life[Program(t)[i][2]] = "exited"
        /\ source \in Sources
        /\ "p0" \in Threads /\ "p1" \in Threads /\ "p2" \in Threads /\ "main" \in Threads
    BY JoinAssumption DEF Joins, JoinFacts, Printed
  <1>2. ASSUME NEW t \in Threads, NEW i \in 1..done[t], NEW u \in Threads,
               Program(t)[i] = join(u)
        PROVE  life[u] = "exited" /\ Printed(u)
    BY <1>1, <1>2 DEF join
  <1>6. /\ done["main"] \in Nat /\ done["p1"] \in Nat /\ done["p2"] \in Nat
        /\ done["main"] <= Len(Program("main"))
    <2>1. \A t \in Threads : done[t] \in Nat /\ done[t] <= Len(Program(t))
      BY DEF Joins, JoinFacts
    <2> QED BY <1>1, <2>1
  <1>3. CASE source = "code-10/q1"
    <2>1. /\ Len(Program("main")) = 7 /\ Program("main")[2] = join("p0")
          /\ Program("main")[4] = join("p1") /\ Program("main")[6] = join("p2")
      BY <1>3 DEF Program, Q1Alternates
    <2>2. /\ \A i \in 1..7 : Program("main")[i] = create("p1") => i = 3
          /\ \A i \in 1..7 : Program("main")[i] = create("p2") => i = 5
      BY <1>3 DEF Program, Q1Alternates, create, join, print
    <2>3. done["main"] <= 7
      BY <1>6, <2>1
    <2>4. life["p1"] # "unborn" => done["main"] >= 3
      BY <1>1, <2>2, <2>3 DEF Starts
    <2>5. life["p2"] # "unborn" => done["main"] >= 5
      BY <1>1, <2>2, <2>3 DEF Starts
    <2>6. done["main"] >= 2 => life["p0"] = "exited" /\ Printed("p0")
      BY <1>1, <1>2, <2>1
    <2>7. done["main"] >= 4 => life["p1"] = "exited" /\ Printed("p1")
      BY <1>1, <1>2, <2>1
    <2>8. done["main"] >= 6 => life["p2"] = "exited" /\ Printed("p2")
      BY <1>1, <1>2, <2>1
    <2>9. Reached("main") => done["main"] >= 6
      <3>1. Len(Program("main")) = 7
        BY <2>1
      <3>2. Reached("main") => 7 <= done["main"] + 1
        BY <3>1, CallsLeft
      <3> QED BY <1>6, <3>2
    <2>10. \A t \in Threads \ {"main"} : t \in {"p0", "p1", "p2"}
      BY JoinAssumption
    <2> QED BY <1>1, <2>4, <2>5, <2>6, <2>7, <2>8, <2>9, <2>10 DEF Reached
  <1>4. CASE source = "soln-7/q1"
    <2>1. /\ Len(Program("main")) = 5 /\ Program("main")[4] = join("p2")
          /\ Len(Program("p1")) = 2 /\ Program("p1")[1] = join("p0")
          /\ Len(Program("p2")) = 2 /\ Program("p2")[1] = join("p1")
      BY <1>4 DEF Program, Q1Chain
    <2>2. done["p1"] >= 1 => life["p0"] = "exited" /\ Printed("p0")
      BY <1>1, <1>2, <2>1
    <2>3. done["p2"] >= 1 => life["p1"] = "exited" /\ Printed("p1")
      BY <1>1, <1>2, <2>1
    <2>4. done["main"] >= 4 => life["p2"] = "exited" /\ Printed("p2")
      BY <1>1, <1>2, <2>1
    <2>5. /\ Reached("main") => done["main"] >= 4
          /\ Reached("p1") => done["p1"] >= 1
          /\ Reached("p2") => done["p2"] >= 1
          /\ Printed("p1") => done["p1"] >= 1
          /\ Printed("p2") => done["p2"] >= 1
      <3>1. /\ Len(Program("main")) = 5
            /\ Len(Program("p1")) = 2 /\ Len(Program("p2")) = 2
        BY <2>1
      <3>2. Reached("main") => 5 <= done["main"] + 1
        BY <3>1, CallsLeft
      <3>3. (Reached("p1") => 2 <= done["p1"] + 1) /\ (Printed("p1") => done["p1"] = 2)
        BY <3>1, CallsLeft
      <3>4. (Reached("p2") => 2 <= done["p2"] + 1) /\ (Printed("p2") => done["p2"] = 2)
        BY <3>1, CallsLeft
      <3> QED BY <1>6, <3>2, <3>3, <3>4
    <2>6. \A t \in Threads \ {"main"} : t \in {"p0", "p1", "p2"}
      BY JoinAssumption
    <2> QED BY <2>2, <2>3, <2>4, <2>5, <2>6
  <1>5. CASE source \notin Q1
    <2>1. /\ Len(Program("main")) = 7 /\ Program("main")[4] = join("p0")
          /\ Program("main")[5] = join("p1") /\ Program("main")[6] = join("p2")
      BY <1>1, <1>5 DEF Program, Q2Each, Q2Loop, Q2Main, Q1, Sources
    <2>2. done["main"] >= 6 => /\ life["p0"] = "exited" /\ Printed("p0")
                               /\ life["p1"] = "exited" /\ Printed("p1")
                               /\ life["p2"] = "exited" /\ Printed("p2")
      BY <1>1, <1>2, <2>1
    <2>3. Reached("main") => done["main"] >= 6
      <3>1. Len(Program("main")) = 7
        BY <2>1
      <3>2. Reached("main") => 7 <= done["main"] + 1
        BY <3>1, CallsLeft
      <3> QED BY <1>6, <3>2
    <2>4. \A t \in Threads \ {"main"} : t \in {"p0", "p1", "p2"}
      BY JoinAssumption
    <2> QED BY <1>5, <2>2, <2>3, <2>4
  <1> QED BY <1>3, <1>4, <1>5 DEF Q1

\* What is printed and counted when the threads are as far as they are.
WordsSaid ==
    CASE Printed("main") -> IF source \in Q1 THEN Workers \o <<"main">> ELSE <<"main">>
      [] ~Printed("main") /\ source \notin Q1 -> <<>>
      [] ~Printed("main") /\ source \in Q1 /\ Printed("p2") -> Workers
      [] ~Printed("main") /\ source \in Q1 /\ ~Printed("p2") /\ Printed("p1") -> <<"p0", "p1">>
      [] ~Printed("main") /\ source \in Q1 /\ ~Printed("p2") /\ ~Printed("p1") /\ Printed("p0") ->
           <<"p0">>
      [] OTHER -> <<>>

Added(t) == IF source \in Q1 THEN 0
            ELSE IF source = "soln-7/q2" THEN IF done[t] = 1 THEN N ELSE 0
            ELSE IF done[t] <= N THEN done[t] ELSE 2 * N - done[t]

JoinProgInv ==
    /\ Joins
    /\ said = WordsSaid
    /\ cnt = Added("p0") + Added("p1") + Added("p2")

LEMMA JoinProgInit == JoinInit => JoinProgInv
  <1> SUFFICES ASSUME JoinInit PROVE JoinProgInv
    OBVIOUS
  <1>1. Joins
    BY JoinsInit
  <1>2. /\ source \in Sources /\ said = <<>> /\ cnt = 0
        /\ \A t \in Threads : done[t] = 0
        /\ "p0" \in Threads /\ "p1" \in Threads /\ "p2" \in Threads /\ "main" \in Threads
    BY JoinAssumption DEF JoinInit
  <1>3. said = WordsSaid
    <2>1. ASSUME NEW t \in Threads, source \in Q1 \/ t = "main" PROVE ~Printed(t)
      <3>1. Len(Program(t)) >= 1
        BY <1>2, <2>1, PrintFacts
      <3> QED BY <1>2, <3>1 DEF Printed
    <2> QED BY <1>2, <2>1 DEF WordsSaid
  <1>4. Added("p0") = 0 /\ Added("p1") = 0 /\ Added("p2") = 0
    BY <1>2, JoinAssumption DEF Added
  <1> QED BY <1>1, <1>2, <1>3, <1>4 DEF JoinProgInv

\* A call that is no print changes none of the words, and no addition none of
\* the sums.
LEMMA JoinProgStep == JoinProgInv /\ [JoinNext]_joinVars => JoinProgInv'
  <1> SUFFICES ASSUME JoinProgInv, [JoinNext]_joinVars PROVE JoinProgInv'
    OBVIOUS
  <1>1. /\ Joins /\ Joins' /\ source' = source /\ source \in Sources
        /\ \A t : Program(t)' = Program(t)
        /\ said = WordsSaid /\ cnt = Added("p0") + Added("p1") + Added("p2")
        /\ "p0" \in Threads /\ "p1" \in Threads /\ "p2" \in Threads /\ "main" \in Threads
    <2>1. source' = source
      BY DEF JoinNext, joinVars
    <2>2. Joins'
      BY JoinsStep DEF JoinProgInv
    <2> QED BY <2>1, <2>2, JoinAssumption DEF Program, Joins, JoinProgInv
  <1>2. done \in [Threads -> Nat] /\ \A t \in Threads : Len(Program(t)) \in Nat
    BY <1>1, ProgramsAreRight DEF Joins, JoinFacts, ProgramFacts
  <1>3. \A t \in Threads : done'[t] = done[t] =>
          /\ Printed(t)' <=> Printed(t)
          /\ Added(t)' = Added(t)
    BY <1>1 DEF Printed, Added
  <1>4. ASSUME done' = done, said' = said, cnt' = cnt PROVE JoinProgInv'
    <2>1. WordsSaid' = WordsSaid
      BY <1>1, <1>3, <1>4 DEF WordsSaid
    <2>2. \A t \in Threads : Added(t)' = Added(t)
      BY <1>3, <1>4
    <2> QED BY <1>1, <1>4, <2>1, <2>2 DEF JoinProgInv
  <1>5. CASE UNCHANGED joinVars
    BY <1>4, <1>5 DEF joinVars
  <1>6. ASSUME NEW t \in Threads, BeginsJoin(t) \/ Returns(t) PROVE JoinProgInv'
    BY <1>4, <1>6 DEF BeginsJoin, Returns
  <1>7. ASSUME NEW t \in Threads, Pending(t), Completes(t)
        PROVE  /\ done' = [done EXCEPT ![t] = @ + 1]
               /\ done[t] + 1 \in 1..Len(Program(t)) /\ done[t] \in Nat
               /\ ~Printed(t)
               /\ Printed(t)' <=> done[t] + 1 = Len(Program(t))
               /\ \A u \in Threads : u # t => /\ Printed(u)' <=> Printed(u)
                                              /\ Added(u)' = Added(u)
    <2>1. done' = [done EXCEPT ![t] = @ + 1] /\ done[t] < Len(Program(t))
      BY <1>7 DEF Completes, Pending
    <2>2. done[t] \in Nat /\ Len(Program(t)) \in Nat
      BY <1>2
    <2>3. \A u \in Threads : done'[u] = IF u = t THEN done[u] + 1 ELSE done[u]
      BY <1>2, <2>1
    <2>4. Printed(t)' <=> done[t] + 1 = Len(Program(t))
      BY <1>1, <2>3 DEF Printed
    <2>5. ~Printed(t)
      BY <2>1, <2>2 DEF Printed
    <2> QED BY <1>3, <2>1, <2>2, <2>3, <2>4, <2>5
  <1>8. ASSUME NEW t \in Threads, Pending(t), Creates(t) \/ EndsJoin(t) PROVE JoinProgInv'
    <2>1. /\ Call(t)[1] \in {"create", "join"}
          /\ Completes(t) /\ said' = said /\ cnt' = cnt
      <3>1. CASE Creates(t)
        BY <3>1 DEF Creates
      <3>2. CASE EndsJoin(t)
        <4>1. Call(t) = join(joining[t])
          BY <1>1, <3>2 DEF EndsJoin, JoinEnds, Joins, JoinFacts
        <4> QED BY <3>2, <4>1 DEF EndsJoin, join
      <3> QED BY <1>8, <3>1, <3>2
    <2>2. /\ done[t] + 1 \in 1..Len(Program(t))
          /\ Program(t)[done[t] + 1][1] \in {"create", "join"}
      BY <1>7, <1>8, <2>1 DEF Call
    <2>3. source \notin Q1 => t = "main"
      BY <1>1, <2>2, PrintFacts
    <2>4. done[t] + 1 # Len(Program(t))
      BY <1>1, <2>2, <2>3, PrintFacts
    <2>5. \A u \in Threads : Printed(u)' <=> Printed(u)
      BY <1>7, <1>8, <2>1, <2>4
    <2>6. WordsSaid' = WordsSaid
      BY <1>1, <2>5 DEF WordsSaid
    <2>7. \A u \in Threads : u # "main" => Added(u)' = Added(u)
      <3>1. CASE source \in Q1
        BY <1>1, <3>1 DEF Added
      <3>2. CASE source \notin Q1
        BY <1>7, <1>8, <2>1, <2>3, <3>2
      <3> QED BY <3>1, <3>2
    <2>8. Added("p0")' = Added("p0") /\ Added("p1")' = Added("p1") /\ Added("p2")' = Added("p2")
      BY <1>1, <2>7
    <2> QED BY <1>1, <2>1, <2>6, <2>8 DEF JoinProgInv
  <1>9. \A u \in Threads : Added(u) \in Int
    BY <1>2, JoinAssumption DEF Added
  <1>10. ASSUME NEW t \in Threads, Pending(t), Adds(t) PROVE JoinProgInv'
    <2>1. /\ Program(t)[done[t] + 1][1] = "add"
          /\ cnt' = cnt + Program(t)[done[t] + 1][2]
          /\ Completes(t) /\ said' = said
      BY <1>10 DEF Adds, Call
    <2>2. done[t] + 1 \in 1..Len(Program(t)) /\ done[t] \in Nat /\ done'[t] = done[t] + 1
      BY <1>2, <1>7, <1>10, <2>1
    <2>3. source \notin Q1 /\ t # "main"
      BY <1>1, <2>1, <2>2, PrintFacts
    <2>4. Added(t)' = Added(t) + Program(t)[done[t] + 1][2] /\ Program(t)[done[t] + 1][2] \in Int
      <3>1. CASE source = "soln-7/q2"
        <4>1. Program(t) = <<add(N), add(-N)>>
          BY <2>3, <3>1 DEF Program, Q2Loop
        <4>2. /\ Len(Program(t)) = 2
              /\ Program(t)[1][2] = N /\ Program(t)[2][2] = -N
          BY <4>1 DEF add
        <4>3. Added(t) = (IF done[t] = 1 THEN N ELSE 0) /\ Added(t)' = IF done'[t] = 1 THEN N ELSE 0
          BY <1>1, <2>3, <3>1 DEF Added
        <4> QED BY <2>2, <4>2, <4>3, JoinAssumption
      <3>2. CASE source = "code-10/q2"
        <4>1. /\ Len(Program(t)) = 2 * N
              /\ \A i \in 1..(2 * N) : Program(t)[i][2] = IF i <= N THEN 1 ELSE -1
          BY <2>3, <3>2, Q2Calls DEF Program, add
        <4>2. /\ Added(t) = IF done[t] <= N THEN done[t] ELSE 2 * N - done[t]
              /\ Added(t)' = IF done'[t] <= N THEN done'[t] ELSE 2 * N - done'[t]
          BY <1>1, <2>3, <3>2 DEF Added, Q1
        <4> QED BY <2>2, <4>1, <4>2, JoinAssumption
      <3> QED BY <1>1, <2>3, <3>1, <3>2 DEF Q1, Sources
    <2>5. \A u \in Threads : u # t => Added(u)' = Added(u)
      BY <1>7, <1>10, <2>1
    <2>6. cnt' = Added("p0")' + Added("p1")' + Added("p2")'
      <3>1. t \in {"p0", "p1", "p2"}
        BY <2>3, JoinAssumption
      <3>2. Added("p0") \in Int /\ Added("p1") \in Int /\ Added("p2") \in Int
        BY <1>1, <1>9
      <3>3. CASE t = "p0"
        BY <1>1, <2>1, <2>4, <2>5, <3>2, <3>3
      <3>4. CASE t = "p1"
        BY <1>1, <2>1, <2>4, <2>5, <3>2, <3>4
      <3>5. CASE t = "p2"
        BY <1>1, <2>1, <2>4, <2>5, <3>2, <3>5
      <3> QED BY <3>1, <3>3, <3>4, <3>5
    <2>7. WordsSaid' = WordsSaid
      <3>1. Printed("main")' <=> Printed("main")
        BY <1>1, <1>7, <1>10, <2>1, <2>3
      <3> QED BY <1>1, <2>3, <3>1 DEF WordsSaid
    <2> QED BY <1>1, <2>1, <2>6, <2>7 DEF JoinProgInv
  <1>11. ASSUME NEW t \in Threads, Pending(t), PrintsWord(t) PROVE JoinProgInv'
    <2>1. /\ Program(t)[done[t] + 1][1] = "print" /\ life[t] = "alive"
          /\ Completes(t) /\ said' = Append(said, t) /\ cnt' = cnt
      BY <1>11 DEF PrintsWord, Call, Runs
    <2>2. /\ done[t] + 1 \in 1..Len(Program(t)) /\ done[t] \in Nat /\ ~Printed(t)
          /\ Printed(t)' <=> done[t] + 1 = Len(Program(t))
          /\ \A u \in Threads : u # t => /\ Printed(u)' <=> Printed(u)
                                         /\ Added(u)' = Added(u)
      BY <1>7, <1>11, <2>1
    <2>3. source \in Q1 \/ t = "main"
      BY <1>1, <2>1, <2>2, PrintFacts
    <2>4. done[t] + 1 = Len(Program(t))
      BY <1>1, <2>1, <2>2, <2>3, PrintFacts
    <2>5. Reached(t) /\ Printed(t)'
      BY <2>1, <2>2, <2>4 DEF Reached
    <2>6. cnt' = Added("p0")' + Added("p1")' + Added("p2")'
      <3>1. CASE source \in Q1
        BY <1>1, <2>1, <3>1 DEF Added
      <3>2. CASE source \notin Q1
        BY <1>1, <2>1, <2>2, <2>3, <3>2
      <3> QED BY <3>1, <3>2
    <2>7. ASSUME NEW u \in Threads, source \in Q1, Printed(u) PROVE Reached(u)
      <3>1. Len(Program(u)) >= 1
        BY <1>1, <2>7, PrintFacts
      <3>2. done[u] \in Nat /\ done[u] = Len(Program(u)) /\ (life[u] = "unborn" => done[u] = 0)
        BY <1>1, <1>2, <2>7 DEF Printed, Joins, JoinFacts
      <3> QED BY <3>1, <3>2 DEF Reached
    <2>8. said' = WordsSaid'
      <3> USE AppendWord
      <3>1. CASE source \notin Q1
        <4>1. t = "main" /\ said = <<>> /\ WordsSaid' = <<"main">>
          BY <1>1, <2>2, <2>3, <2>5, <3>1 DEF WordsSaid
        <4> QED BY <2>1, <4>1
      <3>2. CASE source \in Q1 /\ t = "main"
        <4>1. Printed("p2")
          BY <1>1, <2>5, <3>2, JoinOrder, JoinAssumption
        <4>2. said = Workers /\ WordsSaid' = Workers \o <<"main">>
          BY <1>1, <2>2, <2>5, <3>2, <4>1 DEF WordsSaid
        <4> QED BY <2>1, <3>2, <4>2 DEF Workers
      <3>3. CASE source \in Q1 /\ t = "p2"
        <4>1. Printed("p1") /\ ~Printed("p2") /\ ~Printed("main")
          BY <1>1, <2>2, <2>5, <2>7, <3>3, JoinOrder, JoinAssumption
        <4>2. Printed("p2")' /\ ~Printed("main")'
          BY <1>1, <2>2, <2>5, <3>3, <4>1
        <4>3. said = <<"p0", "p1">> /\ WordsSaid' = Workers
          BY <1>1, <3>3, <4>1, <4>2 DEF WordsSaid
        <4> QED BY <2>1, <3>3, <4>3 DEF Workers
      <3>4. CASE source \in Q1 /\ t = "p1"
        <4>1. Printed("p0") /\ ~Printed("p1") /\ ~Printed("p2") /\ ~Printed("main")
          BY <1>1, <2>2, <2>5, <2>7, <3>4, JoinOrder, JoinAssumption
        <4>2. Printed("p1")' /\ ~Printed("p2")' /\ ~Printed("main")'
          BY <1>1, <2>2, <2>5, <3>4, <4>1
        <4>3. said = <<"p0">> /\ WordsSaid' = <<"p0", "p1">>
          BY <1>1, <3>4, <4>1, <4>2 DEF WordsSaid
        <4> QED BY <2>1, <3>4, <4>3
      <3>5. CASE source \in Q1 /\ t = "p0"
        <4>1. ~Printed("p0") /\ ~Printed("p1") /\ ~Printed("p2") /\ ~Printed("main")
          BY <1>1, <2>2, <2>7, <3>5, JoinOrder, JoinAssumption
        <4>2. Printed("p0")' /\ ~Printed("p1")' /\ ~Printed("p2")' /\ ~Printed("main")'
          BY <1>1, <2>2, <2>5, <3>5, <4>1
        <4>3. said = <<>> /\ WordsSaid' = <<"p0">>
          BY <1>1, <3>5, <4>1, <4>2 DEF WordsSaid
        <4> QED BY <2>1, <3>5, <4>3
      <3>6. t \in {"main", "p0", "p1", "p2"}
        BY JoinAssumption
      <3> QED BY <3>1, <3>2, <3>3, <3>4, <3>5, <3>6
    <2> QED BY <1>1, <2>6, <2>8 DEF JoinProgInv
  <1> QED BY <1>5, <1>6, <1>8, <1>10, <1>11 DEF JoinNext

LEMMA PrefixByElements ==
    ASSUME NEW S, NEW p \in Seq(S), NEW q \in Seq(S), Len(p) <= Len(q),
           \A i \in 1..Len(p) : p[i] = q[i]
    PROVE  IsPrefix(p, q)
  <1> DEFINE v == SubSeq(p, 1, Len(p))
             w == SubSeq(q, 1, Len(p))
  <1>1. Len(p) \in Nat /\ Len(q) \in Nat
    OBVIOUS
  <1>2. v \in Seq(S) /\ Len(v) = Len(p) /\ \A i \in 1..Len(p) : v[i] = p[i]
    BY <1>1, SubSeqProperties
  <1>3. w \in Seq(S) /\ Len(w) = Len(p) /\ \A i \in 1..Len(p) : w[i] = q[i]
    BY <1>1, SubSeqProperties
  <1> HIDE DEF v, w
  <1>4. v = w
    BY <1>2, <1>3, SeqEqual
  <1> QED BY <1>4 DEF v, w, IsPrefix

LEMMA JoinProgHolds == JoinProgInv => MainPrintsLast
  <1> SUFFICES ASSUME JoinProgInv PROVE MainPrintsLast
    OBVIOUS
  <1>1. /\ Joins /\ source \in Sources /\ "main" \in Threads
        /\ said = WordsSaid /\ cnt = Added("p0") + Added("p1") + Added("p2")
    BY JoinAssumption DEF JoinProgInv, Joins
  <1>2. ASSUME source \in Q1 PROVE IsPrefix(said, Workers \o <<"main">>)
    <2> DEFINE all == Workers \o <<"main">>
               S == {"p0", "p1", "p2", "main"}
    <2>1. /\ Workers \in Seq(S) /\ Len(Workers) = 3
          /\ Workers[1] = "p0" /\ Workers[2] = "p1" /\ Workers[3] = "p2"
      BY DEF Workers
    <2>2. all \in Seq(S) /\ Len(all) = 4 /\ \A i \in 1..3 : all[i] = Workers[i]
      <3>1. <<"main">> \in Seq(S) /\ Len(<<"main">>) = 1
        OBVIOUS
      <3>2. /\ all \in Seq(S) /\ Len(all) = Len(Workers) + Len(<<"main">>)
            /\ \A i \in 1..Len(Workers) : all[i] = Workers[i]
        <4> DEFINE last == <<"main">>
        <4>1. last \in Seq(S) /\ Workers \in Seq(S) /\ Len(Workers) \in Nat /\ Len(last) \in Nat
          BY <2>1, <3>1
        <4> HIDE DEF S, last
        <4>2. /\ Workers \o last \in Seq(S) /\ Len(Workers \o last) = Len(Workers) + Len(last)
              /\ \A i \in 1..Len(Workers) + Len(last) :
                   (Workers \o last)[i] = IF i <= Len(Workers) THEN Workers[i] ELSE last[i - Len(Workers)]
          BY <4>1, ConcatProperties
        <4>3. \A i \in 1..Len(Workers) : (Workers \o last)[i] = Workers[i]
          BY <4>1, <4>2
        <4> QED BY <4>2, <4>3 DEF last
      <3> HIDE DEF all
      <3> QED BY <2>1, <3>1, <3>2
    <2>3. said = <<>> \/ said = <<"p0">> \/ said = <<"p0", "p1">> \/ said = Workers \/ said = all
      BY <1>1, <1>2 DEF WordsSaid
    <2>4. /\ said \in Seq(S) /\ Len(said) <= Len(all)
          /\ \A i \in 1..Len(said) : said[i] = all[i]
      <3> HIDE DEF all
      <3>1. all[1] = "p0" /\ all[2] = "p1"
        BY <2>1, <2>2
      <3>2. CASE said = <<>>
        BY <2>2, <3>2
      <3>3. CASE said = <<"p0">>
        BY <2>2, <3>1, <3>3
      <3>4. CASE said = <<"p0", "p1">>
        BY <2>2, <3>1, <3>4
      <3>5. CASE said = Workers
        <4>1. said \in Seq(S) /\ Len(said) = 3
          BY <2>1, <3>5
        <4>2. \A i \in 1..3 : said[i] = all[i]
          BY <2>2, <3>5
        <4> QED BY <2>2, <4>1, <4>2
      <3>6. CASE said = all
        <4>1. said \in Seq(S) /\ Len(said) = 4
          BY <2>2, <3>6
        <4>2. \A i \in 1..4 : said[i] = all[i]
          BY <3>6
        <4> QED BY <2>2, <4>1, <4>2
      <3> QED BY <2>3, <3>2, <3>3, <3>4, <3>5, <3>6
    <2> HIDE DEF S, all
    <2>5. IsPrefix(said, all)
      BY <2>2, <2>4, PrefixByElements
    <2> QED BY <2>5 DEF all
  <1>3. ASSUME said # <<>>, Last(said) = "main"
        PROVE  cnt = 0 /\ \A t \in Threads \ {"main"} : life[t] = "exited"
    <2>1. Printed("main")
      <3>1. CASE source \in Q1
        <4>1. Printed("main") \/ said \in {<<>>, <<"p0">>, <<"p0", "p1">>, <<"p0", "p1", "p2">>}
          BY <1>1, <3>1 DEF WordsSaid, Workers
        <4>2. said # <<"p0">> /\ said # <<"p0", "p1">> /\ said # <<"p0", "p1", "p2">>
          BY <1>3 DEF Last
        <4> QED BY <1>3, <4>1, <4>2
      <3>2. CASE source \notin Q1
        BY <1>1, <1>3, <3>2 DEF WordsSaid
      <3> QED BY <3>1, <3>2
    <2>2. Reached("main")
      <3>1. Len(Program("main")) >= 1
        BY <1>1, PrintFacts
      <3>2. /\ done["main"] \in Nat /\ done["main"] = Len(Program("main"))
            /\ life["main"] = "unborn" => done["main"] = 0
        BY <1>1, <2>1 DEF Printed, Joins, JoinFacts
      <3> QED BY <3>1, <3>2 DEF Reached
    <2>3. \A t \in Threads \ {"main"} : life[t] = "exited" /\ Printed(t)
      BY <1>1, <2>2, JoinOrder
    <2>4. ASSUME NEW t \in Threads \ {"main"} PROVE Added(t) = 0
      <3>1. done[t] = Len(Program(t))
        BY <2>3 DEF Printed
      <3>2. CASE source = "code-10/q2"
        <4>1. done[t] = 2 * N
          BY <3>1, <3>2, Q2Calls DEF Program
        <4> QED BY <3>2, <4>1, JoinAssumption DEF Added, Q1
      <3>3. CASE source = "soln-7/q2"
        <4>1. Program(t) = <<add(N), add(-N)>>
          BY <3>3 DEF Program, Q2Loop
        <4>2. done[t] = 2
          BY <3>1, <4>1
        <4> QED BY <3>3, <4>2 DEF Added, Q1
      <3> QED BY <1>1, <3>2, <3>3 DEF Added, Q1, Sources
    <2>5. Added("p0") = 0 /\ Added("p1") = 0 /\ Added("p2") = 0
      BY <2>4, JoinAssumption
    <2> QED BY <1>1, <2>3, <2>5
  <1> QED BY <1>2, <1>3 DEF MainPrintsLast, Q1

\* Behind the barriers no thread is ahead of another, the words come in their
\* order and main prints when the others have ended, however many threads
\* q3.c has and whatever q2.c counts up to.
THEOREM PrintsInOrderCorrect == Spec => []PrintsInOrder
  <1> DEFINE PrintInv == BarrierInv /\ CountDownInv /\ OrderingInv /\ JoinProgInv
  <1>1. Init => PrintInv
    BY BarrierInvInit, CountDownInvInit, OrderingInvInit, JoinProgInit DEF Init
  <1>2. PrintInv /\ [Next]_vars => PrintInv'
    <2> SUFFICES ASSUME PrintInv, [Next]_vars PROVE PrintInv'
      OBVIOUS
    <2>1. BarrierInv'
      BY BarrierInvStep DEF Next, ProgramStep, Finished, vars
    <2>2. CountDownInv'
      BY CountDownInvStep DEF Next, ProgramStep, Finished, vars
    <2>3. OrderingInv'
      BY OrderingInvStep DEF Next, ProgramStep, Finished, vars
    <2>4. JoinProgInv'
      BY JoinProgStep DEF Next, ProgramStep, Finished, vars
    <2> QED BY <2>1, <2>2, <2>3, <2>4
  <1>3. PrintInv => PrintsInOrder
    BY BarrierHolds, OrderingHolds, JoinProgHolds DEF PrintsInOrder, CountDownInv
  <1> QED BY <1>1, <1>2, <1>3, PTL DEF Spec
-----------------------------------------------------------------------------
(* The well. *)

\* Waking the first people of a queue leaves the rest of it, and not the first.
LEMMA DropQueue ==
    ASSUME NEW S, NEW q \in Seq(S), NEW m \in Nat \ {0}
    PROVE  /\ SubSeq(q, m + 1, Len(q)) \in Seq(S)
           /\ ToSet(SubSeq(q, m + 1, Len(q))) \subseteq ToSet(q)
           /\ IsInjective(q) =>
                /\ IsInjective(SubSeq(q, m + 1, Len(q)))
                /\ q # <<>> => q[1] \in ToSet(q) /\ q[1] \notin ToSet(SubSeq(q, m + 1, Len(q)))
  <1> DEFINE r == SubSeq(q, m + 1, Len(q))
  <1>1. Len(q) \in Nat /\ DOMAIN q = 1..Len(q) /\ \A i \in 1..Len(q) : q[i] \in S
    BY LenProperties, ElementOfSeq
  <1>2. /\ r \in Seq(S)
        /\ Len(r) = IF m + 1 <= Len(q) THEN Len(q) - m ELSE 0
        /\ \A i \in 1..(Len(q) - m) : r[i] = q[i + m]
    BY <1>1, SubSeqProperties
  <1> HIDE DEF r
  <1>3. DOMAIN r = 1..Len(r)
    BY <1>2, LenProperties
  <1>4. \A i \in DOMAIN r : i \in Nat \ {0} /\ i + m \in DOMAIN q /\ r[i] = q[i + m]
    BY <1>1, <1>2, <1>3
  <1>5. ToSet(r) \subseteq ToSet(q)
    BY <1>4 DEF ToSet
  <1>6. ASSUME IsInjective(q)
        PROVE  /\ IsInjective(r)
               /\ q # <<>> => q[1] \in ToSet(q) /\ q[1] \notin ToSet(r)
    <2>1. IsInjective(r)
      BY <1>4, <1>6 DEF IsInjective
    <2>2. ASSUME q # <<>> PROVE q[1] \in ToSet(q) /\ q[1] \notin ToSet(r)
      <3>1. 1 \in DOMAIN q
        BY <1>1, <2>2, EmptySeq
      <3>2. \A i \in DOMAIN r : r[i] # q[1]
        BY <1>4, <1>6, <3>1 DEF IsInjective
      <3> QED BY <3>1, <3>2 DEF ToSet
    <2> QED BY <2>1, <2>2
  <1> QED BY <1>2, <1>5, <1>6 DEF r

Spots == {"out", "enter", "waiting", "record", "inside"}

WellTypes ==
    /\ spot \in [People -> Spots] /\ endOf \in [People -> Endianness]
    /\ typeInWell \in Endianness
    /\ waitingCount \in [Endianness -> Int]
    /\ endQ \in [Endianness -> Seq(People)]
    /\ entryTicker \in Nat /\ start \in [People -> Nat]
    /\ visits \in [People -> 0..Visits]

\* The queues hold people who wait for that side, once each.
QueuedWait ==
    \A g \in Endianness : ToSet(endQ[g]) \subseteq Waiting(g) /\ IsInjective(endQ[g])

\* The entries so far, by the person and the number of its round.
Entries ==
    {e \in People \X (1..Visits) :
       e[2] <= visits[e[1]] \/ (e[1] \in Inside /\ e[2] = visits[e[1]] + 1)}

TickerCounts ==
    /\ entryTicker = Cardinality(Entries)
    /\ \A x \in People : /\ start[x] <= entryTicker
                         /\ spot[x] # "out" => visits[x] < Visits
                         /\ x \in Inside => start[x] < entryTicker

WellInv == WellTypes /\ OneKindInside /\ QueuedWait /\ TickerCounts /\ NobodyForgotten

WellSets ==
    /\ IsFiniteSet(Inside) /\ Cardinality(Inside) \in Nat
    /\ \A g \in Endianness : IsFiniteSet(Waiting(g)) /\ Cardinality(Waiting(g)) \in Nat
    /\ IsFiniteSet(Entries) /\ Cardinality(Entries) <= HistogramSize /\ HistogramSize \in Nat
    /\ Inside = {} <=> Cardinality(Inside) = 0
    /\ \A g \in Endianness : Waiting(g) = {} <=> Cardinality(Waiting(g)) = 0

LEMMA WellSetsFinite == WellSets
  <1>1. /\ IsFiniteSet(Inside) /\ Cardinality(Inside) \in Nat
        /\ Inside = {} <=> Cardinality(Inside) = 0
    <2>1. Inside \subseteq People
      BY DEF Inside
    <2> QED BY <2>1, WellAssumption, FS_Subset, FS_CardinalityType, FS_EmptySet
  <1>2. ASSUME NEW g \in Endianness
        PROVE  /\ IsFiniteSet(Waiting(g)) /\ Cardinality(Waiting(g)) \in Nat
               /\ Waiting(g) = {} <=> Cardinality(Waiting(g)) = 0
    <2>1. Waiting(g) \subseteq People
      BY DEF Waiting
    <2> QED BY <2>1, WellAssumption, FS_Subset, FS_CardinalityType, FS_EmptySet
  <1>3. IsFiniteSet(Entries) /\ Cardinality(Entries) <= HistogramSize /\ HistogramSize \in Nat
    <2> DEFINE all == People \X (1..Visits)
    <2>1. Visits \in Nat /\ Cardinality(People) \in Nat /\ IsFiniteSet(People)
      BY WellAssumption, FS_CardinalityType
    <2>2. IsFiniteSet(1..Visits) /\ Cardinality(1..Visits) = Visits
      BY <2>1, FS_Interval
    <2>3. IsFiniteSet(all) /\ Cardinality(all) = Cardinality(People) * Visits
      BY <2>1, <2>2, FS_Product
    <2>4. Entries \subseteq all
      BY DEF Entries
    <2> HIDE DEF all
    <2>5. IsFiniteSet(Entries) /\ Cardinality(Entries) <= Cardinality(all)
      BY <2>3, <2>4, FS_Subset
    <2>6. HistogramSize = Cardinality(People) * Visits /\ HistogramSize \in Nat
      BY <2>1 DEF HistogramSize
    <2> QED BY <2>3, <2>5, <2>6
  <1> QED BY <1>1, <1>2, <1>3 DEF WellSets

\* Who is queued: nobody twice, and nobody on a side that is not its own.
LEMMA NotQueued ==
    ASSUME WellTypes, QueuedWait, NEW x \in People
    PROVE  /\ x \in AllWaiting(endQ) <=> x \in ToSet(endQ[endOf[x]])
           /\ Tests(x) => \A g \in Endianness : x \notin ToSet(endQ[g])
  <1>1. x \in AllWaiting(endQ) <=> \E g \in Endianness : x \in ToSet(endQ[g])
    BY WaitingOf DEF WellTypes
  <1>2. \A g \in Endianness : x \in ToSet(endQ[g]) => endOf[x] = g /\ spot[x] = "waiting"
    BY DEF QueuedWait, Waiting
  <1> QED BY <1>1, <1>2 DEF Tests, WellTypes

LEMMA WellInvInit == WellInit => WellInv
  <1> SUFFICES ASSUME WellInit PROVE WellInv
    OBVIOUS
  <1>1. /\ Inside = {} /\ (\A g \in Endianness : Waiting(g) = {}) /\ Entries = {}
    <2>1. Visits \in Nat
      BY WellAssumption
    <2> QED BY <2>1 DEF WellInit, Inside, Waiting, Entries
  <1>2. WellTypes
    BY WellAssumption, EmptyQueue DEF WellInit, WellTypes, Spots, Endianness
  <1>3. QueuedWait /\ AllWaiting(endQ) = {}
    BY EmptyQueue DEF WellInit, QueuedWait, AllWaiting
  <1>4. Cardinality({}) = 0
    BY FS_EmptySet
  <1>5. OneKindInside
    <2>1. Cardinality(Inside) = 0 /\ \A g \in Endianness : Cardinality(Waiting(g)) = 0
      BY <1>1, <1>4
    <2>2. numInWell = 0 /\ \A g \in Endianness : waitingCount[g] = 0
      BY DEF WellInit
    <2> QED BY <1>1, <2>1, <2>2, WellAssumption DEF OneKindInside
  <1>6. TickerCounts
    BY <1>1, <1>4, WellAssumption DEF WellInit, TickerCounts
  <1> QED BY <1>2, <1>3, <1>5, <1>6 DEF WellInv, NobodyForgotten

\* Reading the ticker, and writing down the time.
LEMMA ReadTickerKeeps ==
    ASSUME WellInv, NEW x \in People, ReadTicker(x)
    PROVE  WellInv'
  <1>1. /\ spot[x] = "out" /\ visits[x] < Visits
        /\ spot' = [spot EXCEPT ![x] = "enter"] /\ start' = [start EXCEPT ![x] = entryTicker]
        /\ UNCHANGED <<numInWell, typeInWell, waitingCount, oppositeWaitingCount, endQ,
                      entryTicker, endOf, visits>>
        /\ WellTypes /\ OneKindInside /\ QueuedWait /\ TickerCounts
    BY DEF ReadTicker, Walks, wellFields, WellInv
  <1>2. \A y \in People : /\ spot'[y] = IF y = x THEN "enter" ELSE spot[y]
                          /\ start'[y] = IF y = x THEN entryTicker ELSE start[y]
    BY <1>1 DEF WellTypes
  <1>3. /\ Inside' = Inside /\ x \notin Inside
        /\ \A g : Waiting(g)' = Waiting(g)
    BY <1>1, <1>2 DEF Inside, Waiting
  <1>4. Entries' = Entries
    BY <1>1, <1>3 DEF Entries
  <1>5. WellTypes'
    BY <1>1 DEF WellTypes, Spots
  <1>6. OneKindInside' /\ QueuedWait'
    BY <1>1, <1>3 DEF OneKindInside, QueuedWait
  <1>7. TickerCounts'
    BY <1>1, <1>2, <1>3, <1>4 DEF TickerCounts, WellTypes
  <1>8. NobodyForgotten'
    BY <1>2 DEF NobodyForgotten, Tests
  <1> QED BY <1>5, <1>6, <1>7, <1>8 DEF WellInv

LEMMA RecordKeeps ==
    ASSUME WellInv, NEW x \in People, Record(x)
    PROVE  WellInv'
  <1>1. /\ spot[x] = "record" /\ spot' = [spot EXCEPT ![x] = "inside"]
        /\ UNCHANGED <<numInWell, typeInWell, waitingCount, oppositeWaitingCount, endQ,
                      entryTicker, endOf, visits, start>>
        /\ WellTypes /\ OneKindInside /\ QueuedWait /\ TickerCounts
    BY DEF Record, Walks, wellFields, WellInv
  <1>2. \A y \in People : spot'[y] = IF y = x THEN "inside" ELSE spot[y]
    BY <1>1 DEF WellTypes
  <1>3. /\ Inside' = Inside /\ x \in Inside
        /\ \A g : Waiting(g)' = Waiting(g)
    BY <1>1, <1>2 DEF Inside, Waiting
  <1>4. Entries' = Entries
    BY <1>1, <1>3 DEF Entries
  <1>5. WellTypes'
    BY <1>1 DEF WellTypes, Spots
  <1>6. OneKindInside' /\ QueuedWait'
    BY <1>1, <1>3 DEF OneKindInside, QueuedWait
  <1>7. TickerCounts'
    BY <1>1, <1>2, <1>3, <1>4 DEF TickerCounts
  <1>8. NobodyForgotten'
    BY <1>3 DEF NobodyForgotten
  <1> QED BY <1>5, <1>6, <1>7, <1>8 DEF WellInv

\* The count as x finds it is of the others that wait.
LEMMA CountForOthers ==
    ASSUME WellTypes, OneKindInside, NEW x \in People, Tests(x)
    PROVE  /\ CountFor(x) \in [Endianness -> Int]
           /\ \A g \in Endianness : CountFor(x)[g] = Cardinality(Waiting(g) \ {x})
  <1>0. CountFor(x) \in [Endianness -> Int]
    <2>1. waitingCount \in [Endianness -> Int] /\ endOf[x] \in Endianness
      BY DEF WellTypes
    <2>2. [waitingCount EXCEPT ![endOf[x]] = @ - 1] \in [Endianness -> Int]
      BY <2>1
    <2> QED BY <2>1, <2>2 DEF CountFor
  <1> SUFFICES ASSUME NEW g \in Endianness
               PROVE  CountFor(x)[g] = Cardinality(Waiting(g) \ {x})
    BY <1>0
  <1>1. IsFiniteSet(Waiting(g)) /\ waitingCount[g] = Cardinality(Waiting(g))
    BY WellSetsFinite DEF WellSets, OneKindInside
  <1>2. x \in Waiting(g) <=> spot[x] = "waiting" /\ endOf[x] = g
    BY DEF Waiting
  <1>3. CountFor(x)[g] = IF x \in Waiting(g) THEN waitingCount[g] - 1 ELSE waitingCount[g]
    BY <1>2 DEF CountFor, WellTypes
  <1> QED BY <1>1, <1>3, FS_RemoveElement

LEMMA EnterKeeps ==
    ASSUME WellInv, NEW x \in People, Enter(x)
    PROVE  WellInv'
  <1>1. WellTypes /\ OneKindInside /\ QueuedWait /\ TickerCounts /\ WellSets /\ Tests(x)
    BY WellSetsFinite DEF WellInv, Enter
  <1>2. /\ waitingCount' = CountFor(x) /\ entryTicker' = entryTicker + 1
        /\ typeInWell' = endOf[x] /\ numInWell' = numInWell + 1
        /\ spot' = [spot EXCEPT ![x] = "record"]
        /\ UNCHANGED <<endQ, endOf, start, visits>>
    BY DEF Enter
  <1>3. \A y \in People : spot'[y] = IF y = x THEN "record" ELSE spot[y]
    BY <1>1, <1>2 DEF WellTypes
  <1>4. /\ Inside' = Inside \cup {x} /\ x \notin Inside /\ spot[x] \in {"enter", "waiting"}
        /\ \A g : Waiting(g)' = Waiting(g) \ {x}
    BY <1>1, <1>2, <1>3 DEF Inside, Waiting, Tests
  <1>5. Cardinality(Inside') = Cardinality(Inside) + 1
    BY <1>1, <1>4, FS_AddElement DEF WellSets
  <1>6. WellTypes'
    <2>1. CountFor(x) \in [Endianness -> Int]
      BY <1>1, CountForOthers
    <2> QED BY <1>1, <1>2, <2>1 DEF WellTypes, Spots
  <1>7. OneKindInside'
    <2>1. numInWell = 0 \/ (numInWell < MaxOccupancy /\ typeInWell = endOf[x])
      BY DEF Enter, MayEnter
    <2>2. numInWell' = Cardinality(Inside')
      BY <1>1, <1>2, <1>5 DEF OneKindInside
    <2>3. numInWell' <= MaxOccupancy
      BY <1>1, <1>2, <2>1, WellAssumption DEF OneKindInside, WellSets
    <2>4. \A y \in Inside' : endOf'[y] = typeInWell'
      BY <1>1, <1>2, <1>4, <2>1 DEF OneKindInside, WellSets
    <2>5. \A g \in Endianness : waitingCount'[g] = Cardinality(Waiting(g)')
      BY <1>1, <1>2, <1>4, CountForOthers
    <2> QED BY <2>2, <2>3, <2>4, <2>5 DEF OneKindInside
  <1>8. QueuedWait'
    <2>1. \A g \in Endianness : x \notin ToSet(endQ[g])
      BY <1>1, NotQueued
    <2> QED BY <1>1, <1>2, <1>4, <2>1 DEF QueuedWait
  <1>9. TickerCounts'
    <2> DEFINE e == <<x, visits[x] + 1>>
    <2>1. visits[x] \in Nat /\ visits[x] < Visits /\ Visits \in Nat
      BY <1>1, <1>4, WellAssumption DEF TickerCounts, WellTypes
    <2>2. e \in People \X (1..Visits) /\ e \notin Entries
      BY <1>4, <2>1 DEF Entries
    <2>3. Entries' = Entries \cup {e}
      <3>1. ASSUME NEW f \in People \X (1..Visits)
            PROVE  f \in Entries' <=> f \in Entries \/ f = e
        <4>1. f = <<f[1], f[2]>> /\ f[1] \in People
          OBVIOUS
        <4>2. f = e <=> f[1] = x /\ f[2] = visits[x] + 1
          BY <4>1
        <4>3. f \in Entries' <=> f[2] <= visits[f[1]] \/ (f[1] \in Inside' /\ f[2] = visits[f[1]] + 1)
          BY <1>2, <3>1 DEF Entries
        <4>4. f \in Entries <=> f[2] <= visits[f[1]] \/ (f[1] \in Inside /\ f[2] = visits[f[1]] + 1)
          BY <3>1 DEF Entries
        <4>5. f[1] \in Inside' <=> f[1] \in Inside \/ f[1] = x
          BY <1>4
        <4> HIDE DEF e
        <4> QED BY <4>2, <4>3, <4>4, <4>5
      <3>2. Entries' \subseteq People \X (1..Visits) /\ Entries \subseteq People \X (1..Visits)
        BY DEF Entries
      <3> HIDE DEF e
      <3> QED BY <2>2, <3>1, <3>2
    <2> HIDE DEF e
    <2>4. Cardinality(Entries') = Cardinality(Entries) + 1
      BY <1>1, <2>2, <2>3, FS_AddElement DEF WellSets
    <2>5. ASSUME NEW y \in People
          PROVE  /\ start'[y] <= entryTicker'
                 /\ spot'[y] # "out" => visits'[y] < Visits
                 /\ y \in Inside' => start'[y] < entryTicker'
      <3>1. start[y] \in Nat /\ entryTicker \in Nat /\ start[y] <= entryTicker
        BY <1>1 DEF WellTypes, TickerCounts
      <3>2. spot'[y] # "out" => visits[y] < Visits
        BY <1>1, <1>3, <2>1 DEF TickerCounts
      <3> QED BY <1>2, <3>1, <3>2
    <2> QED BY <1>1, <1>2, <2>4, <2>5 DEF TickerCounts
  <1>10. NobodyForgotten'
    BY <1>4 DEF NobodyForgotten
  <1> QED BY <1>6, <1>7, <1>8, <1>9, <1>10 DEF WellInv

LEMMA WaitToEnterKeeps ==
    ASSUME WellInv, NEW x \in People, WaitToEnter(x)
    PROVE  WellInv'
  <1>1. WellTypes /\ OneKindInside /\ QueuedWait /\ TickerCounts /\ WellSets /\ Tests(x)
    BY WellSetsFinite DEF WellInv, WaitToEnter
  <1>2. /\ waitingCount' = [CountFor(x) EXCEPT ![endOf[x]] = @ + 1]
        /\ endQ' = Waits(endQ, x, endOf[x])
        /\ spot' = [spot EXCEPT ![x] = "waiting"]
        /\ UNCHANGED <<numInWell, typeInWell, entryTicker, endOf, start, visits>>
        /\ endOf[x] \in Endianness /\ ~MayEnter(x)
    BY <1>1 DEF WaitToEnter, WellTypes
  <1>3. \A y \in People : spot'[y] = IF y = x THEN "waiting" ELSE spot[y]
    BY <1>1, <1>2 DEF WellTypes
  <1>4. /\ Inside' = Inside /\ spot[x] \in {"enter", "waiting"}
        /\ \A h \in Endianness :
             Waiting(h)' = IF h = endOf[x] THEN (Waiting(h) \ {x}) \cup {x} ELSE Waiting(h) \ {x}
    BY <1>1, <1>2, <1>3 DEF Inside, Waiting, Tests
  <1>5. /\ CountFor(x) \in [Endianness -> Int]
        /\ \A h \in Endianness : CountFor(x)[h] = Cardinality(Waiting(h) \ {x})
    BY <1>1, CountForOthers
  <1>6. \A h \in Endianness : waitingCount'[h] = Cardinality(Waiting(h)')
    <2>1. ASSUME NEW h \in Endianness, h = endOf[x]
          PROVE  waitingCount'[h] = Cardinality(Waiting(h)')
      <3>1. IsFiniteSet(Waiting(h) \ {x})
        BY <1>1, FS_RemoveElement DEF WellSets
      <3>2. Cardinality((Waiting(h) \ {x}) \cup {x}) = Cardinality(Waiting(h) \ {x}) + 1
        BY <3>1, FS_AddElement
      <3>3. waitingCount'[h] = CountFor(x)[h] + 1
        BY <1>2, <1>5, <2>1
      <3> QED BY <1>4, <1>5, <2>1, <3>2, <3>3
    <2>2. ASSUME NEW h \in Endianness, h # endOf[x]
          PROVE  waitingCount'[h] = Cardinality(Waiting(h)')
      BY <1>2, <1>4, <1>5, <2>2
    <2> QED BY <2>1, <2>2
  <1>7. OneKindInside'
    BY <1>1, <1>2, <1>4, <1>6 DEF OneKindInside
  <1>8. \A h \in Endianness : x \notin ToSet(endQ[h])
    BY <1>1, NotQueued
  <1>9. /\ endQ' \in [Endianness -> Seq(People)]
        /\ ToSet(endQ'[endOf[x]]) = ToSet(endQ[endOf[x]]) \cup {x}
        /\ IsInjective(endQ'[endOf[x]])
        /\ \A h \in Endianness : h # endOf[x] => endQ'[h] = endQ[h]
    <2> DEFINE q == endQ[endOf[x]]
    <2>1. q \in Seq(People) /\ IsInjective(q) /\ x \notin ToSet(q)
      BY <1>1, <1>2, <1>8 DEF WellTypes, QueuedWait
    <2>2. endQ' = [endQ EXCEPT ![endOf[x]] = Append(q, x)] /\ endQ \in [Endianness -> Seq(People)]
      BY <1>1, <1>2 DEF Waits, WellTypes
    <2> HIDE DEF q
    <2>3. /\ Append(q, x) \in Seq(People) /\ IsInjective(Append(q, x))
          /\ ToSet(Append(q, x)) = ToSet(q) \cup {x}
      BY <2>1, AppendQueue
    <2>4. /\ endQ' \in [Endianness -> Seq(People)] /\ endQ'[endOf[x]] = Append(q, x)
          /\ \A h \in Endianness : h # endOf[x] => endQ'[h] = endQ[h]
      BY <1>2, <2>2, <2>3
    <2> QED BY <2>3, <2>4 DEF q
  <1>10. WellTypes'
    <2>1. waitingCount' \in [Endianness -> Int]
      BY <1>2, <1>5
    <2> QED BY <1>1, <1>2, <1>9, <2>1 DEF WellTypes, Spots
  <1>11. QueuedWait'
    <2>1. ASSUME NEW h \in Endianness PROVE ToSet(endQ'[h]) \subseteq Waiting(h)' /\ IsInjective(endQ'[h])
      BY <1>1, <1>2, <1>4, <1>8, <1>9 DEF QueuedWait
    <2> QED BY <2>1 DEF QueuedWait
  <1>12. TickerCounts'
    <2>1. Entries' = Entries
      BY <1>2, <1>4 DEF Entries
    <2>2. visits[x] < Visits
      BY <1>1, <1>4 DEF TickerCounts
    <2> QED BY <1>1, <1>2, <1>3, <1>4, <2>1, <2>2 DEF TickerCounts
  <1>13. NobodyForgotten'
    <2>1. Inside # {}
      BY <1>1, <1>2 DEF MayEnter, OneKindInside, WellSets
    <2> QED BY <1>4, <2>1 DEF NobodyForgotten
  <1> QED BY <1>7, <1>10, <1>11, <1>12, <1>13 DEF WellInv

\* The signals of leaveWell shorten one queue, and wake its first if they go
\* there.
LEMMA LeaveQueues ==
    ASSUME WellTypes, QueuedWait, NEW g \in Endianness, NEW h, NEW q,
           \/ q = SignalOpposite(g) /\ h = oppositeEnd[g]
           \/ q = Signalled(endQ, g) /\ h = g
    PROVE  /\ q \in [Endianness -> Seq(People)] /\ h \in Endianness
           /\ \A k \in Endianness : ToSet(q[k]) \subseteq ToSet(endQ[k]) /\ IsInjective(q[k])
           /\ endQ[h] # <<>> => \E y \in ToSet(endQ[h]) : y \notin ToSet(q[h])
  <1>1. /\ endQ \in [Endianness -> Seq(People)] /\ oppositeEnd[g] \in Endianness
        /\ \A k \in Endianness : IsInjective(endQ[k])
    BY DEF WellTypes, QueuedWait, oppositeEnd, Endianness
  <1>2. CASE q = SignalOpposite(g) /\ h = oppositeEnd[g]
    <2> DEFINE r == SubSeq(endQ[h], MaxOccupancy + 1, Len(endQ[h]))
    <2>1. endQ[h] \in Seq(People) /\ MaxOccupancy \in Nat \ {0} /\ IsInjective(endQ[h])
      BY <1>1, <1>2, WellAssumption
    <2>2. q = [endQ EXCEPT ![h] = r] /\ h \in Endianness
      BY <1>1, <1>2 DEF SignalOpposite
    <2>3. /\ r \in Seq(People) /\ ToSet(r) \subseteq ToSet(endQ[h]) /\ IsInjective(r)
          /\ endQ[h] # <<>> => endQ[h][1] \in ToSet(endQ[h]) /\ endQ[h][1] \notin ToSet(r)
      BY <2>1, DropQueue
    <2> HIDE DEF r
    <2>4. /\ q \in [Endianness -> Seq(People)] /\ q[h] = r
          /\ \A k \in Endianness : k # h => q[k] = endQ[k]
      BY <1>1, <2>2, <2>3
    <2>5. \A k \in Endianness : ToSet(q[k]) \subseteq ToSet(endQ[k]) /\ IsInjective(q[k])
      BY <1>1, <2>3, <2>4
    <2>6. endQ[h] # <<>> => \E y \in ToSet(endQ[h]) : y \notin ToSet(q[h])
      BY <2>3, <2>4
    <2> QED BY <2>2, <2>4, <2>5, <2>6
  <1>3. CASE q = Signalled(endQ, g) /\ h = g
    <2>1. /\ Signalled(endQ, g) \in [Endianness -> Seq(People)]
          /\ ToSet(Signalled(endQ, g)[g]) \subseteq ToSet(endQ[g])
          /\ IsInjective(Signalled(endQ, g)[g])
      BY <1>1, SignalQueue
    <2>2. endQ[g] # <<>> => \E y \in ToSet(endQ[g]) : y \notin ToSet(Signalled(endQ, g)[g])
      BY <1>1, SignalQueue
    <2>3. \A k \in Endianness : k # g => Signalled(endQ, g)[k] = endQ[k]
      BY <1>1 DEF Signalled
    <2>4. \A k \in Endianness : ToSet(q[k]) \subseteq ToSet(endQ[k]) /\ IsInjective(q[k])
      BY <1>1, <1>3, <2>1, <2>3
    <2> QED BY <1>3, <2>1, <2>2, <2>4
  <1> QED BY <1>2, <1>3

LEMMA LeaveKeeps ==
    ASSUME WellInv, NEW x \in People, Leave(x)
    PROVE  WellInv'
  <1> DEFINE own == typeInWell
             other == oppositeEnd[typeInWell]
  <1>1. WellTypes /\ OneKindInside /\ QueuedWait /\ TickerCounts /\ WellSets /\ WellSets'
    <2>1. WellSets'
      BY WellSetsFinite, PTL
    <2> QED BY <2>1, WellSetsFinite DEF WellInv
  <1>2. /\ spot[x] = "inside" /\ spot' = [spot EXCEPT ![x] = "out"]
        /\ numInWell' = numInWell - 1
        /\ endQ' = IF OppositeTurn
                   THEN IF numInWell' = 0 THEN SignalOpposite(own) ELSE endQ
                   ELSE IF waitingCount[own] > 0 THEN Signalled(endQ, own) ELSE endQ
        /\ visits' = [visits EXCEPT ![x] = @ + 1]
        /\ UNCHANGED <<typeInWell, waitingCount, oppositeWaitingCount, entryTicker,
                      endOf, start>>
    BY DEF Leave, Walks
  <1>3. \A y \in People : /\ spot'[y] = IF y = x THEN "out" ELSE spot[y]
                          /\ visits'[y] = IF y = x THEN visits[y] + 1 ELSE visits[y]
    BY <1>1, <1>2 DEF WellTypes
  <1>4. /\ Inside' = Inside \ {x} /\ x \in Inside
        /\ \A h : Waiting(h)' = Waiting(h)
    BY <1>1, <1>2, <1>3 DEF Inside, Waiting
  <1>5. /\ own \in Endianness /\ other \in Endianness
        /\ \A h \in Endianness : h = own \/ h = other
    BY <1>1 DEF WellTypes, oppositeEnd, Endianness
  <1>6. Cardinality(Inside') = Cardinality(Inside) - 1
    BY <1>1, <1>4, FS_RemoveElement DEF WellSets
  <1>7. /\ endQ' \in [Endianness -> Seq(People)]
        /\ \A k \in Endianness : ToSet(endQ'[k]) \subseteq ToSet(endQ[k]) /\ IsInjective(endQ'[k])
    <2>1. CASE endQ' = endQ
      BY <1>1, <2>1 DEF WellTypes, QueuedWait
    <2>2. CASE endQ' = SignalOpposite(own)
      BY <1>1, <1>5, <2>2, LeaveQueues
    <2>3. CASE endQ' = Signalled(endQ, own)
      BY <1>1, <1>5, <2>3, LeaveQueues
    <2> QED BY <1>2, <2>1, <2>2, <2>3
  <1>8. visits[x] \in Nat /\ visits[x] < Visits /\ Visits \in Nat
    BY <1>1, <1>2, WellAssumption DEF TickerCounts, WellTypes
  <1>9. WellTypes'
    <2>1. visits' \in [People -> 0..Visits]
      BY <1>1, <1>2, <1>8 DEF WellTypes
    <2>2. spot' \in [People -> Spots]
      BY <1>1, <1>2 DEF WellTypes, Spots
    <2> QED BY <1>1, <1>2, <1>7, <2>1, <2>2 DEF WellTypes
  <1>10. OneKindInside'
    <2>1. numInWell' = Cardinality(Inside') /\ numInWell' <= MaxOccupancy
      BY <1>1, <1>2, <1>6, WellAssumption DEF OneKindInside, WellSets
    <2> QED BY <1>1, <1>2, <1>4, <2>1 DEF OneKindInside
  <1>11. QueuedWait'
    BY <1>1, <1>4, <1>7 DEF QueuedWait
  <1>12. TickerCounts'
    <2>1. Entries' = Entries
      <3>1. ASSUME NEW f \in People \X (1..Visits) PROVE f \in Entries' <=> f \in Entries
        <4>1. f[1] \in People /\ f[2] \in Nat /\ visits[f[1]] \in Nat
          BY <1>1 DEF WellTypes
        <4>2. f \in Entries' <=> f[2] <= visits'[f[1]] \/ (f[1] \in Inside' /\ f[2] = visits'[f[1]] + 1)
          BY <3>1 DEF Entries
        <4>3. f \in Entries <=> f[2] <= visits[f[1]] \/ (f[1] \in Inside /\ f[2] = visits[f[1]] + 1)
          BY <3>1 DEF Entries
        <4> QED BY <1>3, <1>4, <4>1, <4>2, <4>3
      <3>2. Entries' \subseteq People \X (1..Visits) /\ Entries \subseteq People \X (1..Visits)
        BY DEF Entries
      <3> QED BY <3>1, <3>2
    <2> QED BY <1>1, <1>2, <1>3, <1>4, <2>1 DEF TickerCounts
  <1>13. NobodyForgotten'
    <2> SUFFICES ASSUME AllWaiting(endQ') # {}, Inside' = {}
                 PROVE  \E y \in People : Tests(y)'
      BY DEF NobodyForgotten
    <2>1. numInWell' = 0
      BY <1>1, <1>10 DEF WellSets, OneKindInside
    <2>2. ASSUME NEW h \in Endianness, NEW y \in Waiting(h), y \notin ToSet(endQ'[h])
          PROVE  \E z \in People : Tests(z)'
      <3>1. y \in People /\ spot[y] = "waiting" /\ endOf[y] = h /\ y # x
        BY <1>2, <2>2 DEF Waiting
      <3>2. \A k \in Endianness : y \notin ToSet(endQ'[k])
        BY <1>1, <1>7, <2>2, <3>1 DEF QueuedWait, Waiting
      <3>3. y \notin AllWaiting(endQ')
        BY <1>7, <3>2, WaitingOf
      <3> QED BY <1>3, <3>1, <3>3 DEF Tests
    <2>3. ASSUME NEW h \in Endianness, waitingCount[h] > 0,
                 endQ[h] # <<>> => \E y \in ToSet(endQ[h]) : y \notin ToSet(endQ'[h])
          PROVE  \E z \in People : Tests(z)'
      <3>1. PICK y : y \in Waiting(h)
        BY <1>1, <2>3 DEF OneKindInside, WellSets
      <3>2. CASE endQ[h] = <<>>
        <4>1. ToSet(endQ[h]) = {}
          BY <3>2, EmptyQueue
        <4> QED BY <1>7, <2>2, <3>1, <4>1
      <3>3. CASE endQ[h] # <<>>
        <4>1. PICK z \in ToSet(endQ[h]) : z \notin ToSet(endQ'[h])
          BY <2>3, <3>3
        <4>2. z \in Waiting(h)
          BY <1>1, <4>1 DEF QueuedWait
        <4> QED BY <2>2, <4>1, <4>2
      <3> QED BY <3>2, <3>3
    <2>4. CASE OppositeTurn
      <3>1. endQ' = SignalOpposite(own) /\ waitingCount[other] > 0
        BY <1>2, <2>1, <2>4 DEF OppositeTurn
      <3>2. endQ[other] # <<>> => \E y \in ToSet(endQ[other]) : y \notin ToSet(endQ'[other])
        BY <1>1, <1>5, <3>1, LeaveQueues
      <3> QED BY <1>5, <2>3, <3>1, <3>2
    <2>5. CASE ~OppositeTurn /\ waitingCount[own] > 0
      <3>1. endQ' = Signalled(endQ, own)
        BY <1>2, <2>5
      <3>2. endQ[own] # <<>> => \E y \in ToSet(endQ[own]) : y \notin ToSet(endQ'[own])
        BY <1>1, <1>5, <3>1, LeaveQueues
      <3> QED BY <1>5, <2>3, <2>5, <3>2
    <2>6. CASE ~OppositeTurn /\ ~(waitingCount[own] > 0)
      <3>1. \A h \in Endianness : waitingCount[h] \in Nat
        BY <1>1 DEF OneKindInside, WellSets
      <3>2. waitingCount[own] = 0 /\ waitingCount[other] = 0
        BY <1>5, <2>6, <3>1 DEF OppositeTurn
      <3>3. \A h \in Endianness : Waiting(h) = {}
        BY <1>1, <1>5, <3>2 DEF OneKindInside, WellSets
      <3>4. \A h \in Endianness : ToSet(endQ'[h]) = {}
        BY <1>1, <1>7, <3>3 DEF QueuedWait
      <3> QED BY <1>7, <3>4, WaitingOf DEF AllWaiting
    <2> QED BY <2>4, <2>5, <2>6
  <1> QED BY <1>9, <1>10, <1>11, <1>12, <1>13 DEF WellInv

LEMMA WellInvStep == WellInv /\ [WellNext]_wellVars => WellInv'
  <1> SUFFICES ASSUME WellInv, [WellNext]_wellVars PROVE WellInv'
    OBVIOUS
  <1>1. CASE UNCHANGED wellVars
    <2>1. UNCHANGED <<numInWell, typeInWell, waitingCount, oppositeWaitingCount, endQ,
                      entryTicker, endOf, spot, start, visits>>
      BY <1>1 DEF wellVars, wellFields
    <2>2. Inside' = Inside /\ \A g : Waiting(g)' = Waiting(g)
      BY <2>1 DEF Inside, Waiting
    <2>3. Entries' = Entries
      BY <2>1, <2>2 DEF Entries
    <2>4. WellTypes' /\ OneKindInside' /\ QueuedWait'
      BY <2>1, <2>2 DEF WellInv, WellTypes, OneKindInside, QueuedWait
    <2>5. TickerCounts'
      BY <2>1, <2>2, <2>3 DEF WellInv, TickerCounts
    <2>6. NobodyForgotten'
      BY <2>1, <2>2 DEF WellInv, NobodyForgotten, Tests
    <2> QED BY <2>4, <2>5, <2>6 DEF WellInv
  <1>2. CASE WellNext
    BY <1>2, ReadTickerKeeps, EnterKeeps, WaitToEnterKeeps, RecordKeeps, LeaveKeeps DEF WellNext
  <1> QED BY <1>1, <1>2

\* However many people come to the well, one endianness is inside, no waiting
\* time is outside the histogram, and whoever waits will be signalled.
THEOREM WellConsistentCorrect == Spec => []WellConsistent
  <1>1. Init => WellInv
    BY WellInvInit DEF Init
  <1>2. WellInv /\ [Next]_vars => WellInv'
    BY WellInvStep DEF Next, ProgramStep, Finished, vars
  <1>3. WellInv => WellConsistent
    <2> SUFFICES ASSUME WellInv, NEW x \in People, spot[x] = "record"
                 PROVE  WaitingTime(x) \in 0..(HistogramSize - 1)
      BY DEF WellInv, WellConsistent, WaitingTimeInRange
    <2>1. /\ start[x] \in Nat /\ entryTicker \in Nat /\ start[x] < entryTicker
          /\ entryTicker <= HistogramSize /\ HistogramSize \in Nat
      BY WellSetsFinite DEF WellInv, WellTypes, TickerCounts, Inside, WellSets
    <2> QED BY <2>1 DEF WaitingTime
  <1> QED BY <1>1, <1>2, <1>3, PTL DEF Spec
-----------------------------------------------------------------------------
(* Nobody waits for ever. *)

\* Who waits at the barrier of soln-8 is inside the wait, and only while threads
\* are still to come.
BarrierQueued ==
    /\ ToSet(goQ["go"]) \subseteq {t \in Parties : stage[t] = "wait"}
    /\ goQ["go"] # <<>> => arrivals < Cardinality(Parties)

LEMMA BarrierQueuedStep ==
    BarrierInv /\ BarrierQueued /\ [BarrierNext]_barrierVars => BarrierQueued'
  <1> SUFFICES ASSUME BarrierInv, BarrierQueued, [BarrierNext]_barrierVars
               PROVE  BarrierQueued'
    OBVIOUS
  <1> USE DEF Moves
  <1>1. CASE UNCHANGED barrierVars
    BY <1>1 DEF barrierVars, BarrierQueued
  <1>2. ASSUME NEW t \in Parties, PrintA(t) \/ PrintB(t) \/ Released(t)
        PROVE  BarrierQueued'
    <2>1. t \notin ToSet(goQ["go"])
      <3>1. CASE Released(t)
        BY <3>1, WaitingOf DEF Released, BarrierInv
      <3> QED BY <1>2, <3>1 DEF PrintA, PrintB, BarrierQueued
    <2> QED BY <1>2, <2>1 DEF PrintA, PrintB, Released, BarrierQueued, BarrierInv
  <1>3. ASSUME NEW t \in Parties, ArriveWait(t) PROVE BarrierQueued'
    <2>1. goQ'["go"] = Append(goQ["go"], t)
      BY <1>3 DEF ArriveWait, Waits, BarrierInv
    <2>2. ToSet(goQ'["go"]) = ToSet(goQ["go"]) \cup {t}
      BY <2>1, AppendQueue DEF BarrierInv
    <2> QED BY <1>3, <2>2 DEF ArriveWait, BarrierQueued, BarrierInv
  <1>4. ASSUME NEW t \in Parties, ArriveLast(t) PROVE BarrierQueued'
    <2>1. goQ'["go"] = <<>>
      BY <1>4 DEF ArriveLast, Broadcasted, BarrierInv
    <2> QED BY <2>1, EmptyQueue DEF BarrierQueued
  <1> QED BY <1>1, <1>2, <1>3, <1>4 DEF BarrierNext

LEMMA BarrierEnds == BarrierInv /\ BarrierQueued => BarrierMoves \/ BarrierDone
  <1> SUFFICES ASSUME BarrierInv, BarrierQueued, ~BarrierMoves PROVE BarrierDone
    OBVIOUS
  <1>1. \A t \in Parties : stage[t] = "end" \/ t \in ToSet(goQ["go"])
    BY WaitingOf DEF BarrierMoves, BarrierInv
  <1>2. \A t \in Parties : stage[t] \in {"wait", "end"}
    BY <1>1 DEF BarrierQueued
  <1>3. Came = Parties
    BY <1>2 DEF Came
  <1>4. Cardinality(Parties) \in Nat
    BY BarrierAssumption, FS_CardinalityType
  <1>5. ToSet(goQ["go"]) = {}
    BY <1>3, <1>4, EmptyQueue DEF BarrierInv, BarrierQueued
  <1> QED BY <1>1, <1>5 DEF BarrierDone

\* Behind the count of code-10: while it is zero and a thread sleeps, another
\* thread that will wake it is at its test.
LetterQueued ==
    /\ letterQ \in [{"letter_cond"} -> Seq(Letters)]
    /\ ToSet(letterQ["letter_cond"]) \subseteq {t \in Letters : place[t] = "test"}
    /\ letterQ["letter_cond"] # <<>> /\ threadnum <= 0 =>
         \E t \in Letters : place[t] = "test" /\ t \notin ToSet(letterQ["letter_cond"])

LEMMA LetterQueuedStep ==
    CountDownInv /\ LetterQueued /\ [CountDownNext]_countDownVars => LetterQueued'
  <1> SUFFICES ASSUME CountDownInv, LetterQueued, [CountDownNext]_countDownVars
               PROVE  LetterQueued'
    OBVIOUS
  <1> USE DEF Passes
  <1>1. CASE UNCHANGED countDownVars
    BY <1>1 DEF countDownVars, LetterQueued
  <1>2. ASSUME NEW t \in Letters, PrintsA(t) \/ ReadsCount(t) \/ PrintsB(t)
        PROVE  LetterQueued'
    <2>1. /\ UNCHANGED <<threadnum, letterQ>> /\ place[t] # "test"
          /\ \A u \in Letters : u # t => place'[u] = place[u]
      BY <1>2 DEF PrintsA, ReadsCount, PrintsB, CountDownInv
    <2>2. t \notin ToSet(letterQ["letter_cond"])
      BY <2>1 DEF LetterQueued
    <2> QED BY <2>1, <2>2 DEF LetterQueued
  <1>3. ASSUME NEW t \in Letters, StoresCount(t) PROVE LetterQueued'
    <2>1. /\ letterQ' = letterQ /\ place[t] = "store" /\ place'[t] = "test"
          /\ \A u \in Letters : u # t => place'[u] = place[u]
      BY <1>3 DEF StoresCount, CountDownInv
    <2>2. t \notin ToSet(letterQ["letter_cond"])
      BY <2>1 DEF LetterQueued
    <2> QED BY <2>1, <2>2 DEF LetterQueued
  <1>4. ASSUME NEW t \in Letters, WaitsForLetter(t) PROVE LetterQueued'
    <2>1. /\ letterQ' = [letterQ EXCEPT !["letter_cond"] = Append(@, t)]
          /\ place' = place /\ threadnum' = threadnum /\ threadnum > 0 /\ place[t] = "test"
      BY <1>4 DEF WaitsForLetter, Waits, CountDownInv
    <2>2. /\ letterQ' \in [{"letter_cond"} -> Seq(Letters)]
          /\ ToSet(letterQ'["letter_cond"]) = ToSet(letterQ["letter_cond"]) \cup {t}
      BY <2>1, AppendQueue DEF LetterQueued
    <2> QED BY <2>1, <2>2 DEF LetterQueued, CountDownInv
  <1>5. ASSUME NEW t \in Letters, LastLetter(t) PROVE LetterQueued'
    <2>1. IsFiniteSet(NotStored) /\ Cardinality(NotStored) \in Nat
      <3>1. NotStored \subseteq Letters
        BY DEF NotStored
      <3> QED BY <3>1, CountDownAssumption, FS_Subset, FS_CardinalityType
    <2>2. threadnum = 0
      BY <1>5, <2>1 DEF LastLetter, CountDownInv
    <2>3. letterQ' = [letterQ EXCEPT !["letter_cond"] = <<>>]
      BY <1>5, <2>2 DEF LastLetter, Broadcasted
    <2>4. letterQ' \in [{"letter_cond"} -> Seq(Letters)] /\ letterQ'["letter_cond"] = <<>>
      BY <2>3, EmptyQueue DEF LetterQueued
    <2> QED BY <2>4, EmptyQueue DEF LetterQueued
  <1> QED BY <1>1, <1>2, <1>3, <1>4, <1>5 DEF CountDownNext

LEMMA CountDownEnds == CountDownInv /\ LetterQueued => CountDownMoves \/ CountDownDone
  <1> SUFFICES ASSUME CountDownInv, LetterQueued, ~CountDownMoves,
                      NEW t \in Letters, place[t] # "end"
               PROVE  AllWaiting(letterQ) = Letters /\ threadnum > 0
    BY DEF CountDownDone
  <1>1. /\ AllWaiting(letterQ) = ToSet(letterQ["letter_cond"])
        /\ ToSet(letterQ["letter_cond"]) \subseteq Letters
        /\ letterQ["letter_cond"] = <<>> <=> ToSet(letterQ["letter_cond"]) = {}
    <2>1. letterQ["letter_cond"] \in Seq(Letters)
      BY DEF LetterQueued
    <2>2. \A u : u \in AllWaiting(letterQ) <=> u \in ToSet(letterQ["letter_cond"])
      BY WaitingOf DEF LetterQueued
    <2> QED BY <2>1, <2>2, QueueElements
  <1>2. \A u \in Letters : place[u] = "end" \/ u \in ToSet(letterQ["letter_cond"])
    BY <1>1 DEF CountDownMoves
  <1>3. t \in ToSet(letterQ["letter_cond"]) /\ place[t] = "test"
    BY <1>2 DEF LetterQueued
  <1>4. threadnum > 0
    BY <1>1, <1>2, <1>3 DEF LetterQueued, CountDownInv
  <1>5. \A u \in Letters : place[u] # "end"
    BY <1>4 DEF CountDownInv, AllPassOrNone
  <1> QED BY <1>1, <1>2, <1>4, <1>5

\* Who sleeps for its flag sleeps alone, and before the flag is set.
OrderQueued ==
    /\ canGoQ["oneCanGo"] \in {<<>>, <<"p1">>} /\ canGoQ["twoCanGo"] \in {<<>>, <<"p2">>}
    /\ canGoQ["oneCanGo"] # <<>> => at["p1"] = "wait" /\ ~gone["p0"]
    /\ canGoQ["twoCanGo"] # <<>> => at["p2"] = "wait" /\ ~gone["p1"]

LEMMA OrderQueuedStep ==
    OrderingInv /\ OrderQueued /\ [OrderingNext \/ LoopOrderingNext]_orderingVars
        => OrderQueued'
  <1> SUFFICES ASSUME OrderingInv, OrderQueued,
                      [OrderingNext \/ LoopOrderingNext]_orderingVars
               PROVE  OrderQueued'
    OBVIOUS
  <1>1. CASE UNCHANGED orderingVars
    BY <1>1 DEF orderingVars, OrderQueued
  <1>2. /\ canGoQ \in [CanGo -> Seq({"p1", "p2"})]
        /\ "oneCanGo" \in CanGo /\ "twoCanGo" \in CanGo
        /\ "p1" \notin AllWaiting(canGoQ) => canGoQ["oneCanGo"] = <<>>
        /\ "p2" \notin AllWaiting(canGoQ) => canGoQ["twoCanGo"] = <<>>
    <2>1. canGoQ \in [CanGo -> Seq({"p1", "p2"})]
      BY DEF OrderingInv, CanGo
    <2>2. ToSet(<<"p1">>) = {"p1"} /\ ToSet(<<"p2">>) = {"p2"}
      BY DEF ToSet
    <2> QED BY <2>1, <2>2, WaitingOf DEF CanGo, OrderQueued
  <1>3. ASSUME NEW c \in CanGo, canGoQ' = Signalled(canGoQ, c)
        PROVE  canGoQ'[c] = <<>> /\ \A d \in CanGo : d # c => canGoQ'[d] = canGoQ[d]
    <2>1. canGoQ[c] = <<>> \/ \E e : canGoQ[c] = <<e>>
      BY DEF OrderQueued, CanGo
    <2>2. \A e : Tail(<<e>>) = <<>>
      OBVIOUS
    <2> QED BY <1>2, <1>3, <2>1, <2>2 DEF Signalled
  <1>4. ASSUME NEW c \in CanGo, NEW p, canGoQ' = Waits(canGoQ, p, c), canGoQ[c] = <<>>
        PROVE  canGoQ'[c] = <<p>> /\ \A d \in CanGo : d # c => canGoQ'[d] = canGoQ[d]
    BY <1>2, <1>4, AppendWord DEF Waits
  <1> USE DEF OrderQueued, OrderingInv, CanGo
  <1>5. CASE PrintZero \/ TwoGoes \/ PrintTwo
    BY <1>2, <1>5 DEF PrintZero, TwoGoes, PrintTwo, Goes, MayGo
  <1>6. CASE ZeroGoes
    BY <1>3, <1>6 DEF ZeroGoes, Goes
  <1>7. CASE OneWaits
    BY <1>4, <1>7 DEF OneWaits, Goes
  <1>8. CASE OneGoes
    BY <1>2, <1>3, <1>8 DEF OneGoes, MayGo
  <1>9. CASE TwoWaits
    BY <1>4, <1>9 DEF TwoWaits, Goes
  <1>10. CASE LoopWaits("p1", "p0", "oneCanGo")
    BY <1>2, <1>4, <1>10 DEF LoopWaits
  <1>11. CASE LoopWaits("p2", "p1", "twoCanGo")
    BY <1>2, <1>4, <1>11 DEF LoopWaits
  <1>12. CASE LoopZero
    BY <1>3, <1>12 DEF LoopZero, LoopGoes
  <1>13. CASE LoopOne
    BY <1>2, <1>3, <1>13 DEF LoopOne, LoopGoes
  <1>14. CASE LoopTwo
    BY <1>2, <1>14 DEF LoopTwo, LoopGoes
  <1> QED BY <1>1, <1>5, <1>6, <1>7, <1>8, <1>9, <1>10, <1>11, <1>12, <1>13, <1>14
             DEF OrderingNext, LoopOrderingNext

LEMMA OrderingEnds == OrderingInv /\ OrderQueued => OrderingMoves \/ OrderingDone
  <1> SUFFICES ASSUME OrderingInv, OrderQueued, ~OrderingMoves PROVE OrderingDone
    OBVIOUS
  <1>1. ToSet(<<>>) = {} /\ ToSet(<<"p1">>) = {"p1"} /\ ToSet(<<"p2">>) = {"p2"}
    BY EmptyQueue DEF ToSet
  <1>2. /\ "p0" \notin AllWaiting(canGoQ)
        /\ "p1" \in AllWaiting(canGoQ) => canGoQ["oneCanGo"] # <<>>
        /\ "p2" \in AllWaiting(canGoQ) => canGoQ["twoCanGo"] # <<>>
    BY <1>1, WaitingOf DEF OrderingInv, OrderQueued
  <1>3. /\ DOMAIN at = {"p0", "p1", "p2"}
        /\ \A p \in {"p0", "p1", "p2"} : at[p] = "end" \/ p \in AllWaiting(canGoQ)
    BY DEF OrderingInv, OrderingMoves
  <1>4. at["p0"] = "end" /\ gone["p0"]
    BY <1>2, <1>3 DEF OrderingInv
  <1>5. at["p1"] = "end" /\ gone["p1"]
    BY <1>2, <1>3, <1>4 DEF OrderingInv, OrderQueued
  <1>6. at["p2"] = "end"
    BY <1>2, <1>3, <1>5 DEF OrderQueued
  <1> QED BY <1>3, <1>4, <1>5, <1>6 DEF OrderingDone, OrderingInv, PrintedSoFar

\* A thread joins only one that runs or has run, and none that could join it in
\* turn.
JoinBorn ==
    /\ life["main"] # "unborn"
    /\ \A t \in Threads : joining[t] # None => life[joining[t]] # "unborn"

JoinRank == [t \in Threads |-> CASE t = "p0" -> 0 [] t = "p1" -> 1 [] t = "p2" -> 2
                                 [] t = "main" -> 3]

LEMMA JoinsEarlier ==
    ASSUME source \in Sources, NEW t \in Threads, NEW i \in 1..Len(Program(t)),
           Program(t)[i][1] = "join"
    PROVE  JoinRank[Program(t)[i][2]] < JoinRank[t]
  <1> USE JoinAssumption DEF create, join, add, print
  <1> DEFINE Earlier(u) == JoinRank[u] < JoinRank[t]
  <1>1. /\ JoinRank["p0"] = 0 /\ JoinRank["p1"] = 1
        /\ JoinRank["p2"] = 2 /\ JoinRank["main"] = 3
    BY DEF JoinRank
  <1>2. CASE source = "code-10/q1"
    BY <1>1, <1>2 DEF Program, Q1Alternates
  <1>3. CASE source = "soln-7/q1"
    BY <1>1, <1>3 DEF Program, Q1Chain
  <1>4. CASE source = "code-10/q2"
    <2>1. CASE t = "main"
      BY <1>1, <1>4, <2>1 DEF Program, Q2Each, Q2Main
    <2>2. CASE t # "main"
      BY <1>4, <2>2, Q2Calls DEF Program
    <2> QED BY <2>1, <2>2
  <1>5. CASE source = "soln-7/q2"
    BY <1>1, <1>5 DEF Program, Q2Loop, Q2Main
  <1> QED BY <1>2, <1>3, <1>4, <1>5 DEF Sources

LEMMA JoinBornStep == Joins /\ JoinBorn /\ [JoinNext]_joinVars => JoinBorn'
  <1> SUFFICES ASSUME Joins, JoinBorn, [JoinNext]_joinVars PROVE JoinBorn'
    OBVIOUS
  <1> USE JoinAssumption DEF Joins, JoinFacts, JoinBorn
  <1>1. CASE UNCHANGED joinVars
    BY <1>1 DEF joinVars, lifeVars
  <1>2. ASSUME NEW t \in Threads, Creates(t) PROVE JoinBorn'
    BY <1>2 DEF Creates, Start
  <1>3. ASSUME NEW t \in Threads, BeginsJoin(t) PROVE JoinBorn'
    BY <1>3 DEF BeginsJoin, Join
  <1>4. ASSUME NEW t \in Threads, EndsJoin(t) PROVE JoinBorn'
    BY <1>4 DEF EndsJoin, JoinEnds
  <1>5. ASSUME NEW t \in Threads, Adds(t) \/ PrintsWord(t) PROVE JoinBorn'
    BY <1>5 DEF Adds, PrintsWord, lifeVars
  <1>6. ASSUME NEW t \in Threads, Returns(t) PROVE JoinBorn'
    BY <1>6 DEF Returns, End
  <1> QED BY <1>1, <1>2, <1>3, <1>4, <1>5, <1>6 DEF JoinNext

LEMMA JoinProgEnds == Joins /\ JoinBorn => JoinMoves \/ JoinDone
  <1> SUFFICES ASSUME Joins, JoinBorn, ~JoinMoves PROVE JoinDone
    OBVIOUS
  <1>1. ASSUME NEW t \in Threads, life[t] = "alive"
        PROVE  \E u \in Threads : life[u] = "alive" /\ JoinRank[u] < JoinRank[t]
    <2>1. joining[t] \in Threads /\ life[joining[t]] = "alive"
      BY <1>1 DEF Joins, JoinFacts, JoinBorn, JoinMoves
    <2>2. Pending(t) /\ Program(t)[done[t] + 1] = join(joining[t])
      BY <1>1, <2>1, JoinAssumption DEF Joins, JoinFacts, Call
    <2>3. done[t] + 1 \in 1..Len(Program(t))
      BY <2>2, ProgramsAreRight DEF Pending, Joins, JoinFacts, ProgramFacts
    <2>4. JoinRank[joining[t]] < JoinRank[t]
      BY <2>2, <2>3, JoinsEarlier DEF Joins, join
    <2> QED BY <2>1, <2>4
  <1>2. \A t \in Threads : life[t] # "alive"
    <2>1. /\ JoinRank["p0"] = 0 /\ JoinRank["p1"] = 1
          /\ JoinRank["p2"] = 2 /\ JoinRank["main"] = 3
          /\ Threads = {"main", "p0", "p1", "p2"}
      BY JoinAssumption DEF JoinRank
    <2>2. life["p0"] # "alive"
      BY <1>1, <2>1
    <2>3. life["p1"] # "alive"
      BY <1>1, <2>1, <2>2
    <2>4. life["p2"] # "alive"
      BY <1>1, <2>1, <2>2, <2>3
    <2> QED BY <1>1, <2>1, <2>2, <2>3, <2>4
  <1>3. life["main"] = "exited" /\ "main" \in Threads
    BY <1>2, JoinAssumption DEF Joins, JoinFacts, JoinBorn
  <1>4. Reached("main")
    <2>1. done["main"] = Len(Program("main")) /\ done["main"] \in Nat
      BY <1>3 DEF Joins, JoinFacts
    <2> QED BY <1>3, <2>1 DEF Reached
  <1> QED BY <1>3, <1>4, JoinOrder DEF JoinDone

\* Whoever has visits to make and is not asleep can be named as soon as somebody
\* is at the well.
LEMMA WellEnds == WellInv => WellMoves \/ WellDone
  <1> SUFFICES ASSUME WellInv, ~WellMoves, NEW y \in People, visits[y] # Visits
               PROVE  FALSE
    BY DEF WellDone
  <1>1. \A x \in People : visits[x] \in Nat /\ visits[x] <= Visits /\ Visits \in Nat
    BY WellAssumption DEF WellInv, WellTypes
  <1>2. \A x \in People : visits[x] < Visits => x \in AllWaiting(endQ)
    BY DEF WellMoves
  <1>3. \A x \in People : x \in AllWaiting(endQ) => spot[x] = "waiting"
    BY NotQueued DEF WellInv, WellTypes, QueuedWait, Waiting
  <1>4. AllWaiting(endQ) # {}
    BY <1>1, <1>2
  <1>5. \A x \in People : spot[x] # "out" => x \in AllWaiting(endQ) /\ spot[x] = "waiting"
    BY <1>2, <1>3 DEF WellInv, TickerCounts
  <1> QED BY <1>4, <1>5 DEF WellInv, NobodyForgotten, Inside, Tests

\* The rounds that a side has done; what is produced and not consumed is there.
Rounds(side) == {e \in side \X (1..Iterations) : e[2] <= round[e[1]]}

Balance == items + Cardinality(Rounds(Consumers)) = Cardinality(Rounds(Producers))

LEMMA RoundSets ==
    ASSUME NEW side, side = Producers \/ side = Consumers
    PROVE  /\ IsFiniteSet(Rounds(side)) /\ Cardinality(Rounds(side)) \in Nat
           /\ Rounds(side) \subseteq side \X (1..Iterations)
           /\ IsFiniteSet(side \X (1..Iterations))
           /\ Cardinality(side \X (1..Iterations)) = Cardinality(Producers) * Iterations
  <1> DEFINE all == side \X (1..Iterations)
  <1>1. /\ IsFiniteSet(side) /\ Cardinality(side) = Cardinality(Producers)
        /\ Iterations \in Nat /\ Cardinality(side) \in Nat
    <2>1. side \subseteq Actors
      BY DEF Actors
    <2> QED BY <2>1, ProdConsAssumption, BalancedAssumption, FS_Subset, FS_CardinalityType
  <1>2. IsFiniteSet(1..Iterations) /\ Cardinality(1..Iterations) = Iterations
    BY <1>1, FS_Interval
  <1>3. IsFiniteSet(all) /\ Cardinality(all) = Cardinality(Producers) * Iterations
    BY <1>1, <1>2, FS_Product
  <1>4. Rounds(side) \subseteq all
    BY DEF Rounds
  <1> HIDE DEF all
  <1>5. IsFiniteSet(Rounds(side)) /\ Cardinality(Rounds(side)) \in Nat
    BY <1>3, <1>4, FS_Subset, FS_CardinalityType
  <1> QED BY <1>3, <1>4, <1>5 DEF all

\* Completing a round adds it to those of the side of the thread, only.
LEMMA RoundDone ==
    ASSUME CounterTyped, NEW t \in Actors, round[t] < Iterations,
           round' = [round EXCEPT ![t] = @ + 1],
           NEW side, side = Producers \/ side = Consumers
    PROVE  Cardinality(Rounds(side)') =
             IF t \in side THEN Cardinality(Rounds(side)) + 1 ELSE Cardinality(Rounds(side))
  <1> DEFINE e == <<t, round[t] + 1>>
  <1>1. /\ round \in [Actors -> 0..Iterations] /\ Iterations \in Nat
        /\ side \subseteq Actors /\ IsFiniteSet(Rounds(side))
    BY ProdConsAssumption, RoundSets DEF CounterTyped, ItemsInBounds, Actors
  <1>2. \A u \in Actors : round'[u] = IF u = t THEN round[u] + 1 ELSE round[u]
    BY <1>1
  <1>3. CASE t \in side
    <2>1. e \notin Rounds(side)
      BY <1>1 DEF Rounds
    <2>2. Rounds(side)' = Rounds(side) \cup {e}
      <3>1. ASSUME NEW u \in side, NEW k \in 1..Iterations
            PROVE  k <= round'[u] <=> k <= round[u] \/ <<u, k>> = e
        BY <1>1, <1>2, <3>1
      <3>2. e \in side \X (1..Iterations)
        BY <1>1, <1>3
      <3> HIDE DEF e
      <3>3. \A f \in side \X (1..Iterations) :
               /\ f[1] \in side /\ f[2] \in 1..Iterations /\ f = <<f[1], f[2]>>
        OBVIOUS
      <3>4. \A f \in side \X (1..Iterations) :
               f[2] <= round'[f[1]] <=> f[2] <= round[f[1]] \/ f = e
        BY <3>1, <3>3
      <3> QED BY <3>2, <3>4 DEF Rounds
    <2> QED BY <1>1, <1>3, <2>1, <2>2, FS_AddElement
  <1>4. CASE t \notin side
    <2>1. \A f \in side \X (1..Iterations) : round'[f[1]] = round[f[1]]
      BY <1>1, <1>2, <1>4
    <2>2. Rounds(side)' = Rounds(side)
      BY <2>1 DEF Rounds
    <2> QED BY <1>4, <2>2
  <1> QED BY <1>3, <1>4

LEMMA BalanceStep == CounterInv /\ Balance /\ [ProdConsNext]_prodConsVars => Balance'
  <1> SUFFICES ASSUME CounterInv, Balance, [ProdConsNext]_prodConsVars PROVE Balance'
    OBVIOUS
  <1>1. /\ CounterTyped /\ items \in Nat
        /\ Cardinality(Rounds(Consumers)) \in Nat /\ Cardinality(Rounds(Producers)) \in Nat
    <2>1. CounterTyped /\ items \in Nat
      BY ProdConsAssumption DEF CounterInv, CounterTyped, ItemsInBounds
    <2> QED BY <2>1, RoundSets
  <1>2. ASSUME items' = items, round' = round PROVE Balance'
    BY <1>2 DEF Balance, Rounds
  <1>3. ASSUME NEW t \in Producers, Produce(t) PROVE Balance'
    <2>1. /\ t \in Actors /\ t \notin Consumers /\ round[t] < Iterations
          /\ round' = [round EXCEPT ![t] = @ + 1] /\ items' = items + 1
      BY <1>3, ProdConsAssumption DEF Produce, Tries, Change, Actors
    <2>2. Cardinality(Rounds(Producers)') = Cardinality(Rounds(Producers)) + 1
      BY <1>1, <2>1, RoundDone
    <2>3. Cardinality(Rounds(Consumers)') = Cardinality(Rounds(Consumers))
      BY <1>1, <2>1, RoundDone
    <2> QED BY <1>1, <2>1, <2>2, <2>3 DEF Balance
  <1>4. ASSUME NEW t \in Consumers, Consume(t) PROVE Balance'
    <2>1. /\ t \in Actors /\ t \notin Producers /\ round[t] < Iterations
          /\ round' = [round EXCEPT ![t] = @ + 1] /\ items' = items - 1
      BY <1>4, ProdConsAssumption DEF Consume, Tries, Change, Actors
    <2>2. Cardinality(Rounds(Producers)') = Cardinality(Rounds(Producers))
      BY <1>1, <2>1, RoundDone
    <2>3. Cardinality(Rounds(Consumers)') = Cardinality(Rounds(Consumers)) + 1
      BY <1>1, <2>1, RoundDone
    <2> QED BY <1>1, <2>1, <2>2, <2>3 DEF Balance
  <1>5. CASE UNCHANGED prodConsVars
    BY <1>2, <1>5 DEF prodConsVars
  <1>6. ASSUME NEW t, ProducerWaits(t) \/ ConsumerWaits(t) PROVE Balance'
    BY <1>2, <1>6 DEF ProducerWaits, ConsumerWaits
  <1> QED BY <1>3, <1>4, <1>5, <1>6 DEF ProdConsNext

\* If nobody is on its way, at most one side waits, the other has done all its
\* rounds, and the counter would be out of balance.
LEMMA ProdConsEnds == CounterInv /\ Balance => ProdConsMoves \/ ProdConsDone
  <1> SUFFICES ASSUME CounterInv, Balance, ~ProdConsMoves, NEW h \in Actors,
                      round[h] # Iterations
               PROVE  FALSE
    BY DEF ProdConsDone
  <1> DEFINE Full == Cardinality(Producers) * Iterations
             P == Cardinality(Rounds(Producers))
             C == Cardinality(Rounds(Consumers))
  <1>1. /\ CounterTyped /\ items \in 0..MaxItems /\ MaxItems \in Nat \ {0}
        /\ round \in [Actors -> 0..Iterations] /\ Iterations \in Nat
        /\ waitQ \in [Sides -> Seq(Actors)]
        /\ ToSet(waitQ["canAdd"]) \subseteq Producers
        /\ ToSet(waitQ["canRemove"]) \subseteq Consumers
        /\ Producers \cap Consumers = {} /\ Actors = Producers \cup Consumers
    BY ProdConsAssumption DEF CounterInv, CounterTyped, ItemsInBounds, Actors
  <1>2. Coming(Producers) = {} /\ Coming(Consumers) = {} /\ Cardinality({}) = 0
    BY FS_EmptySet DEF Coming, ProdConsMoves, Actors
  <1>3. \A t \in Actors : round[t] # Iterations =>
          \/ t \in Producers /\ t \in ToSet(waitQ["canAdd"])
          \/ t \in Consumers /\ t \in ToSet(waitQ["canRemove"])
    BY <1>1, WaitingOf DEF ProdConsMoves, Tries, Sides
  <1>4. P \in Nat /\ C \in Nat /\ Full \in Nat /\ P <= Full /\ C <= Full /\ items + C = P
    <2>1. /\ Rounds(Producers) \subseteq Producers \X (1..Iterations)
          /\ IsFiniteSet(Producers \X (1..Iterations))
          /\ Cardinality(Producers \X (1..Iterations)) = Full /\ P \in Nat
      BY RoundSets
    <2>2. /\ Rounds(Consumers) \subseteq Consumers \X (1..Iterations)
          /\ IsFiniteSet(Consumers \X (1..Iterations))
          /\ Cardinality(Consumers \X (1..Iterations)) = Full /\ C \in Nat
      BY RoundSets
    <2>3. P <= Cardinality(Producers \X (1..Iterations))
      BY <2>1, FS_Subset
    <2>4. C <= Cardinality(Consumers \X (1..Iterations))
      BY <2>2, FS_Subset
    <2>5. Full \in Nat
      BY <2>1, FS_CardinalityType
    <2> QED BY <2>1, <2>2, <2>3, <2>4, <2>5 DEF Balance
  <1>5. ASSUME NEW side, side = Producers \/ side = Consumers,
               \A t \in side : round[t] = Iterations
        PROVE  Cardinality(Rounds(side)) = Full
    <2>1. Rounds(side) = side \X (1..Iterations)
      BY <1>1, <1>5 DEF Rounds
    <2> QED BY <1>5, <2>1, RoundSets
  <1>6. ASSUME NEW side, side = Producers \/ side = Consumers, h \in side
        PROVE  Cardinality(Rounds(side)) < Full
    <2> DEFINE all == side \X (1..Iterations)
               f == <<h, Iterations>>
    <2>1. f \in all /\ f \notin Rounds(side)
      BY <1>1, <1>6 DEF Rounds
    <2>2. /\ Rounds(side) \subseteq all /\ IsFiniteSet(all) /\ Cardinality(all) = Full
          /\ Cardinality(Rounds(side)) \in Nat
      BY <1>6, RoundSets
    <2> HIDE DEF all, f
    <2>3. Rounds(side) # all
      BY <2>1
    <2>4. Cardinality(Rounds(side)) # Cardinality(all)
      BY <2>2, <2>3, FS_Subset
    <2>5. Cardinality(Rounds(side)) <= Cardinality(all)
      BY <2>2, FS_Subset
    <2> HIDE DEF Full
    <2> QED BY <1>4, <2>2, <2>4, <2>5
  <1>7. CASE h \in Producers
    <2>1. waitQ["canAdd"] # <<>>
      BY <1>1, <1>3, <1>7, EmptyQueue
    <2>2. items = MaxItems
      BY <1>1, <1>2, <2>1 DEF CounterInv, NoSignalLost
    <2>3. waitQ["canRemove"] = <<>>
      BY <1>1, <1>2, <2>2 DEF CounterInv, NoSignalLost
    <2>4. \A t \in Consumers : round[t] = Iterations
      BY <1>1, <1>3, <2>3, EmptyQueue
    <2>5. C = Full
      BY <1>5, <2>4
    <2> HIDE DEF Full, P, C
    <2> QED BY <1>1, <1>4, <2>2, <2>5
  <1>8. CASE h \in Consumers
    <2>1. waitQ["canRemove"] # <<>>
      BY <1>1, <1>3, <1>8, EmptyQueue
    <2>2. items = 0
      BY <1>1, <1>2, <2>1 DEF CounterInv, NoSignalLost
    <2>3. waitQ["canAdd"] = <<>>
      BY <1>1, <1>2, <2>2 DEF CounterInv, NoSignalLost
    <2>4. \A t \in Producers : round[t] = Iterations
      BY <1>1, <1>3, <2>3, EmptyQueue
    <2>5. P = Full /\ C < Full
      BY <1>5, <1>6, <1>8, <2>4
    <2> HIDE DEF Full, P, C
    <2> QED BY <1>4, <2>2, <2>5
  <1> QED BY <1>1, <1>7, <1>8

\* What holds of the programs together.
AllMonitorInv ==
    /\ program \in {"ProdCons", "Barrier", "CountDown", "Ordering",
                   "LoopOrdering", "JoinPrograms", "Well"}
    /\ CounterInv /\ Balance
    /\ BarrierInv /\ BarrierQueued
    /\ CountDownInv /\ LetterQueued
    /\ OrderingInv /\ OrderQueued
    /\ Joins /\ JoinBorn
    /\ WellInv

LEMMA AllMonitorInit == Init => AllMonitorInv
  <1> SUFFICES ASSUME Init PROVE AllMonitorInv
    OBVIOUS
  <1>1. CounterInv /\ BarrierInv /\ CountDownInv /\ OrderingInv /\ Joins /\ WellInv
    BY CounterInvInit, BarrierInvInit, CountDownInvInit, OrderingInvInit, JoinsInit,
       WellInvInit DEF Init
  <1>2. Balance
    <2>1. \A side : side = Producers \/ side = Consumers => Rounds(side) = {}
      BY DEF Init, ProdConsInit, Rounds, Actors
    <2>2. Rounds(Producers) = {} /\ Rounds(Consumers) = {}
      BY <2>1
    <2>3. items = 0 /\ Cardinality({}) = 0
      BY FS_EmptySet DEF Init, ProdConsInit
    <2> QED BY <2>2, <2>3 DEF Balance
  <1>3. BarrierQueued
    BY EmptyQueue DEF Init, BarrierInit, BarrierQueued
  <1>4. LetterQueued
    BY EmptyQueue DEF Init, CountDownInit, LetterQueued
  <1>5. OrderQueued
    BY DEF Init, OrderingInit, OrderQueued
  <1>6. JoinBorn
    BY JoinAssumption DEF Init, JoinInit, LifeInit, JoinBorn
  <1> QED BY <1>1, <1>2, <1>3, <1>4, <1>5, <1>6 DEF AllMonitorInv, Init

LEMMA AllMonitorStep == AllMonitorInv /\ [Next]_vars => AllMonitorInv'
  <1> SUFFICES ASSUME AllMonitorInv, [Next]_vars PROVE AllMonitorInv'
    OBVIOUS
  <1> USE DEF AllMonitorInv, Next, ProgramStep, Finished, vars
  <1>1. CounterInv' /\ Balance'
    BY CounterInvStep, BalanceStep
  <1>2. BarrierInv' /\ BarrierQueued'
    BY BarrierInvStep, BarrierQueuedStep
  <1>3. CountDownInv' /\ LetterQueued'
    BY CountDownInvStep, LetterQueuedStep
  <1>4. OrderingInv' /\ OrderQueued'
    BY OrderingInvStep, OrderQueuedStep
  <1>5. Joins' /\ JoinBorn'
    BY JoinsStep, JoinBornStep
  <1>6. WellInv'
    BY WellInvStep
  <1> QED BY <1>1, <1>2, <1>3, <1>4, <1>5, <1>6

\* No program comes to a standstill, whatever its number of threads: while one
\* of them has calls to make, one that has is not asleep.
THEOREM NoStandstillCorrect == Spec => []NoStandstill
  <1>1. AllMonitorInv => NoStandstill
    <2> SUFFICES ASSUME AllMonitorInv PROVE NoStandstill
      OBVIOUS
    <2>1. /\ ProdConsMoves \/ ProdConsDone
          /\ BarrierMoves \/ BarrierDone
          /\ CountDownMoves \/ CountDownDone
          /\ OrderingMoves \/ OrderingDone
          /\ JoinMoves \/ JoinDone
          /\ WellMoves \/ WellDone
      BY ProdConsEnds, BarrierEnds, CountDownEnds, OrderingEnds, JoinProgEnds, WellEnds
         DEF AllMonitorInv
    <2> QED BY <2>1 DEF AllMonitorInv, NoStandstill, SomebodyAwake, Done
  <1> QED BY <1>1, AllMonitorInit, AllMonitorStep, PTL DEF Spec
=============================================================================
