----------------------------- MODULE DataProofs -----------------------------
(***************************************************************************)
(* The libraries without threads, proved for every memory, every number of *)
(* objects and every order of calls: the memory of the SM213 machine keeps *)
(* words (MemoryExactCorrect), its simulators and its processor agree in   *)
(* every step of the programs (MachinesAgreeCorrect), the memory managers  *)
(* keep blocks apart and use them again (ManagersSoundCorrect), the lists, *)
(* trees, counts and queues are what was put into them                     *)
(* (LinksSoundCorrect), and the lists in arrays are sequences              *)
(* (ImplementsSequencesCorrect).                                           *)
(***************************************************************************)
EXTENDS MCData, ListProofs

-----------------------------------------------------------------------------
(* The main memory. *)

\* The test of CS213/code throws exactly where an address is invalid.
LEMMA RefusedInvalid ==
    ASSUME class = "code", NEW address \in Int
    PROVE  Refused(address) <=> ~Valid(address)
  <1>1. Refused(address) <=> address < 0 \/ address + 3 >= Capacity
    BY DEF Refused
  <1>2. address \in Span(address) /\ address + 3 \in Span(address)
    BY DEF Span
  <1>3. Valid(address) => 0 <= address /\ address + 3 <= Capacity - 1
    BY <1>2, MemoryAssumption DEF Valid
  <1>4. 0 <= address /\ address + 3 <= Capacity - 1 => Valid(address)
    BY MemoryAssumption DEF Valid, Span
  <1> QED BY <1>1, <1>3, <1>4, MemoryAssumption

WordsKept == class = "code" => WordsAreKept

LEMMA WordsKeptStep == WordsKept /\ MemoryNext => WordsKept'
  <1> SUFFICES ASSUME WordsKept, class = "code",
                      NEW address \in -1..Capacity, NEW i1 \in WordsToStore,
                      writeInteger(address, i1)
               PROVE  bytes' = expected'
    BY DEF MemoryNext, writeInteger, WordsKept, WordsAreKept
  <1>1. bytes = expected
    BY DEF WordsKept, WordsAreKept
  <1>2. address \in Int
    BY MemoryAssumption
  <1>3. CASE Valid(address)
    <2> DEFINE b == integerToBytes(i1)
    <2>1. \A a \in Span(address) : b[a - address + 1] = Byte(i1, 3 - (a - address))
      <3> SUFFICES ASSUME NEW a \in Span(address)
                   PROVE  b[a - address + 1] = Byte(i1, 3 - (a - address))
        OBVIOUS
      <3>1. a - address + 1 \in 1..4 /\ 4 - (a - address + 1) = 3 - (a - address)
        BY <1>2 DEF Span
      <3>2. b = [k \in 1..4 |-> Byte(i1, 4 - k)]
        BY DEF integerToBytes
      <3> QED BY <3>1, <3>2
    <2>2. ~Refused(address)
      BY <1>2, <1>3, RefusedInvalid
    <2>3. bytes' = [a \in DOMAIN bytes |-> IF a \in Span(address) THEN b[a - address + 1]
                                           ELSE bytes[a]]
      BY <2>2 DEF writeInteger, Written
    <2>4. expected' = [a \in DOMAIN bytes |->
                         IF a \in Span(address) THEN Byte(i1, 3 - (a - address))
                         ELSE expected[a]]
      BY <1>3 DEF writeInteger
    <2> HIDE DEF b
    <2> QED BY <1>1, <2>1, <2>3, <2>4
  <1>4. CASE ~Valid(address)
    BY <1>1, <1>2, <1>4, RefusedInvalid DEF writeInteger, Written
  <1> QED BY <1>3, <1>4

\* The memory of CS213/code holds what was stored, and reads it back.
THEOREM MemoryExactCorrect == Spec => []MemoryIsExact
  <1>1. Init => WordsKept
    BY DEF Init, MemoryInit, WordsKept, WordsAreKept
  <1>2. WordsKept /\ [Next]_vars => WordsKept'
    <2> SUFFICES ASSUME WordsKept, [Next]_vars PROVE WordsKept'
      OBVIOUS
    <2>1. MemoryNext \/ UNCHANGED memoryVars
      BY DEF Next, vars
    <2> QED BY <2>1, WordsKeptStep DEF memoryVars, WordsKept, WordsAreKept
  <1>3. WordsKept => MemoryIsExact
    <2> SUFFICES ASSUME bytes = expected, NEW address \in 0..Capacity - 4
                 PROVE  Valid(address)
      BY DEF WordsKept, MemoryIsExact, WordsAreKept, readInteger
    <2> QED BY MemoryAssumption DEF Valid, Span
  <1> QED BY <1>1, <1>2, <1>3, PTL DEF Spec
-----------------------------------------------------------------------------
(* The queues of threads. *)

LinkTypes ==
    /\ first \in [Queues -> Tcbs \cup {NoTcb}]
    /\ last \in [Queues -> Tcbs \cup {NoTcb}]
    /\ link \in [Tcbs -> Tcbs \cup {NoTcb}]
    /\ contents \in [Queues -> Seq(Tcbs)]

\* A thread is in one queue, once.
InOneQueue ==
    /\ \A q \in Queues : IsInjective(contents[q])
    /\ \A q, r \in Queues :
         q # r => ToSet(contents[q]) \cap ToSet(contents[r]) = {}

\* What the guard of code-9 relies on: a thread that is in no queue has no link.
LinksCleared ==
    guarded => \A t \in Tcbs : Nowhere(t) => link[t] = NoTcb

LinksInv == LinkTypes /\ InOneQueue /\ LinksCleared /\ QueuesAreLinked

\* The elements of a sequence, by their positions.
LEMMA Positioned ==
    ASSUME NEW S, NEW s \in Seq(S)
    PROVE  /\ Len(s) \in Nat
           /\ \A k \in 1..Len(s) : s[k] \in S /\ s[k] \in ToSet(s)
           /\ \A x \in ToSet(s) : \E k \in 1..Len(s) : s[k] = x
           /\ s # <<>> <=> Len(s) >= 1
           /\ IsInjective(s) =>
                \A j, k \in 1..Len(s) : s[j] = s[k] => j = k
  <1>1. DOMAIN s = 1..Len(s) /\ Len(s) \in Nat /\ \A k \in 1..Len(s) : s[k] \in S
    BY LenProperties, ElementOfSeq
  <1>2. s # <<>> <=> Len(s) >= 1
    BY <1>1, EmptySeq
  <1> QED BY <1>1, <1>2 DEF ToSet, IsInjective

\* Head and tail are null together, when the queue is empty.
LEMMA LastOfQueue ==
    ASSUME LinksInv, NEW q \in Queues
    PROVE  /\ contents[q] = <<>> <=> last[q] = NoTcb
           /\ contents[q] = <<>> <=> first[q] = NoTcb
           /\ contents[q] # <<>> =>
                /\ first[q] \in ToSet(contents[q])
                /\ last[q] \in ToSet(contents[q])
  <1> DEFINE s == contents[q]
  <1>1. s \in Seq(Tcbs)
    BY DEF LinksInv, LinkTypes
  <1>2. IF s = <<>> THEN first[q] = NoTcb /\ last[q] = NoTcb
                    ELSE first[q] = s[1] /\ last[q] = s[Len(s)]
    BY DEF LinksInv, QueuesAreLinked, Agrees
  <1> HIDE DEF s
  <1>3. s # <<>> => /\ s[1] \in Tcbs /\ s[1] \in ToSet(s)
                    /\ s[Len(s)] \in Tcbs /\ s[Len(s)] \in ToSet(s)
    BY <1>1, Positioned
  <1> QED BY <1>2, <1>3, LinkAssumption DEF s

\* The guard of code-9 lets every thread pass that is in no queue.
LEMMA GuardLetsPass ==
    ASSUME LinksInv, NEW q \in Queues, NEW t \in Tcbs, Nowhere(t)
    PROVE  ~SeemsEnqueued(q, t)
  BY LastOfQueue, LinkAssumption DEF LinksInv, LinksCleared, SeemsEnqueued, Nowhere

LEMMA EnqueueLinks ==
    ASSUME LinksInv, NEW q \in Queues, NEW t \in Tcbs, uthread_enqueue(q, t)
    PROVE  LinksInv'
  <1> DEFINE s == contents[q]
             z == last[q]
  <1>0. /\ s \in Seq(Tcbs) /\ IsInjective(s) /\ t \notin ToSet(s)
        /\ Append(s, t) \in Seq(Tcbs)
        /\ ToSet(Append(s, t)) = ToSet(s) \cup {t} /\ IsInjective(Append(s, t))
    BY AppendQueue DEF LinksInv, LinkTypes, InOneQueue, uthread_enqueue, Nowhere
  <1>1. /\ contents' = [contents EXCEPT ![q] = Append(s, t)]
        /\ last' = [last EXCEPT ![q] = t]
        /\ first' = [first EXCEPT ![q] = IF first[q] = NoTcb THEN t ELSE first[q]]
        /\ link' = IF z = NoTcb THEN [link EXCEPT ![t] = NoTcb]
                   ELSE [[link EXCEPT ![t] = NoTcb] EXCEPT ![z] = t]
        /\ guarded' = guarded
    BY GuardLetsPass DEF uthread_enqueue, Linked
  <1>2. /\ contents' \in [Queues -> Seq(Tcbs)]
        /\ contents'[q] = Append(s, t)
        /\ \A r \in Queues \ {q} : contents'[r] = contents[r]
    BY <1>0, <1>1 DEF LinksInv, LinkTypes
  <1>3. /\ z \in Tcbs \cup {NoTcb}
        /\ s = <<>> <=> z = NoTcb
        /\ z # NoTcb => z \in ToSet(s) /\ z # t /\ z \in Tcbs
    BY <1>0, LastOfQueue DEF LinksInv, LinkTypes
  <1>4. /\ link' \in [Tcbs -> Tcbs \cup {NoTcb}]
        /\ link'[t] = NoTcb
        /\ z # NoTcb => link'[z] = t
        /\ \A u \in Tcbs \ {t, z} : link'[u] = link[u]
    BY <1>1, <1>3 DEF LinksInv, LinkTypes
  <1> HIDE DEF s, z
  <1>5. LinkTypes'
    BY <1>1, <1>2, <1>4 DEF LinksInv, LinkTypes
  <1>6. InOneQueue'
    <2>1. \A r \in Queues \ {q} : t \notin ToSet(contents[r])
      BY DEF uthread_enqueue, Nowhere
    <2>2. ASSUME NEW r \in Queues PROVE IsInjective(contents'[r])
      BY <1>0, <1>2 DEF LinksInv, InOneQueue
    <2>3. \A r \in Queues \ {q} : ToSet(contents'[r]) \cap (ToSet(s) \cup {t}) = {}
      BY <1>2, <2>1 DEF LinksInv, InOneQueue, s
    <2>4. ASSUME NEW r \in Queues, NEW u \in Queues, r # u
          PROVE  ToSet(contents'[r]) \cap ToSet(contents'[u]) = {}
      <3>1. CASE r = q \/ u = q
        BY <1>0, <1>2, <2>3, <2>4, <3>1
      <3>2. CASE r # q /\ u # q
        BY <1>2, <2>4, <3>2 DEF LinksInv, InOneQueue
      <3> QED BY <3>1, <3>2
    <2> QED BY <2>2, <2>4 DEF InOneQueue
  <1>7. LinksCleared'
    <2> SUFFICES ASSUME guarded, NEW u \in Tcbs, Nowhere(u)' PROVE link'[u] = NoTcb
      BY <1>1 DEF LinksCleared
    <2>1. \A r \in Queues : u \notin ToSet(contents'[r])
      BY DEF Nowhere
    <2>2. u # t /\ u \notin ToSet(s) /\ \A r \in Queues \ {q} : u \notin ToSet(contents[r])
      BY <1>0, <1>2, <2>1
    <2>3. \A r \in Queues : u \notin ToSet(contents[r])
      BY <2>2 DEF s
    <2>4. Nowhere(u)
      BY <2>3 DEF Nowhere
    <2> QED BY <1>3, <1>4, <2>2, <2>4, LinkAssumption DEF LinksInv, LinksCleared
  <1>8. ASSUME NEW r \in Queues PROVE Agrees(r)'
    <2>1. CASE r # q
      <3> DEFINE w == contents[r]
      <3>1. w \in Seq(Tcbs) /\ t \notin ToSet(w) /\ (z # NoTcb => z \notin ToSet(w))
        BY <1>3, <2>1 DEF LinksInv, LinkTypes, InOneQueue, uthread_enqueue, Nowhere, s
      <3>2. contents'[r] = w /\ first'[r] = first[r] /\ last'[r] = last[r]
        BY <1>1, <1>2, <2>1 DEF LinksInv, LinkTypes
      <3>3. Len(w) \in Nat /\ \A k \in 1..Len(w) : w[k] \in Tcbs /\ w[k] \in ToSet(w)
        BY <3>1, Positioned
      <3>4. IF w = <<>> THEN first[r] = NoTcb /\ last[r] = NoTcb
            ELSE /\ first[r] = w[1] /\ last[r] = w[Len(w)] /\ link[w[Len(w)]] = NoTcb
                 /\ \A k \in 1..Len(w) - 1 : link[w[k]] = w[k + 1]
        BY DEF LinksInv, QueuesAreLinked, Agrees
      <3>5. w # <<>> => Len(w) >= 1
        BY <3>1, Positioned
      <3> HIDE DEF w
      <3>6. \A k \in 1..Len(w) : link'[w[k]] = link[w[k]]
        BY <1>4, <3>1, <3>3, LinkAssumption
      <3>7. w # <<>> => link'[w[Len(w)]] = NoTcb
        BY <3>3, <3>4, <3>5, <3>6
      <3>8. w # <<>> => \A k \in 1..Len(w) - 1 : link'[w[k]] = w[k + 1]
        BY <3>3, <3>4, <3>6
      <3>9. IF w = <<>> THEN first'[r] = NoTcb /\ last'[r] = NoTcb
            ELSE /\ first'[r] = w[1] /\ last'[r] = w[Len(w)] /\ link'[w[Len(w)]] = NoTcb
                 /\ \A k \in 1..Len(w) - 1 : link'[w[k]] = w[k + 1]
        BY <3>2, <3>4, <3>7, <3>8
      <3> QED BY <3>2, <3>9 DEF Agrees
    <2>2. CASE r = q
      <3> DEFINE w == Append(s, t)
      <3>1. w # <<>> /\ Len(w) = Len(s) + 1 /\ Len(s) \in Nat /\ w[Len(s) + 1] = t
            /\ \A k \in 1..Len(s) : w[k] = s[k]
        BY <1>0, AppendQueue, Positioned
      <3>2. Len(s) \in Nat /\ \A j, k \in 1..Len(s) : s[j] = s[k] => j = k
        BY <1>0, Positioned
      <3>3. \A k \in 1..Len(s) : s[k] \in Tcbs /\ s[k] # t
        BY <1>0, Positioned
      <3>4. s # <<>> => /\ Len(s) >= 1
                        /\ first[q] = s[1] /\ z = s[Len(s)]
                        /\ \A k \in 1..Len(s) - 1 : link[s[k]] = s[k + 1]
        BY <1>0, Positioned DEF LinksInv, QueuesAreLinked, Agrees, s, z
      <3>5. s = <<>> => Len(s) = 0 /\ first[q] = NoTcb
        BY EmptySeq DEF LinksInv, QueuesAreLinked, Agrees, s
      <3> HIDE DEF w
      <3>6. first'[q] = w[1]
        <4>1. first'[q] = IF first[q] = NoTcb THEN t ELSE first[q]
          BY <1>1 DEF LinksInv, LinkTypes
        <4>2. CASE s = <<>>
          BY <3>1, <3>5, <4>1, <4>2
        <4>3. CASE s # <<>>
          <5>1. w[1] = s[1] /\ s[1] \in Tcbs
            BY <3>1, <3>3, <3>4, <4>3
          <5> QED BY <3>4, <4>1, <4>3, <5>1, LinkAssumption
        <4> QED BY <4>2, <4>3
      <3>7. last'[q] = w[Len(w)] /\ link'[w[Len(w)]] = NoTcb
        BY <1>1, <1>4, <3>1 DEF LinksInv, LinkTypes
      <3>8. ASSUME NEW k \in 1..Len(w) - 1 PROVE link'[w[k]] = w[k + 1]
        <4>1. k \in 1..Len(s) /\ w[k] = s[k] /\ s # <<>>
          BY <3>1, <3>5
        <4>2. CASE k = Len(s)
          <5>1. s[k] = z /\ w[k + 1] = t /\ z # NoTcb
            BY <1>3, <3>1, <3>4, <4>1, <4>2
          <5> QED BY <1>4, <4>1, <5>1
        <4>3. CASE k # Len(s)
          <5>1. k \in 1..Len(s) - 1 /\ k + 1 \in 1..Len(s) /\ Len(s) \in 1..Len(s)
            BY <3>2, <4>1, <4>3
          <5>2. w[k + 1] = s[k + 1] /\ link[s[k]] = s[k + 1]
            BY <3>1, <3>4, <4>1, <5>1
          <5>3. s[k] # z /\ s[k] \in Tcbs /\ s[k] # t
            BY <3>2, <3>3, <3>4, <4>1, <4>3, <5>1
          <5>4. link'[s[k]] = link[s[k]]
            BY <1>4, <5>3
          <5> QED BY <4>1, <5>2, <5>4
        <4> QED BY <4>2, <4>3
      <3> QED BY <1>2, <2>2, <3>1, <3>6, <3>7, <3>8 DEF Agrees, w
    <2> QED BY <2>1, <2>2
  <1> QED BY <1>5, <1>6, <1>7, <1>8 DEF LinksInv, QueuesAreLinked

LEMMA DequeueLinks ==
    ASSUME LinksInv, NEW q \in Queues, uthread_dequeue(q)
    PROVE  LinksInv'
  <1> DEFINE s == contents[q]
             h == first[q]
             w == Tail(s)
  <1>0. /\ s \in Seq(Tcbs) /\ s # <<>> /\ IsInjective(s)
        /\ s[1] = h /\ h \in Tcbs /\ last[q] = s[Len(s)]
        /\ link[s[Len(s)]] = NoTcb
        /\ \A k \in 1..Len(s) - 1 : link[s[k]] = s[k + 1]
    <2>1. s \in Seq(Tcbs) /\ s # <<>> /\ IsInjective(s)
      BY LastOfQueue DEF LinksInv, LinkTypes, InOneQueue, uthread_dequeue
    <2>2. s[1] = h /\ last[q] = s[Len(s)] /\ link[s[Len(s)]] = NoTcb
      BY <2>1 DEF LinksInv, QueuesAreLinked, Agrees
    <2>3. \A k \in 1..Len(s) - 1 : link[s[k]] = s[k + 1]
      BY <2>1 DEF LinksInv, QueuesAreLinked, Agrees
    <2>4. s[1] \in Tcbs
      BY <2>1, Positioned
    <2> QED BY <2>1, <2>2, <2>3, <2>4
  <1>1. /\ contents' = [contents EXCEPT ![q] = w]
        /\ first' = [first EXCEPT ![q] = link[h]]
        /\ last' = [last EXCEPT ![q] = IF link[h] = NoTcb THEN NoTcb ELSE last[q]]
        /\ link' = IF guarded THEN [link EXCEPT ![h] = NoTcb] ELSE link
        /\ guarded' = guarded
    BY DEF uthread_dequeue, LinksInv, LinkTypes
  <1>2. /\ w \in Seq(Tcbs) /\ Len(w) = Len(s) - 1 /\ Len(s) \in Nat \ {0}
        /\ \A k \in 1..Len(w) : w[k] = s[k + 1]
    BY <1>0, TailQueue, HeadTailProperties
  <1>3. /\ Head(s) = h
        /\ ToSet(s) = ToSet(w) \cup {h} /\ IsInjective(w) /\ h \notin ToSet(w)
    BY <1>0, <1>2, TailQueue
  <1>4. /\ contents' \in [Queues -> Seq(Tcbs)]
        /\ contents'[q] = w
        /\ \A r \in Queues \ {q} : contents'[r] = contents[r]
    BY <1>1, <1>2 DEF LinksInv, LinkTypes
  <1>5. /\ link' \in [Tcbs -> Tcbs \cup {NoTcb}]
        /\ guarded => link'[h] = NoTcb
        /\ \A u \in Tcbs \ {h} : link'[u] = link[u]
    BY <1>0, <1>1 DEF LinksInv, LinkTypes
  <1>6. link[h] \in Tcbs \cup {NoTcb}
    BY <1>0 DEF LinksInv, LinkTypes
  <1> HIDE DEF s, h, w
  <1>7. LinkTypes'
    BY <1>1, <1>4, <1>5, <1>6 DEF LinksInv, LinkTypes
  <1>8. InOneQueue'
    <2>2. ASSUME NEW r \in Queues PROVE IsInjective(contents'[r])
      BY <1>3, <1>4 DEF LinksInv, InOneQueue
    <2>3. \A r \in Queues : ToSet(contents'[r]) \subseteq ToSet(contents[r])
      BY <1>3, <1>4 DEF s
    <2>4. ASSUME NEW r \in Queues, NEW u \in Queues, r # u
          PROVE  ToSet(contents'[r]) \cap ToSet(contents'[u]) = {}
      BY <2>3, <2>4 DEF LinksInv, InOneQueue
    <2> QED BY <2>2, <2>4 DEF InOneQueue
  <1>9. LinksCleared'
    <2> SUFFICES ASSUME guarded, NEW u \in Tcbs, Nowhere(u)', u # h
                 PROVE  link'[u] = NoTcb
      BY <1>1, <1>5 DEF LinksCleared
    <2>1. \A r \in Queues : u \notin ToSet(contents'[r])
      BY DEF Nowhere
    <2>2. \A r \in Queues : u \notin ToSet(contents[r])
      BY <1>3, <1>4, <2>1 DEF s
    <2>3. Nowhere(u)
      BY <2>2 DEF Nowhere
    <2> QED BY <1>5, <2>3 DEF LinksInv, LinksCleared
  <1>10. ASSUME NEW r \in Queues PROVE Agrees(r)'
    <2>1. CASE r # q
      <3> DEFINE v == contents[r]
      <3>1. v \in Seq(Tcbs) /\ h \notin ToSet(v)
        BY <1>3, <2>1 DEF LinksInv, LinkTypes, InOneQueue, s
      <3>2. contents'[r] = v /\ first'[r] = first[r] /\ last'[r] = last[r]
        BY <1>1, <1>4, <2>1 DEF LinksInv, LinkTypes
      <3>3. Len(v) \in Nat /\ \A k \in 1..Len(v) : v[k] \in Tcbs /\ v[k] \in ToSet(v)
        BY <3>1, Positioned
      <3>4. IF v = <<>> THEN first[r] = NoTcb /\ last[r] = NoTcb
            ELSE /\ first[r] = v[1] /\ last[r] = v[Len(v)] /\ link[v[Len(v)]] = NoTcb
                 /\ \A k \in 1..Len(v) - 1 : link[v[k]] = v[k + 1]
        BY DEF LinksInv, QueuesAreLinked, Agrees
      <3>5. v # <<>> => Len(v) >= 1
        BY <3>1, Positioned
      <3> HIDE DEF v
      <3>6. \A k \in 1..Len(v) : link'[v[k]] = link[v[k]]
        BY <1>5, <3>1, <3>3
      <3>7. v # <<>> => link'[v[Len(v)]] = NoTcb
        BY <3>3, <3>4, <3>5, <3>6
      <3>8. v # <<>> => \A k \in 1..Len(v) - 1 : link'[v[k]] = v[k + 1]
        BY <3>3, <3>4, <3>6
      <3>9. IF v = <<>> THEN first'[r] = NoTcb /\ last'[r] = NoTcb
            ELSE /\ first'[r] = v[1] /\ last'[r] = v[Len(v)] /\ link'[v[Len(v)]] = NoTcb
                 /\ \A k \in 1..Len(v) - 1 : link'[v[k]] = v[k + 1]
        BY <3>2, <3>4, <3>7, <3>8
      <3> QED BY <3>2, <3>9 DEF Agrees
    <2>2. CASE r = q
      <3>1. first'[q] = link[h] /\ last'[q] = IF link[h] = NoTcb THEN NoTcb ELSE last[q]
        BY <1>1 DEF LinksInv, LinkTypes
      <3>2. \A k \in 1..Len(s) : s[k] \in Tcbs
        BY <1>0, Positioned
      <3>3. CASE w = <<>>
        <4>1. Len(w) = 0
          BY <3>3, EmptySeq
        <4>0. Len(s) = 1
          BY <1>2, <4>1
        <4>2. link[h] = NoTcb
          BY <1>0, <4>0
        <4> QED BY <1>4, <2>2, <3>1, <3>3, <4>2 DEF Agrees
      <3>4. CASE w # <<>>
        <4>1. Len(w) \in Nat /\ Len(w) >= 1
          BY <1>2, <3>4, Positioned
        <4>2. link[h] = s[2] /\ s[2] \in Tcbs /\ w[1] = s[2]
          BY <1>0, <1>2, <3>2, <4>1
        <4>3. first'[q] = w[1] /\ last'[q] = last[q]
          BY <3>1, <4>2, LinkAssumption
        <4>4. last[q] = w[Len(w)]
          BY <1>0, <1>2, <4>1
        <4>5. \A k \in 1..Len(w) : w[k] \in Tcbs \ {h}
          BY <1>2, <1>3, Positioned
        <4>6. link'[w[Len(w)]] = NoTcb
          <5>1. link[w[Len(w)]] = NoTcb
            BY <1>0, <1>2, <4>1
          <5>2. Len(w) \in 1..Len(w)
            BY <4>1
          <5> QED BY <1>5, <4>5, <5>1, <5>2
        <4>7. ASSUME NEW k \in 1..Len(w) - 1 PROVE link'[w[k]] = w[k + 1]
          <5>1. k \in 1..Len(w) /\ k + 1 \in 1..Len(w) /\ k + 1 \in 1..Len(s) - 1
            BY <1>2, <4>1
          <5>2. w[k] = s[k + 1] /\ w[k + 1] = s[(k + 1) + 1]
            BY <1>2, <5>1
          <5>3. link[w[k]] = w[k + 1]
            BY <1>0, <5>1, <5>2
          <5> QED BY <1>5, <4>5, <5>1, <5>3
        <4> QED BY <1>4, <2>2, <3>4, <4>3, <4>4, <4>6, <4>7 DEF Agrees
      <3> QED BY <3>3, <3>4
    <2> QED BY <2>1, <2>2
  <1> QED BY <1>7, <1>8, <1>9, <1>10 DEF LinksInv, QueuesAreLinked

LEMMA LinksInitially == LinkInit => LinksInv
  BY EmptyQueue DEF LinkInit, LinksInv, LinkTypes, InOneQueue, LinksCleared,
                    QueuesAreLinked, Agrees

LEMMA LinksStep ==
    ASSUME LinksInv, LinkNext \/ UNCHANGED linkVars PROVE LinksInv'
  <1>1. CASE LinkNext
    BY <1>1, EnqueueLinks, DequeueLinks DEF LinkNext
  <1>2. CASE UNCHANGED linkVars
    BY <1>2 DEF linkVars, LinksInv, LinkTypes, InOneQueue, LinksCleared, Nowhere,
                QueuesAreLinked, Agrees
  <1> QED BY <1>1, <1>2
-----------------------------------------------------------------------------
(* The memory managers. *)

\* No request is within 24 bytes of the largest int, the most that rounding up
\* and the metadata add.
RequestsFit == \A request \in Requests : request + 24 <= IntMax

HeapTypes ==
    /\ build \in Builds
    /\ top \in Nat /\ top % 8 = 0
    /\ Blocks \subseteq Nat /\ \A a \in Blocks : blockSize[a] \in Nat
    /\ freeList \in Seq(Blocks)
    /\ held \in [Buckets -> Blocks \cup {NULL}]
    /\ asked \in [Buckets -> Nat]

\* The skeleton keeps no free block; the others never make an empty one, so that
\* a block's offset is its own.
BlocksAreMade ==
    /\ build = "skeleton" => freeList = <<>>
    /\ build # "skeleton" => \A a \in Blocks : blockSize[a] > 0

HeapInv == HeapTypes /\ BlocksAreMade /\ BlocksApart /\ BlockIsBigEnough /\ ReuseBounds

LEMMA NeededSize ==
    ASSUME build \in Builds, NEW request \in Nat, request + 24 <= IntMax
    PROVE  /\ Needed(request) \in Nat
           /\ Needed(request) % 8 = 0
           /\ Needed(request) >= request + Metadata
           /\ build # "skeleton" => Needed(request) > 0
           /\ Metadata \in Nat
  <1> DEFINE size == IF request = 0 /\ build # "skeleton" THEN 1 ELSE request
             m == InEights(size + 7)
  <1>1. Metadata \in {0, 8, 16} /\ IntMax \in Nat
    BY HeapAssumption DEF Metadata, Builds
  <1>2. /\ size \in Nat /\ size >= request /\ size + 7 \in 0..IntMax
        /\ size + 23 <= IntMax /\ (build # "skeleton" => size >= 1)
    BY <1>1
  <1>3. \A n \in 0..IntMax : Wrapped(n) = n
    <2> SUFFICES ASSUME NEW n \in 0..IntMax PROVE Wrapped(n) = n
      OBVIOUS
    <2>1. n + IntMax + 1 \in 0..2 * (IntMax + 1) - 1 /\ 2 * (IntMax + 1) \in Nat
      BY <1>1
    <2>2. (n + IntMax + 1) % (2 * (IntMax + 1)) = n + IntMax + 1
      BY <2>1
    <2> QED BY <1>1, <2>2 DEF Wrapped
  <1> HIDE DEF size
  <1>4. m \in Nat /\ m % 8 = 0 /\ m >= size /\ m <= size + 7 /\ (size >= 1 => m > 0)
    BY <1>2 DEF InEights
  <1> HIDE DEF m
  <1>5. m + Metadata \in 0..IntMax /\ (m + Metadata) % 8 = 0
    BY <1>1, <1>2, <1>4
  <1>6. Needed(request) = Wrapped(InEights(Wrapped(size + 7)) + Metadata)
    BY DEF Needed, size
  <1>7. Wrapped(size + 7) = size + 7
    BY <1>2, <1>3
  <1>8. Needed(request) = m + Metadata
    BY <1>3, <1>5, <1>6, <1>7 DEF m
  <1> QED BY <1>1, <1>2, <1>4, <1>5, <1>8

\* Both searches end at a block that is large enough, if there is one.
LEMMA FitFits ==
    ASSUME HeapTypes, NEW n \in Nat, Fitting(n) # {}
    PROVE  Fit(n) \in Fitting(n)
  <1> DEFINE F == Fitting(n)
             S(k) == blockSize[freeList[k]]
  <1>1. F \in SUBSET Nat /\ \A k \in F : S(k) \in Nat
    <2>1. DOMAIN freeList = 1..Len(freeList) /\ Len(freeList) \in Nat
          /\ \A k \in 1..Len(freeList) : freeList[k] \in Blocks
      BY LenProperties, ElementOfSeq DEF HeapTypes
    <2>2. ASSUME NEW k \in 1..Len(freeList) PROVE k \in Nat /\ S(k) \in Nat
      <3>1. freeList[k] \in Blocks
        BY <2>1
      <3>2. blockSize[freeList[k]] \in Nat
        BY <3>1 DEF HeapTypes
      <3> QED BY <2>1, <3>2
    <2>3. F \subseteq 1..Len(freeList)
      BY <2>1 DEF Fitting
    <2> HIDE DEF F, S
    <2> QED BY <2>2, <2>3
  <1>2. FirstFit(n) \in F
    BY <1>1, MinIsLeast DEF FirstFit
  <1>3. BestFit(n) \in F
    <2> HIDE DEF F
    <2> DEFINE T == {S(k) : k \in F}
    <2>1. T \in SUBSET Nat /\ T # {}
      BY <1>1 DEF F
    <2> HIDE DEF T
    <2>2. PICK s \in T : \A u \in T : s <= u
      BY <2>1, LeastExists
    <2> DEFINE P == {k \in F : S(k) = s}
    <2>3. P \in SUBSET Nat /\ P # {}
      BY <1>1 DEF T
    <2> HIDE DEF P
    <2>4. PICK p \in P : \A k \in P : p <= k
      BY <2>3, LeastExists
    <2> HIDE DEF S
    <2>5. p \in F /\ S(p) = s /\ \A k \in F : s <= S(k) /\ (S(k) = s => p <= k)
      BY <2>2, <2>4 DEF P, T
    <2>6. \A k \in F : S(p) < S(k) \/ (S(p) = S(k) /\ p <= k)
      BY <1>1, <2>5
    <2>7. \E k \in F : \A j \in F : S(k) < S(j) \/ (S(k) = S(j) /\ k <= j)
      BY <2>5, <2>6
    <2>8. BestFit(n) = CHOOSE k \in F : \A j \in F : S(k) < S(j) \/ (S(k) = S(j) /\ k <= j)
      BY DEF BestFit, F, S
    <2> QED BY <2>7, <2>8
  <1> QED BY <1>2, <1>3 DEF Fit

LEMMA FittingFree ==
    ASSUME HeapTypes, NEW n \in Nat
    PROVE  /\ \A k \in Fitting(n) : /\ k \in 1..Len(freeList)
                                    /\ freeList[k] \in ToSet(freeList)
                                    /\ freeList[k] \in Blocks
                                    /\ n <= blockSize[freeList[k]]
           /\ Fitting(n) = {} => \A a \in ToSet(freeList) : blockSize[a] < n
  <1>1. DOMAIN freeList = 1..Len(freeList) /\ Len(freeList) \in Nat
        /\ \A k \in 1..Len(freeList) : freeList[k] \in Blocks
    BY LenProperties, ElementOfSeq DEF HeapTypes
  <1>2. \A k \in 1..Len(freeList) : blockSize[freeList[k]] \in Nat
    BY <1>1 DEF HeapTypes
  <1>3. ASSUME Fitting(n) = {}, NEW a \in ToSet(freeList) PROVE blockSize[a] < n
    <2>1. PICK k \in 1..Len(freeList) : freeList[k] = a
      BY <1>1 DEF ToSet
    <2>2. ~(n <= blockSize[freeList[k]])
      BY <1>1, <1>3 DEF Fitting
    <2> QED BY <1>2, <2>1, <2>2
  <1> QED BY <1>1, <1>3 DEF Fitting, ToSet

\* A free block is given to pointer b.
LEMMA ReuseKeeps ==
    ASSUME HeapInv, NEW b \in Buckets, NEW request \in Nat, request + 24 <= IntMax,
           mymalloc(b, request), Reuse(b, Needed(request))
    PROVE  HeapInv'
  <1> DEFINE n == Needed(request)
             k == Fit(n)
             a == freeList[k]
  <1>1. n \in Nat /\ n >= request + Metadata /\ Metadata \in Nat
    BY NeededSize DEF HeapInv, HeapTypes
  <1>2. k \in Fitting(n)
    BY <1>1, FitFits DEF Reuse, HeapInv
  <1>3. /\ k \in 1..Len(freeList) /\ a \in ToSet(freeList) /\ a \in Blocks
        /\ n <= blockSize[a]
    BY <1>1, <1>2, FittingFree DEF HeapInv
  <1>4. /\ held[b] = NULL /\ held' = [held EXCEPT ![b] = a]
        /\ asked' = [asked EXCEPT ![b] = request]
        /\ freeList' = RemoveAt(freeList, k)
        /\ top' = top /\ blockSize' = blockSize /\ build' = build
    BY DEF mymalloc, Reuse
  <1> HIDE DEF n, k, a
  <1>5. build # "skeleton"
    BY <1>3, EmptyQueue DEF HeapInv, BlocksAreMade
  <1>6. freeList \in Seq(Blocks) /\ IsInjective(freeList)
    BY <1>5 DEF HeapInv, HeapTypes, BlocksApart
  <1>7. /\ freeList' \in Seq(Blocks) /\ IsInjective(freeList')
        /\ ToSet(freeList') = ToSet(freeList) \ {a}
    BY <1>3, <1>4, <1>6, RemoveFromQueue DEF a
  <1>8. a # NULL /\ \A c \in Buckets : held[c] # a
    <2>1. a \notin Live
      BY <1>3, <1>5 DEF HeapInv, BlocksApart
    <2>2. a # NULL
      BY <1>3, HeapAssumption DEF HeapInv, HeapTypes
    <2> QED BY <2>1, <2>2 DEF Live
  <1>9. /\ held'[b] = a /\ asked'[b] = request
        /\ \A c \in Buckets \ {b} : held'[c] = held[c] /\ asked'[c] = asked[c]
        /\ held' \in [Buckets -> Blocks \cup {NULL}] /\ asked' \in [Buckets -> Nat]
    BY <1>3, <1>4 DEF HeapInv, HeapTypes
  <1>10. Live' = Live \cup {a}
    BY <1>4, <1>8, <1>9 DEF Live
  <1>11. HeapTypes'
    BY <1>4, <1>7, <1>9 DEF HeapInv, HeapTypes, Blocks
  <1>12. BlocksApart'
    <2>1. /\ top' <= HeapSize
          /\ \A d \in Blocks' : d % 8 = 0 /\ d >= 0 /\ d + blockSize'[d] <= top'
          /\ \A d, c \in Blocks' : d < c => d + blockSize'[d] <= c
      BY <1>4 DEF HeapInv, BlocksApart, Blocks
    <2>2. ToSet(freeList') \cup Live' = Blocks' /\ ToSet(freeList') \cap Live' = {}
      <3>1. ToSet(freeList) \cup Live = Blocks /\ ToSet(freeList) \cap Live = {}
        BY <1>5 DEF HeapInv, BlocksApart
      <3>2. Blocks' = Blocks
        BY <1>4 DEF Blocks
      <3> QED BY <1>3, <1>7, <1>10, <3>1, <3>2
    <2>3. \A c, d \in Buckets : held'[c] = held'[d] /\ held'[c] # NULL => c = d
      <3>1. \A c, d \in Buckets : held[c] = held[d] /\ held[c] # NULL => c = d
        BY <1>5 DEF HeapInv, BlocksApart
      <3> QED BY <1>8, <1>9, <3>1
    <2> QED BY <1>7, <2>1, <2>2, <2>3 DEF BlocksApart
  <1>13. BlockIsBigEnough'
    <2> SUFFICES ASSUME NEW c \in Buckets, held'[c] # NULL
                 PROVE  asked'[c] + Metadata <= blockSize[held'[c]]
      BY <1>4 DEF BlockIsBigEnough, Metadata
    <2>1. CASE c = b
      <3>1. blockSize[a] \in Nat
        BY <1>3 DEF HeapInv, HeapTypes
      <3> QED BY <1>1, <1>3, <1>9, <2>1, <3>1
    <2>2. CASE c # b
      BY <1>9, <2>2 DEF HeapInv, BlockIsBigEnough
    <2> QED BY <2>1, <2>2
  <1>14. ReuseBounds' /\ BlocksAreMade'
    BY <1>4, <1>5 DEF HeapInv, ReuseBounds, BlocksAreMade, Blocks
  <1> QED BY <1>11, <1>12, <1>13, <1>14 DEF HeapInv

\* No more blocks are live than there are pointers.
LEMMA LiveBound ==
    ASSUME NEW h, NEW X \in SUBSET {h[c] : c \in Buckets}
    PROVE  Cardinality(X) <= Cardinality(Buckets)
  <1> DEFINE f == [a \in X |-> CHOOSE c \in Buckets : h[c] = a]
  <1>1. \A a \in X : f[a] \in Buckets /\ h[f[a]] = a
    OBVIOUS
  <1> HIDE DEF f
  <1>2. f \in [X -> Buckets]
    BY <1>1 DEF f
  <1>3. IsInjective(f)
    BY <1>1, <1>2 DEF IsInjective
  <1>4. f \in Injection(X, Buckets)
    BY <1>2, <1>3 DEF Injection
  <1> QED BY <1>4, FS_Injection, HeapTestsAssumption

\* A new block is made for pointer b.
LEMMA ExtendKeeps ==
    ASSUME HeapInv, NEW b \in Buckets, NEW request \in Nat, request + 24 <= IntMax,
           mymalloc(b, request), Extend(b, Needed(request))
    PROVE  HeapInv'
  <1> DEFINE n == Needed(request)
  <1>1. /\ n \in Nat /\ n % 8 = 0 /\ n >= request + Metadata /\ Metadata \in Nat
        /\ build # "skeleton" => n > 0
    BY NeededSize DEF HeapInv, HeapTypes
  <1>2. /\ held[b] = NULL /\ held' = [held EXCEPT ![b] = top]
        /\ asked' = [asked EXCEPT ![b] = request]
        /\ top' = top + n
        /\ blockSize' = [a \in Blocks \cup {top} |-> IF a = top THEN n ELSE blockSize[a]]
        /\ freeList' = freeList /\ build' = build
    BY DEF mymalloc, Extend, Blocks
  <1>3. Fitting(n) = {} /\ ~NoRoom(n)
    BY DEF Extend
  <1> HIDE DEF n
  <1>4. HeapSize \in Nat /\ top \in Nat /\ top + n <= HeapSize
    <2>1. HeapSize \in Nat /\ top \in Nat
      BY HeapAssumption DEF HeapInv, HeapTypes
    <2> QED BY <1>1, <1>3, <2>1 DEF NoRoom
  <1>5. /\ Blocks' = Blocks \cup {top}
        /\ blockSize'[top] = n
        /\ \A a \in Blocks \ {top} : blockSize'[a] = blockSize[a]
    BY <1>2 DEF Blocks
  <1>6. /\ \A a \in Blocks : /\ a \in Nat /\ blockSize[a] \in Nat /\ a % 8 = 0
                             /\ a + blockSize[a] <= top
        /\ \A a, c \in Blocks : a < c => a + blockSize[a] <= c
    BY DEF HeapInv, HeapTypes, BlocksApart
  <1>7. build # "skeleton" => top \notin Blocks
    BY <1>4, <1>6 DEF HeapInv, BlocksAreMade
  <1>8. top \in Blocks => blockSize[top] = 0
    BY <1>4, <1>6
  <1>9. /\ held'[b] = top /\ asked'[b] = request
        /\ \A c \in Buckets \ {b} : held'[c] = held[c] /\ asked'[c] = asked[c]
        /\ held' \in [Buckets -> (Blocks \cup {top}) \cup {NULL}]
        /\ asked' \in [Buckets -> Nat]
    BY <1>2 DEF HeapInv, HeapTypes
  <1>10. top # NULL
    BY <1>4, HeapAssumption
  <1>11. Live' = Live \cup {top}
    BY <1>2, <1>9, <1>10 DEF Live
  <1>12. \A a \in Blocks' : blockSize'[a] \in Nat /\ a \in Nat
    BY <1>1, <1>4, <1>5, <1>6
  <1>13. HeapTypes'
    <2>1. top' \in Nat /\ top' % 8 = 0
      <3>1. top % 8 = 0 /\ n \in Nat /\ n % 8 = 0
        BY <1>1 DEF HeapInv, HeapTypes
      <3> QED BY <1>2, <1>4, <3>1
    <2>2. freeList' \in Seq(Blocks')
      <3>1. freeList \in Seq(Blocks)
        BY DEF HeapInv, HeapTypes
      <3>2. Len(freeList) \in Nat /\ freeList \in [1..Len(freeList) -> Blocks']
        BY <1>5, <3>1
      <3> QED BY <1>2, <3>2
    <2> QED BY <1>2, <1>5, <1>9, <1>12, <2>1, <2>2 DEF HeapInv, HeapTypes
  <1>14. BlocksApart'
    <2>1. top' <= HeapSize
      BY <1>2, <1>4
    <2>2. \A a \in Blocks' : a % 8 = 0 /\ a >= 0 /\ a + blockSize'[a] <= top'
      <3> SUFFICES ASSUME NEW a \in Blocks'
                   PROVE  a % 8 = 0 /\ a >= 0 /\ a + blockSize'[a] <= top'
        OBVIOUS
      <3>1. CASE a = top
        BY <1>2, <1>4, <1>5, <3>1 DEF HeapInv, HeapTypes
      <3>2. CASE a # top
        BY <1>1, <1>2, <1>4, <1>5, <1>6, <3>2
      <3> QED BY <3>1, <3>2
    <2>3. \A a, c \in Blocks' : a < c => a + blockSize'[a] <= c
      <3> SUFFICES ASSUME NEW a \in Blocks', NEW c \in Blocks', a < c
                   PROVE  a + blockSize'[a] <= c
        OBVIOUS
      <3>1. a # top
        BY <1>4, <1>5, <1>6
      <3>2. a \in Blocks /\ blockSize'[a] = blockSize[a]
        BY <1>5, <3>1
      <3> QED BY <1>5, <1>6, <3>2
    <2>4. ASSUME build' # "skeleton"
          PROVE  /\ IsInjective(freeList')
                 /\ ToSet(freeList') \cup Live' = Blocks'
                 /\ ToSet(freeList') \cap Live' = {}
                 /\ \A c, d \in Buckets : held'[c] = held'[d] /\ held'[c] # NULL => c = d
      <3>1. /\ IsInjective(freeList)
            /\ ToSet(freeList) \cup Live = Blocks /\ ToSet(freeList) \cap Live = {}
            /\ \A c, d \in Buckets : held[c] = held[d] /\ held[c] # NULL => c = d
        BY <1>2, <2>4 DEF HeapInv, BlocksApart
      <3>2. top \notin Blocks
        BY <1>2, <1>7, <2>4
      <3>3. \A c \in Buckets : held[c] # top
        BY <1>10, <3>2 DEF HeapInv, HeapTypes
      <3>4. \A c, d \in Buckets : held'[c] = held'[d] /\ held'[c] # NULL => c = d
        BY <1>9, <3>1, <3>3
      <3> QED BY <1>2, <1>5, <1>11, <3>1, <3>2, <3>4
    <2> QED BY <2>1, <2>2, <2>3, <2>4 DEF BlocksApart
  <1>15. BlockIsBigEnough'
    <2> SUFFICES ASSUME NEW c \in Buckets, held'[c] # NULL
                 PROVE  asked'[c] + Metadata <= blockSize'[held'[c]]
      BY <1>2 DEF BlockIsBigEnough, Metadata
    <2>1. CASE c = b
      BY <1>1, <1>5, <1>9, <2>1
    <2>2. CASE c # b
      <3>1. held'[c] = held[c] /\ held[c] \in Blocks /\ asked'[c] = asked[c]
        BY <1>9, <2>2 DEF HeapInv, HeapTypes
      <3>2. asked[c] + Metadata <= blockSize[held[c]] /\ asked[c] \in Nat
        BY <2>2, <3>1 DEF HeapInv, HeapTypes, BlockIsBigEnough
      <3>3. CASE held[c] = top
        BY <1>1, <1>5, <1>8, <3>1, <3>2, <3>3
      <3>4. CASE held[c] # top
        BY <1>5, <3>1, <3>2, <3>4
      <3> QED BY <3>3, <3>4
    <2> QED BY <2>1, <2>2
  <1>16. BlocksAreMade'
    BY <1>1, <1>2, <1>5 DEF HeapInv, BlocksAreMade
  <1>17. ReuseBounds'
    <2> SUFFICES ASSUME build # "skeleton", NEW d \in Blocks'
                 PROVE  Cardinality({a \in Blocks' : blockSize'[a] = blockSize'[d]})
                          <= Cardinality(Buckets)
      BY <1>2 DEF ReuseBounds
    <2>0. top \notin Blocks
      BY <1>7
    <2>1. CASE blockSize'[d] = n
      <3> DEFINE X == {a \in Blocks' : blockSize'[a] = n}
      <3>1. X \subseteq Live'
        <4> SUFFICES ASSUME NEW a \in X, a # top PROVE a \in Live
          BY <1>11
        <4>1. a \in Blocks /\ blockSize[a] = n
          BY <1>5
        <4>2. a \notin ToSet(freeList)
          BY <1>1, <1>3, <4>1, FittingFree DEF HeapInv
        <4> QED BY <4>1, <4>2 DEF HeapInv, BlocksApart
      <3>2. X \subseteq {held'[c] : c \in Buckets}
        BY <3>1 DEF Live
      <3> HIDE DEF X
      <3>3. Cardinality(X) <= Cardinality(Buckets)
        BY <3>2, LiveBound
      <3> QED BY <2>1, <3>3 DEF X
    <2>2. CASE blockSize'[d] # n
      <3>1. d \in Blocks /\ blockSize'[d] = blockSize[d]
        BY <1>5, <2>2
      <3>2. {a \in Blocks' : blockSize'[a] = blockSize'[d]}
              = {a \in Blocks : blockSize[a] = blockSize[d]}
        BY <1>5, <2>0, <2>2, <3>1
      <3> QED BY <3>1, <3>2 DEF HeapInv, ReuseBounds
    <2> QED BY <2>1, <2>2
  <1> QED BY <1>13, <1>14, <1>15, <1>16, <1>17 DEF HeapInv

LEMMA MallocKeeps ==
    ASSUME HeapInv, NEW b \in Buckets, NEW request \in Nat, request + 24 <= IntMax,
           mymalloc(b, request)
    PROVE  HeapInv'
  BY ReuseKeeps, ExtendKeeps DEF mymalloc

LEMMA FreeKeeps ==
    ASSUME HeapInv, NEW b \in Buckets, myfree(b)
    PROVE  HeapInv'
  <1> DEFINE a == held[b]
  <1>1. /\ a \in Blocks /\ a # NULL
        /\ held' = [held EXCEPT ![b] = NULL]
        /\ asked' = [asked EXCEPT ![b] = 0]
        /\ freeList' = IF build = "skeleton" THEN freeList ELSE <<a>> \o freeList
        /\ top' = top /\ blockSize' = blockSize /\ build' = build /\ Blocks' = Blocks
    BY DEF myfree, HeapInv, HeapTypes, Blocks
  <1> HIDE DEF a
  <1>2. freeList \in Seq(Blocks)
    BY DEF HeapInv, HeapTypes
  <1>3. /\ held'[b] = NULL /\ asked'[b] = 0
        /\ \A c \in Buckets \ {b} : held'[c] = held[c] /\ asked'[c] = asked[c]
        /\ held' \in [Buckets -> Blocks \cup {NULL}] /\ asked' \in [Buckets -> Nat]
    BY <1>1 DEF HeapInv, HeapTypes
  <1>4. ASSUME build # "skeleton"
        PROVE  /\ IsInjective(freeList')
               /\ ToSet(freeList') \cup Live' = Blocks
               /\ ToSet(freeList') \cap Live' = {}
               /\ \A c, d \in Buckets : held'[c] = held'[d] /\ held'[c] # NULL => c = d
    <2>1. /\ IsInjective(freeList)
          /\ ToSet(freeList) \cup Live = Blocks /\ ToSet(freeList) \cap Live = {}
          /\ \A c, d \in Buckets : held[c] = held[d] /\ held[c] # NULL => c = d
      BY <1>4 DEF HeapInv, BlocksApart
    <2>2. a \in Live
      BY <1>1 DEF Live, a
    <2>3. Live' = Live \ {a}
      <3>1. \A c \in Buckets \ {b} : held[c] # a
        BY <1>1, <2>1 DEF a
      <3> QED BY <1>1, <1>3, <3>1 DEF Live, a
    <2>4. IsInjective(freeList') /\ ToSet(freeList') = ToSet(freeList) \cup {a}
      BY <1>1, <1>2, <1>4, <2>1, <2>2, PushQueue
    <2>5. \A c, d \in Buckets : held'[c] = held'[d] /\ held'[c] # NULL => c = d
      BY <1>3, <2>1
    <2> QED BY <1>1, <2>1, <2>2, <2>3, <2>4, <2>5
  <1>5. BlocksApart'
    BY <1>1, <1>4 DEF HeapInv, BlocksApart
  <1>6. HeapTypes'
    <2>1. freeList' \in Seq(Blocks)
      BY <1>1, <1>2, PushQueue
    <2> QED BY <1>1, <1>3, <2>1 DEF HeapInv, HeapTypes
  <1>7. BlockIsBigEnough'
    BY <1>1, <1>3 DEF HeapInv, BlockIsBigEnough, Metadata
  <1>8. BlocksAreMade' /\ ReuseBounds'
    BY <1>1 DEF HeapInv, BlocksAreMade, ReuseBounds
  <1> QED BY <1>5, <1>6, <1>7, <1>8 DEF HeapInv

\* A heap without blocks.
LEMMA EmptyHeap ==
    ASSUME build \in Builds, top = 0, blockSize = <<>>, freeList = <<>>,
           held = [b \in Buckets |-> NULL], asked = [b \in Buckets |-> 0]
    PROVE  HeapInv
  <1>1. Blocks = {}
    BY DEF Blocks
  <1>2. Live = {}
    BY DEF Live
  <1>3. HeapTypes
    BY <1>1, EmptyQueue DEF HeapTypes
  <1>4. BlocksApart
    BY <1>1, <1>2, EmptyQueue, HeapAssumption DEF BlocksApart
  <1>5. BlocksAreMade /\ BlockIsBigEnough /\ ReuseBounds
    BY <1>1 DEF BlocksAreMade, BlockIsBigEnough, ReuseBounds
  <1> QED BY <1>3, <1>4, <1>5 DEF HeapInv

\* The tests: what a test of main.c asks for fits, like the client's requests.
TestTypes ==
    /\ library = "HeapTests" => sizes \in [Buckets -> Requests]
    /\ tests \in Seq({"sanity", "freelist1", "freelist2", "simple", "fixedsize",
                      "random"})

LEMMA IndexBound ==
    ASSUME NEW b \in Buckets
    PROVE  Index(b) \in 0..Cardinality(Buckets) - 1
  <1> DEFINE n == Cardinality(Buckets)
             f == BucketSeq
  <1>1. n \in Nat /\ IsFiniteSet(Buckets) /\ ExistsBijection(1..n, Buckets)
    BY FS_CardinalityType, HeapTestsAssumption
  <1> HIDE DEF n
  <1>2. PICK g : g \in Bijection(1..n, Buckets)
    BY <1>1 DEF ExistsBijection
  <1>3. g \in [1..n -> Buckets] /\ IsInjective(g)
    BY <1>2 DEF Bijection, Injection
  <1>4. f \in [1..n -> Buckets] /\ IsInjective(f)
    BY <1>3 DEF BucketSeq, SetToSeq, n
  <1> HIDE DEF f
  <1>5. f \in Injection(1..n, Buckets)
    BY <1>4 DEF Injection
  <1>6. Cardinality(1..n) = n
    BY <1>1, FS_Interval
  <1>7. f \in Surjection(1..n, Buckets)
    BY <1>1, <1>5, <1>6, FS_Injection DEF n
  <1>8. \E k \in DOMAIN f : f[k] = b
    BY <1>4, <1>7 DEF Surjection
  <1>9. (CHOOSE k \in DOMAIN f : f[k] = b) \in 1..n
    BY <1>4, <1>8
  <1> QED BY <1>1, <1>9 DEF Index, f, n

LEMMA SizeFits ==
    ASSUME RequestsFit, TestTypes, library = "HeapTests", tests # <<>>,
           NEW b \in Buckets
    PROVE  /\ Size(Head(tests), b) \in Nat
           /\ Size(Head(tests), b) + 24 <= IntMax
  <1>1. Head(tests) \in {"sanity", "freelist1", "freelist2", "simple", "fixedsize",
                         "random"}
    BY HeadTailProperties DEF TestTypes
  <1>2. IntMax \in Nat /\ FixedSize \in Nat /\ Cardinality(Buckets) \in Nat
        /\ 16 + 24 <= IntMax /\ FixedSize + 24 <= IntMax
        /\ 8 * Cardinality(Buckets) + 24 <= IntMax
    BY FS_CardinalityType, HeapAssumption, HeapTestsAssumption
  <1>3. Index(b) * 8 \in Nat /\ Index(b) * 8 + 24 <= IntMax
    BY <1>2, IndexBound
  <1>4. sizes[b] \in Nat /\ sizes[b] + 24 <= IntMax
    <2>1. sizes[b] \in Requests
      BY DEF TestTypes
    <2>2. sizes[b] \in 0..IntMax /\ sizes[b] + 24 <= IntMax
      BY <2>1, HeapAssumption DEF RequestsFit
    <2> QED BY <1>2, <2>2
  <1> QED BY <1>1, <1>2, <1>3, <1>4 DEF Size

LEMMA HeapUnchanged == HeapInv /\ UNCHANGED heapVars => HeapInv'
  <1> SUFFICES ASSUME HeapInv, UNCHANGED heapVars PROVE HeapInv'
    OBVIOUS
  <1>1. Blocks' = Blocks /\ Live' = Live /\ Metadata' = Metadata
    BY DEF heapVars, Blocks, Live, Metadata
  <1>2. HeapTypes' /\ BlocksAreMade'
    BY <1>1 DEF heapVars, HeapInv, HeapTypes, BlocksAreMade
  <1>3. BlocksApart'
    BY <1>1 DEF heapVars, HeapInv, BlocksApart
  <1>4. BlockIsBigEnough' /\ ReuseBounds'
    BY <1>1 DEF heapVars, HeapInv, BlockIsBigEnough, ReuseBounds
  <1> QED BY <1>2, <1>3, <1>4 DEF HeapInv

LEMMA HeapTestsKeep ==
    ASSUME RequestsFit, HeapInv, TestTypes, library = "HeapTests",
           UNCHANGED library, HeapTestsNext
    PROVE  HeapInv' /\ TestTypes'
  <1>1. CASE test
    <2>1. HeapInv'
      <3>1. build \in Builds
        BY DEF HeapInv, HeapTypes
      <3>2. /\ build' \in Builds /\ top' = 0 /\ blockSize' = <<>> /\ freeList' = <<>>
            /\ held' = [b \in Buckets |-> NULL] /\ asked' = [b \in Buckets |-> 0]
        BY <1>1, <3>1 DEF test, mymalloc_init
      <3>3. (build \in Builds /\ top = 0 /\ blockSize = <<>> /\ freeList = <<>>
             /\ held = [b \in Buckets |-> NULL] /\ asked = [b \in Buckets |-> 0]
             => HeapInv)'
        BY EmptyHeap, PTL
      <3> QED BY <3>2, <3>3
    <2>2. TestTypes'
      BY <1>1, HeadTailProperties DEF test, TestTypes
    <2> QED BY <2>1, <2>2
  <1>2. ASSUME NEW b \in Buckets, Free(b) PROVE HeapInv' /\ TestTypes'
    BY <1>2, FreeKeeps DEF Free, TestTypes
  <1>3. ASSUME NEW b \in Buckets, Allocate(b) PROVE HeapInv' /\ TestTypes'
    <2>1. TestTypes'
      BY <1>3 DEF Allocate, TestTypes
    <2>2. tests # <<>>
      BY <1>3 DEF Allocate, Going
    <2>3. mymalloc(b, Size(Head(tests), b)) \/ UNCHANGED heapVars
      BY <1>3 DEF Allocate
    <2>4. CASE UNCHANGED heapVars
      BY <2>1, <2>4, HeapUnchanged
    <2> QED BY <2>1, <2>2, <2>3, <2>4, SizeFits, MallocKeeps
  <1> QED BY <1>1, <1>2, <1>3 DEF HeapTestsNext

HeapsInv == HeapInv /\ TestTypes

LEMMA HeapsInitially == Init => HeapsInv
  <1> SUFFICES ASSUME Init PROVE HeapsInv
    OBVIOUS
  <1>1. build \in Builds
    BY DEF Init, Builds
  <1>2. HeapInv
    BY <1>1, EmptyHeap DEF Init, HeapTestsInit, HeapInit
  <1>3. TestTypes
    BY DEF Init, HeapTestsInit, TestTypes, testfuncs
  <1> QED BY <1>2, <1>3 DEF HeapsInv

LEMMA HeapsStep == RequestsFit /\ HeapsInv /\ [Next]_vars => HeapsInv'
  <1> SUFFICES ASSUME RequestsFit, HeapInv, TestTypes, [Next]_vars PROVE HeapInv' /\ TestTypes'
    BY DEF HeapsInv
  <1>1. UNCHANGED library
    BY DEF Next, vars
  <1>2. \/ HeapNext /\ UNCHANGED <<tests, sizes>>
        \/ library = "HeapTests" /\ HeapTestsNext
        \/ UNCHANGED heapTestVars
    BY DEF Next, vars
  <1>3. CASE HeapNext /\ UNCHANGED <<tests, sizes>>
    <2>1. TestTypes'
      BY <1>1, <1>3 DEF TestTypes
    <2>2. \A request \in Requests : request \in Nat /\ request + 24 <= IntMax
      BY HeapAssumption DEF RequestsFit
    <2> QED BY <1>3, <2>1, <2>2, MallocKeeps, FreeKeeps DEF HeapNext
  <1>4. CASE library = "HeapTests" /\ HeapTestsNext
    BY <1>1, <1>4, HeapTestsKeep
  <1>5. CASE UNCHANGED heapTestVars
    <2>1. TestTypes'
      BY <1>1, <1>5 DEF heapTestVars, TestTypes
    <2>2. UNCHANGED heapVars
      BY <1>5 DEF heapTestVars
    <2>3. HeapInv'
      BY <2>2, HeapUnchanged
    <2> QED BY <2>1, <2>3
  <1> QED BY <1>2, <1>3, <1>4, <1>5

\* For every size of the heap and any number of client pointers, and through
\* the tests of main.c: blocks are apart, aligned and as big as was asked for, a
\* block is free once or in one pointer, and there are never more blocks of one
\* size than pointers.
THEOREM ManagersSoundCorrect ==
    ASSUME RequestsFit PROVE Spec => []ManagersSound
  <1>1. HeapsInv => ManagersSound
    BY DEF HeapsInv, HeapInv, ManagersSound, HeapSound
  <1>2. HeapsInv /\ [Next]_vars => HeapsInv'
    BY HeapsStep
  <1> QED BY <1>1, <1>2, HeapsInitially, PTL DEF Spec
-----------------------------------------------------------------------------
(* The reference-counted elements, their list and their tree. *)

ElementTypes ==
    /\ count \in [Elems -> Int] /\ strCount \in [StrElements -> Int]
    /\ refs \in [Elems -> Nat] /\ strRefs \in [StrElements -> Nat]
    /\ elem \in [Nodes -> Elems \cup {None}]
    /\ next \in [Nodes -> Nodes \cup {None}]
    /\ prev \in [Nodes -> Nodes \cup {None}]
    /\ head \in Nodes \cup {None} /\ tail \in Nodes \cup {None}
    /\ DOMAIN tree \subseteq Seq(Turns) /\ \A p \in DOMAIN tree : tree[p] \in Elems
    /\ IsFiniteSet(ListNodes) /\ IsFiniteSet(DOMAIN tree)

\* The references to e that are counted.
References(e) == refs[e] + Cardinality(InList(e)) + Cardinality(InTree(e))

\* The list is s, read forwards and backwards.
LinkedAs(s) ==
    /\ head = IF s = <<>> THEN None ELSE s[1]
    /\ tail = IF s = <<>> THEN None ELSE s[Len(s)]
    /\ \A k \in 1..Len(s) :
         /\ next[s[k]] = IF k = Len(s) THEN None ELSE s[k + 1]
         /\ prev[s[k]] = IF k = 1 THEN None ELSE s[k - 1]

\* The nodes of the list are s, and the other nodes have no links.
IsList(s) ==
    /\ s \in Seq(Nodes) /\ IsInjective(s) /\ ToSet(s) = ListNodes
    /\ LinkedAs(s)
    /\ \A n \in Nodes \ ListNodes : next[n] = None /\ prev[n] = None

\* A node of the tree has its ancestors.
TreeIsClosed ==
    \A p \in DOMAIN tree : \A k \in 0..Len(p) : SubSeq(p, 1, k) \in DOMAIN tree

ElementsInv ==
    /\ ElementTypes /\ CountsAreReferences
    /\ \E s : IsList(s)
    /\ TreeIsClosed /\ TreeIsOrdered

LEMMA StringIsElement == \A s \in StrElements : s \in Elems
  BY DEF Elems

LEMMA PlacesFinite ==
    ASSUME ElementTypes, NEW e \in Elems
    PROVE  /\ IsFiniteSet(InList(e)) /\ IsFiniteSet(InTree(e))
           /\ Cardinality(InList(e)) \in Nat /\ Cardinality(InTree(e)) \in Nat
           /\ References(e) \in Nat /\ References(e) >= refs[e]
           /\ References(e) >= Cardinality(InList(e))
           /\ References(e) >= Cardinality(InTree(e))
           /\ Reachable(e) => References(e) > 0
  <1>1. InList(e) \subseteq ListNodes
    BY ElementsAssumption DEF InList, ListNodes, Elems
  <1>2. InTree(e) \subseteq DOMAIN tree
    BY DEF InTree
  <1>3. IsFiniteSet(InList(e)) /\ IsFiniteSet(InTree(e))
    BY <1>1, <1>2, FS_Subset DEF ElementTypes
  <1>4. /\ Cardinality(InList(e)) \in Nat /\ Cardinality(InTree(e)) \in Nat
        /\ Cardinality(InList(e)) = 0 <=> InList(e) = {}
        /\ Cardinality(InTree(e)) = 0 <=> InTree(e) = {}
    BY <1>3, FS_CardinalityType, FS_EmptySet
  <1>5. refs[e] \in Nat
    BY DEF ElementTypes
  <1> QED BY <1>3, <1>4, <1>5 DEF References, Reachable

\* The counts agree, with the sum in one word.
LEMMA Counted ==
    CountsAreReferences <=>
      /\ \A e \in Elems : count[e] = References(e)
      /\ \A s \in StrElements :
           strCount[s] = strRefs[s] + (IF count[s] > 0 THEN 1 ELSE 0)
  BY DEF CountsAreReferences, References

\* rc_keep_ref where one more reference is made to an element with references.
LEMMA KeepCounts ==
    ASSUME ElementTypes, CountsAreReferences, NEW e \in Elems, References(e) > 0,
           rc_keep_ref(e), UNCHANGED strRefs,
           \A f \in Elems : References(f)' = References(f) + (IF f = e THEN 1 ELSE 0)
    PROVE  /\ CountsAreReferences'
           /\ count' \in [Elems -> Int] /\ strCount' \in [StrElements -> Int]
  <1>1. \A f \in Elems : References(f) \in Nat /\ count[f] = References(f)
    BY PlacesFinite, Counted
  <1>2. /\ count' \in [Elems -> Int]
        /\ \A f \in Elems : count'[f] = count[f] + (IF f = e THEN 1 ELSE 0)
    BY DEF rc_keep_ref, ElementTypes
  <1>3. \A f \in Elems : count'[f] = References(f)'
    BY <1>1, <1>2
  <1>4. \A f \in Elems : count'[f] > 0 <=> count[f] > 0
    BY <1>1, <1>2
  <1>5. \A s \in StrElements :
          strCount'[s] = strRefs'[s] + (IF count'[s] > 0 THEN 1 ELSE 0)
    BY <1>4, Counted, StringIsElement DEF rc_keep_ref
  <1>6. CountsAreReferences'
    BY <1>3, <1>5 DEF CountsAreReferences, References
  <1> QED BY <1>2, <1>3, <1>5, <1>6 DEF rc_keep_ref, ElementTypes

\* rc_free_ref where as many references are given up.
LEMMA FreeCounts ==
    ASSUME ElementTypes, CountsAreReferences, NEW times,
           \A e \in Elems : times[e] \in 0..References(e),
           rc_free_ref(times), UNCHANGED strRefs,
           \A f \in Elems : References(f)' = References(f) - times[f]
    PROVE  /\ CountsAreReferences'
           /\ count' \in [Elems -> Int] /\ strCount' \in [StrElements -> Int]
  <1>1. \A f \in Elems : /\ References(f) \in Nat /\ count[f] = References(f)
                         /\ times[f] \in Nat /\ times[f] <= count[f]
    BY PlacesFinite, Counted
  <1>2. /\ count' = [e \in Elems |-> count[e] - times[e]]
        /\ strCount' = [s \in StrElements |->
             strCount[s] - (IF times[s] > 0 /\ times[s] = count[s] THEN 1 ELSE 0)]
    BY DEF rc_free_ref
  <1>3. \A f \in Elems : count'[f] = References(f)'
    BY <1>1, <1>2
  <1>4. ASSUME NEW s \in StrElements
        PROVE  strCount'[s] = strRefs'[s] + (IF count'[s] > 0 THEN 1 ELSE 0)
    <2>1. /\ count[s] \in Nat /\ times[s] \in Nat /\ times[s] <= count[s]
          /\ count'[s] = count[s] - times[s]
      BY <1>1, <1>2, StringIsElement
    <2>2. /\ strCount[s] = strRefs[s] + (IF count[s] > 0 THEN 1 ELSE 0)
          /\ strRefs[s] \in Nat /\ strRefs'[s] = strRefs[s]
      BY Counted DEF ElementTypes
    <2>3. strCount'[s] = strCount[s] - (IF times[s] > 0 /\ times[s] = count[s] THEN 1 ELSE 0)
      BY <1>2
    <2> QED BY <2>1, <2>2, <2>3
  <1>5. CountsAreReferences'
    BY <1>3, <1>4 DEF CountsAreReferences, References
  <1>6. count' \in [Elems -> Int]
    BY <1>1, <1>2
  <1>7. strCount' \in [StrElements -> Int]
    BY <1>2 DEF ElementTypes
  <1> QED BY <1>3, <1>4, <1>5, <1>6, <1>7
-----------------------------------------------------------------------------
(* The list. *)

LEMMA AddLinks ==
    ASSUME NEW s, IsList(s), ElementTypes, NEW n \in Nodes, NEW e \in Elems,
           list_add_element(n, e)
    PROVE  /\ IsList(Append(s, n))'
           /\ next' \in [Nodes -> Nodes \cup {None}]
           /\ prev' \in [Nodes -> Nodes \cup {None}]
           /\ head' \in Nodes \cup {None} /\ tail' \in Nodes \cup {None}
           /\ elem' \in [Nodes -> Elems \cup {None}]
           /\ ListNodes' = ListNodes \cup {n} /\ n \notin ListNodes
  <1> DEFINE w == Append(s, n)
  <1>1. /\ n \notin ListNodes
        /\ elem' = [elem EXCEPT ![n] = e] /\ tail' = n
        /\ head = None => head' = n /\ next' = next /\ prev' = prev
        /\ head # None => /\ next' = [next EXCEPT ![tail] = n]
                          /\ prev' = [prev EXCEPT ![n] = tail]
                          /\ head' = head
    BY DEF list_add_element, ListNodes
  <1>2. /\ s \in Seq(Nodes) /\ n \notin ToSet(s) /\ Len(s) \in Nat
        /\ \A k \in 1..Len(s) : s[k] \in Nodes /\ s[k] # n
        /\ \A j, k \in 1..Len(s) : s[j] = s[k] => j = k
        /\ s # <<>> => Len(s) >= 1
        /\ s = <<>> => Len(s) = 0
    BY <1>1, Positioned, EmptySeq DEF IsList
  <1>3. /\ head = IF s = <<>> THEN None ELSE s[1]
        /\ tail = IF s = <<>> THEN None ELSE s[Len(s)]
        /\ \A k \in 1..Len(s) :
             /\ next[s[k]] = IF k = Len(s) THEN None ELSE s[k + 1]
             /\ prev[s[k]] = IF k = 1 THEN None ELSE s[k - 1]
    BY DEF IsList, LinkedAs
  <1>4. next[n] = None /\ prev[n] = None
    BY <1>1 DEF IsList
  <1>5. /\ w \in Seq(Nodes) /\ w # <<>> /\ Len(w) = Len(s) + 1
        /\ ToSet(w) = ToSet(s) \cup {n} /\ IsInjective(w)
        /\ w[Len(s) + 1] = n /\ \A k \in 1..Len(s) : w[k] = s[k]
    BY <1>2, AppendQueue DEF IsList
  <1>6. None \notin Nodes /\ e # None
    BY ElementsAssumption DEF Elems
  <1>7. head = None <=> s = <<>>
    BY <1>2, <1>3, <1>6
  <1>8. ListNodes' = ListNodes \cup {n} /\ elem' \in [Nodes -> Elems \cup {None}]
    BY <1>1, <1>6 DEF ListNodes, ElementTypes
  <1> HIDE DEF w
  <1>9. s # <<>> => tail \in Nodes /\ tail # n /\ tail = s[Len(s)]
    BY <1>2, <1>3
  <1>10. /\ next' \in [Nodes -> Nodes \cup {None}]
         /\ prev' \in [Nodes -> Nodes \cup {None}]
         /\ s # <<>> => next'[tail] = n /\ prev'[n] = tail
         /\ s = <<>> => prev'[n] = None
         /\ next'[n] = None
         /\ \A m \in Nodes : /\ (s = <<>> \/ m # tail) => next'[m] = next[m]
                             /\ m # n => prev'[m] = prev[m]
    <2>1. next \in [Nodes -> Nodes \cup {None}] /\ prev \in [Nodes -> Nodes \cup {None}]
      BY DEF ElementTypes
    <2>2. CASE s = <<>>
      <3>1. next' = next /\ prev' = prev
        BY <1>1, <1>7, <2>2
      <3> QED BY <1>4, <2>1, <2>2, <3>1
    <2>3. CASE s # <<>>
      <3>1. next' = [next EXCEPT ![tail] = n] /\ prev' = [prev EXCEPT ![n] = tail]
        BY <1>1, <1>7, <2>3
      <3>2. tail \in Nodes /\ tail # n
        BY <1>9, <2>3
      <3> QED BY <1>4, <2>1, <2>3, <3>1, <3>2
    <2> QED BY <2>2, <2>3
  <1>11. head' = w[1] /\ tail' = w[Len(w)]
    <2>1. CASE s = <<>>
      BY <1>1, <1>2, <1>5, <1>7, <2>1
    <2>2. CASE s # <<>>
      <3>1. w[1] = s[1]
        BY <1>2, <1>5, <2>2
      <3> QED BY <1>1, <1>3, <1>5, <1>7, <2>2, <3>1
    <2> QED BY <2>1, <2>2
  <1>12. ASSUME NEW k \in 1..Len(w)
         PROVE  /\ next'[w[k]] = IF k = Len(w) THEN None ELSE w[k + 1]
                /\ prev'[w[k]] = IF k = 1 THEN None ELSE w[k - 1]
    <2>1. CASE k = Len(s) + 1
      <3>1. w[k] = n /\ k = Len(w)
        BY <1>5, <2>1
      <3>2. prev'[n] = IF k = 1 THEN None ELSE w[k - 1]
        <4>1. CASE s = <<>>
          BY <1>2, <1>10, <2>1, <4>1
        <4>2. CASE s # <<>>
          <5>1. k # 1 /\ k - 1 = Len(s) /\ Len(s) \in 1..Len(s)
            BY <1>2, <2>1, <4>2
          <5> QED BY <1>5, <1>9, <1>10, <4>2, <5>1
        <4> QED BY <4>1, <4>2
      <3> QED BY <1>10, <3>1, <3>2
    <2>2. CASE k # Len(s) + 1
      <3>1. k \in 1..Len(s) /\ s # <<>> /\ k # Len(w) /\ Len(s) \in 1..Len(s)
        BY <1>2, <1>5, <2>2
      <3>2. w[k] = s[k] /\ s[k] \in Nodes /\ s[k] # n
        BY <1>2, <1>5, <3>1
      <3>3. prev'[w[k]] = IF k = 1 THEN None ELSE w[k - 1]
        <4>1. prev'[w[k]] = IF k = 1 THEN None ELSE s[k - 1]
          BY <1>3, <1>10, <3>1, <3>2
        <4>2. CASE k = 1
          BY <4>1, <4>2
        <4>3. CASE k # 1
          <5>1. k - 1 \in 1..Len(s)
            BY <1>2, <3>1, <4>3
          <5>2. w[k - 1] = s[k - 1]
            BY <1>5, <5>1
          <5> QED BY <4>1, <4>3, <5>2
        <4> QED BY <4>2, <4>3
      <3>4. next'[w[k]] = w[k + 1]
        <4>1. CASE k = Len(s)
          BY <1>5, <1>9, <1>10, <3>1, <3>2, <4>1
        <4>2. CASE k # Len(s)
          <5>1. k + 1 \in 1..Len(s)
            BY <1>2, <3>1, <4>2
          <5>2. s[k] # tail
            BY <1>2, <1>9, <3>1, <4>2
          <5> QED BY <1>3, <1>5, <1>10, <3>1, <3>2, <4>2, <5>1, <5>2
        <4> QED BY <4>1, <4>2
      <3> QED BY <3>1, <3>3, <3>4
    <2> QED BY <2>1, <2>2
  <1>13. \A m \in Nodes \ ListNodes' : next'[m] = None /\ prev'[m] = None
    <2> SUFFICES ASSUME NEW m \in Nodes, m \notin ListNodes, m # n
                 PROVE  next'[m] = None /\ prev'[m] = None
      BY <1>8
    <2>1. next[m] = None /\ prev[m] = None
      BY DEF IsList
    <2>2. s # <<>> => m # tail
      <3>1. s # <<>> => tail \in ToSet(s)
        BY <1>2, <1>9, Positioned
      <3> QED BY <3>1 DEF IsList
    <2> QED BY <1>10, <2>1, <2>2
  <1>14. ToSet(w) = ListNodes'
    BY <1>5, <1>8 DEF IsList
  <1>15. IsList(w)'
    <2>1. LinkedAs(w)'
      BY <1>5, <1>11, <1>12 DEF LinkedAs
    <2> QED BY <1>5, <1>13, <1>14, <2>1 DEF IsList
  <1>16. head' \in Nodes \cup {None} /\ tail' \in Nodes \cup {None}
    BY <1>1 DEF ElementTypes
  <1> QED BY <1>1, <1>8, <1>10, <1>15, <1>16 DEF w

LEMMA DeleteLinks ==
    ASSUME NEW s, IsList(s), ElementTypes, NEW n \in Nodes, list_delete_element(n)
    PROVE  /\ \E r : IsList(r)'
           /\ next' \in [Nodes -> Nodes \cup {None}]
           /\ prev' \in [Nodes -> Nodes \cup {None}]
           /\ head' \in Nodes \cup {None} /\ tail' \in Nodes \cup {None}
           /\ elem' \in [Nodes -> Elems \cup {None}]
           /\ ListNodes' = ListNodes \ {n}
  <1> DEFINE N == Len(s)
  <1>1. /\ n \in ListNodes
        /\ head' = IF n = head THEN next[n] ELSE head
        /\ tail' = IF n = tail THEN prev[n] ELSE tail
        /\ next' = [m \in Nodes |-> IF m = n THEN None
                                    ELSE IF n # head /\ m = prev[n] THEN next[n]
                                    ELSE next[m]]
        /\ prev' = [m \in Nodes |-> IF m = n THEN None
                                    ELSE IF n # tail /\ m = next[n] THEN prev[n]
                                    ELSE prev[m]]
        /\ elem' = [elem EXCEPT ![n] = None]
    BY DEF list_delete_element
  <1>2. /\ s \in Seq(Nodes) /\ N \in Nat
        /\ \A k \in 1..N : s[k] \in Nodes
        /\ \A j, k \in 1..N : s[j] = s[k] => j = k
        /\ \E k \in 1..N : s[k] = n
        /\ s = <<>> => N = 0
    BY <1>1, Positioned, EmptySeq DEF IsList
  <1>3. PICK k \in 1..N : s[k] = n
    BY <1>2
  <1> DEFINE r == RemoveAt(s, k)
  <1>4. s # <<>> /\ N >= 1
    BY <1>2, <1>3
  <1>5. /\ head = s[1] /\ tail = s[N]
        /\ \A j \in 1..N : /\ next[s[j]] = IF j = N THEN None ELSE s[j + 1]
                           /\ prev[s[j]] = IF j = 1 THEN None ELSE s[j - 1]
    BY <1>4 DEF IsList, LinkedAs
  <1>6. /\ r \in Seq(Nodes) /\ Len(r) = N - 1 /\ IsInjective(r)
        /\ \A j \in 1..N - 1 : r[j] = IF j < k THEN s[j] ELSE s[j + 1]
        /\ ToSet(s) = ToSet(r) \cup {n} /\ n \notin ToSet(r)
    <2>1. s \in Seq(Nodes) /\ k \in 1..Len(s) /\ s[k] = n
      BY <1>2, <1>3
    <2>2. IsInjective(s)
      BY DEF IsList
    <2>3. /\ r \in Seq(Nodes) /\ Len(r) = Len(s) - 1
          /\ \A j \in 1..Len(s) - 1 : r[j] = IF j < k THEN s[j] ELSE s[j + 1]
          /\ ToSet(s) = ToSet(r) \cup {s[k]}
          /\ IsInjective(s) => IsInjective(r) /\ s[k] \notin ToSet(r)
      <3> HIDE DEF N
      <3> QED BY ONLY <2>1, RemoveFromQueue, SMTT(40)
    <2> QED BY <2>1, <2>2, <2>3
  <1> HIDE DEF r, N
  <1>7. (n = head <=> k = 1) /\ (n = tail <=> k = N)
    <2>1. 1 \in 1..N /\ N \in 1..N
      BY <1>2, <1>4
    <2> QED BY <1>2, <1>3, <1>5, <2>1
  <1>8. /\ next[n] = IF k = N THEN None ELSE s[k + 1]
        /\ prev[n] = IF k = 1 THEN None ELSE s[k - 1]
    BY <1>3, <1>5
  <1>9. /\ next' \in [Nodes -> Nodes \cup {None}]
        /\ prev' \in [Nodes -> Nodes \cup {None}]
        /\ head' \in Nodes \cup {None} /\ tail' \in Nodes \cup {None}
        /\ elem' \in [Nodes -> Elems \cup {None}]
        /\ ListNodes' = ListNodes \ {n}
    <2>1. next[n] \in Nodes \cup {None} /\ prev[n] \in Nodes \cup {None}
      BY DEF ElementTypes
    <2>2. next' \in [Nodes -> Nodes \cup {None}] /\ prev' \in [Nodes -> Nodes \cup {None}]
      BY <1>1, <2>1 DEF ElementTypes
    <2>3. head' \in Nodes \cup {None} /\ tail' \in Nodes \cup {None}
      BY <1>1, <2>1 DEF ElementTypes
    <2>4. elem' \in [Nodes -> Elems \cup {None}] /\ ListNodes' = ListNodes \ {n}
      BY <1>1 DEF ElementTypes, ListNodes
    <2> QED BY <2>2, <2>3, <2>4
  <1>10. k \in Nat /\ k >= 1 /\ k <= N
    BY <1>2
  <1>11. ASSUME NEW j \in 1..N, j # k
         PROVE  /\ next'[s[j]] = IF j = k - 1 THEN next[n] ELSE next[s[j]]
                /\ prev'[s[j]] = IF j = k + 1 THEN prev[n] ELSE prev[s[j]]
    <2>1. s[j] # n /\ s[j] \in Nodes
      BY <1>2, <1>3, <1>11
    <2>2. (n # head /\ s[j] = prev[n]) <=> j = k - 1
      <3>1. CASE k = 1
        BY <1>2, <1>7, <3>1
      <3>2. CASE k # 1
        <4>1. k - 1 \in 1..N
          BY <1>2, <1>10, <3>2
        <4> QED BY <1>2, <1>7, <1>8, <3>2, <4>1
      <3> QED BY <3>1, <3>2
    <2>3. (n # tail /\ s[j] = next[n]) <=> j = k + 1
      <3>1. CASE k = N
        BY <1>2, <1>7, <1>10, <3>1
      <3>2. CASE k # N
        <4>1. k + 1 \in 1..N
          BY <1>2, <1>10, <3>2
        <4> QED BY <1>2, <1>7, <1>8, <3>2, <4>1
      <3> QED BY <3>1, <3>2
    <2>4. next'[s[j]] = IF n # head /\ s[j] = prev[n] THEN next[n] ELSE next[s[j]]
      BY <1>1, <2>1
    <2>5. prev'[s[j]] = IF n # tail /\ s[j] = next[n] THEN prev[n] ELSE prev[s[j]]
      BY <1>1, <2>1
    <2> QED BY <2>2, <2>3, <2>4, <2>5
  <1>12. ASSUME NEW j \in 1..N - 1
         PROVE  /\ next'[r[j]] = IF j = N - 1 THEN None ELSE r[j + 1]
                /\ prev'[r[j]] = IF j = 1 THEN None ELSE r[j - 1]
    <2>0. j \in Nat /\ j >= 1 /\ j + 1 <= N
      BY <1>2
    <2>1. CASE j < k
      <3>1. j \in 1..N /\ j # k /\ j # k + 1 /\ j # N
        BY <1>2, <1>10, <2>0, <2>1
      <3>2. /\ r[j] = s[j]
            /\ next'[r[j]] = IF j = k - 1 THEN next[n] ELSE next[s[j]]
            /\ prev'[r[j]] = prev[s[j]]
        BY <1>6, <1>11, <2>1, <3>1
      <3>3. prev'[r[j]] = IF j = 1 THEN None ELSE r[j - 1]
        <4>1. CASE j = 1
          BY <1>5, <3>1, <3>2, <4>1
        <4>2. CASE j # 1
          <5>1. j - 1 \in 1..N - 1 /\ j - 1 < k
            BY <1>2, <2>0, <2>1, <4>2
          <5> QED BY <1>5, <1>6, <3>1, <3>2, <4>2, <5>1
        <4> QED BY <4>1, <4>2
      <3>4. next'[r[j]] = IF j = N - 1 THEN None ELSE r[j + 1]
        <4>1. CASE j = k - 1
          <5>1. CASE k = N
            BY <1>2, <1>8, <3>2, <4>1, <5>1
          <5>2. CASE k # N
            <6>1. j + 1 \in 1..N - 1 /\ ~(j + 1 < k) /\ j + 1 = k /\ j # N - 1
              BY <1>2, <1>10, <2>0, <4>1, <5>2
            <6>2. r[j + 1] = s[k + 1]
              BY <1>6, <6>1
            <6> QED BY <1>8, <3>2, <4>1, <5>2, <6>1, <6>2
          <5> QED BY <5>1, <5>2
        <4>2. CASE j # k - 1
          <5>1. j + 1 \in 1..N - 1 /\ j + 1 < k /\ j # N - 1
            BY <1>2, <1>10, <2>0, <2>1, <4>2
          <5>2. next[s[j]] = s[j + 1] /\ r[j + 1] = s[j + 1]
            BY <1>5, <1>6, <3>1, <5>1
          <5> QED BY <3>2, <4>2, <5>1, <5>2
        <4> QED BY <4>1, <4>2
      <3> QED BY <3>3, <3>4
    <2>2. CASE ~(j < k)
      <3>1. j + 1 \in 1..N /\ j + 1 # k /\ j + 1 # k - 1 /\ (j + 1 = k + 1 <=> j = k)
            /\ j + 1 # 1
        BY <1>2, <1>10, <2>0, <2>2
      <3>2. /\ r[j] = s[j + 1]
            /\ next'[r[j]] = next[s[j + 1]]
            /\ prev'[r[j]] = IF j = k THEN prev[n] ELSE prev[s[j + 1]]
        BY <1>6, <1>11, <2>2, <3>1
      <3>3. next'[r[j]] = IF j = N - 1 THEN None ELSE r[j + 1]
        <4>1. CASE j = N - 1
          <5>1. j + 1 = N
            BY <1>2, <2>0, <4>1
          <5> QED BY <1>5, <3>1, <3>2, <4>1, <5>1
        <4>2. CASE j # N - 1
          <5>1. j + 1 \in 1..N - 1 /\ ~(j + 1 < k) /\ j + 1 # N
            BY <1>2, <1>10, <2>0, <2>2, <4>2
          <5>2. next[s[j + 1]] = s[(j + 1) + 1] /\ r[j + 1] = s[(j + 1) + 1]
            BY <1>5, <1>6, <3>1, <5>1
          <5> QED BY <3>2, <4>2, <5>2
        <4> QED BY <4>1, <4>2
      <3>4. prev'[r[j]] = IF j = 1 THEN None ELSE r[j - 1]
        <4>1. CASE j = k
          <5>1. CASE k = 1
            BY <1>8, <3>2, <4>1, <5>1
          <5>2. CASE k # 1
            <6>1. j - 1 \in 1..N - 1 /\ j - 1 < k
              BY <1>2, <1>10, <2>0, <4>1, <5>2
            <6>2. r[j - 1] = s[k - 1]
              BY <1>6, <4>1, <6>1
            <6> QED BY <1>8, <3>2, <4>1, <5>2, <6>2
          <5> QED BY <5>1, <5>2
        <4>2. CASE j # k
          <5>1. j - 1 \in 1..N - 1 /\ ~(j - 1 < k) /\ (j - 1) + 1 = j /\ (j + 1) - 1 = j /\ j # 1
            BY <1>2, <1>10, <2>0, <2>2, <4>2
          <5>2. prev[s[j + 1]] = s[j]
            BY <1>5, <3>1, <5>1
          <5>3. r[j - 1] = s[j]
            BY <1>6, <5>1
          <5> QED BY <3>2, <4>2, <5>1, <5>2, <5>3
        <4> QED BY <4>1, <4>2
      <3> QED BY <3>3, <3>4
    <2> QED BY <2>1, <2>2
  <1>13. r = <<>> <=> N = 1
    <2>1. r # <<>> <=> N - 1 >= 1
      BY <1>6, Positioned
    <2> QED BY <1>2, <1>4, <2>1
  <1>14. head' = IF r = <<>> THEN None ELSE r[1]
    <2>1. CASE k = 1
      <3>1. head' = IF N = 1 THEN None ELSE s[2]
        BY <1>1, <1>7, <1>8, <2>1
      <3>2. N # 1 => r[1] = s[2]
        <4> SUFFICES ASSUME N # 1 PROVE r[1] = s[2]
          OBVIOUS
        <4>1. 1 \in 1..N - 1 /\ ~(1 < k)
          BY <1>2, <1>4, <2>1
        <4> QED BY <1>6, <4>1
      <3> QED BY <1>13, <3>1, <3>2
    <2>2. CASE k # 1
      <3>1. 1 \in 1..N - 1 /\ 1 < k /\ N # 1
        BY <1>2, <1>10, <2>2
      <3> QED BY <1>1, <1>5, <1>6, <1>7, <1>13, <2>2, <3>1
    <2> QED BY <2>1, <2>2
  <1>15. tail' = IF r = <<>> THEN None ELSE r[Len(r)]
    <2>1. CASE k = N
      <3>1. tail' = IF N = 1 THEN None ELSE s[N - 1]
        BY <1>1, <1>7, <1>8, <2>1
      <3>2. N # 1 => r[N - 1] = s[N - 1]
        <4> SUFFICES ASSUME N # 1 PROVE r[N - 1] = s[N - 1]
          OBVIOUS
        <4>1. N - 1 \in 1..N - 1 /\ N - 1 < k
          BY <1>2, <1>4, <2>1
        <4> QED BY <1>6, <4>1
      <3> QED BY <1>6, <1>13, <3>1, <3>2
    <2>2. CASE k # N
      <3>1. N - 1 \in 1..N - 1 /\ ~(N - 1 < k) /\ N # 1 /\ (N - 1) + 1 = N
        BY <1>2, <1>10, <2>2
      <3>2. r[N - 1] = s[N]
        BY <1>6, <3>1
      <3> QED BY <1>1, <1>5, <1>6, <1>7, <1>13, <2>2, <3>1, <3>2
    <2> QED BY <2>1, <2>2
  <1>16. LinkedAs(r)'
    BY <1>6, <1>12, <1>14, <1>15 DEF LinkedAs
  <1>17. ASSUME NEW m \in Nodes \ ListNodes' PROVE next'[m] = None /\ prev'[m] = None
    <2>1. CASE m = n
      BY <1>1, <2>1
    <2>2. CASE m # n
      <3>1. m \notin ListNodes
        BY <1>9, <1>17, <2>2
      <3>2. next[m] = None /\ prev[m] = None
        BY <3>1 DEF IsList
      <3>3. \A j \in 1..N : s[j] # m
        BY <1>2, <3>1, Positioned DEF IsList, N
      <3>4. k # 1 => m # prev[n]
        <4> SUFFICES ASSUME k # 1 PROVE m # prev[n]
          OBVIOUS
        <4>1. k - 1 \in 1..N
          BY <1>2, <1>10
        <4> QED BY <1>8, <3>3, <4>1
      <3>5. k # N => m # next[n]
        <4> SUFFICES ASSUME k # N PROVE m # next[n]
          OBVIOUS
        <4>1. k + 1 \in 1..N
          BY <1>2, <1>10
        <4> QED BY <1>8, <3>3, <4>1
      <3> QED BY <1>1, <1>7, <2>2, <3>2, <3>4, <3>5
    <2> QED BY <2>1, <2>2
  <1>18. IsList(r)'
    <2>1. ToSet(r) = ListNodes'
      BY <1>6, <1>9 DEF IsList
    <2> QED BY <1>6, <1>16, <1>17, <2>1 DEF IsList
  <1> QED BY <1>9, <1>18

LEMMA DeleteAllLinks ==
    ASSUME ElementTypes, list_delete
    PROVE  /\ IsList(<<>>)'
           /\ next' \in [Nodes -> Nodes \cup {None}]
           /\ prev' \in [Nodes -> Nodes \cup {None}]
           /\ head' \in Nodes \cup {None} /\ tail' \in Nodes \cup {None}
           /\ elem' \in [Nodes -> Elems \cup {None}]
           /\ ListNodes' = {}
  <1>1. /\ head' = None /\ tail' = None
        /\ next' = [n \in Nodes |-> None] /\ prev' = [n \in Nodes |-> None]
        /\ elem' = [n \in Nodes |-> None]
    BY DEF list_delete
  <1>2. ListNodes' = {}
    BY <1>1 DEF ListNodes
  <1>3. <<>> \in Seq(Nodes) /\ IsInjective(<<>>) /\ ToSet(<<>>) = {} /\ Len(<<>>) = 0
    BY EmptyQueue, EmptySeq
  <1>4. LinkedAs(<<>>)'
    BY <1>1, <1>3 DEF LinkedAs
  <1> QED BY <1>1, <1>2, <1>3, <1>4 DEF IsList

\* The nodes of the list are as many as the sequence is long.
LEMMA ListCounted ==
    ASSUME NEW s, IsList(s) PROVE ListIsLinked
  <1>1. /\ s \in Seq(Nodes) /\ ToSet(s) = ListNodes /\ Len(s) \in Nat
        /\ DOMAIN s = 1..Len(s) /\ s = [k \in 1..Len(s) |-> s[k]]
        /\ \A k \in 1..Len(s) : s[k] \in ListNodes
        /\ \A x \in ListNodes : \E k \in 1..Len(s) : s[k] = x
        /\ \A j, k \in 1..Len(s) : s[j] = s[k] => j = k
    BY Positioned DEF IsList
  <1>2. s \in Bijection(1..Len(s), ListNodes)
    <2>1. s \in [1..Len(s) -> ListNodes]
      BY <1>1
    <2>2. IsInjective(s)
      BY DEF IsList
    <2>3. s \in Injection(1..Len(s), ListNodes)
      BY <2>1, <2>2 DEF Injection
    <2>4. s \in Surjection(1..Len(s), ListNodes)
      BY <1>1, <2>1 DEF Surjection
    <2> QED BY <2>3, <2>4 DEF Bijection
  <1>3. IsFiniteSet(1..Len(s)) /\ Cardinality(1..Len(s)) = Len(s)
    <2>1. Len(s) \in Nat /\ Len(s) \in Int /\ 1 \in Int
      BY <1>1
    <2>2. /\ IsFiniteSet(1..Len(s))
          /\ Cardinality(1..Len(s)) = IF 1 > Len(s) THEN 0 ELSE Len(s) - 1 + 1
      BY <2>1, FS_Interval
    <2> QED BY <2>1, <2>2
  <1>4. Cardinality(ListNodes) = Len(s)
    <2>1. ExistsBijection(1..Len(s), ListNodes)
      BY <1>2 DEF ExistsBijection
    <2> QED BY <1>3, <2>1, FS_Bijection
  <1>5. s \in SetToSeqs(ListNodes)
    BY <1>1, <1>4 DEF SetToSeqs
  <1>6. /\ head = (IF s = <<>> THEN None ELSE Head(s))
        /\ tail = (IF s = <<>> THEN None ELSE Last(s))
    <2>1. s # <<>> => Head(s) = s[1] /\ Last(s) = s[Len(s)]
      BY <1>1 DEF Last
    <2> QED BY <2>1 DEF IsList, LinkedAs
  <1>7. \A k \in DOMAIN s :
          /\ next[s[k]] = (IF k = Len(s) THEN None ELSE s[k + 1])
          /\ prev[s[k]] = (IF k = 1 THEN None ELSE s[k - 1])
    BY <1>1 DEF IsList, LinkedAs
  <1> QED BY <1>5, <1>6, <1>7 DEF ListIsLinked
-----------------------------------------------------------------------------
(* What a step leaves alone. *)

LEMMA SameList ==
    ASSUME UNCHANGED listVars
    PROVE  /\ ListNodes' = ListNodes
           /\ \A e : InList(e)' = InList(e)
           /\ \A s : IsList(s) => IsList(s)'
  BY DEF listVars, ListNodes, InList, IsList, LinkedAs

LEMMA SameTree ==
    ASSUME UNCHANGED <<value, tree>>
    PROVE  /\ \A e : InTree(e)' = InTree(e)
           /\ TreeIsClosed => TreeIsClosed'
           /\ TreeIsOrdered => TreeIsOrdered'
  BY DEF InTree, TreeIsClosed, TreeIsOrdered, compare

-----------------------------------------------------------------------------
(* The client's references. *)

LEMMA NewKeeps ==
    ASSUME ElementsInv, NEW e \in Elems, element_new(e) PROVE ElementsInv'
  <1>1. /\ count[e] = 0
        /\ e \in StrElements => strCount[e] = 0
        /\ refs' = [refs EXCEPT ![e] = 1] /\ count' = [count EXCEPT ![e] = 1]
        /\ strCount' = [s \in StrElements |-> IF s = e THEN 1 ELSE strCount[s]]
        /\ UNCHANGED <<value, strRefs, listVars, tree>>
    BY DEF element_new
  <1>2. ElementTypes /\ CountsAreReferences
    BY DEF ElementsInv
  <1>3. /\ ListNodes' = ListNodes /\ \A f : InList(f)' = InList(f) /\ InTree(f)' = InTree(f)
        /\ TreeIsClosed' /\ TreeIsOrdered' /\ \E s : IsList(s)'
    BY <1>1, SameList, SameTree DEF ElementsInv
  <1>4. ElementTypes'
    BY <1>1, <1>2, <1>3 DEF ElementTypes, listVars
  <1>5. \A f \in Elems : count'[f] = References(f)'
    <2>1. \A f \in Elems : References(f)' = refs'[f] + Cardinality(InList(f)) + Cardinality(InTree(f))
      BY <1>3 DEF References
    <2>2. ASSUME NEW f \in Elems PROVE count'[f] = References(f)'
      <3>1. CASE f = e
        <4>0. count[e] = 0 /\ \A g \in Elems : count[g] = References(g)
          BY <1>1, <1>2, Counted
        <4>1. References(e) = 0
          BY <4>0
        <4>2. Cardinality(InList(e)) = 0 /\ Cardinality(InTree(e)) = 0
          BY <1>2, <4>1, PlacesFinite
        <4>3. refs'[e] = 1 /\ count'[e] = 1
          BY <1>1, <1>2 DEF ElementTypes
        <4> QED BY <2>1, <3>1, <4>2, <4>3
      <3>2. CASE f # e
        <4>1. refs'[f] = refs[f] /\ count'[f] = count[f]
          BY <1>1, <1>2, <3>2 DEF ElementTypes
        <4> QED BY <1>2, <2>1, <4>1, Counted DEF References
      <3> QED BY <3>1, <3>2
    <2> QED BY <2>2
  <1>6. ASSUME NEW s \in StrElements
        PROVE  strCount'[s] = strRefs'[s] + (IF count'[s] > 0 THEN 1 ELSE 0)
    <2>1. /\ strCount[s] = strRefs[s] + (IF count[s] > 0 THEN 1 ELSE 0)
          /\ strRefs[s] \in Nat /\ strRefs' = strRefs /\ s \in Elems
      BY <1>1, <1>2, Counted, StringIsElement DEF ElementTypes
    <2>2. count'[s] = IF s = e THEN 1 ELSE count[s]
      BY <1>1, <1>2, <2>1 DEF ElementTypes
    <2>3. strCount'[s] = IF s = e THEN 1 ELSE strCount[s]
      BY <1>1
    <2>4. s = e => strCount[s] = 0 /\ count[s] = 0
      BY <1>1
    <2> QED BY <2>1, <2>2, <2>3, <2>4
  <1>7. CountsAreReferences'
    BY <1>5, <1>6 DEF CountsAreReferences, References
  <1> QED BY <1>3, <1>4, <1>7 DEF ElementsInv

LEMMA KeepKeeps ==
    ASSUME ElementsInv, NEW e \in Elems, KeepElement(e) PROVE ElementsInv'
  <1>1. /\ Reachable(e) /\ rc_keep_ref(e) /\ refs' = [refs EXCEPT ![e] = @ + 1]
        /\ UNCHANGED <<value, strRefs, listVars, tree>>
    BY DEF KeepElement
  <1>2. ElementTypes /\ CountsAreReferences
    BY DEF ElementsInv
  <1>3. /\ ListNodes' = ListNodes /\ \A f : InList(f)' = InList(f) /\ InTree(f)' = InTree(f)
        /\ TreeIsClosed' /\ TreeIsOrdered' /\ \E s : IsList(s)'
    BY <1>1, SameList, SameTree DEF ElementsInv
  <1>4. ASSUME NEW f \in Elems
        PROVE  References(f)' = References(f) + (IF f = e THEN 1 ELSE 0)
    <2>1. refs'[f] = refs[f] + (IF f = e THEN 1 ELSE 0) /\ refs[f] \in Nat
      BY <1>1, <1>2 DEF ElementTypes
    <2>2. Cardinality(InList(f)) \in Nat /\ Cardinality(InTree(f)) \in Nat
      BY <1>2, PlacesFinite
    <2> QED BY <1>3, <2>1, <2>2 DEF References
  <1>5. CountsAreReferences' /\ count' \in [Elems -> Int] /\ strCount' \in [StrElements -> Int]
    BY <1>1, <1>2, <1>4, PlacesFinite, KeepCounts
  <1>6. ElementTypes'
    BY <1>1, <1>2, <1>3, <1>5 DEF ElementTypes, listVars
  <1> QED BY <1>3, <1>5, <1>6 DEF ElementsInv

LEMMA OnceIs ==
    ASSUME NEW e, NEW f \in Elems PROVE Once(e)[f] = IF f = e THEN 1 ELSE 0
  BY DEF Once

LEMMA FreeKeepsElements ==
    ASSUME ElementsInv, NEW e \in Elems, FreeElement(e) PROVE ElementsInv'
  <1>1. /\ refs[e] > 0 /\ rc_free_ref(Once(e)) /\ refs' = [refs EXCEPT ![e] = @ - 1]
        /\ UNCHANGED <<value, strRefs, listVars, tree>>
    BY DEF FreeElement
  <1>2. ElementTypes /\ CountsAreReferences
    BY DEF ElementsInv
  <1>3. /\ ListNodes' = ListNodes /\ \A f : InList(f)' = InList(f) /\ InTree(f)' = InTree(f)
        /\ TreeIsClosed' /\ TreeIsOrdered' /\ \E s : IsList(s)'
    BY <1>1, SameList, SameTree DEF ElementsInv
  <1>4. ASSUME NEW f \in Elems
        PROVE  /\ References(f)' = References(f) - Once(e)[f]
               /\ Once(e)[f] \in 0..References(f)
    <2>1. refs'[f] = refs[f] - (IF f = e THEN 1 ELSE 0) /\ refs[f] \in Nat
      BY <1>1, <1>2 DEF ElementTypes
    <2>2. Cardinality(InList(f)) \in Nat /\ Cardinality(InTree(f)) \in Nat
          /\ References(f) >= refs[f] /\ References(f) \in Nat
      BY <1>2, PlacesFinite
    <2>3. References(f)' = References(f) - (IF f = e THEN 1 ELSE 0)
      BY <1>3, <2>1, <2>2 DEF References
    <2>4. Once(e)[f] = IF f = e THEN 1 ELSE 0
      BY OnceIs
    <2>5. f = e => refs[f] > 0
      BY <1>1
    <2> QED BY <2>1, <2>2, <2>3, <2>4, <2>5
  <1>5. CountsAreReferences' /\ count' \in [Elems -> Int] /\ strCount' \in [StrElements -> Int]
    BY <1>1, <1>2, <1>4, FreeCounts
  <1>6. refs' \in [Elems -> Nat]
    BY <1>1, <1>2 DEF ElementTypes
  <1>7. ElementTypes'
    BY <1>1, <1>2, <1>3, <1>5, <1>6 DEF ElementTypes, listVars
  <1> QED BY <1>3, <1>5, <1>7 DEF ElementsInv

LEMMA StringsKeep ==
    ASSUME ElementsInv, NEW e \in StrElements, KeepString(e) \/ FreeString(e)
    PROVE  ElementsInv'
  <1>1. /\ UNCHANGED <<value, refs, count, listVars, tree>>
        /\ \E d \in {1, -1} : /\ strCount' = [strCount EXCEPT ![e] = @ + d]
                              /\ strRefs' = [strRefs EXCEPT ![e] = @ + d]
                              /\ strRefs[e] + d \in Nat
    <2>1. strRefs[e] \in Nat /\ strCount[e] \in Int
      BY DEF ElementsInv, ElementTypes
    <2>2. CASE KeepString(e)
      <3>1. strRefs[e] + 1 \in Nat
        BY <2>1
      <3> QED BY <2>2, <3>1 DEF KeepString
    <2>3. CASE FreeString(e)
      <3>1. /\ strRefs[e] + (-1) \in Nat
            /\ strRefs[e] - 1 = strRefs[e] + (-1)
            /\ strCount[e] - 1 = strCount[e] + (-1)
        BY <2>1, <2>3 DEF FreeString
      <3> QED BY <2>3, <3>1 DEF FreeString
    <2> QED BY <2>2, <2>3
  <1>2. PICK d \in {1, -1} : /\ strCount' = [strCount EXCEPT ![e] = @ + d]
                             /\ strRefs' = [strRefs EXCEPT ![e] = @ + d]
                             /\ strRefs[e] + d \in Nat
    BY <1>1
  <1>3. ElementTypes /\ CountsAreReferences
    BY DEF ElementsInv
  <1>4. /\ ListNodes' = ListNodes /\ \A f : InList(f)' = InList(f) /\ InTree(f)' = InTree(f)
        /\ TreeIsClosed' /\ TreeIsOrdered' /\ \E s : IsList(s)'
    BY <1>1, SameList, SameTree DEF ElementsInv
  <1>5. ElementTypes'
    <2>1. strCount' \in [StrElements -> Int] /\ strRefs' \in [StrElements -> Nat]
      BY <1>2, <1>3 DEF ElementTypes
    <2> QED BY <1>1, <1>3, <1>4, <2>1 DEF ElementTypes, listVars
  <1>6. CountsAreReferences'
    <2>1. \A f \in Elems : count'[f] = References(f)'
      BY <1>1, <1>3, <1>4, Counted DEF References
    <2>2. ASSUME NEW s \in StrElements
          PROVE  strCount'[s] = strRefs'[s] + (IF count'[s] > 0 THEN 1 ELSE 0)
      <3>1. strCount[s] = strRefs[s] + (IF count[s] > 0 THEN 1 ELSE 0) /\ strRefs[s] \in Nat
        BY <1>3, Counted DEF ElementTypes
      <3>2. /\ strCount'[s] = strCount[s] + (IF s = e THEN d ELSE 0)
            /\ strRefs'[s] = strRefs[s] + (IF s = e THEN d ELSE 0)
        BY <1>2, <1>3 DEF ElementTypes
      <3>3. count' = count
        BY <1>1
      <3> QED BY <3>1, <3>2, <3>3
    <2> QED BY <2>1, <2>2 DEF CountsAreReferences, References
  <1> QED BY <1>4, <1>5, <1>6 DEF ElementsInv
-----------------------------------------------------------------------------
(* The structures' references. *)

LEMMA AddKeeps ==
    ASSUME ElementsInv, NEW n \in Nodes, NEW e \in Elems, list_add_element(n, e)
    PROVE  ElementsInv'
  <1>1. PICK s : IsList(s)
    BY DEF ElementsInv
  <1>2. ElementTypes /\ CountsAreReferences
    BY DEF ElementsInv
  <1>3. /\ Reachable(e) /\ rc_keep_ref(e) /\ elem' = [elem EXCEPT ![n] = e]
        /\ UNCHANGED <<value, refs, strRefs, tree>> /\ elem[n] = None
    BY DEF list_add_element, clientVars
  <1>4. /\ IsList(Append(s, n))'
        /\ next' \in [Nodes -> Nodes \cup {None}]
        /\ prev' \in [Nodes -> Nodes \cup {None}]
        /\ head' \in Nodes \cup {None} /\ tail' \in Nodes \cup {None}
        /\ elem' \in [Nodes -> Elems \cup {None}]
        /\ ListNodes' = ListNodes \cup {n} /\ n \notin ListNodes
    BY <1>1, <1>2, AddLinks
  <1>5. /\ \A f : InTree(f)' = InTree(f)
        /\ TreeIsClosed' /\ TreeIsOrdered'
    BY <1>3, SameTree DEF ElementsInv
  <1>6. ASSUME NEW f \in Elems
        PROVE  References(f)' = References(f) + (IF f = e THEN 1 ELSE 0)
    <2>1. InList(f)' = IF f = e THEN InList(f) \cup {n} ELSE InList(f)
      BY <1>2, <1>3, ElementsAssumption DEF ElementTypes, InList, Elems
    <2>2. n \notin InList(f)
      BY <1>3, ElementsAssumption DEF InList, Elems
    <2>3. Cardinality(InList(f)') = Cardinality(InList(f)) + (IF f = e THEN 1 ELSE 0)
      <3>1. IsFiniteSet(InList(f)) /\ Cardinality(InList(f)) \in Nat
        BY <1>2, PlacesFinite
      <3>2. Cardinality(InList(f) \cup {n}) = Cardinality(InList(f)) + 1
        BY <2>2, <3>1, FS_AddElement
      <3> QED BY <2>1, <3>1, <3>2
    <2>4. refs'[f] = refs[f] /\ InTree(f)' = InTree(f)
      BY <1>3, <1>5
    <2>5. /\ Cardinality(InList(f)) \in Nat /\ Cardinality(InTree(f)) \in Nat
          /\ refs[f] \in Nat
      BY <1>2, PlacesFinite DEF ElementTypes
    <2> QED BY <2>3, <2>4, <2>5 DEF References
  <1>7. CountsAreReferences' /\ count' \in [Elems -> Int] /\ strCount' \in [StrElements -> Int]
    BY <1>2, <1>3, <1>6, PlacesFinite, KeepCounts
  <1>8. IsFiniteSet(ListNodes')
    BY <1>2, <1>4, FS_AddElement DEF ElementTypes
  <1>9. ElementTypes'
    BY <1>2, <1>3, <1>4, <1>7, <1>8 DEF ElementTypes
  <1> QED BY <1>4, <1>5, <1>7, <1>9 DEF ElementsInv

LEMMA DeleteElementKeeps ==
    ASSUME ElementsInv, NEW n \in Nodes, list_delete_element(n) PROVE ElementsInv'
  <1>1. PICK s : IsList(s)
    BY DEF ElementsInv
  <1>2. ElementTypes /\ CountsAreReferences
    BY DEF ElementsInv
  <1>3. /\ n \in ListNodes /\ rc_free_ref(Once(elem[n]))
        /\ elem' = [elem EXCEPT ![n] = None]
        /\ UNCHANGED <<value, refs, strRefs, tree>>
    BY DEF list_delete_element, clientVars
  <1>4. /\ \E r : IsList(r)'
        /\ next' \in [Nodes -> Nodes \cup {None}]
        /\ prev' \in [Nodes -> Nodes \cup {None}]
        /\ head' \in Nodes \cup {None} /\ tail' \in Nodes \cup {None}
        /\ elem' \in [Nodes -> Elems \cup {None}]
        /\ ListNodes' = ListNodes \ {n}
    BY <1>1, <1>2, DeleteLinks
  <1>5. /\ \A f : InTree(f)' = InTree(f)
        /\ TreeIsClosed' /\ TreeIsOrdered'
    BY <1>3, SameTree DEF ElementsInv
  <1>6. elem[n] \in Elems /\ n \in InList(elem[n])
    BY <1>2, <1>3 DEF ElementTypes, ListNodes, InList
  <1>7. ASSUME NEW f \in Elems
        PROVE  /\ References(f)' = References(f) - Once(elem[n])[f]
               /\ Once(elem[n])[f] \in 0..References(f)
    <2>1. InList(f)' = IF f = elem[n] THEN InList(f) \ {n} ELSE InList(f)
      BY <1>2, <1>3, ElementsAssumption DEF ElementTypes, InList, Elems
    <2>2. /\ IsFiniteSet(InList(f)) /\ Cardinality(InList(f)) \in Nat
          /\ Cardinality(InTree(f)) \in Nat
          /\ References(f) \in Nat /\ References(f) >= Cardinality(InList(f))
      BY <1>2, PlacesFinite
    <2>3. f = elem[n] => Cardinality(InList(f)) > 0
      BY <1>6, <2>2, FS_EmptySet
    <2>4. Cardinality(InList(f)') = Cardinality(InList(f)) - (IF f = elem[n] THEN 1 ELSE 0)
      <3>1. f = elem[n] => Cardinality(InList(f) \ {n}) = Cardinality(InList(f)) - 1
        BY <1>6, <2>2, FS_RemoveElement
      <3> QED BY <2>1, <2>2, <3>1
    <2>5. refs'[f] = refs[f] /\ InTree(f)' = InTree(f) /\ refs[f] \in Nat
      BY <1>2, <1>3, <1>5 DEF ElementTypes
    <2>6. References(f)' = References(f) - (IF f = elem[n] THEN 1 ELSE 0)
      BY <2>2, <2>4, <2>5 DEF References
    <2>7. Once(elem[n])[f] = IF f = elem[n] THEN 1 ELSE 0
      BY OnceIs
    <2> QED BY <2>2, <2>3, <2>6, <2>7
  <1>8. CountsAreReferences' /\ count' \in [Elems -> Int] /\ strCount' \in [StrElements -> Int]
    BY <1>2, <1>3, <1>7, FreeCounts
  <1>9. IsFiniteSet(ListNodes')
    BY <1>2, <1>4, FS_RemoveElement DEF ElementTypes
  <1>10. ElementTypes'
    BY <1>2, <1>3, <1>4, <1>8, <1>9 DEF ElementTypes
  <1> QED BY <1>4, <1>5, <1>8, <1>10 DEF ElementsInv

LEMMA DeleteListKeeps ==
    ASSUME ElementsInv, list_delete PROVE ElementsInv'
  <1> DEFINE times == [e \in Elems |-> Cardinality(InList(e))]
  <1>1. ElementTypes /\ CountsAreReferences
    BY DEF ElementsInv
  <1>2. /\ rc_free_ref(times) /\ elem' = [m \in Nodes |-> None]
        /\ UNCHANGED <<value, refs, strRefs, tree>>
    BY DEF list_delete, clientVars
  <1>3. /\ IsList(<<>>)'
        /\ next' \in [Nodes -> Nodes \cup {None}]
        /\ prev' \in [Nodes -> Nodes \cup {None}]
        /\ head' \in Nodes \cup {None} /\ tail' \in Nodes \cup {None}
        /\ elem' \in [Nodes -> Elems \cup {None}]
        /\ ListNodes' = {}
    BY <1>1, DeleteAllLinks
  <1>4. /\ \A f : InTree(f)' = InTree(f)
        /\ TreeIsClosed' /\ TreeIsOrdered'
    BY <1>2, SameTree DEF ElementsInv
  <1>5. ASSUME NEW f \in Elems
        PROVE  /\ References(f)' = References(f) - times[f]
               /\ times[f] \in 0..References(f)
    <2>1. InList(f)' = {}
      BY <1>2, ElementsAssumption DEF InList, Elems
    <2>2. Cardinality(InList(f)') = 0
      BY <2>1, FS_EmptySet
    <2>3. /\ Cardinality(InList(f)) \in Nat /\ Cardinality(InTree(f)) \in Nat
          /\ References(f) \in Nat /\ References(f) >= Cardinality(InList(f))
      BY <1>1, PlacesFinite
    <2>4. refs'[f] = refs[f] /\ InTree(f)' = InTree(f) /\ refs[f] \in Nat
      BY <1>1, <1>2, <1>4 DEF ElementTypes
    <2>5. References(f)' = References(f) - Cardinality(InList(f))
      BY <2>2, <2>3, <2>4 DEF References
    <2> QED BY <2>3, <2>5
  <1> HIDE DEF times
  <1>6. CountsAreReferences' /\ count' \in [Elems -> Int] /\ strCount' \in [StrElements -> Int]
    BY <1>1, <1>2, <1>5, FreeCounts
  <1>7. ElementTypes'
    BY <1>1, <1>2, <1>3, <1>6, FS_EmptySet DEF ElementTypes
  <1> QED BY <1>3, <1>4, <1>6, <1>7 DEF ElementsInv
-----------------------------------------------------------------------------
(* The tree. *)

LEMMA WholePath == \A S : \A p \in Seq(S) : Len(p) \in Nat /\ SubSeq(p, 1, Len(p)) = p
  BY LenProperties, SubSeqFull

\* A new place is below nodes of the tree only, and above none.
LEMMA InsertOrdered ==
    ASSUME ElementTypes, TreeIsClosed, TreeIsOrdered, NEW e \in Elems,
           NEW p \in Seq(Turns), IsPlace(p, e), UNCHANGED value,
           tree' = [q \in DOMAIN tree \cup {p} |-> IF q = p THEN e ELSE tree[q]]
    PROVE  TreeIsClosed' /\ TreeIsOrdered'
  <1>1. /\ DOMAIN tree' = DOMAIN tree \cup {p} /\ tree'[p] = e
        /\ p \notin DOMAIN tree /\ \A q \in DOMAIN tree : tree'[q] = tree[q]
    BY DEF IsPlace
  <1>2. \A j \in 1..Len(p) :
          /\ SubSeq(p, 1, j - 1) \in DOMAIN tree
          /\ p[j] = "left" <=> compare(e, tree[SubSeq(p, 1, j - 1)]) <= 0
    BY DEF IsPlace
  <1>3. \A q \in DOMAIN tree \cup {p} : Len(q) \in Nat /\ SubSeq(q, 1, Len(q)) = q
    BY WholePath DEF ElementTypes
  <1>4. \A f, g : compare(f, g)' = compare(f, g)
    BY DEF compare
  <1>5. TreeIsClosed'
    <2>1. ASSUME NEW k \in 0..Len(p) PROVE SubSeq(p, 1, k) \in DOMAIN tree \cup {p}
      <3>1. CASE k = Len(p)
        BY <1>3, <3>1
      <3>2. CASE k # Len(p)
        <4>1. k + 1 \in 1..Len(p) /\ (k + 1) - 1 = k
          BY <1>3, <3>2
        <4> QED BY <1>2, <4>1
      <3> QED BY <3>1, <3>2
    <2>2. \A q \in DOMAIN tree : \A k \in 0..Len(q) : SubSeq(q, 1, k) \in DOMAIN tree
      BY DEF TreeIsClosed
    <2> QED BY <1>1, <2>1, <2>2 DEF TreeIsClosed
  <1>6. ASSUME NEW a \in DOMAIN tree \cup {p}, NEW b \in DOMAIN tree \cup {p},
               IsStrictPrefix(a, b)
        PROVE  b[Len(a) + 1] = "left" <=> compare(tree'[b], tree'[a]) <= 0
    <2>1. /\ Len(a) <= Len(b) /\ a = SubSeq(b, 1, Len(a)) /\ a # b
          /\ Len(a) \in Nat /\ Len(b) \in Nat
      BY <1>3, <1>6 DEF IsStrictPrefix, IsPrefix
    <2>2. CASE a = p
      <3>1. b \in DOMAIN tree /\ Len(a) \in 0..Len(b)
        BY <2>1, <2>2
      <3>2. a \in DOMAIN tree
        BY <2>1, <3>1 DEF TreeIsClosed
      <3> QED BY <1>1, <2>2, <3>2
    <2>3. CASE a # p /\ b = p
      <3>1. Len(a) # Len(p)
        BY <1>3, <2>1, <2>3
      <3>2. Len(a) + 1 \in 1..Len(p) /\ (Len(a) + 1) - 1 = Len(a)
        BY <2>1, <2>3, <3>1
      <3>3. p[Len(a) + 1] = "left" <=> compare(e, tree[a]) <= 0
        BY <1>2, <2>1, <2>3, <3>2
      <3> QED BY <1>1, <2>3, <3>3
    <2>4. CASE a # p /\ b # p
      BY <1>1, <1>6, <2>4 DEF TreeIsOrdered
    <2> QED BY <2>2, <2>3, <2>4
  <1>7. TreeIsOrdered'
    BY <1>1, <1>4, <1>6 DEF TreeIsOrdered
  <1> QED BY <1>5, <1>7

LEMMA InsertKeeps ==
    ASSUME ElementsInv, NEW e \in Elems, tree_insert_node(e) PROVE ElementsInv'
  <1>1. /\ Reachable(e) /\ rc_keep_ref(e)
        /\ UNCHANGED <<value, refs, strRefs, listVars>>
    BY DEF tree_insert_node, clientVars
  <1>2. ElementTypes /\ CountsAreReferences /\ TreeIsClosed /\ TreeIsOrdered
    BY DEF ElementsInv
  <1>3. PICK p \in SeqOf(Turns, MaxNodes - 1) :
          /\ IsPlace(p, e)
          /\ tree' = [q \in DOMAIN tree \cup {p} |-> IF q = p THEN e ELSE tree[q]]
    BY DEF tree_insert_node
  <1>4. p \in Seq(Turns)
    <2>1. PICK m \in 0..(MaxNodes - 1) : p \in [1..m -> Turns]
      BY <1>3 DEF SeqOf
    <2>2. m \in Nat
      BY <2>1, ElementsAssumption
    <2> QED BY <2>1, <2>2, SeqDef
  <1>5. TreeIsClosed' /\ TreeIsOrdered'
    BY <1>1, <1>2, <1>3, <1>4, InsertOrdered
  <1>6. /\ ListNodes' = ListNodes /\ \A f : InList(f)' = InList(f) /\ \E s : IsList(s)'
    BY <1>1, SameList DEF ElementsInv
  <1>7. /\ DOMAIN tree' = DOMAIN tree \cup {p} /\ tree'[p] = e
        /\ p \notin DOMAIN tree /\ \A q \in DOMAIN tree : tree'[q] = tree[q]
    BY <1>3 DEF IsPlace
  <1>8. ASSUME NEW f \in Elems
        PROVE  References(f)' = References(f) + (IF f = e THEN 1 ELSE 0)
    <2>1. InTree(f)' = IF f = e THEN InTree(f) \cup {p} ELSE InTree(f)
      BY <1>7 DEF InTree
    <2>2. p \notin InTree(f)
      BY <1>7 DEF InTree
    <2>3. /\ IsFiniteSet(InTree(f)) /\ Cardinality(InTree(f)) \in Nat
          /\ Cardinality(InList(f)) \in Nat
      BY <1>2, PlacesFinite
    <2>4. Cardinality(InTree(f) \cup {p}) = Cardinality(InTree(f)) + 1
      BY <2>2, <2>3, FS_AddElement
    <2>5. Cardinality(InTree(f)') = Cardinality(InTree(f)) + (IF f = e THEN 1 ELSE 0)
      BY <2>1, <2>3, <2>4
    <2>6. refs'[f] = refs[f] /\ InList(f)' = InList(f) /\ refs[f] \in Nat
      BY <1>1, <1>2, <1>6 DEF ElementTypes
    <2> QED BY <2>3, <2>5, <2>6 DEF References
  <1>9. CountsAreReferences' /\ count' \in [Elems -> Int] /\ strCount' \in [StrElements -> Int]
    BY <1>1, <1>2, <1>8, PlacesFinite, KeepCounts
  <1>10. /\ DOMAIN tree' \subseteq Seq(Turns) /\ \A q \in DOMAIN tree' : tree'[q] \in Elems
         /\ IsFiniteSet(DOMAIN tree')
    BY <1>2, <1>4, <1>7, FS_AddElement DEF ElementTypes
  <1>11. ElementTypes'
    BY <1>1, <1>2, <1>6, <1>9, <1>10 DEF ElementTypes, listVars
  <1> QED BY <1>5, <1>6, <1>9, <1>11 DEF ElementsInv

LEMMA DeleteTreeKeeps ==
    ASSUME ElementsInv, tree_delete PROVE ElementsInv'
  <1> DEFINE times == [e \in Elems |-> Cardinality(InTree(e))]
  <1>1. ElementTypes /\ CountsAreReferences
    BY DEF ElementsInv
  <1>2. /\ rc_free_ref(times) /\ tree' = <<>>
        /\ UNCHANGED <<value, refs, strRefs, listVars>>
    BY DEF tree_delete, clientVars
  <1>3. DOMAIN tree' = {}
    BY <1>2
  <1>4. /\ ListNodes' = ListNodes /\ \A f : InList(f)' = InList(f) /\ \E s : IsList(s)'
    BY <1>2, SameList DEF ElementsInv
  <1>5. TreeIsClosed' /\ TreeIsOrdered'
    BY <1>3 DEF TreeIsClosed, TreeIsOrdered
  <1>6. ASSUME NEW f \in Elems
        PROVE  /\ References(f)' = References(f) - times[f]
               /\ times[f] \in 0..References(f)
    <2>1. InTree(f)' = {}
      BY <1>3 DEF InTree
    <2>2. Cardinality(InTree(f)') = 0
      BY <2>1, FS_EmptySet
    <2>3. /\ Cardinality(InList(f)) \in Nat /\ Cardinality(InTree(f)) \in Nat
          /\ References(f) \in Nat /\ References(f) >= Cardinality(InTree(f))
      BY <1>1, PlacesFinite
    <2>4. refs'[f] = refs[f] /\ InList(f)' = InList(f) /\ refs[f] \in Nat
      BY <1>1, <1>2, <1>4 DEF ElementTypes
    <2>5. References(f)' = References(f) - Cardinality(InTree(f))
      BY <2>2, <2>3, <2>4 DEF References
    <2> QED BY <2>3, <2>5
  <1> HIDE DEF times
  <1>7. CountsAreReferences' /\ count' \in [Elems -> Int] /\ strCount' \in [StrElements -> Int]
    BY <1>1, <1>2, <1>6, FreeCounts
  <1>8. ElementTypes'
    BY <1>1, <1>2, <1>3, <1>4, <1>7, FS_EmptySet DEF ElementTypes, listVars
  <1> QED BY <1>4, <1>5, <1>7, <1>8 DEF ElementsInv
-----------------------------------------------------------------------------
(* All of it. *)

LEMMA ElementsInitially == ElementsInit => ElementsInv
  <1> SUFFICES ASSUME ElementsInit PROVE ElementsInv
    OBVIOUS
  <1>1. /\ count = [e \in Elems |-> 0] /\ strCount = [e \in StrElements |-> 0]
        /\ refs = [e \in Elems |-> 0] /\ strRefs = [e \in StrElements |-> 0]
        /\ head = None /\ tail = None
        /\ next = [n \in Nodes |-> None] /\ prev = [n \in Nodes |-> None]
        /\ elem = [n \in Nodes |-> None] /\ tree = <<>>
    BY DEF ElementsInit
  <1>2. ListNodes = {} /\ DOMAIN tree = {}
    BY <1>1 DEF ListNodes
  <1>3. <<>> \in Seq(Nodes) /\ IsInjective(<<>>) /\ ToSet(<<>>) = {} /\ Len(<<>>) = 0
    BY EmptyQueue, EmptySeq
  <1>4. ElementTypes
    BY <1>1, <1>2, FS_EmptySet DEF ElementTypes
  <1>5. IsList(<<>>)
    BY <1>1, <1>2, <1>3 DEF IsList, LinkedAs
  <1>6. CountsAreReferences
    <2>1. \A e \in Elems : InList(e) = {} /\ InTree(e) = {}
      BY <1>1, <1>2, ElementsAssumption DEF InList, InTree, Elems
    <2>2. Cardinality({}) = 0
      BY FS_EmptySet
    <2>3. \A e \in Elems : References(e) = 0 /\ count[e] = 0
      <3>1. ASSUME NEW e \in Elems PROVE References(e) = 0 /\ count[e] = 0
        <4>1. refs[e] = 0 /\ count[e] = 0
          BY <1>1
        <4>2. Cardinality(InList(e)) = 0 /\ Cardinality(InTree(e)) = 0
          BY <2>1, <2>2
        <4> QED BY <4>1, <4>2 DEF References
      <3> QED BY <3>1
    <2>4. \A s \in StrElements :
            strCount[s] = strRefs[s] + (IF count[s] > 0 THEN 1 ELSE 0)
      BY <1>1, StringIsElement
    <2> QED BY <2>3, <2>4, Counted
  <1>7. TreeIsClosed /\ TreeIsOrdered
    BY <1>2 DEF TreeIsClosed, TreeIsOrdered
  <1> QED BY <1>4, <1>5, <1>6, <1>7 DEF ElementsInv

LEMMA ElementsStep ==
    ASSUME ElementsInv, ElementsNext \/ UNCHANGED elementsVars PROVE ElementsInv'
  <1>1. CASE ElementsNext
    BY <1>1, NewKeeps, KeepKeeps, FreeKeepsElements, StringsKeep, AddKeeps,
       DeleteElementKeeps, DeleteListKeeps, InsertKeeps, DeleteTreeKeeps DEF ElementsNext
  <1>2. CASE UNCHANGED elementsVars
    <2>1. UNCHANGED <<value, refs, strRefs, count, strCount, listVars, tree>>
      BY <1>2 DEF elementsVars, clientVars, countVars
    <2>2. /\ ListNodes' = ListNodes /\ \A f : InList(f)' = InList(f) /\ \E s : IsList(s)'
          /\ \A f : InTree(f)' = InTree(f) /\ TreeIsClosed' /\ TreeIsOrdered'
      BY <2>1, SameList, SameTree DEF ElementsInv
    <2>3. ElementTypes' /\ CountsAreReferences'
      BY <2>1, <2>2 DEF ElementsInv, ElementTypes, CountsAreReferences, listVars
    <2> QED BY <2>2, <2>3 DEF ElementsInv
  <1> QED BY <1>1, <1>2

\* Whatever the client does with elements, lists, trees and queues in the order
\* its headers allow: the counts of soln-9's refcount.c are the references there
\* are, the links of list.c read forwards and backwards as one sequence, the
\* tree of tree.c is ordered, and the linked queues of threads of uthread.c
\* (code-9 and soln-8) hold what was put in, in order.  Whatever the arguments
\* of q3/main.c and sortmain.c and whichever of them go into the tree, the
\* programs with counted references use no element after it was freed and free
\* all of them, and code-3 uses those in the tree after it.
THEOREM LinksSoundCorrect == Spec => []LinksSound
  <1> DEFINE Inv == /\ ElementsInv /\ LinksInv
                    /\ library = "ElementPrograms" => ProgramsInv
  <1>1. Init => Inv
    BY ElementsInitially, LinksInitially, ProgramsInitially DEF Init
  <1>2. Inv /\ [Next]_vars => Inv'
    <2> SUFFICES ASSUME ElementsInv, LinksInv, library = "ElementPrograms" => ProgramsInv,
                        [Next]_vars
                 PROVE  /\ ElementsInv' /\ LinksInv'
                        /\ library' = "ElementPrograms" => ProgramsInv'
      OBVIOUS
    <2>1. ElementsNext \/ UNCHANGED elementsVars
      BY DEF Next, vars
    <2>2. LinkNext \/ UNCHANGED linkVars
      BY DEF Next, vars
    <2>3. /\ library' = library
          /\ library = "ElementPrograms" =>
               EP!ElementProgramsNext \/ UNCHANGED elementProgramVars
      BY DEF Next, vars
    <2> QED BY <2>1, <2>2, <2>3, ElementsStep, LinksStep, ProgramsStep
  <1>3. Inv => LinksSound
    BY ListCounted, ProgramsFree
       DEF ElementsInv, LinksInv, LinksSound, StructuresSound
  <1> QED BY <1>1, <1>2, <1>3, PTL DEF Spec
-----------------------------------------------------------------------------
(* The machines.  Of an instruction they are given any fields that fit the *)
(* halves of its bytes, whatever the program.                              *)

Halves == 0..15

LEMMA InnerTable ==
    ASSUME NEW m, NEW ins, ins.op0 \in Halves
    PROVE  SM!AtAlu(SM!jt_L6[ins.op0 + 1], m, ins) = SM!Alu(m, ins)
  <1>1. CASE ins.op0 \in 0..3
    BY <1>1 DEF SM!AtAlu, SM!Alu, SM!jt_L6
  <1>2. CASE ins.op0 \in 4..7
    BY <1>2 DEF SM!AtAlu, SM!Alu, SM!jt_L6
  <1>3. CASE ins.op0 \in 8..11
    BY <1>3 DEF SM!AtAlu, SM!Alu, SM!jt_L6
  <1>4. CASE ins.op0 \in 12..15
    BY <1>4 DEF SM!AtAlu, SM!Alu, SM!jt_L6
  <1> QED BY <1>1, <1>2, <1>3, <1>4 DEF Halves

LEMMA OuterTable ==
    ASSUME NEW m, NEW ins, ins.code \in Halves, ins.op0 \in Halves
    PROVE  SM!ExecTables(m, ins) = SM!Exec(m, ins)
  <1>1. SM!AtAlu(SM!jt_L6[ins.op0 + 1], m, ins) = SM!Alu(m, ins)
    BY InnerTable
  <1>2. CASE ins.code = 0
    BY <1>2 DEF SM!ExecTables, SM!At, SM!Exec, SM!jt
  <1>3. CASE ins.code = 1
    BY <1>3 DEF SM!ExecTables, SM!At, SM!Exec, SM!jt
  <1>4. CASE ins.code = 2
    BY <1>4 DEF SM!ExecTables, SM!At, SM!Exec, SM!jt
  <1>5. CASE ins.code = 3
    BY <1>5 DEF SM!ExecTables, SM!At, SM!Exec, SM!jt
  <1>6. CASE ins.code = 4
    BY <1>6 DEF SM!ExecTables, SM!At, SM!Exec, SM!jt
  <1>7. CASE ins.code = 5
    BY <1>7 DEF SM!ExecTables, SM!At, SM!Exec, SM!jt
  <1>8. CASE ins.code = 6
    BY <1>1, <1>8 DEF SM!ExecTables, SM!At, SM!Exec, SM!jt
  <1>9. CASE ins.code = 7
    BY <1>9 DEF SM!ExecTables, SM!At, SM!Exec, SM!jt
  <1>10. CASE ins.code = 8
    BY <1>10 DEF SM!ExecTables, SM!At, SM!Exec, SM!jt
  <1>11. CASE ins.code = 9
    BY <1>11 DEF SM!ExecTables, SM!At, SM!Exec, SM!jt
  <1>12. CASE ins.code = 10
    BY <1>12 DEF SM!ExecTables, SM!At, SM!Exec, SM!jt
  <1>13. CASE ins.code = 11
    BY <1>13 DEF SM!ExecTables, SM!At, SM!Exec, SM!jt
  <1>14. CASE ins.code = 12
    BY <1>14 DEF SM!ExecTables, SM!At, SM!Exec, SM!jt
  <1>15. CASE ins.code = 13
    BY <1>15 DEF SM!ExecTables, SM!At, SM!Exec, SM!jt
  <1>16. CASE ins.code = 14
    BY <1>16 DEF SM!ExecTables, SM!At, SM!Exec, SM!jt
  <1>17. CASE ins.code = 15
    BY <1>17 DEF SM!ExecTables, SM!At, SM!Exec, SM!jt
  <1> QED BY <1>2, <1>3, <1>4, <1>5, <1>6, <1>7, <1>8, <1>9, <1>10,
     <1>11, <1>12, <1>13, <1>14, <1>15, <1>16, <1>17 DEF Halves

LEMMA SignedOffsets ==
    ASSUME NEW m, NEW ins, ins.code = 12 => ins.imm \in 0..127
    PROVE  SM!CpuExec(m, ins) = SM!Exec(m, ins)
  <1>1. CASE ins.code = 12
    <2>1. ins.imm \in 0..127 /\ ins.imm % 65536 = ins.imm /\ ins.imm % 256 = ins.imm
      BY <1>1
    <2>2. SM!CpuJumpIndirect(m, ins) = SM!JumpIndirect(m, ins)
      BY <2>1 DEF SM!CpuJumpIndirect, SM!JumpIndirect, SM!JumpOffset
    <2> QED BY <1>1, <2>2 DEF SM!CpuExec, SM!Exec
  <1>2. CASE ins.code # 12
    BY <1>2 DEF SM!CpuExec
  <1> QED BY <1>1, <1>2

\* The fields of an instruction are halves of its bytes.
LEMMA FieldsAreHalves ==
    ASSUME NEW m, m.mem[m.pc] \in 0..255
    PROVE  SM!Fetch(m).code \in Halves /\ SM!Fetch(m).op0 \in Halves
  <1>1. \A b \in 0..255 : b \div 16 \in Halves /\ b % 16 \in Halves
    BY DEF Halves
  <1> QED BY <1>1 DEF SM!Fetch

\* Whatever program is in memory: where the instruction is one of bytes, both
\* simulators and the processor agree after it if they did before, except that
\* an indirect jump with an offset of 0x80 or more parts sm.c and CPU.java.
THEOREM SimulatorsStepTogether ==
    ASSUME SM!SimulatorsAgree, SM!compute, machine.mem[machine.pc] \in 0..255,
           SM!Fetch(machine).code = 12 => SM!Fetch(machine).imm \in 0..127
    PROVE  SM!SimulatorsAgree'
  <1> DEFINE ins == SM!Fetch(machine)
             m == SM!Fetched(machine)
  <1>1. machine = tables /\ machine = cpu
    BY DEF SM!SimulatorsAgree, SM!SwitchIsTable
  <1>2. /\ machine' = SM!Exec(m, ins)
        /\ tables' = SM!ExecTables(m, ins)
        /\ cpu' = SM!CpuExec(m, ins)
    BY <1>1 DEF SM!compute
  <1>3. ins.code \in Halves /\ ins.op0 \in Halves
    BY FieldsAreHalves
  <1> HIDE DEF ins, m
  <1>4. tables' = machine'
    BY <1>2, <1>3, OuterTable
  <1>5. cpu' = machine'
    <2>1. ins.code = 12 => ins.imm \in 0..127
      BY DEF ins
    <2> QED BY <1>2, <2>1, SignedOffsets
  <1> QED BY <1>4, <1>5 DEF SM!SimulatorsAgree, SM!SwitchIsTable
-----------------------------------------------------------------------------
(* Words and bytes. *)

Bytes == 0..255

LEMMA ByteIsByte ==
    ASSUME NEW word \in Int, NEW k \in 0..3
    PROVE  SM!Byte(word, k) \in Bytes
  <1>1. 256 ^ 0 = 1 /\ 256 ^ 1 = 256 /\ 256 ^ 2 = 65536 /\ 256 ^ 3 = 16777216
    OBVIOUS
  <1>2. k \in {0, 1, 2, 3}
    OBVIOUS
  <1>3. \A d \in Nat \ {0} : (word \div d) % 256 \in 0..255
    OBVIOUS
  <1> QED BY <1>1, <1>2, <1>3 DEF SM!Byte, Bytes

LEMMA WordIsInt ==
    ASSUME NEW b, \A k \in 1..4 : b[k] \in Int
    PROVE  SM!WordOf(b) \in Int
  BY DEF SM!WordOf, SM!Signed

LEMMA SumIsInt == \A a, b : a \in Int /\ b \in Int => SM!Plus(a, b) \in Int
  BY DEF SM!Plus, SM!MaxInt, SM!MinInt

LEMMA ShiftLeftIsInt ==
    \A word, n : word \in Int /\ n \in Nat => SM!ShiftLeft(word, n) \in Int
  <1> SUFFICES ASSUME NEW word \in Int, NEW n \in Nat
               PROVE  SM!ShiftLeft(word, n) \in Int
    OBVIOUS
  <1> DEFINE Eq(f) == f = [k \in 0..n |->
                             IF k = 0 THEN word ELSE SM!Plus(f[k - 1], f[k - 1])]
             shifted == CHOOSE f : Eq(f)
             h == [p \in (1..n) \X Int |-> SM!Plus(p[2], p[2])]
  <1>1. Makes(h, 1..n, Int)
    BY SumIsInt DEF Makes
  <1>2. \A k \in 1..n, x \in Int : h[<<k, x>>] = SM!Plus(x, x)
    OBVIOUS
  <1> HIDE DEF h
  <1>3. \E F \in [0..n -> Int] : /\ F[0] = word
                                 /\ \A k \in 1..n : F[k] = h[<<k, F[k - 1]>>]
    <2> DEFINE D == Int
    <2>1. n \in Nat /\ word \in D /\ Makes(h, 1..n, D)
      BY <1>1
    <2> HIDE DEF Eq, shifted, D
    <2>2. \E F \in [0..n -> D] : /\ F[0] = word
                                 /\ \A k \in 1..n : F[k] = h[<<k, F[k - 1]>>]
      BY <2>1, RecursionOnNumbers
    <2> QED BY <2>2 DEF D
  <1>4. PICK F \in [0..n -> Int] : /\ F[0] = word
                                   /\ \A k \in 1..n : F[k] = h[<<k, F[k - 1]>>]
    BY <1>3
  <1>5. \A k \in 0..n : F[k] = IF k = 0 THEN word ELSE SM!Plus(F[k - 1], F[k - 1])
    <2> SUFFICES ASSUME NEW k \in 0..n, k # 0 PROVE F[k] = SM!Plus(F[k - 1], F[k - 1])
      BY <1>4
    <2>1. k \in 1..n /\ F[k - 1] \in Int
      OBVIOUS
    <2> QED BY <1>2, <1>4, <2>1
  <1>6. Eq(F)
    <2>1. F = [k \in 0..n |-> F[k]]
      OBVIOUS
    <2> QED BY <1>5, <2>1
  <1>7. Eq(shifted)
    <2> HIDE DEF Eq
    <2> QED BY <1>6
  <1>8. \A k \in 0..n : shifted[k] = IF k = 0 THEN word
                                     ELSE SM!Plus(shifted[k - 1], shifted[k - 1])
    <2> HIDE DEF shifted
    <2> QED BY <1>7
  <1> HIDE DEF shifted
  <1>9. shifted[n] \in Int
    <2> DEFINE Bad == {k \in 0..n : shifted[k] \notin Int}
    <2> SUFFICES ASSUME Bad # {} PROVE FALSE
      OBVIOUS
    <2>1. Bad \in SUBSET Nat
      OBVIOUS
    <2>2. PICK k \in Bad : \A y \in Bad : k <= y
      BY <2>1, LeastExists
    <2>3. k # 0
      BY <1>8
    <2>4. shifted[k - 1] \in Int
      BY <2>2, <2>3
    <2> QED BY <1>8, <2>3, <2>4, SumIsInt
  <1> QED BY <1>9 DEF SM!ShiftLeft, shifted

LEMMA ShiftRightIsInt ==
    ASSUME NEW word \in Int, NEW n \in Nat
    PROVE  SM!ShiftRight(word, n) \in Int
  <1> DEFINE Eq(f) == f = [k \in 0..n |-> IF k = 0 THEN word ELSE f[k - 1] \div 2]
             shifted == CHOOSE f : Eq(f)
             h == [p \in (1..n) \X Int |-> p[2] \div 2]
  <1>1. Makes(h, 1..n, Int)
    BY DEF Makes
  <1>2. \A k \in 1..n, x \in Int : h[<<k, x>>] = x \div 2
    OBVIOUS
  <1> HIDE DEF h
  <1>3. \E F \in [0..n -> Int] : /\ F[0] = word
                                 /\ \A k \in 1..n : F[k] = h[<<k, F[k - 1]>>]
    <2> DEFINE D == Int
    <2>1. n \in Nat /\ word \in D /\ Makes(h, 1..n, D)
      BY <1>1
    <2> HIDE DEF Eq, shifted, D
    <2>2. \E F \in [0..n -> D] : /\ F[0] = word
                                 /\ \A k \in 1..n : F[k] = h[<<k, F[k - 1]>>]
      BY <2>1, RecursionOnNumbers
    <2> QED BY <2>2 DEF D
  <1>4. PICK F \in [0..n -> Int] : /\ F[0] = word
                                   /\ \A k \in 1..n : F[k] = h[<<k, F[k - 1]>>]
    BY <1>3
  <1>5. \A k \in 0..n : F[k] = IF k = 0 THEN word ELSE F[k - 1] \div 2
    <2> SUFFICES ASSUME NEW k \in 0..n, k # 0 PROVE F[k] = F[k - 1] \div 2
      BY <1>4
    <2>1. k \in 1..n /\ F[k - 1] \in Int
      OBVIOUS
    <2> QED BY <1>2, <1>4, <2>1
  <1>6. Eq(F)
    <2>1. F = [k \in 0..n |-> F[k]]
      OBVIOUS
    <2> QED BY <1>5, <2>1
  <1>7. Eq(shifted)
    <2> HIDE DEF Eq
    <2> QED BY <1>6
  <1>8. \A k \in 0..n : shifted[k] = IF k = 0 THEN word ELSE shifted[k - 1] \div 2
    <2> HIDE DEF shifted
    <2> QED BY <1>7
  <1> HIDE DEF shifted
  <1>9. shifted[n] \in Int
    <2> DEFINE Bad == {k \in 0..n : shifted[k] \notin Int}
    <2> SUFFICES ASSUME Bad # {} PROVE FALSE
      OBVIOUS
    <2>1. Bad \in SUBSET Nat
      OBVIOUS
    <2>2. PICK k \in Bad : \A y \in Bad : k <= y
      BY <2>1, LeastExists
    <2>3. k # 0
      BY <1>8
    <2>4. shifted[k - 1] \in Int
      BY <2>2, <2>3
    <2>5. shifted[k - 1] \div 2 \in Int
      BY <2>4
    <2> QED BY <1>8, <2>3, <2>5
  <1> QED BY <1>9 DEF SM!ShiftRight, shifted

LEMMA FoldIsInt ==
    ASSUME NEW S, IsFiniteSet(S), NEW g, \A e \in S : g[e] \in Int
    PROVE  SM!FoldFunctionOnSet(+, 0, g, S) \in Int
  <1> DEFINE Eq(f) == f = [s \in SUBSET S |->
                             IF s = {} THEN 0
                             ELSE LET x == CHOOSE x \in s : TRUE
                                  IN  g[x] + f[s \ {x}]]
             iter == CHOOSE f : Eq(f)
             c == [s \in SUBSET S |-> CHOOSE x \in s : TRUE]
             h == [p \in S \X Int |-> g[p[1]] + p[2]]
  <1>1. Chooses(c, S) /\ \A s \in SUBSET S : c[s] = CHOOSE x \in s : TRUE
    <2>1. \A s \in SUBSET S : c[s] = CHOOSE x \in s : TRUE
      OBVIOUS
    <2> HIDE DEF c
    <2>2. ASSUME NEW s \in SUBSET S, s # {} PROVE c[s] \in s
      BY <2>1, <2>2
    <2> QED BY <2>1, <2>2 DEF Chooses
  <1>2. Makes(h, S, Int)
    BY DEF Makes
  <1>3. \A e \in S, x \in Int : h[<<e, x>>] = g[e] + x
    OBVIOUS
  <1> HIDE DEF h, c
  <1>4. \E F \in [SUBSET S -> Int] : TakesOut(F, S, 0, h, c)
    <2> DEFINE D == Int
               b == 0
    <2>1. IsFiniteSet(S) /\ b \in D /\ Makes(h, S, D) /\ Chooses(c, S)
      BY <1>1, <1>2
    <2> HIDE DEF Eq, iter, D, b
    <2>2. \E F \in [SUBSET S -> D] : TakesOut(F, S, b, h, c)
      BY <2>1, RecursionOnSubsets
    <2> QED BY <2>2 DEF D, b
  <1>5. PICK F \in [SUBSET S -> Int] : TakesOut(F, S, 0, h, c)
    BY <1>4
  <1>6. ASSUME NEW s \in SUBSET S
        PROVE  F[s] = IF s = {} THEN 0
                      ELSE LET x == CHOOSE x \in s : TRUE IN g[x] + F[s \ {x}]
    <2> SUFFICES ASSUME s # {} PROVE F[s] = g[c[s]] + F[s \ {c[s]}]
      BY <1>1, <1>5 DEF TakesOut
    <2>1. c[s] \in S /\ F[s \ {c[s]}] \in Int
      BY <1>1 DEF Chooses
    <2>2. F[s] = h[<<c[s], F[s \ {c[s]}]>>]
      BY <1>5 DEF TakesOut
    <2> QED BY <1>3, <2>1, <2>2
  <1>7. Eq(F)
    <2>1. F = [s \in SUBSET S |-> F[s]]
      OBVIOUS
    <2> QED BY <1>6, <2>1
  <1>8. Eq(iter)
    <2> HIDE DEF Eq
    <2> QED BY <1>7
  <1>9. \A s \in SUBSET S : iter[s] = IF s = {} THEN 0 ELSE g[c[s]] + iter[s \ {c[s]}]
    <2> HIDE DEF iter
    <2> QED BY <1>1, <1>8
  <1> HIDE DEF iter
  <1>10. iter[S] \in Int
    <2> DEFINE Sizes == {n \in Nat : \E s \in SUBSET S : Cardinality(s) = n
                                                       /\ iter[s] \notin Int}
    <2>1. \A s \in SUBSET S : /\ Cardinality(s) \in Nat
                              /\ s # {} => /\ c[s] \in s /\ s \ {c[s]} \in SUBSET S
                                           /\ Cardinality(s \ {c[s]}) = Cardinality(s) - 1
      BY <1>1, FS_Subset, FS_CardinalityType, FS_RemoveElement DEF Chooses
    <2> SUFFICES ASSUME Sizes # {} PROVE FALSE
      BY <2>1
    <2>2. PICK n \in Sizes : \A y \in Sizes : n <= y
      BY LeastExists
    <2>3. PICK s \in SUBSET S : Cardinality(s) = n /\ iter[s] \notin Int
      OBVIOUS
    <2>10. \A m \in Nat \ Sizes, r \in SUBSET S : Cardinality(r) = m => iter[r] \in Int
      OBVIOUS
    <2>11. n \in Nat
      OBVIOUS
    <2> HIDE DEF Sizes
    <2>4. s # {}
      <3>1. {} \in SUBSET S
        OBVIOUS
      <3>2. iter[{}] = 0
        BY <1>9, <3>1
      <3>3. iter[{}] \in Int
        BY <3>2
      <3> QED BY <2>3, <3>3
    <2>5. iter[s \ {c[s]}] \in Int
      <3> DEFINE r == s \ {c[s]}
      <3>3. r \in SUBSET S /\ Cardinality(r) = Cardinality(s) - 1
        BY <2>1, <2>4
      <3>4. Cardinality(r) \in Nat
        BY <2>1, <3>3
      <3> HIDE DEF r
      <3>1. n - 1 \in Nat /\ Cardinality(r) = n - 1
        BY <2>3, <2>11, <3>3, <3>4
      <3>2. n - 1 \notin Sizes
        BY <2>2, <2>11, <3>1
      <3>5. iter[r] \in Int
        BY <2>10, <3>1, <3>2, <3>3
      <3> QED BY <3>5 DEF r
    <2>6. g[c[s]] \in Int
      BY <2>1, <2>4
    <2>7. iter[s] = g[c[s]] + iter[s \ {c[s]}]
      BY <1>9, <2>4
    <2>8. iter[s] \in Int
      BY <2>5, <2>6, <2>7
    <2> QED BY <2>3, <2>8
  <1> QED BY <1>10 DEF SM!FoldFunctionOnSet, SM!MapThenFoldSet, iter

LEMMA AndIsInt == \A v, w : SM!And(v, w) \in Int
  <1> TAKE v, w
  <1>1. ASSUME NEW x, NEW y PROVE SM!AndBytes(x, y) \in Int
    <2> DEFINE BothHave(k) == (x \div 2 ^ k) % 2 = 1 /\ (y \div 2 ^ k) % 2 = 1
               g == [k \in 0..7 |-> IF BothHave(k) THEN 2 ^ k ELSE 0]
    <2>1. ASSUME NEW k \in 0..7 PROVE g[k] \in Int
      <3>1. /\ 2 ^ 0 \in Int /\ 2 ^ 1 \in Int /\ 2 ^ 2 \in Int /\ 2 ^ 3 \in Int
            /\ 2 ^ 4 \in Int /\ 2 ^ 5 \in Int /\ 2 ^ 6 \in Int /\ 2 ^ 7 \in Int
        OBVIOUS
      <3>2. k \in {0, 1, 2, 3, 4, 5, 6, 7}
        OBVIOUS
      <3>3. 2 ^ k \in Int
        BY <3>1, <3>2
      <3> HIDE DEF BothHave
      <3> QED BY <3>3
    <2>2. DOMAIN g = 0..7
      OBVIOUS
    <2> HIDE DEF g
    <2>3. SM!FoldFunctionOnSet(+, 0, g, DOMAIN g) \in Int
      <3>1. IsFiniteSet(0..7)
        <4> DEFINE least == 0
                   greatest == 7
        <4>1. least \in Int /\ greatest \in Int
          OBVIOUS
        <4> HIDE DEF least, greatest
        <4>2. IsFiniteSet(least..greatest)
          BY <4>1, FS_Interval
        <4> QED BY <4>2 DEF least, greatest
      <3> QED BY <2>1, <2>2, <3>1, FoldIsInt
    <2> QED BY <2>3 DEF SM!AndBytes, SM!FoldFunction, g
  <1>2. SM!WordOf([k \in 1..4 |-> SM!AndBytes(SM!Byte(v, 4 - k), SM!Byte(w, 4 - k))]) \in Int
    BY <1>1, WordIsInt
  <1> QED BY <1>2 DEF SM!And
-----------------------------------------------------------------------------
(* The programs are bytes. *)

\* What programs are put together from.
IsBytes(s) == s \in Seq(Bytes)

LEMMA OneAfterTheOther ==
    \A s, t : s \in Seq(Bytes) /\ t \in Seq(Bytes) => s \o t \in Seq(Bytes)
  OBVIOUS

LEMMA WordsAreBytes ==
    ASSUME NEW s \in Seq(Int)
    PROVE  IsBytes(SM!words(s))
  <1> DEFINE n == Len(s)
  <1>1. n \in Nat /\ \A k \in 1..n : s[k] \in Int
    OBVIOUS
  <1> HIDE DEF n
  <1>2. ASSUME NEW k \in 1..4 * n
        PROVE  SM!Byte(s[(k - 1) \div 4 + 1], 3 - ((k - 1) % 4)) \in Bytes
    <2>1. (k - 1) \div 4 + 1 \in 1..n /\ 3 - ((k - 1) % 4) \in 0..3
      BY <1>1
    <2> QED BY <1>1, <2>1, ByteIsByte
  <1> DEFINE m == 4 * n
             w == [k \in 1..m |-> SM!Byte(s[(k - 1) \div 4 + 1], 3 - ((k - 1) % 4))]
  <1>3. m \in Nat
    BY <1>1
  <1>4. w \in [1..m -> Bytes]
    BY <1>2
  <1> HIDE DEF m, w
  <1>5. w \in Seq(Bytes)
    BY <1>3, <1>4
  <1> QED BY <1>5 DEF IsBytes, SM!words, n, m, w

LEMMA ZerosAreBytes ==
    ASSUME NEW n \in Nat
    PROVE  IsBytes(SM!zeros(n))
  <1>1. 4 * n \in Nat /\ 0 \in Bytes
    BY DEF Bytes
  <1>2. [k \in 1..4 * n |-> 0] \in Seq(Bytes)
    BY <1>1
  <1> QED BY <1>2 DEF IsBytes, SM!zeros

Together == \A s, t : IsBytes(s) /\ IsBytes(t) => IsBytes(s \o t)

LEMMA InstructionsAreBytes ==
    /\ \A v, d : v \in Int /\ d \in 0..7 => IsBytes(SM!ld(v, d))
    /\ \A o, s, d : o \in 0..60 /\ s \in 0..7 /\ d \in 0..7 =>
         IsBytes(SM!ldo(o, s, d)) /\ IsBytes(SM!sto(s, o, d))
    /\ \A s, x, d : s \in 0..7 /\ x \in 0..7 /\ d \in 0..7 =>
         IsBytes(SM!ldx(s, x, d)) /\ IsBytes(SM!stx(s, d, x))
    /\ \A s, d : s \in 0..7 /\ d \in 0..7 =>
         IsBytes(SM!mov(s, d)) /\ IsBytes(SM!add(s, d)) /\ IsBytes(SM!and(s, d))
    /\ \A r : r \in 0..7 =>
         /\ IsBytes(SM!inc(r)) /\ IsBytes(SM!inca(r)) /\ IsBytes(SM!dec(r))
         /\ IsBytes(SM!deca(r)) /\ IsBytes(SM!not(r))
    /\ \A n, r : n \in 0..30 /\ r \in 0..7 =>
         IsBytes(SM!gpc(n, r)) /\ IsBytes(SM!shl(n, r)) /\ IsBytes(SM!shr(n, r))
    /\ \A o, r : o \in Int /\ r \in 0..7 =>
         IsBytes(SM!beq(r, o)) /\ IsBytes(SM!bgt(r, o)) /\ IsBytes(SM!jo(o, r))
    /\ \A o : o \in Int => IsBytes(SM!br(o)) /\ IsBytes(SM!j(o))
    /\ IsBytes(SM!halt)
    /\ Together
  <1>1. \A x, y : x \in 0..255 /\ y \in 0..255 => IsBytes(<<x, y>>)
    BY DEF Bytes, IsBytes
  <1>2. \A o \in Int : (o \div 2) % 256 \in 0..255
    OBVIOUS
  <1>3. Together
    BY OneAfterTheOther DEF Together, IsBytes
  <1>4. ASSUME NEW v \in Int PROVE IsBytes(SM!words(<<v>>))
    <2>1. <<v>> \in Seq(Int)
      OBVIOUS
    <2> QED BY <2>1, WordsAreBytes
  <1>5. ASSUME NEW v, NEW d, v \in Int, d \in 0..7 PROVE IsBytes(SM!ld(v, d))
    <2>1. IsBytes(<<d, 0>>)
      BY <1>1, <1>5
    <2> QED BY <1>3, <1>4, <1>5, <2>1 DEF Together, SM!ld
  <1>6. \A o, s, d : o \in 0..60 /\ s \in 0..7 /\ d \in 0..7 =>
          IsBytes(SM!ldo(o, s, d)) /\ IsBytes(SM!sto(s, o, d))
    BY <1>1 DEF SM!ldo, SM!sto
  <1>7. \A s, x, d : s \in 0..7 /\ x \in 0..7 /\ d \in 0..7 =>
          IsBytes(SM!ldx(s, x, d)) /\ IsBytes(SM!stx(s, d, x))
    BY <1>1 DEF SM!ldx, SM!stx
  <1>8. \A s, d : s \in 0..7 /\ d \in 0..7 =>
          IsBytes(SM!mov(s, d)) /\ IsBytes(SM!add(s, d)) /\ IsBytes(SM!and(s, d))
    BY <1>1 DEF SM!mov, SM!add, SM!and, SM!alu
  <1>9. \A r : r \in 0..7 =>
          /\ IsBytes(SM!inc(r)) /\ IsBytes(SM!inca(r)) /\ IsBytes(SM!dec(r))
          /\ IsBytes(SM!deca(r)) /\ IsBytes(SM!not(r))
    BY <1>1 DEF SM!inc, SM!inca, SM!dec, SM!deca, SM!not, SM!alu
  <1>10. \A n, r : n \in 0..30 /\ r \in 0..7 =>
          IsBytes(SM!gpc(n, r)) /\ IsBytes(SM!shl(n, r)) /\ IsBytes(SM!shr(n, r))
    BY <1>1 DEF SM!gpc, SM!alu, SM!shl, SM!shr
  <1>11. \A o, r : o \in Int /\ r \in 0..7 =>
          IsBytes(SM!beq(r, o)) /\ IsBytes(SM!bgt(r, o)) /\ IsBytes(SM!jo(o, r))
    BY <1>1, <1>2 DEF SM!beq, SM!bgt, SM!jo
  <1>12. ASSUME NEW o, o \in Int PROVE IsBytes(SM!br(o)) /\ IsBytes(SM!j(o))
    <2>1. IsBytes(<<176, 0>>)
      BY <1>1
    <2>2. IsBytes(SM!j(o))
      BY <1>3, <1>4, <1>12, <2>1 DEF Together, SM!j
    <2>3. IsBytes(SM!br(o))
      BY <1>1, <1>2, <1>12 DEF SM!br
    <2> QED BY <2>2, <2>3
  <1>13. IsBytes(SM!halt)
    BY <1>1 DEF SM!halt
  <1> QED BY <1>3, <1>5, <1>6, <1>7, <1>8, <1>9, <1>10, <1>11, <1>12, <1>13, Zenon

\* Lines as sm.c loads them.
IsCode(lines) ==
    /\ 1 \in DOMAIN lines
    /\ \A k \in DOMAIN lines : lines[k][1] \in Int /\ IsBytes(lines[k][2])

LEMMA MaxIsCode == IsCode(SM!MaxLines)
  <1> DEFINE lines == SM!MaxLines
  <1>1. IsBytes(lines[1][2])
    BY SMTT(60), InstructionsAreBytes DEF Together, SM!MaxLines
  <1>2. IsBytes(lines[2][2])
    <2> DEFINE s == <<-1, 0, 2, 40, 6, 80, 10, 120, 14, 16, 18, 20>>
    <2>1. s \in Seq(Int)
      OBVIOUS
    <2>2. lines[2][2] = SM!words(s)
      BY SMTT(60) DEF SM!MaxLines
    <2> HIDE DEF s, lines
    <2> QED BY <2>1, <2>2, WordsAreBytes
  <1>3. DOMAIN lines = 1..2 /\ \A k \in 1..2 : lines[k][1] \in Int
    BY SMTT(60) DEF SM!MaxLines
  <1> HIDE DEF lines
  <1>4. \A k \in DOMAIN lines : IsBytes(lines[k][2])
    BY <1>1, <1>2, <1>3
  <1> QED BY <1>3, <1>4 DEF IsCode, lines

LEMMA TestIsCode == IsCode(SM!TestLines)
  <1> DEFINE lines == SM!TestLines
  <1>1. IsBytes(lines[1][2])
    BY SMTT(60), InstructionsAreBytes DEF Together, SM!TestLines
  <1>2. IsBytes(lines[2][2])
    BY SMTT(60), InstructionsAreBytes DEF Together, SM!TestLines
  <1>3. IsBytes(lines[3][2])
    BY SMTT(60), InstructionsAreBytes DEF Together, SM!TestLines
  <1>4. IsBytes(lines[4][2])
    BY SMTT(60), InstructionsAreBytes DEF Together, SM!TestLines
  <1>5. IsBytes(lines[5][2])
    BY SMTT(60), InstructionsAreBytes DEF Together, SM!TestLines
  <1>6. IsBytes(lines[6][2])
    BY SMTT(60), InstructionsAreBytes DEF Together, SM!TestLines
  <1>7. IsBytes(lines[7][2])
    BY SMTT(60), InstructionsAreBytes DEF Together, SM!TestLines
  <1>8. IsBytes(lines[8][2])
    BY SMTT(60), InstructionsAreBytes DEF Together, SM!TestLines
  <1>9. IsBytes(lines[9][2])
    BY SMTT(60), InstructionsAreBytes DEF Together, SM!TestLines
  <1>10. IsBytes(lines[10][2])
    BY SMTT(60), InstructionsAreBytes DEF Together, SM!TestLines
  <1>11. IsBytes(lines[11][2])
    BY SMTT(60), InstructionsAreBytes DEF Together, SM!TestLines
  <1>12. IsBytes(lines[12][2])
    <2> DEFINE s == <<1, 2>>
    <2>1. s \in Seq(Int)
      OBVIOUS
    <2>2. lines[12][2] = SM!words(s)
      BY SMTT(60) DEF SM!TestLines
    <2> HIDE DEF s, lines
    <2> QED BY <2>1, <2>2, WordsAreBytes
  <1>13. DOMAIN lines = 1..12 /\ \A k \in 1..12 : lines[k][1] \in Int
    BY SMTT(60) DEF SM!TestLines
  <1> HIDE DEF lines
  <1>14. \A k \in DOMAIN lines : IsBytes(lines[k][2])
    BY <1>1, <1>2, <1>3, <1>4, <1>5, <1>6, <1>7, <1>8, <1>9, <1>10, <1>11, <1>12, <1>13
  <1> QED BY <1>13, <1>14 DEF IsCode, lines

LEMMA LoopIsCode == IsCode(SM!LoopLines)
  <1> DEFINE lines == SM!LoopLines
  <1>1. IsBytes(lines[1][2])
    BY SMTT(60), InstructionsAreBytes DEF Together, SM!LoopLines
  <1>2. IsBytes(lines[2][2])
    <2> DEFINE s == <<0, 0, 2, 4, 6, 8, 10, 12, 14, 16, 18, 20>>
    <2>1. s \in Seq(Int)
      OBVIOUS
    <2>2. lines[2][2] = SM!words(s)
      BY SMTT(60) DEF SM!LoopLines
    <2> HIDE DEF s, lines
    <2> QED BY <2>1, <2>2, WordsAreBytes
  <1>3. DOMAIN lines = 1..2 /\ \A k \in 1..2 : lines[k][1] \in Int
    BY SMTT(60) DEF SM!LoopLines
  <1> HIDE DEF lines
  <1>4. \A k \in DOMAIN lines : IsBytes(lines[k][2])
    BY <1>1, <1>2, <1>3
  <1> QED BY <1>3, <1>4 DEF IsCode, lines

LEMMA UnrolledIsCode == IsCode(SM!UnrolledLines)
  <1> DEFINE lines == SM!UnrolledLines
  <1>1. IsBytes(lines[1][2])
    BY SMTT(60), InstructionsAreBytes DEF Together, SM!UnrolledLines
  <1>2. IsBytes(lines[2][2])
    <2> DEFINE s == <<0>>
    <2>1. s \in Seq(Int)
      OBVIOUS
    <2>2. lines[2][2] = SM!words(s)
      BY SMTT(60) DEF SM!UnrolledLines
    <2> HIDE DEF s, lines
    <2> QED BY <2>1, <2>2, WordsAreBytes
  <1>3. IsBytes(lines[3][2])
    <2> DEFINE s == <<2, 4, 6, 8, 10, 12, 14, 16, 18, 20>>
    <2>1. s \in Seq(Int)
      OBVIOUS
    <2>2. lines[3][2] = SM!words(s)
      BY SMTT(60) DEF SM!UnrolledLines
    <2> HIDE DEF s, lines
    <2> QED BY <2>1, <2>2, WordsAreBytes
  <1>4. DOMAIN lines = 1..3 /\ \A k \in 1..3 : lines[k][1] \in Int
    BY SMTT(60) DEF SM!UnrolledLines
  <1> HIDE DEF lines
  <1>5. \A k \in DOMAIN lines : IsBytes(lines[k][2])
    BY <1>1, <1>2, <1>3, <1>4
  <1> QED BY <1>4, <1>5 DEF IsCode, lines

LEMMA IfIsCode ==
    ASSUME NEW a \in Int, NEW b \in Int
    PROVE  IsCode(SM!IfLines(a, b))
  <1> DEFINE lines == SM!IfLines(a, b)
  <1>1. IsBytes(lines[1][2])
    BY SMTT(60), InstructionsAreBytes DEF Together, SM!IfLines
  <1>2. IsBytes(lines[2][2])
    <2> DEFINE s == <<a>>
    <2>1. s \in Seq(Int)
      OBVIOUS
    <2>2. lines[2][2] = SM!words(s)
      BY SMTT(60) DEF SM!IfLines
    <2> HIDE DEF s, lines
    <2> QED BY <2>1, <2>2, WordsAreBytes
  <1>3. IsBytes(lines[3][2])
    <2> DEFINE s == <<b>>
    <2>1. s \in Seq(Int)
      OBVIOUS
    <2>2. lines[3][2] = SM!words(s)
      BY SMTT(60) DEF SM!IfLines
    <2> HIDE DEF s, lines
    <2> QED BY <2>1, <2>2, WordsAreBytes
  <1>4. IsBytes(lines[4][2])
    <2> DEFINE s == <<0>>
    <2>1. s \in Seq(Int)
      OBVIOUS
    <2>2. lines[4][2] = SM!words(s)
      BY SMTT(60) DEF SM!IfLines
    <2> HIDE DEF s, lines
    <2> QED BY <2>1, <2>2, WordsAreBytes
  <1>5. DOMAIN lines = 1..4 /\ \A k \in 1..4 : lines[k][1] \in Int
    BY SMTT(60) DEF SM!IfLines
  <1> HIDE DEF lines
  <1>6. \A k \in DOMAIN lines : IsBytes(lines[k][2])
    BY <1>1, <1>2, <1>3, <1>4, <1>5
  <1> QED BY <1>5, <1>6 DEF IsCode, lines

LEMMA SwitchIsCode ==
    ASSUME NEW arg \in Int
    PROVE  IsCode(SM!SwitchLines(arg))
  <1> DEFINE lines == SM!SwitchLines(arg)
  <1>1. IsBytes(lines[1][2])
    BY SMTT(60), InstructionsAreBytes DEF Together, SM!SwitchLines
  <1>2. IsBytes(lines[2][2])
    BY SMTT(60), InstructionsAreBytes DEF Together, SM!SwitchLines
  <1>3. IsBytes(lines[3][2])
    <2> DEFINE s == <<320, 328, 344, 336>>
    <2>1. s \in Seq(Int)
      OBVIOUS
    <2>2. lines[3][2] = SM!words(s)
      BY SMTT(60) DEF SM!SwitchLines
    <2> HIDE DEF s, lines
    <2> QED BY <2>1, <2>2, WordsAreBytes
  <1>4. IsBytes(lines[4][2])
    <2> DEFINE s == <<arg, 0>>
    <2>1. s \in Seq(Int)
      OBVIOUS
    <2>2. lines[4][2] = SM!words(s)
      BY SMTT(60) DEF SM!SwitchLines
    <2> HIDE DEF s, lines
    <2> QED BY <2>1, <2>2, WordsAreBytes
  <1>5. DOMAIN lines = 1..4 /\ \A k \in 1..4 : lines[k][1] \in Int
    BY SMTT(60) DEF SM!SwitchLines
  <1> HIDE DEF lines
  <1>6. \A k \in DOMAIN lines : IsBytes(lines[k][2])
    BY <1>1, <1>2, <1>3, <1>4, <1>5
  <1> QED BY <1>5, <1>6 DEF IsCode, lines

LEMMA Q2IsCode ==
    ASSUME NEW arr0 \in Int, NEW arr1 \in Int, NEW arr2 \in Int
    PROVE  IsCode(SM!Q2Lines(arr0, arr1, arr2))
  <1> DEFINE lines == SM!Q2Lines(arr0, arr1, arr2)
  <1>1. IsBytes(lines[1][2])
    BY SMTT(60), InstructionsAreBytes DEF Together, SM!Q2Lines
  <1>2. IsBytes(lines[3][2])
    BY SMTT(60), InstructionsAreBytes DEF Together, SM!Q2Lines
  <1>3. IsBytes(lines[4][2])
    BY SMTT(60), InstructionsAreBytes DEF Together, SM!Q2Lines
  <1>4. IsBytes(lines[2][2])
    <2> DEFINE s == <<arr0, arr1, arr2, 0>>
    <2>1. s \in Seq(Int)
      OBVIOUS
    <2>2. lines[2][2] = SM!words(s)
      BY SMTT(60) DEF SM!Q2Lines
    <2> HIDE DEF s, lines
    <2> QED BY <2>1, <2>2, WordsAreBytes
  <1>5. IsBytes(lines[5][2])
    <2> DEFINE s == <<816, 900, 820, 900, 828, 900, 852, 900, 876>>
    <2>1. s \in Seq(Int)
      OBVIOUS
    <2>2. lines[5][2] = SM!words(s)
      BY SMTT(60) DEF SM!Q2Lines
    <2> HIDE DEF s, lines
    <2> QED BY <2>1, <2>2, WordsAreBytes
  <1>6. IsBytes(lines[6][2])
    BY SMTT(60), ZerosAreBytes DEF SM!Q2Lines
  <1>7. DOMAIN lines = 1..6 /\ \A k \in 1..6 : lines[k][1] \in Int
    BY SMTT(60) DEF SM!Q2Lines
  <1> HIDE DEF lines
  <1>8. \A k \in DOMAIN lines : IsBytes(lines[k][2])
    BY <1>1, <1>2, <1>3, <1>4, <1>5, <1>6, <1>7
  <1> QED BY <1>7, <1>8 DEF IsCode, lines

LEMMA Q1IsCode ==
    ASSUME NEW arg \in Int
    PROVE  IsCode(SM!Q1Lines(arg))
  <1> DEFINE lines == SM!Q1Lines(arg)
  <1>1. IsBytes(lines[1][2])
    BY SMTT(60), InstructionsAreBytes DEF Together, SM!Q1Lines
  <1>2. IsBytes(lines[2][2])
    <2> DEFINE s == <<arg, 0, 0, 0, 0, 12288>>
    <2>1. s \in Seq(Int)
      OBVIOUS
    <2>2. lines[2][2] = SM!words(s)
      BY SMTT(60) DEF SM!Q1Lines
    <2> HIDE DEF s, lines
    <2> QED BY <2>1, <2>2, WordsAreBytes
  <1>3. IsBytes(lines[3][2])
    <2> DEFINE s == <<12336, 20, 21, 22, 23, 12312, 12352, 40, 41, 42, 43, 0, 10, 11,
            12, 13, 30, 31, 32, 33>>
    <2>1. s \in Seq(Int)
      OBVIOUS
    <2>2. lines[3][2] = SM!words(s)
      BY SMTT(60) DEF SM!Q1Lines
    <2> HIDE DEF s, lines
    <2> QED BY <2>1, <2>2, WordsAreBytes
  <1>4. DOMAIN lines = 1..3 /\ \A k \in 1..3 : lines[k][1] \in Int
    BY SMTT(60) DEF SM!Q1Lines
  <1> HIDE DEF lines
  <1>5. \A k \in DOMAIN lines : IsBytes(lines[k][2])
    BY <1>1, <1>2, <1>3, <1>4
  <1> QED BY <1>4, <1>5 DEF IsCode, lines

LEMMA Q4aIsCode == IsCode(SM!Q4aLines)
  <1> DEFINE lines == SM!Q4aLines
  <1>1. IsBytes(lines[1][2])
    BY SMTT(60), InstructionsAreBytes DEF Together, SM!Q4aLines
  <1>2. IsBytes(lines[3][2])
    BY SMTT(60), InstructionsAreBytes DEF Together, SM!Q4aLines
  <1>3. IsBytes(lines[4][2])
    BY SMTT(60), InstructionsAreBytes DEF Together, SM!Q4aLines
  <1>4. IsBytes(lines[2][2])
    <2> DEFINE s == <<4096>>
    <2>1. s \in Seq(Int)
      OBVIOUS
    <2>2. lines[2][2] = SM!words(s)
      BY SMTT(60) DEF SM!Q4aLines
    <2> HIDE DEF s, lines
    <2> QED BY <2>1, <2>2, WordsAreBytes
  <1>5. IsBytes(lines[5][2])
    BY SMTT(60), ZerosAreBytes DEF SM!Q4aLines
  <1>6. IsBytes(lines[6][2])
    BY SMTT(60), ZerosAreBytes DEF SM!Q4aLines
  <1>7. DOMAIN lines = 1..6 /\ \A k \in 1..6 : lines[k][1] \in Int
    BY SMTT(60) DEF SM!Q4aLines
  <1> HIDE DEF lines
  <1>8. \A k \in DOMAIN lines : IsBytes(lines[k][2])
    BY <1>1, <1>2, <1>3, <1>4, <1>5, <1>6, <1>7
  <1> QED BY <1>7, <1>8 DEF IsCode, lines

LEMMA Q4bIsCode == IsCode(SM!Q4bLines)
  <1> DEFINE lines == SM!Q4bLines
  <1>1. IsBytes(lines[1][2])
    <2>1. SM!MinInt \in Int
      BY DEF SM!MinInt, SM!MaxInt
    <2> QED BY SMTT(60), <2>1, InstructionsAreBytes DEF Together, SM!Q4bLines
  <1>2. IsBytes(lines[2][2])
    <2> DEFINE s == <<1, 2, 3, -1, -2, 0, 184, 340057058, 0, 0, 0, 0, 0, 0, 0, 0>>
    <2>1. s \in Seq(Int)
      OBVIOUS
    <2>2. lines[2][2] = SM!words(s)
      BY SMTT(60) DEF SM!Q4bLines
    <2> HIDE DEF s, lines
    <2> QED BY <2>1, <2>2, WordsAreBytes
  <1>3. IsBytes(lines[3][2])
    BY SMTT(60), ZerosAreBytes DEF SM!Q4bLines
  <1>4. DOMAIN lines = 1..3 /\ \A k \in 1..3 : lines[k][1] \in Int
    BY SMTT(60) DEF SM!Q4bLines
  <1> HIDE DEF lines
  <1>5. \A k \in DOMAIN lines : IsBytes(lines[k][2])
    BY <1>1, <1>2, <1>3, <1>4
  <1> QED BY <1>4, <1>5 DEF IsCode, lines

LEMMA MedianIsCode == IsCode(SM!MedianLines)
  <1> DEFINE lines == SM!MedianLines
  <1>1. IsBytes(lines[1][2])
    BY SMTT(60), InstructionsAreBytes DEF Together, SM!MedianLines
  <1>2. IsBytes(lines[2][2])
    <2> DEFINE s == <<7, 0, 8204, 1, 80, 60, 78, 90, 0, 2, 20, 18, 12, 20, 0, 3, 90, 50,
            30, 10, 0, 4, 10, 20, 80, 90, 0, 5, 60, 61, 62, 63, 0, 6, 50, 10,
            70, 10, 0, 7, 21, 22, 23, 24, 0>>
    <2>1. s \in Seq(Int)
      OBVIOUS
    <2>2. lines[2][2] = SM!words(s)
      BY SMTT(60) DEF SM!MedianLines
    <2> HIDE DEF s, lines
    <2> QED BY <2>1, <2>2, WordsAreBytes
  <1>3. DOMAIN lines = 1..2 /\ \A k \in 1..2 : lines[k][1] \in Int
    BY SMTT(60) DEF SM!MedianLines
  <1> HIDE DEF lines
  <1>4. \A k \in DOMAIN lines : IsBytes(lines[k][2])
    BY <1>1, <1>2, <1>3
  <1> QED BY <1>3, <1>4 DEF IsCode, lines

LEMMA DynamicIsCode == IsCode(SM!DynamicLines)
  <1> DEFINE lines == SM!DynamicLines
  <1>1. IsBytes(lines[1][2])
    BY SMTT(60), InstructionsAreBytes DEF Together, SM!DynamicLines
  <1>2. IsBytes(lines[2][2])
    BY SMTT(60), InstructionsAreBytes DEF Together, SM!DynamicLines
  <1>3. IsBytes(lines[3][2])
    BY SMTT(60), InstructionsAreBytes DEF Together, SM!DynamicLines
  <1>4. IsBytes(lines[4][2])
    BY SMTT(60), InstructionsAreBytes DEF Together, SM!DynamicLines
  <1>5. IsBytes(lines[5][2])
    BY SMTT(60), InstructionsAreBytes DEF Together, SM!DynamicLines
  <1>6. IsBytes(lines[6][2])
    BY SMTT(60), InstructionsAreBytes DEF Together, SM!DynamicLines
  <1>7. IsBytes(lines[7][2])
    BY SMTT(60), InstructionsAreBytes DEF Together, SM!DynamicLines
  <1>8. IsBytes(lines[8][2])
    BY SMTT(60), InstructionsAreBytes DEF Together, SM!DynamicLines
  <1>9. IsBytes(lines[9][2])
    <2> DEFINE s == <<0, 8192, 8194, 8704, 8196, 8194, 8198, 8716, 8200, 8194, 8198>>
    <2>1. s \in Seq(Int)
      OBVIOUS
    <2>2. lines[9][2] = SM!words(s)
      BY SMTT(60) DEF SM!DynamicLines
    <2> HIDE DEF s, lines
    <2> QED BY <2>1, <2>2, WordsAreBytes
  <1>10. IsBytes(lines[10][2])
    <2> DEFINE s == <<16384>>
    <2>1. s \in Seq(Int)
      OBVIOUS
    <2>2. lines[10][2] = SM!words(s)
      BY SMTT(60) DEF SM!DynamicLines
    <2> HIDE DEF s, lines
    <2> QED BY <2>1, <2>2, WordsAreBytes
  <1>11. IsBytes(lines[11][2])
    BY SMTT(60), ZerosAreBytes DEF SM!DynamicLines
  <1>12. IsBytes(lines[12][2])
    BY SMTT(60), ZerosAreBytes DEF SM!DynamicLines
  <1>13. DOMAIN lines = 1..12 /\ \A k \in 1..12 : lines[k][1] \in Int
    BY SMTT(60) DEF SM!DynamicLines
  <1> HIDE DEF lines
  <1>14. \A k \in DOMAIN lines : IsBytes(lines[k][2])
    BY <1>1, <1>2, <1>3, <1>4, <1>5, <1>6, <1>7, <1>8, <1>9, <1>10, <1>11, <1>12, <1>13
  <1> QED BY <1>13, <1>14 DEF IsCode, lines
-----------------------------------------------------------------------------
(* The machine, before and after a step. *)

\* It has registers of ints and a memory of bytes.
IsMachine(m) ==
    /\ m = [pc |-> m.pc, reg |-> m.reg, mem |-> m.mem, cont |-> m.cont]
    /\ m.reg \in [0..7 -> Int]
    /\ DOMAIN m.mem \subseteq Int
    /\ m.mem \in [DOMAIN m.mem -> Bytes]

LEMMA LoadedIsMachine ==
    ASSUME NEW lines, IsCode(lines), NEW p
    PROVE  IsMachine(SM!Load(lines, p))
  <1> DEFINE addresses(k) == lines[k][1]..lines[k][1] + Len(lines[k][2]) - 1
             places == UNION {addresses(k) : k \in DOMAIN lines}
             LineOf(a) == CHOOSE k \in DOMAIN lines : a \in addresses(k)
             code(a) == lines[LineOf(a)][2][a - lines[LineOf(a)][1] + 1]
             mem == [a \in places |-> code(a)]
             reg == [r \in 0..7 |-> 0]
             start == IF p < 0 THEN lines[1][1] ELSE p
  <1>1. ASSUME NEW k \in DOMAIN lines, NEW a \in addresses(k)
        PROVE  a \in Int /\ lines[k][2][a - lines[k][1] + 1] \in Bytes
    <2>1. lines[k][1] \in Int /\ lines[k][2] \in Seq(Bytes)
      BY DEF IsCode, IsBytes
    <2>2. Len(lines[k][2]) \in Nat
      BY <2>1
    <2>3. a \in Int /\ a - lines[k][1] + 1 \in 1..Len(lines[k][2])
      BY <2>1, <2>2
    <2> QED BY <2>1, <2>3
  <1>2. ASSUME NEW a \in places PROVE a \in Int /\ code(a) \in Bytes
    <2>1. \E k \in DOMAIN lines : a \in addresses(k)
      OBVIOUS
    <2> HIDE DEF addresses
    <2>2. LineOf(a) \in DOMAIN lines /\ a \in addresses(LineOf(a))
      BY <2>1
    <2> HIDE DEF LineOf
    <2> QED BY <1>1, <2>2
  <1> HIDE DEF places, code
  <1>3. /\ mem \in [DOMAIN mem -> Bytes]
        /\ DOMAIN mem \subseteq Int
    BY <1>2
  <1>4. reg \in [0..7 -> Int]
    OBVIOUS
  <1> HIDE DEF mem, reg, start
  <1>5. IsMachine([pc |-> start, reg |-> reg, mem |-> mem, cont |-> TRUE])
    BY <1>3, <1>4 DEF IsMachine
  <1>6. SM!Load(lines, p) = [pc |-> start, reg |-> reg, mem |-> mem, cont |-> TRUE]
    BY DEF SM!Load, start, reg, mem, places, code
  <1> QED BY <1>5, <1>6

LEMMA SetRegKeeps ==
    \A m, r, word : IsMachine(m) /\ r \in 0..7 /\ word \in Int =>
                      IsMachine(SM!SetReg(m, r, word))
  <1> SUFFICES ASSUME NEW m, IsMachine(m), NEW r \in 0..7, NEW word \in Int
               PROVE  IsMachine(SM!SetReg(m, r, word))
    OBVIOUS
  <1> DEFINE reg == [m.reg EXCEPT ![r] = word]
  <1>1. reg \in [0..7 -> Int]
    BY DEF IsMachine
  <1>2. SM!SetReg(m, r, word) = [pc |-> m.pc, reg |-> reg, mem |-> m.mem, cont |-> m.cont]
    BY DEF IsMachine, SM!SetReg
  <1> HIDE DEF reg
  <1> QED BY <1>1, <1>2 DEF IsMachine

LEMMA WordLoaded ==
    ASSUME NEW m, IsMachine(m), NEW addr \in Int, SM!Known(m, addr)
    PROVE  SM!Word(m.mem, addr) \in Int
  <1> DEFINE b == [k \in 1..4 |-> m.mem[addr + k - 1]]
  <1>1. ASSUME NEW k \in 1..4 PROVE b[k] \in Int
    <2>1. addr + k - 1 \in addr..addr + 3
      OBVIOUS
    <2>2. addr + k - 1 \in DOMAIN m.mem
      BY <2>1 DEF SM!Known
    <2>3. m.mem[addr + k - 1] \in Bytes
      BY <2>2 DEF IsMachine
    <2> QED BY <2>3 DEF Bytes
  <1> HIDE DEF b
  <1>2. SM!WordOf(b) \in Int
    BY <1>1, WordIsInt
  <1> QED BY <1>2 DEF SM!Word, b

LEMMA StoredKeeps ==
    ASSUME NEW m, IsMachine(m), NEW addr \in Int, NEW word \in Int
    PROVE  IsMachine([m EXCEPT !.mem = SM!Stored(@, addr, word)])
  <1> DEFINE mem == SM!Stored(m.mem, addr, word)
  <1>1. ASSUME NEW a \in DOMAIN m.mem, a \in addr..addr + 3
        PROVE  SM!Byte(word, 3 - (a - addr)) \in Bytes
    <2>1. 3 - (a - addr) \in 0..3
      BY <1>1 DEF IsMachine
    <2> QED BY <2>1, ByteIsByte
  <1>2. ASSUME NEW a \in DOMAIN m.mem PROVE m.mem[a] \in Bytes
    BY DEF IsMachine
  <1>3. DOMAIN mem = DOMAIN m.mem /\ mem \in [DOMAIN m.mem -> Bytes]
    BY <1>1, <1>2 DEF SM!Stored
  <1>4. [m EXCEPT !.mem = SM!Stored(@, addr, word)]
          = [pc |-> m.pc, reg |-> m.reg, mem |-> mem, cont |-> m.cont]
    BY DEF IsMachine
  <1> HIDE DEF mem
  <1> QED BY <1>3, <1>4 DEF IsMachine

\* What an instruction that stays inside the arrays finds there.
Fields(ins) ==
    /\ ins.code \in 0..15 /\ ins.op0 \in 0..15 /\ ins.op1 \in 0..15 /\ ins.op2 \in 0..15
    /\ ins.imm \in Int /\ ins.ext \in Int /\ ins.pc \in Int

LEMMA FieldsFetched ==
    ASSUME NEW m, IsMachine(m), SM!Defined(m)
    PROVE  Fields(SM!Fetch(m)) /\ m.mem[m.pc] \in 0..255
  <1>1. m.pc \in Int /\ m.mem[m.pc] \in 0..255 /\ m.mem[m.pc + 1] \in 0..255
    BY DEF SM!Defined, IsMachine, Bytes
  <1>2. m.mem[m.pc] \div 16 \in {0, 11} => SM!Word(m.mem, m.pc + 2) \in Int
    <2>1. SUFFICES ASSUME m.mem[m.pc] \div 16 \in {0, 11}
                   PROVE  SM!Word(m.mem, m.pc + 2) \in Int
      OBVIOUS
    <2>2. m.pc + 2 \in Int /\ SM!Known(m, m.pc + 2)
      BY <1>1, <2>1 DEF SM!Defined
    <2> QED BY <2>2, WordLoaded
  <1>3. \A b \in 0..255 : /\ b \div 16 \in 0..15 /\ b % 16 \in 0..15
                          /\ SM!Signed(b) \in Int
    BY DEF SM!Signed
  <1>4. /\ SM!Fetch(m).code = m.mem[m.pc] \div 16
        /\ SM!Fetch(m).op0 = m.mem[m.pc] % 16
        /\ SM!Fetch(m).op1 = m.mem[m.pc + 1] \div 16
        /\ SM!Fetch(m).op2 = m.mem[m.pc + 1] % 16
        /\ SM!Fetch(m).imm = SM!Signed(m.mem[m.pc + 1])
        /\ SM!Fetch(m).ext = IF m.mem[m.pc] \div 16 \in {0, 11}
                             THEN SM!Word(m.mem, m.pc + 2) ELSE 0
        /\ SM!Fetch(m).pc = m.pc + IF m.mem[m.pc] \div 16 \in {0, 11} THEN 6 ELSE 2
    BY DEF SM!Fetch
  <1>5. SM!Fetch(m).ext \in Int /\ SM!Fetch(m).pc \in Int
    BY <1>1, <1>2, <1>4
  <1>6. /\ SM!Fetch(m).code \in 0..15 /\ SM!Fetch(m).op0 \in 0..15
        /\ SM!Fetch(m).op1 \in 0..15 /\ SM!Fetch(m).op2 \in 0..15
        /\ SM!Fetch(m).imm \in Int
    <2> DEFINE x == m.mem[m.pc]
               y == m.mem[m.pc + 1]
    <2>1. x \in 0..255 /\ y \in 0..255
      BY <1>1
    <2>2. /\ SM!Fetch(m).code = x \div 16 /\ SM!Fetch(m).op0 = x % 16
          /\ SM!Fetch(m).op1 = y \div 16 /\ SM!Fetch(m).op2 = y % 16
          /\ SM!Fetch(m).imm = SM!Signed(y)
      BY <1>4
    <2> HIDE DEF x, y
    <2>3. /\ x \div 16 \in 0..15 /\ x % 16 \in 0..15
          /\ y \div 16 \in 0..15 /\ y % 16 \in 0..15
          /\ SM!Signed(y) \in Int
      BY <1>3, <2>1
    <2> QED BY <2>2, <2>3
  <1> QED BY <1>1, <1>5, <1>6 DEF Fields

LEMMA AluKeeps ==
    ASSUME NEW m, IsMachine(m), m.pc \in Int, NEW ins, Fields(ins),
           ins.op2 < 8, ins.op0 \in 0..2 => ins.op1 < 8
    PROVE  IsMachine(SM!Alu(m, ins))
  <1>1. ins.op2 \in 0..7 /\ m.reg[ins.op2] \in Int /\ ins.op1 \in Int
    BY DEF Fields, IsMachine
  <1>2. ins.op0 \in 0..2 => m.reg[ins.op1] \in Int
    BY DEF Fields, IsMachine
  <1>3. CASE ins.op0 = 0
    BY <1>1, <1>2, <1>3, SetRegKeeps DEF SM!Alu, SM!Move
  <1>4. CASE ins.op0 = 1
    <2>1. SM!Plus(m.reg[ins.op1], m.reg[ins.op2]) \in Int
      BY <1>1, <1>2, <1>4, SumIsInt
    <2> QED BY <1>1, <1>4, <2>1, SetRegKeeps DEF SM!Alu, SM!Add
  <1>5. CASE ins.op0 = 2
    BY <1>1, <1>5, AndIsInt, SetRegKeeps DEF SM!Alu, SM!BitAnd
  <1>6. CASE ins.op0 \in 3..6
    <2>1. \A by \in Int : IsMachine(SM!Increment(m, ins, by))
      BY <1>1, SumIsInt, SetRegKeeps DEF SM!Increment
    <2> QED BY <1>6, <2>1 DEF SM!Alu
  <1>7. CASE ins.op0 = 7
    <2>1. -1 - m.reg[ins.op2] \in Int
      BY <1>1
    <2> QED BY <1>1, <1>7, <2>1, SetRegKeeps DEF SM!Alu, SM!BitNot
  <1>8. CASE ins.op0 = 15
    <2>1. m.pc + 2 * ins.op1 \in Int
      BY <1>1
    <2> QED BY <1>1, <1>8, <2>1, SetRegKeeps DEF SM!Alu, SM!GetPc
  <1>9. CASE ins.op0 \in 8..14
    BY <1>9 DEF SM!Alu
  <1> QED BY <1>3, <1>4, <1>5, <1>6, <1>7, <1>8, <1>9 DEF Fields

LEMMA PcKeeps ==
    ASSUME NEW m, IsMachine(m), NEW a, NEW c
    PROVE  IsMachine([m EXCEPT !.pc = a]) /\ IsMachine([m EXCEPT !.cont = c])
  <1>1. /\ [m EXCEPT !.pc = a] = [pc |-> a, reg |-> m.reg, mem |-> m.mem, cont |-> m.cont]
        /\ [m EXCEPT !.cont = c] = [pc |-> m.pc, reg |-> m.reg, mem |-> m.mem, cont |-> c]
    BY DEF IsMachine
  <1> QED BY <1>1 DEF IsMachine

LEMMA ExecKeeps ==
    ASSUME NEW m, IsMachine(m), SM!Defined(m)
    PROVE  IsMachine(SM!Exec(SM!Fetched(m), SM!Fetch(m)))
  <1> DEFINE ins == SM!Fetch(m)
             n == SM!Fetched(m)
  <1>1. Fields(ins)
    BY FieldsFetched
  <1>2. n.reg = m.reg /\ n.mem = m.mem /\ n.pc = ins.pc /\ IsMachine(n)
    BY PcKeeps DEF SM!Fetched, IsMachine
  <1>3. \A r : r \in 0..15 /\ r < 8 => r \in 0..7 /\ n.reg[r] \in Int
    BY <1>2 DEF IsMachine
  <1>4. /\ ins.code \in {0, 9, 10, 12} => ins.op0 < 8
        /\ ins.code = 1 => /\ ins.op1 < 8 /\ ins.op2 < 8
                         /\ SM!Known(m, SM!OffsetAddress(m, ins.op0, ins.op1))
        /\ ins.code = 2 => /\ ins.op0 < 8 /\ ins.op1 < 8 /\ ins.op2 < 8
                         /\ SM!Known(m, SM!IndexedAddress(m, ins.op0, ins.op1))
        /\ ins.code = 3 => ins.op0 < 8 /\ ins.op2 < 8
        /\ ins.code = 4 => ins.op0 < 8 /\ ins.op1 < 8 /\ ins.op2 < 8
        /\ ins.code = 6 => ins.op2 < 8 /\ (ins.op0 \in 0..2 => ins.op1 < 8)
        /\ ins.code = 7 => ins.op0 < 8 /\ ins.imm \in -31..31
    BY DEF SM!Defined
  <1>5. \A r, o : r \in 0..15 /\ r < 8 /\ o \in 0..15 =>
          /\ SM!OffsetAddress(n, o, r) \in Int
          /\ SM!OffsetAddress(n, o, r) = SM!OffsetAddress(m, o, r)
    BY <1>2, <1>3, SumIsInt DEF SM!OffsetAddress
  <1>6. \A b, x : b \in 0..15 /\ b < 8 /\ x \in 0..15 /\ x < 8 =>
          /\ SM!IndexedAddress(n, b, x) \in Int
          /\ SM!IndexedAddress(n, b, x) = SM!IndexedAddress(m, b, x)
    BY <1>2, <1>3, SumIsInt, ShiftLeftIsInt DEF SM!IndexedAddress
  <1> SUFFICES IsMachine(SM!Exec(n, ins))
    OBVIOUS
  <1> HIDE DEF ins, n
  <1>7. CASE ins.code = 0
    <2>1. IsMachine(SM!LoadImmediate(n, ins))
      BY <1>1, <1>2, <1>3, <1>4, <1>7, SetRegKeeps DEF Fields, SM!LoadImmediate
    <2> QED BY <1>7, <2>1 DEF SM!Exec
  <1>8. CASE ins.code = 1
    <2>1. SM!Word(n.mem, SM!OffsetAddress(n, ins.op0, ins.op1)) \in Int
      BY <1>1, <1>2, <1>4, <1>5, <1>8, WordLoaded DEF Fields
    <2>2. IsMachine(SM!LoadOffset(n, ins))
      BY <1>1, <1>2, <1>3, <1>4, <1>8, <2>1, SetRegKeeps DEF Fields, SM!LoadOffset
    <2> QED BY <1>8, <2>2 DEF SM!Exec
  <1>9. CASE ins.code = 2
    <2>1. SM!Word(n.mem, SM!IndexedAddress(n, ins.op0, ins.op1)) \in Int
      BY <1>1, <1>2, <1>4, <1>6, <1>9, WordLoaded DEF Fields
    <2>2. IsMachine(SM!LoadIndexed(n, ins))
      BY <1>1, <1>2, <1>3, <1>4, <1>9, <2>1, SetRegKeeps DEF Fields, SM!LoadIndexed
    <2> QED BY <1>9, <2>2 DEF SM!Exec
  <1>10. CASE ins.code = 3
    <2>1. IsMachine(SM!StoreOffset(n, ins))
      BY <1>1, <1>2, <1>3, <1>4, <1>5, <1>10, StoredKeeps DEF Fields, SM!StoreOffset
    <2> QED BY <1>10, <2>1 DEF SM!Exec
  <1>11. CASE ins.code = 4
    <2>1. IsMachine(SM!StoreIndexed(n, ins))
      BY <1>1, <1>2, <1>3, <1>4, <1>6, <1>11, StoredKeeps DEF Fields, SM!StoreIndexed
    <2> QED BY <1>11, <2>1 DEF SM!Exec
  <1>12. CASE ins.code = 6
    <2>1. IsMachine(SM!Alu(n, ins))
      BY <1>1, <1>2, <1>4, <1>12, AluKeeps DEF Fields
    <2> QED BY <1>12, <2>1 DEF SM!Exec
  <1>13. CASE ins.code = 7
    <2>1. ins.op0 \in 0..7 /\ n.reg[ins.op0] \in Int
      BY <1>1, <1>3, <1>4, <1>13 DEF Fields
    <2>2. ASSUME ins.imm > 0 PROVE IsMachine(SM!Shift(n, ins))
      <3>1. SM!ShiftLeft(n.reg[ins.op0], ins.imm) \in Int
        BY <1>4, <1>13, <2>1, <2>2, ShiftLeftIsInt
      <3> QED BY <1>2, <2>1, <2>2, <3>1, SetRegKeeps DEF SM!Shift
    <2>3. ASSUME ~(ins.imm > 0) PROVE IsMachine(SM!Shift(n, ins))
      <3>1. -ins.imm \in Nat
        BY <1>4, <1>13, <2>3
      <3>2. SM!ShiftRight(n.reg[ins.op0], -ins.imm) \in Int
        BY <2>1, <3>1, ShiftRightIsInt
      <3> QED BY <1>2, <2>1, <2>3, <3>2, SetRegKeeps DEF SM!Shift
    <2>4. IsMachine(SM!Shift(n, ins))
      BY <2>2, <2>3
    <2> QED BY <1>13, <2>4 DEF SM!Exec
  <1>14. /\ IsMachine([n EXCEPT !.pc = SM!Plus(@, 2 * ins.imm)])
         /\ IsMachine(SM!Jump(n, ins)) /\ IsMachine(SM!JumpIndirect(n, ins))
         /\ IsMachine(SM!Halt(n, ins))
    BY <1>2, PcKeeps DEF SM!Jump, SM!JumpIndirect, SM!Halt
  <1>15. CASE ins.code = 8
    BY <1>14, <1>15 DEF SM!Exec, SM!BranchIf
  <1>16. CASE ins.code = 9
    BY <1>2, <1>14, <1>16 DEF SM!Exec, SM!BranchIf
  <1>17. CASE ins.code = 10
    BY <1>2, <1>14, <1>17 DEF SM!Exec, SM!BranchIf
  <1>18. CASE ins.code = 11
    BY <1>14, <1>18 DEF SM!Exec
  <1>19. CASE ins.code = 12
    BY <1>14, <1>19 DEF SM!Exec
  <1>20. CASE ins.code = 15
    BY <1>14, <1>20 DEF SM!Exec
  <1>21. CASE ins.code = 5
    BY <1>2, <1>21 DEF SM!Exec
  <1>22. CASE ins.code = 13
    BY <1>2, <1>22 DEF SM!Exec
  <1>23. CASE ins.code = 14
    BY <1>2, <1>23 DEF SM!Exec
  <1> QED BY <1>1, <1>7, <1>8, <1>9, <1>10, <1>11, <1>12, <1>13, <1>15, <1>16,
             <1>17, <1>21, <1>22, <1>23, <1>18, <1>19, <1>20 DEF Fields

LEMMA TaskIsMachine ==
    ASSUME NEW t \in SM!Tasks
    PROVE  IsMachine(SM!Loaded(t))
  <1>1. CASE t.program = "max"
    BY <1>1, MaxIsCode, LoadedIsMachine DEF SM!Loaded
  <1>2. CASE t.program = "loop"
    BY <1>2, LoopIsCode, LoadedIsMachine DEF SM!Loaded
  <1>3. CASE t.program = "unrolled"
    BY <1>3, UnrolledIsCode, LoadedIsMachine DEF SM!Loaded
  <1>4. CASE t.program = "q4a"
    BY <1>4, Q4aIsCode, LoadedIsMachine DEF SM!Loaded
  <1>5. CASE t.program = "q4b"
    BY <1>5, Q4bIsCode, LoadedIsMachine DEF SM!Loaded
  <1>6. CASE t.program = "median"
    BY <1>6, MedianIsCode, LoadedIsMachine DEF SM!Loaded
  <1>7. CASE t.program = "dynamic"
    BY <1>7, DynamicIsCode, LoadedIsMachine DEF SM!Loaded
  <1>8. CASE t.program = "test"
    BY <1>8, TestIsCode, LoadedIsMachine DEF SM!Loaded
  <1>9. CASE t \in SM!Task("switch", {<<k>> : k \in SwitchArgs})
    <2>1. t.program = "switch" /\ t.args[1] \in Int
      BY <1>9, ArgumentsAreInts DEF SM!Task
    <2>2. IsCode(SM!SwitchLines(t.args[1]))
      BY <2>1, SwitchIsCode
    <2> QED BY <2>1, <2>2, LoadedIsMachine DEF SM!Loaded
  <1>10. CASE t \in SM!Task("q1", {<<k>> : k \in 0..3})
    <2>1. t.program = "q1" /\ t.args[1] \in Int
      BY <1>10 DEF SM!Task
    <2>2. IsCode(SM!Q1Lines(t.args[1]))
      BY <2>1, Q1IsCode
    <2> QED BY <2>1, <2>2, LoadedIsMachine DEF SM!Loaded
  <1>11. CASE t \in SM!Task("if", Q2Args \X Q2Args)
    <2> PICK args \in Q2Args \X Q2Args : t = [program |-> "if", args |-> args]
      BY <1>11 DEF SM!Task
    <2>1. t.program = "if" /\ t.args[1] \in Int /\ t.args[2] \in Int
      BY ArgumentsAreInts
    <2>2. IsCode(SM!IfLines(t.args[1], t.args[2]))
      BY <2>1, IfIsCode
    <2> QED BY <2>1, <2>2, LoadedIsMachine DEF SM!Loaded
  <1>12. CASE t \in SM!Task("q2", Q2Cases \X Q2Args \X Q2Args)
    <2> PICK args \in Q2Cases \X Q2Args \X Q2Args : t = [program |-> "q2", args |-> args]
      BY <1>12 DEF SM!Task
    <2>1. t.program = "q2" /\ t.args[1] \in Int /\ t.args[2] \in Int /\ t.args[3] \in Int
      BY ArgumentsAreInts
    <2>2. IsCode(SM!Q2Lines(t.args[1], t.args[2], t.args[3]))
      BY <2>1, Q2IsCode
    <2> QED BY <2>1, <2>2, LoadedIsMachine DEF SM!Loaded
  <1> DEFINE always == {"max", "loop", "unrolled", "q4a", "q4b", "median", "dynamic"}
             fixedTasks == UNION {SM!Task(p, {<<>>}) : p \in always}
             testTasks == SM!Task("test", {<<start>> : start \in DOMAIN SM!Promised})
             switchTasks == SM!Task("switch", {<<k>> : k \in SwitchArgs})
             q1Tasks == SM!Task("q1", {<<k>> : k \in 0..3})
             ifTasks == SM!Task("if", Q2Args \X Q2Args)
             q2Tasks == SM!Task("q2", Q2Cases \X Q2Args \X Q2Args)
  <1>13. t \in fixedTasks \cup testTasks \cup switchTasks
                    \cup q1Tasks \cup ifTasks \cup q2Tasks
    BY Zenon DEF SM!Tasks
  <1>14. t \in fixedTasks => \E p \in always : t \in SM!Task(p, {<<>>})
    OBVIOUS
  <1>15. ASSUME NEW p \in always, t \in SM!Task(p, {<<>>}) PROVE t.program = p
    BY <1>15 DEF SM!Task
  <1>16. t \in testTasks => t.program = "test"
    BY DEF SM!Task
  <1> QED BY <1>1, <1>2, <1>3, <1>4, <1>5, <1>6, <1>7, <1>8, <1>9, <1>10, <1>11,
             <1>12, <1>13, <1>14, <1>15, <1>16

\* Both simulators are the same machine.
TablesInv == library = "SMPrograms" => SM!SwitchIsTable /\ IsMachine(machine)

LEMMA TablesInitially == Init => TablesInv /\ MachinesAgree
  <1> SUFFICES ASSUME Init PROVE TablesInv /\ MachinesAgree
    OBVIOUS
  <1>1. MemoryIsExact
    <2> SUFFICES ASSUME bytes = expected, NEW address \in 0..Capacity - 4
                 PROVE  Valid(address)
      BY DEF Init, MemoryInit, MemoryIsExact, WordsAreKept, readInteger
    <2> QED BY MemoryAssumption DEF Valid, Span
  <1>2. library = "SMPrograms" => task \in SM!Tasks /\ machine = SM!Loaded(task)
                                  /\ tables = machine /\ cpu = machine
    BY DEF Init, SM!SMInit
  <1> QED BY <1>1, <1>2, TaskIsMachine
          DEF TablesInv, MachinesAgree, SM!SimulatorsAgree, SM!SwitchIsTable

LEMMA TablesStep ==
    ASSUME TablesInv, [Next]_vars
    PROVE  TablesInv'
  <1>1. library' = library
    BY DEF Next, vars
  <1> SUFFICES ASSUME library = "SMPrograms"
               PROVE  SM!SwitchIsTable' /\ IsMachine(machine)'
    BY <1>1 DEF TablesInv
  <1>2. machine = tables /\ IsMachine(machine)
    BY DEF TablesInv, SM!SwitchIsTable
  <1>3. CASE SM!compute
    <2>1. machine' = SM!Exec(SM!Fetched(machine), SM!Fetch(machine))
          /\ tables' = SM!ExecTables(SM!Fetched(machine), SM!Fetch(machine))
          /\ SM!Defined(machine)
      BY <1>2, <1>3 DEF SM!compute
    <2>2. SM!Fetch(machine).code \in Halves /\ SM!Fetch(machine).op0 \in Halves
      BY <1>2, <2>1, FieldsFetched, FieldsAreHalves
    <2>3. tables' = machine'
      BY <2>1, <2>2, OuterTable
    <2>4. IsMachine(machine')
      BY <1>2, <2>1, ExecKeeps
    <2> QED BY <2>3, <2>4 DEF SM!SwitchIsTable, IsMachine
  <1>4. CASE UNCHANGED <<machine, tables>>
    BY <1>2, <1>4 DEF SM!SwitchIsTable, IsMachine
  <1> QED BY <1>3, <1>4 DEF Next, SM!SMNext, vars, machineProgramVars

\* The tables of sm-jt.c are the switches of sm.c, in every step of every program:
THEOREM TablesAgree == Spec => [](library = "SMPrograms" => SM!SwitchIsTable)
  <1>1. Init => TablesInv
    BY TablesInitially
  <1>2. TablesInv /\ [Next]_vars => TablesInv'
    BY TablesStep
  <1>3. TablesInv => (library = "SMPrograms" => SM!SwitchIsTable)
    BY DEF TablesInv
  <1> QED BY <1>1, <1>2, <1>3, PTL DEF Spec

\* As long as no program jumps through a table at a negative offset - the one
\* point on which the simulators differ, S8:119 -, every main memory is exact,
\* and the simulator with a switch, the one with a table of functions and the
\* processor of CPU.java have the same registers, memory and pc after every
\* step of every program.
THEOREM MachinesAgreeCorrect == Spec /\ []OffsetsFit => []MachinesAgree
  <1> DEFINE Processor == library = "SMPrograms" => SM!SimulatorsAgree
  <1>1. Init => TablesInv /\ Processor
    BY TablesInitially DEF MachinesAgree
  <1>2. ASSUME TablesInv, Processor, OffsetsFit, [Next]_vars
        PROVE  TablesInv' /\ Processor'
    <2>1. TablesInv'
      BY <1>2, TablesStep
    <2>2. library' = library
      BY <1>2 DEF Next, vars
    <2>3. ASSUME library = "SMPrograms" PROVE SM!SimulatorsAgree'
      <3>1. SM!SimulatorsAgree /\ IsMachine(machine)
        BY <1>2, <2>3 DEF TablesInv
      <3>2. CASE SM!compute
        <4>1. SM!Defined(machine)
          BY <3>2 DEF SM!compute
        <4>2. machine.mem[machine.pc] \in 0..255
          BY <3>1, <4>1, FieldsFetched
        <4>3. SM!Fetch(machine).code = 12 => SM!Fetch(machine).imm \in 0..127
          BY <1>2, <2>3, <4>1 DEF OffsetsFit, SM!OffsetsFit
        <4> QED BY <3>1, <3>2, <4>2, <4>3, SimulatorsStepTogether
      <3>3. CASE UNCHANGED <<machine, tables, cpu>>
        <4>1. machine' = machine /\ tables' = tables /\ cpu' = cpu
          BY <3>3
        <4> QED BY <3>1, <4>1 DEF SM!SimulatorsAgree, SM!SwitchIsTable
      <3> QED BY <1>2, <2>3, <3>2, <3>3 DEF Next, SM!SMNext, vars, machineProgramVars
    <2> QED BY <2>1, <2>2, <2>3
  <1>3. MemoryIsExact /\ Processor => MachinesAgree
    BY DEF MachinesAgree
  <1> HIDE DEF Processor
  <1> QED BY <1>1, <1>2, <1>3, MemoryExactCorrect, PTL DEF Spec
-----------------------------------------------------------------------------
(* The lists in arrays. *)

\* The arrays of list.c implement sequences: whatever is appended, inserted,
\* removed, mapped, folded or filtered, for any numbers, arrays, first size and
\* factor of growth, every list is and every call returns what the comments of
\* list.c promise, and no list ever holds uninitialized memory.
THEOREM ImplementsSequencesCorrect == Spec => ImplementsSequences
  <1>1. Init => Sequences!SequencesInit /\ ArraysInv
    BY ArraysInitially DEF Init
  <1>2. ArraysInv /\ [Next]_vars
          => [Sequences!SequencesNext]_<<Contents, returned>> /\ ArraysInv'
    <2> SUFFICES ASSUME ArraysInv, [Next]_vars
        PROVE  [Sequences!SequencesNext]_<<Contents, returned>> /\ ArraysInv'
      OBVIOUS
    <2>1. [ArrayListNext]_arrayListVars
      BY DEF Next, vars
    <2> QED BY <2>1, ArraysStep
  <1> QED BY <1>1, <1>2, PTL DEF Spec, ImplementsSequences, Sequences!SequencesSpec
=============================================================================
