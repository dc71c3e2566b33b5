---------------------------- MODULE BasicLemmas ----------------------------
(***************************************************************************)
(* Facts that the proofs of several modules need and that are about none   *)
(* of them: queues and lists kept as sequences, the least and the greatest *)
(* of a set of numbers, and functions defined by recursion, which FoldLeft *)
(* and the folds of the machine's words are.                               *)
(***************************************************************************)
EXTENDS SequencesExt, SequenceTheorems, FiniteSetTheorems, WellFoundedInduction, TLAPS

\* The elements of a queue are elements of its base set, and the queue is
\* empty exactly when it has none.
LEMMA QueueElements ==
    ASSUME NEW S, NEW q \in Seq(S)
    PROVE  /\ ToSet(q) \subseteq S
           /\ q = <<>> <=> ToSet(q) = {}
  <1>1. DOMAIN q = 1..Len(q) /\ Len(q) \in Nat /\ \A i \in 1..Len(q) : q[i] \in S
    BY LenProperties, ElementOfSeq
  <1>2. ToSet(q) \subseteq S
    BY <1>1 DEF ToSet
  <1>3. q = <<>> => ToSet(q) = {}
    BY <1>1 DEF ToSet
  <1>4. q # <<>> => q[1] \in ToSet(q)
    BY <1>1, EmptySeq DEF ToSet
  <1> QED BY <1>2, <1>3, <1>4

\* The empty queue.
LEMMA EmptyQueue ==
    /\ \A S : <<>> \in Seq(S)
    /\ ToSet(<<>>) = {}
    /\ IsInjective(<<>>)
  <1>1. <<>> \in Seq({}) /\ Len(<<>>) = 0
    BY EmptySeq
  <1>2. DOMAIN <<>> = {}
    BY <1>1, LenProperties
  <1> QED BY <1>2, EmptySeq DEF ToSet, IsInjective

\* Inserting at the tail adds the element, and keeps a queue free of
\* duplicates if the element is new.
LEMMA AppendQueue ==
    ASSUME NEW S, NEW q \in Seq(S), NEW e \in S
    PROVE  /\ Append(q, e) \in Seq(S)
           /\ Append(q, e) # <<>>
           /\ Len(Append(q, e)) = Len(q) + 1
           /\ ToSet(Append(q, e)) = ToSet(q) \cup {e}
           /\ IsInjective(q) /\ e \notin ToSet(q) => IsInjective(Append(q, e))
  <1> DEFINE r == Append(q, e)
  <1>1. r \in Seq(S) /\ Len(r) = Len(q) + 1
    OBVIOUS
  <1>2. /\ Len(q) \in Nat
        /\ DOMAIN q = 1..Len(q)
        /\ DOMAIN r = 1..(Len(q) + 1)
    BY <1>1, LenProperties
  <1>3. \A i \in 1..Len(q) : r[i] = q[i]
    OBVIOUS
  <1>4. r[Len(q) + 1] = e
    OBVIOUS
  <1> HIDE DEF r
  <1>5. \A i \in DOMAIN r : i \in 1..Len(q) \/ i = Len(q) + 1
    BY <1>2
  <1>6. ToSet(r) = ToSet(q) \cup {e}
    <2>1. ASSUME NEW x \in ToSet(r) PROVE x \in ToSet(q) \cup {e}
      BY <1>2, <1>3, <1>4, <1>5 DEF ToSet
    <2>2. ASSUME NEW x \in ToSet(q) PROVE x \in ToSet(r)
      <3>1. PICK i \in 1..Len(q) : x = q[i]
        BY <1>2 DEF ToSet
      <3>2. i \in DOMAIN r /\ r[i] = x
        BY <3>1, <1>2, <1>3
      <3> QED BY <3>2 DEF ToSet
    <2>3. e \in ToSet(r)
      BY <1>2, <1>4 DEF ToSet
    <2> QED BY <2>1, <2>2, <2>3
  <1>7. ASSUME IsInjective(q), e \notin ToSet(q) PROVE IsInjective(r)
    <2>1. \A i \in 1..Len(q) : q[i] # e
      BY <1>2, <1>7 DEF ToSet
    <2> QED BY <1>2, <1>3, <1>4, <1>5, <1>7, <2>1 DEF IsInjective
  <1>8. r # <<>>
    BY <1>4, <1>6, EmptyQueue
  <1> QED BY <1>1, <1>6, <1>7, <1>8 DEF r

\* Removing at the head takes the head away and nothing else.
LEMMA TailQueue ==
    ASSUME NEW S, NEW q \in Seq(S), q # <<>>
    PROVE  /\ Head(q) \in S
           /\ Head(q) \in ToSet(q)
           /\ Tail(q) \in Seq(S)
           /\ Len(q) \in Nat \ {0}
           /\ Len(Tail(q)) = Len(q) - 1
           /\ ToSet(q) = ToSet(Tail(q)) \cup {Head(q)}
           /\ IsInjective(q) => /\ IsInjective(Tail(q))
                                /\ Head(q) \notin ToSet(Tail(q))
  <1> DEFINE r == Tail(q)
  <1>1. /\ r \in Seq(S) /\ Len(r) = Len(q) - 1 /\ Head(q) \in S
        /\ \A i \in 1..Len(r) : r[i] = q[i + 1]
    BY HeadTailProperties
  <1>2. Len(q) \in Nat \ {0}
    BY EmptySeq
  <1>3. Head(q) = q[1]
    BY <1>2
  <1>4. DOMAIN q = 1..Len(q) /\ DOMAIN r = 1..(Len(q) - 1)
    BY <1>1, LenProperties
  <1> HIDE DEF r
  <1>5. \A i \in DOMAIN q : i = 1 \/ (i - 1 \in DOMAIN r /\ r[i - 1] = q[i])
    BY <1>1, <1>2, <1>4
  <1>6. \A i \in DOMAIN r : i + 1 \in DOMAIN q /\ r[i] = q[i + 1]
    BY <1>1, <1>2, <1>4
  <1>7. 1 \in DOMAIN q
    BY <1>2, <1>4
  <1>8. ToSet(q) = ToSet(r) \cup {Head(q)}
    <2>1. ASSUME NEW x \in ToSet(q) PROVE x \in ToSet(r) \cup {Head(q)}
      BY <1>3, <1>5 DEF ToSet
    <2>2. ASSUME NEW x \in ToSet(r) PROVE x \in ToSet(q)
      BY <1>6 DEF ToSet
    <2>3. Head(q) \in ToSet(q)
      BY <1>3, <1>7 DEF ToSet
    <2> QED BY <2>1, <2>2, <2>3
  <1>9. ASSUME IsInjective(q) PROVE IsInjective(r) /\ Head(q) \notin ToSet(r)
    <2>1. \A i \in DOMAIN r : i \in Int /\ i >= 1
      BY <1>2, <1>4
    <2>2. IsInjective(r)
      BY <1>6, <1>9, <2>1 DEF IsInjective
    <2>3. \A i \in DOMAIN r : r[i] # q[1]
      BY <1>6, <1>7, <1>9, <2>1 DEF IsInjective
    <2> QED BY <1>3, <2>2, <2>3 DEF ToSet
  <1> QED BY <1>1, <1>2, <1>8, <1>9 DEF r

\* The queue without the element at position k.
LEMMA RemoveFromQueue ==
    ASSUME NEW S, NEW q \in Seq(S), NEW k \in 1..Len(q)
    PROVE  /\ RemoveAt(q, k) \in Seq(S)
           /\ Len(RemoveAt(q, k)) = Len(q) - 1
           /\ \A j \in 1..Len(q) - 1 :
                RemoveAt(q, k)[j] = IF j < k THEN q[j] ELSE q[j + 1]
           /\ ToSet(q) = ToSet(RemoveAt(q, k)) \cup {q[k]}
           /\ IsInjective(q) => /\ IsInjective(RemoveAt(q, k))
                                /\ q[k] \notin ToSet(RemoveAt(q, k))
  <1> DEFINE x == SubSeq(q, 1, k - 1)
             y == SubSeq(q, k + 1, Len(q))
             r == RemoveAt(q, k)
  <1>0. /\ Len(q) \in Nat /\ DOMAIN q = 1..Len(q) /\ \A j \in 1..Len(q) : q[j] \in S
        /\ k \in Nat /\ k >= 1 /\ k <= Len(q)
    BY LenProperties, ElementOfSeq
  <1>1. x \in Seq(S) /\ Len(x) = k - 1 /\ \A j \in 1..k - 1 : x[j] = q[j]
    <2>1. \A j \in 1..k - 1 : q[j] \in S
      BY <1>0
    <2>2. /\ x \in Seq(S)
          /\ Len(x) = IF 1 <= k - 1 THEN k - 1 - 1 + 1 ELSE 0
          /\ \A j \in 1..(k - 1 - 1 + 1) : x[j] = q[1 + j - 1]
      BY <1>0, <2>1, SubSeqProperties
    <2> HIDE DEF x
    <2> QED BY <1>0, <2>2
  <1>2. /\ y \in Seq(S) /\ Len(y) = Len(q) - k
        /\ \A j \in 1..Len(q) - k : y[j] = q[k + j]
    <2>1. \A j \in k + 1..Len(q) : q[j] \in S
      BY <1>0
    <2>2. /\ y \in Seq(S)
          /\ Len(y) = IF k + 1 <= Len(q) THEN Len(q) - (k + 1) + 1 ELSE 0
          /\ \A j \in 1..(Len(q) - (k + 1) + 1) : y[j] = q[k + 1 + j - 1]
      BY <1>0, <2>1, SubSeqProperties
    <2> HIDE DEF y
    <2>3. \A j \in 1..Len(q) - k : j \in 1..(Len(q) - (k + 1) + 1) /\ k + 1 + j - 1 = k + j
      BY <1>0
    <2>4. Len(y) = Len(q) - k
      <3>1. Len(q) \in Nat /\ k \in Nat /\ k <= Len(q)
        BY <1>0
      <3>2. Len(y) = IF k + 1 <= Len(q) THEN Len(q) - (k + 1) + 1 ELSE 0
        BY <2>2
      <3> QED BY <3>1, <3>2
    <2>5. \A j \in 1..Len(q) - k : y[j] = q[k + j]
      BY <2>2, <2>3
    <2> QED BY <2>2, <2>4, <2>5
  <1>3. r = x \o y
    BY DEF RemoveAt
  <1> HIDE DEF x, y, r
  <1>4. /\ r \in Seq(S) /\ Len(r) = Len(q) - 1
        /\ \A j \in 1..Len(q) - 1 : r[j] = IF j < k THEN q[j] ELSE q[j + 1]
    <2>1. /\ r \in Seq(S) /\ Len(r) = Len(x) + Len(y)
          /\ \A j \in 1..Len(x) + Len(y) :
               r[j] = IF j <= Len(x) THEN x[j] ELSE y[j - Len(x)]
      BY <1>1, <1>2, <1>3, ConcatProperties
    <2>2. ASSUME NEW j \in 1..Len(q) - 1 PROVE r[j] = IF j < k THEN q[j] ELSE q[j + 1]
      <3>1. j \in 1..Len(x) + Len(y) /\ (j <= Len(x) <=> j < k)
        BY <1>0, <1>1, <1>2
      <3>2. CASE j < k
        <4>1. j \in 1..k - 1
          BY <1>0, <3>2
        <4> QED BY <1>1, <2>1, <3>1, <3>2, <4>1
      <3>3. CASE ~(j < k)
        <4>1. j - Len(x) \in 1..Len(q) - k /\ k + (j - Len(x)) = j + 1
          BY <1>0, <1>1, <3>3
        <4> QED BY <1>2, <2>1, <3>1, <3>3, <4>1
      <3> QED BY <3>2, <3>3
    <2> QED BY <1>0, <1>1, <1>2, <2>1, <2>2
  <1>5. DOMAIN r = 1..Len(q) - 1
    BY <1>4, LenProperties
  <1>6. ASSUME NEW e \in ToSet(q), e # q[k] PROVE e \in ToSet(r)
    <2>1. PICK m \in 1..Len(q) : q[m] = e
      BY <1>0 DEF ToSet
    <2>2. m # k
      BY <1>6, <2>1
    <2>3. CASE m < k
      <3>1. m \in 1..Len(q) - 1 /\ r[m] = e
        BY <1>0, <1>4, <2>1, <2>3
      <3> QED BY <1>5, <3>1 DEF ToSet
    <2>4. CASE m > k
      <3>1. m - 1 \in 1..Len(q) - 1 /\ ~(m - 1 < k) /\ (m - 1) + 1 = m
        BY <1>0, <2>1, <2>4
      <3>2. r[m - 1] = e
        BY <1>4, <2>1, <3>1
      <3> QED BY <1>5, <3>1, <3>2 DEF ToSet
    <2> QED BY <1>0, <2>2, <2>3, <2>4
  <1>7. \A j \in 1..Len(q) - 1 : \E m \in 1..Len(q) :
            r[j] = q[m] /\ m # k /\ m = IF j < k THEN j ELSE j + 1
    <2> SUFFICES ASSUME NEW j \in 1..Len(q) - 1
                 PROVE  \E m \in 1..Len(q) :
                          r[j] = q[m] /\ m # k /\ m = IF j < k THEN j ELSE j + 1
      OBVIOUS
    <2>1. CASE j < k
      <3>1. j \in 1..Len(q) /\ j # k
        BY <1>0, <2>1
      <3> QED BY <1>4, <2>1, <3>1
    <2>2. CASE ~(j < k)
      <3>1. j + 1 \in 1..Len(q) /\ j + 1 # k
        BY <1>0, <2>2
      <3> QED BY <1>4, <2>2, <3>1
    <2> QED BY <2>1, <2>2
  <1>8. ToSet(r) \subseteq ToSet(q)
    BY <1>0, <1>5, <1>7 DEF ToSet
  <1>9. q[k] \in ToSet(q)
    BY <1>0 DEF ToSet
  <1>10. ASSUME IsInjective(q) PROVE IsInjective(r) /\ q[k] \notin ToSet(r)
    <2>1. \A j, m \in 1..Len(q) : q[j] = q[m] => j = m
      BY <1>0, <1>10 DEF IsInjective
    <2>2. q[k] \notin ToSet(r)
      BY <1>0, <1>5, <1>7, <2>1 DEF ToSet
    <2>3. ASSUME NEW a \in 1..Len(q) - 1, NEW b \in 1..Len(q) - 1, r[a] = r[b]
          PROVE  a = b
      <3>1. PICK ma \in 1..Len(q) : r[a] = q[ma] /\ ma = IF a < k THEN a ELSE a + 1
        BY <1>7
      <3>2. PICK mb \in 1..Len(q) : r[b] = q[mb] /\ mb = IF b < k THEN b ELSE b + 1
        BY <1>7
      <3>3. ma = mb
        BY <2>1, <2>3, <3>1, <3>2
      <3>4. (IF a < k THEN a ELSE a + 1) = (IF b < k THEN b ELSE b + 1)
        BY <3>1, <3>2, <3>3
      <3>5. a \in Int /\ b \in Int /\ k \in Int
        BY <1>0
      <3> QED BY <3>4, <3>5
    <2> QED BY <1>5, <2>2, <2>3 DEF IsInjective
  <1>11. ToSet(q) = ToSet(r) \cup {q[k]}
    BY <1>6, <1>8, <1>9
  <1> QED BY <1>4, <1>10, <1>11 DEF r

\* Pushing an element on a stack.
LEMMA PushQueue ==
    ASSUME NEW S, NEW q \in Seq(S), NEW e \in S
    PROVE  /\ <<e>> \o q \in Seq(S)
           /\ ToSet(<<e>> \o q) = ToSet(q) \cup {e}
           /\ IsInjective(q) /\ e \notin ToSet(q) => IsInjective(<<e>> \o q)
  <1> DEFINE r == <<e>> \o q
  <1>0. Len(q) \in Nat /\ DOMAIN q = 1..Len(q)
    BY LenProperties
  <1>1. /\ r \in Seq(S) /\ Len(r) = Len(q) + 1 /\ r[1] = e
        /\ \A j \in 1..Len(q) : r[j + 1] = q[j]
    <2>1. <<e>> \in Seq(S) /\ Len(<<e>>) = 1 /\ <<e>>[1] = e
      OBVIOUS
    <2> DEFINE o == <<e>>
    <2> HIDE DEF o
    <2>2. /\ r \in Seq(S) /\ Len(r) = 1 + Len(q)
          /\ \A j \in 1..1 + Len(q) : r[j] = IF j <= 1 THEN o[j] ELSE q[j - 1]
      BY <2>1, ConcatProperties DEF o
    <2> HIDE DEF r
    <2>3. \A j \in 1..Len(q) : j + 1 \in 1..1 + Len(q) /\ ~(j + 1 <= 1) /\ j + 1 - 1 = j
      BY <1>0
    <2> QED BY <1>0, <2>1, <2>2, <2>3 DEF o
  <1> HIDE DEF r
  <1>2. DOMAIN r = 1..Len(q) + 1
    BY <1>1, LenProperties
  <1>3. \A j \in 1..Len(q) + 1 : j = 1 \/ (j - 1 \in 1..Len(q) /\ r[j] = q[j - 1])
    <2> SUFFICES ASSUME NEW j \in 1..Len(q) + 1, j # 1
                 PROVE  j - 1 \in 1..Len(q) /\ r[j] = q[j - 1]
      OBVIOUS
    <2>1. j - 1 \in 1..Len(q) /\ (j - 1) + 1 = j
      BY <1>0
    <2> QED BY <1>1, <2>1
  <1>4. ToSet(r) \subseteq ToSet(q) \cup {e}
    BY <1>0, <1>1, <1>2, <1>3 DEF ToSet
  <1>5. \A j \in 1..Len(q) : j + 1 \in DOMAIN r
    BY <1>0, <1>2
  <1>6. ToSet(q) \cup {e} \subseteq ToSet(r)
    <2>1. ToSet(q) \subseteq ToSet(r)
      BY <1>0, <1>1, <1>5 DEF ToSet
    <2>2. 1 \in DOMAIN r
      BY <1>0, <1>2
    <2> QED BY <1>1, <2>1, <2>2 DEF ToSet
  <1>7. ASSUME IsInjective(q), e \notin ToSet(q) PROVE IsInjective(r)
    <2>1. \A j, m \in 1..Len(q) : q[j] = q[m] => j = m
      BY <1>0, <1>7 DEF IsInjective
    <2>2. \A j \in 1..Len(q) : q[j] # e
      BY <1>0, <1>7 DEF ToSet
    <2>3. ASSUME NEW a \in 1..Len(q) + 1, NEW b \in 1..Len(q) + 1, r[a] = r[b]
          PROVE  a = b
      <3>1. a = 1 \/ (a - 1 \in 1..Len(q) /\ r[a] = q[a - 1])
        BY <1>3
      <3>2. b = 1 \/ (b - 1 \in 1..Len(q) /\ r[b] = q[b - 1])
        BY <1>3
      <3>3. CASE a = 1
        BY <1>1, <2>2, <2>3, <3>2, <3>3
      <3>4. CASE b = 1
        BY <1>1, <2>2, <2>3, <3>1, <3>4
      <3>5. CASE a # 1 /\ b # 1
        <4>1. a - 1 = b - 1
          BY <2>1, <2>3, <3>1, <3>2, <3>5
        <4> QED BY <1>0, <4>1
      <3> QED BY <3>3, <3>4, <3>5
    <2> QED BY <1>2, <2>3 DEF IsInjective
  <1> QED BY <1>1, <1>4, <1>6, <1>7 DEF r

\* Two sequences are the same.
LEMMA SameSequence ==
    ASSUME NEW S, NEW s \in Seq(S), NEW t \in Seq(S), Len(s) = Len(t),
           \A k \in 1..Len(s) : s[k] = t[k]
    PROVE  s = t
  BY LenProperties

LEMMA LargerSequences ==
    ASSUME NEW S, NEW T, S \subseteq T, NEW s \in Seq(S)
    PROVE  s \in Seq(T)
  OBVIOUS

LEMMA JoinedSequence ==
    ASSUME NEW S, NEW s \in Seq(S), NEW t \in Seq(S), NEW m, NEW n, m = Len(s), n = Len(t)
    PROVE  /\ s \o t \in Seq(S) /\ Len(s \o t) = m + n
           /\ \A k \in 1..m + n : (s \o t)[k] = IF k <= m THEN s[k] ELSE t[k - m]
  OBVIOUS

LEMMA InsertIntoSequence ==
    ASSUME NEW S, NEW s \in Seq(S), NEW e \in S, NEW p \in 1..Len(s)
    PROVE  /\ InsertAt(s, p, e) \in Seq(S)
           /\ Len(InsertAt(s, p, e)) = Len(s) + 1
           /\ \A k \in 1..Len(s) + 1 :
                InsertAt(s, p, e)[k] = IF k < p THEN s[k] ELSE IF k = p THEN e ELSE s[k - 1]
  <1> DEFINE n == Len(s)
             x == SubSeq(s, 1, p - 1)
             y == SubSeq(s, p, n)
             o == <<e>>
  <1>1. n \in Nat /\ p \in 1..n /\ \A k \in 1..n : s[k] \in S
    OBVIOUS
  <1>2. /\ x \in Seq(S) /\ Len(x) = p - 1 /\ \A k \in 1..p - 1 : x[k] = s[k]
    OBVIOUS
  <1>3. /\ y \in Seq(S) /\ Len(y) = n - p + 1
        /\ \A k \in 1..n - p + 1 : y[k] = s[p + k - 1]
    OBVIOUS
  <1>4. o \in Seq(S) /\ Len(o) = 1 /\ o[1] = e
    OBVIOUS
  <1>5. InsertAt(s, p, e) = (x \o o) \o y
    BY DEF InsertAt
  <1> HIDE DEF n, x, y, o
  <1>6. /\ x \o o \in Seq(S) /\ Len(x \o o) = p
        /\ \A k \in 1..p : (x \o o)[k] = IF k <= p - 1 THEN x[k] ELSE o[k - (p - 1)]
    <2>1. (p - 1) + 1 = p
      BY <1>1
    <2> DEFINE m == p - 1
    <2>2. m = Len(x) /\ m + 1 = p
      BY <1>2, <2>1
    <2> HIDE DEF m
    <2> DEFINE l1 == Len(o)
    <2>3. m + l1 = p
      BY <1>4, <2>2
    <2> HIDE DEF l1
    <2>4. l1 = Len(o)
      BY DEF l1
    <2>5. /\ x \o o \in Seq(S) /\ Len(x \o o) = m + l1
          /\ \A k \in 1..m + l1 : (x \o o)[k] = IF k <= m THEN x[k] ELSE o[k - m]
      <3>1. x \in Seq(S) /\ o \in Seq(S)
        BY <1>2, <1>4
      <3>2. m = Len(x)
        BY <2>2
      <3> QED BY <2>4, <3>1, <3>2, JoinedSequence
    <2> QED BY <2>3, <2>5 DEF m
  <1> DEFINE w == x \o o
  <1>7. /\ w \in Seq(S) /\ Len(w) = p /\ w[p] = e
        /\ \A k \in 1..p - 1 : w[k] = s[k]
    <2>1. /\ p \in 1..p /\ ~(p <= p - 1) /\ p - (p - 1) = 1
      BY <1>1
    <2>2. \A k \in 1..p - 1 : k \in 1..p /\ k <= p - 1
      BY <1>1
    <2> QED BY <1>2, <1>4, <1>6, <2>1, <2>2
  <1> HIDE DEF w
  <1>8. /\ w \o y \in Seq(S) /\ Len(w \o y) = n + 1
        /\ \A k \in 1..n + 1 : (w \o y)[k] = IF k <= p THEN w[k] ELSE y[k - p]
    <2> DEFINE m == n - p + 1
    <2>1. m = Len(y) /\ p + m = n + 1
      BY <1>1, <1>3
    <2> HIDE DEF m
    <2>2. /\ w \o y \in Seq(S) /\ Len(w \o y) = p + m
          /\ \A k \in 1..p + m : (w \o y)[k] = IF k <= p THEN w[k] ELSE y[k - p]
      BY <1>3, <1>7, <2>1, JoinedSequence
    <2> QED BY <2>1, <2>2
  <1>9. ASSUME NEW k \in 1..n + 1
        PROVE  (w \o y)[k] = IF k < p THEN s[k] ELSE IF k = p THEN e ELSE s[k - 1]
    <2>1. CASE k < p
      BY <1>1, <1>7, <1>8, <2>1
    <2>2. CASE k = p
      BY <1>1, <1>7, <1>8, <2>2
    <2>3. CASE k > p
      <3>1. /\ k - p \in 1..n - p + 1 /\ p + (k - p) - 1 = k - 1 /\ ~(k <= p)
        BY <1>1, <2>3
      <3> QED BY <1>1, <1>3, <1>8, <2>3, <3>1
    <2>4. k < p \/ k = p \/ k > p
      BY <1>1
    <2> QED BY <2>1, <2>2, <2>3, <2>4
  <1> QED BY <1>5, <1>8, <1>9 DEF n, w
-----------------------------------------------------------------------------
(* Numbers. *)

\* A set of numbers has a least one.
LEMMA LeastExists ==
    ASSUME NEW T \in SUBSET Nat, T # {}
    PROVE  \E x \in T : \A y \in T : x <= y
  <1> DEFINE R == OpToRel(<, Nat)
  <1>1. IsWellFoundedOn(R, Nat)
    BY NatLessThanWellFounded
  <1>2. \E x \in T : \A y \in T : <<y, x>> \notin R
    <2> HIDE DEF R
    <2> QED BY <1>1, WFMin
  <1>3. \A x, y \in T : <<y, x>> \in R <=> y < x
    BY DEF OpToRel
  <1> HIDE DEF R
  <1>4. PICK x \in T : \A y \in T : ~(y < x)
    BY <1>2, <1>3
  <1>5. \A y \in T : x <= y
    BY <1>4
  <1> QED BY <1>5

LEMMA MinIsLeast ==
    ASSUME NEW T \in SUBSET Nat, T # {}
    PROVE  Min(T) \in T /\ \A y \in T : Min(T) <= y
  BY LeastExists DEF Min

\* What holds of 0, and of every number when of the one before it.
LEMMA CountingUp ==
    ASSUME NEW n \in Nat, NEW S, 0 \in S, \A k \in 1..n : k - 1 \in S => k \in S
    PROVE  \A k \in 0..n : k \in S
  <1> DEFINE Bad == {k \in 0..n : k \notin S}
  <1> SUFFICES ASSUME Bad # {} PROVE FALSE
    OBVIOUS
  <1>1. PICK m \in Bad : \A y \in Bad : m <= y
    <2>1. Bad \in SUBSET Nat
      OBVIOUS
    <2> HIDE DEF Bad
    <2> QED BY <2>1, LeastExists
  <1>2. m \in 1..n /\ m - 1 \in S
    BY <1>1
  <1> QED BY <1>2

LEMMA MaxIsGreatest ==
    ASSUME NEW n \in Nat, NEW T \in SUBSET (1..n), T # {}
    PROVE  Max(T) \in T /\ \A y \in T : y <= Max(T)
  <1> DEFINE U == {n - x : x \in T}
  <1>1. U \in SUBSET Nat /\ U # {}
    <2>1. \A x \in T : n - x \in Nat
      OBVIOUS
    <2> QED BY <2>1
  <1>2. PICK u \in U : \A y \in U : u <= y
    BY <1>1, LeastExists
  <1>3. PICK x \in T : u = n - x
    BY <1>2
  <1>4. ASSUME NEW y \in T PROVE x >= y
    <2>1. n - y \in U
      OBVIOUS
    <2> QED BY <1>2, <1>3, <2>1
  <1> QED BY <1>4 DEF Max

LEMMA MaxOfFirst ==
    ASSUME NEW n \in Nat, NEW k \in 1..n
    PROVE  Max(1..k) = k /\ (1..k) \ {k} = 1..(k - 1) /\ 1..k # {}
  <1>1. Max(1..k) \in 1..k /\ \A y \in 1..k : y <= Max(1..k)
    <2>1. 1..k \in SUBSET (1..n) /\ 1..k # {}
      OBVIOUS
    <2> QED BY <2>1, MaxIsGreatest
  <1>2. k \in 1..k
    OBVIOUS
  <1> QED BY <1>1, <1>2

\* How many of the numbers in T are at most k.
UpTo(T, k) == {j \in T : j <= k}

CountUpTo(T, k) == Cardinality(UpTo(T, k))

LEMMA CountingMembers ==
    ASSUME NEW n \in Nat, NEW T \in SUBSET (1..n)
    PROVE  /\ IsFiniteSet(T) /\ \A k \in 0..n : CountUpTo(T, k) \in Nat
           /\ CountUpTo(T, 0) = 0 /\ CountUpTo(T, n) = Cardinality(T)
           /\ \A k \in 1..n : CountUpTo(T, k) = CountUpTo(T, k - 1) + (IF k \in T THEN 1 ELSE 0)
  <1>0. \A j \in T : j \in 1..n
    OBVIOUS
  <1>1. IsFiniteSet(T)
    <2>1. IsFiniteSet(1..n)
      BY FS_Interval
    <2> QED BY <2>1, FS_Subset
  <1>2. ASSUME NEW k \in 0..n PROVE IsFiniteSet(UpTo(T, k)) /\ CountUpTo(T, k) \in Nat
    <2>1. UpTo(T, k) \subseteq T
      BY DEF UpTo
    <2>2. IsFiniteSet(UpTo(T, k))
      BY <1>1, <2>1, FS_Subset
    <2> QED BY <2>2, FS_CardinalityType DEF CountUpTo
  <1>3. CountUpTo(T, 0) = 0
    <2>1. UpTo(T, 0) = {}
      <3>1. \A j \in T : ~(j <= 0)
        BY <1>0
      <3> QED BY <3>1 DEF UpTo
    <2> QED BY <2>1, FS_EmptySet DEF CountUpTo
  <1>4. CountUpTo(T, n) = Cardinality(T)
    <2>1. UpTo(T, n) = T
      <3>1. \A j \in T : j <= n
        BY <1>0
      <3> QED BY <3>1 DEF UpTo
    <2> QED BY <2>1 DEF CountUpTo
  <1>5. ASSUME NEW k \in 1..n
        PROVE  CountUpTo(T, k) = CountUpTo(T, k - 1) + (IF k \in T THEN 1 ELSE 0)
    <2>1. k - 1 \in 0..n
      OBVIOUS
    <2>2. CASE k \in T
      <3>1. UpTo(T, k) = UpTo(T, k - 1) \cup {k} /\ k \notin UpTo(T, k - 1)
        <4>1. \A j \in T : j <= k <=> (j <= k - 1 \/ j = k)
          BY <1>0
        <4>2. ~(k <= k - 1)
          OBVIOUS
        <4> QED BY <2>2, <4>1, <4>2 DEF UpTo
      <3>2. Cardinality(UpTo(T, k - 1) \cup {k}) = Cardinality(UpTo(T, k - 1)) + 1
        BY <1>2, <2>1, <3>1, FS_AddElement
      <3> QED BY <2>2, <3>1, <3>2 DEF CountUpTo
    <2>3. CASE k \notin T
      <3>1. UpTo(T, k) = UpTo(T, k - 1)
        <4>1. \A j \in T : j <= k <=> j <= k - 1
          BY <1>0, <2>3
        <4> QED BY <4>1 DEF UpTo
      <3>2. CountUpTo(T, k - 1) \in Nat
        BY <1>2, <2>1
      <3> QED BY <2>3, <3>1, <3>2 DEF CountUpTo
    <2> QED BY <2>2, <2>3
  <1> QED BY <1>1, <1>2, <1>3, <1>4, <1>5

\* A larger member of T has more of them before it.
LEMMA CountsGrow ==
    ASSUME NEW n \in Nat, NEW T \in SUBSET (1..n), NEW j \in T, NEW k \in T, j < k
    PROVE  CountUpTo(T, j) < CountUpTo(T, k)
  <1>1. /\ IsFiniteSet(T) /\ CountUpTo(T, k) \in Nat /\ CountUpTo(T, k - 1) \in Nat
        /\ CountUpTo(T, k) = CountUpTo(T, k - 1) + 1
    <2>1. k \in 0..n /\ k \in 1..n /\ k - 1 \in 0..n
      OBVIOUS
    <2> QED BY <2>1, CountingMembers
  <1>2. UpTo(T, j) \subseteq UpTo(T, k - 1) /\ UpTo(T, k - 1) \subseteq T
    <2>1. \A y \in T : y \in 1..n
      OBVIOUS
    <2>2. \A y \in T : y <= j => y <= k - 1
      BY <2>1
    <2> QED BY <2>2 DEF UpTo
  <1>3. CountUpTo(T, j) \in Nat /\ CountUpTo(T, j) <= CountUpTo(T, k - 1)
    BY <1>1, <1>2, FS_Subset, FS_CardinalityType DEF CountUpTo
  <1> QED BY <1>1, <1>3

\* Every number up to the size of T is the count at one member of it.
LEMMA CountsReach ==
    ASSUME NEW n \in Nat, NEW T \in SUBSET (1..n), NEW m \in 1..Cardinality(T)
    PROVE  \E k \in T : CountUpTo(T, k) = m
  <1> DEFINE Right == {k \in 0..n : \A c \in 1..CountUpTo(T, k) :
                                       \E j \in T : CountUpTo(T, j) = c}
  <1>1. 0 \in Right
    BY CountingMembers
  <1>2. ASSUME NEW k \in 1..n, k - 1 \in Right PROVE k \in Right
    <2> SUFFICES ASSUME NEW c \in 1..CountUpTo(T, k)
        PROVE  \E j \in T : CountUpTo(T, j) = c
      OBVIOUS
    <2>1. /\ k - 1 \in 0..n
          /\ \A d \in 1..CountUpTo(T, k - 1) : \E j \in T : CountUpTo(T, j) = d
      BY <1>2
    <2>2. /\ CountUpTo(T, k - 1) \in Nat
          /\ CountUpTo(T, k) = CountUpTo(T, k - 1) + (IF k \in T THEN 1 ELSE 0)
      BY <2>1, CountingMembers
    <2>3. CASE c = CountUpTo(T, k) /\ k \in T
      BY <2>3
    <2>4. CASE ~(c = CountUpTo(T, k) /\ k \in T)
      <3>1. c \in 1..CountUpTo(T, k - 1)
        BY <2>2, <2>4
      <3> QED BY <2>1, <3>1
    <2> QED BY <2>3, <2>4
  <1>3. n \in Right
    <2>1. n \in 0..n
      OBVIOUS
    <2> HIDE DEF Right
    <2> QED BY <1>1, <1>2, <2>1, CountingUp
  <1> QED BY <1>3, CountingMembers
-----------------------------------------------------------------------------
(* Recursion. *)

\* h makes a value for k from the value before it.
Makes(h, S, D) == \A k \in S, x \in D : h[<<k, x>>] \in D

\* c chooses an element of every subset of S.
Chooses(c, S) == \A s \in SUBSET S : s # {} => c[s] \in s

\* F takes the elements out of a subset of S as c chooses them.
TakesOut(F, S, b, h, c) ==
    \A s \in SUBSET S : F[s] = IF s = {} THEN b ELSE h[<<c[s], F[s \ {c[s]}]>>]

\* A function on 0..n may be defined from each number to the next.
LEMMA RecursionOnNumbers ==
    ASSUME NEW n \in Nat, NEW D, NEW b \in D, NEW h, Makes(h, 1..n, D)
    PROVE  \E F \in [0..n -> D] : /\ F[0] = b
                                  /\ \A k \in 1..n : F[k] = h[<<k, F[k - 1]>>]
  <1> DEFINE Upto(F, m) == F[0] = b /\ \A k \in 1..m : F[k] = h[<<k, F[k - 1]>>]
             Good(m) == \E F \in [0..n -> D] : Upto(F, m)
             Bad == {m \in 0..n : ~Good(m)}
  <1>1. Good(0)
    <2> DEFINE F == [k \in 0..n |-> b]
    <2>1. F \in [0..n -> D] /\ Upto(F, 0)
      OBVIOUS
    <2> QED BY <2>1
  <1>2. ASSUME NEW m \in 1..n, Good(m - 1) PROVE Good(m)
    <2>1. PICK F \in [0..n -> D] : Upto(F, m - 1)
      BY <1>2
    <2> DEFINE G == [F EXCEPT ![m] = h[<<m, F[m - 1]>>]]
    <2>0. h[<<m, F[m - 1]>>] \in D
      BY DEF Makes
    <2>2. G \in [0..n -> D] /\ \A k \in 0..n : G[k] = IF k = m THEN h[<<m, F[m - 1]>>] ELSE F[k]
      BY <2>0
    <2>3. ASSUME NEW k \in 1..m PROVE G[k] = h[<<k, G[k - 1]>>]
      <3>1. G[k - 1] = F[k - 1]
        BY <2>2
      <3> HIDE DEF G
      <3> QED BY <2>1, <2>2, <3>1
    <2>4. G[0] = b
      BY <2>1, <2>2
    <2> QED BY <2>2, <2>3, <2>4
  <1> HIDE DEF Good
  <1>3. Good(n)
    <2> SUFFICES ASSUME ~Good(n) PROVE FALSE
      OBVIOUS
    <2>1. Bad \in SUBSET Nat /\ Bad # {}
      OBVIOUS
    <2>2. PICK m \in Bad : \A y \in Bad : m <= y
      BY <2>1, LeastExists
    <2>3. m \in 1..n /\ Good(m - 1)
      BY <1>1, <2>2
    <2> QED BY <1>2, <2>2, <2>3
  <1> QED BY <1>3 DEF Good

\* A function on the subsets of a finite set may be defined by taking one
\* element after the other out of them.
LEMMA RecursionOnSubsets ==
    ASSUME NEW S, IsFiniteSet(S), NEW D, NEW b \in D, NEW h, Makes(h, S, D),
           NEW c, Chooses(c, S)
    PROVE  \E F \in [SUBSET S -> D] : TakesOut(F, S, b, h, c)
  <1> DEFINE Small(F, n) == \A s \in SUBSET S :
                Cardinality(s) <= n =>
                  F[s] = IF s = {} THEN b ELSE h[<<c[s], F[s \ {c[s]}]>>]
             Good(n) == \E F \in [SUBSET S -> D] : Small(F, n)
             Bad == {n \in Nat : ~Good(n)}
  <1>1. \A s \in SUBSET S : /\ Cardinality(s) \in Nat /\ IsFiniteSet(s)
                            /\ s # {} => Cardinality(s \ {c[s]}) = Cardinality(s) - 1
                            /\ s = {} <=> Cardinality(s) = 0
    BY FS_Subset, FS_CardinalityType, FS_RemoveElement, FS_EmptySet DEF Chooses
  <1>2. Good(0)
    <2> DEFINE F == [s \in SUBSET S |-> b]
    <2>1. F \in [SUBSET S -> D]
      OBVIOUS
    <2>2. ASSUME NEW s \in SUBSET S, Cardinality(s) <= 0
          PROVE  F[s] = b /\ s = {}
      <3>1. F[s] = b
        OBVIOUS
      <3> HIDE DEF F
      <3>2. Cardinality(s) \in Nat
        BY <1>1
      <3>3. Cardinality(s) = 0
        BY <2>2, <3>2
      <3> QED BY <1>1, <3>1, <3>3
    <2> HIDE DEF F
    <2>3. Small(F, 0)
      BY <2>2
    <2> QED BY <2>1, <2>3
  <1>3. ASSUME NEW n \in Nat, Good(n) PROVE Good(n + 1)
    <2>1. PICK F \in [SUBSET S -> D] : Small(F, n)
      BY <1>3
    <2> DEFINE G == [s \in SUBSET S |->
                       IF Cardinality(s) <= n THEN F[s] ELSE h[<<c[s], F[s \ {c[s]}]>>]]
    <2>2. G \in [SUBSET S -> D]
      <3> SUFFICES ASSUME NEW s \in SUBSET S, ~(Cardinality(s) <= n)
                   PROVE  h[<<c[s], F[s \ {c[s]}]>>] \in D
        OBVIOUS
      <3>1. c[s] \in S /\ F[s \ {c[s]}] \in D
        BY <1>1 DEF Chooses
      <3> QED BY <3>1 DEF Makes
    <2>3. ASSUME NEW s \in SUBSET S, Cardinality(s) <= n + 1
          PROVE  G[s] = IF s = {} THEN b ELSE h[<<c[s], G[s \ {c[s]}]>>]
      <3>1. CASE s = {}
        BY <1>1, <2>1, <3>1
      <3>2. CASE s # {}
        <4>1. s \ {c[s]} \in SUBSET S /\ Cardinality(s \ {c[s]}) <= n
          BY <1>1, <2>3, <3>2
        <4>2. G[s \ {c[s]}] = F[s \ {c[s]}]
          BY <4>1
        <4>3. G[s] = h[<<c[s], F[s \ {c[s]}]>>]
          BY <2>1, <3>2
        <4> QED BY <3>2, <4>2, <4>3
      <3> QED BY <3>1, <3>2
    <2> QED BY <2>2, <2>3
  <1> HIDE DEF Good
  <1>4. Bad = {}
    <2> SUFFICES ASSUME Bad # {} PROVE FALSE
      OBVIOUS
    <2>1. PICK m \in Bad : \A y \in Bad : m <= y
      BY LeastExists
    <2>2. m # 0 /\ m - 1 \in Nat /\ Good(m - 1)
      BY <1>2, <2>1
    <2>3. Good((m - 1) + 1)
      BY <1>3, <2>2
    <2> QED BY <2>1, <2>3
  <1>5. PICK F \in [SUBSET S -> D] : Small(F, Cardinality(S))
    <2>1. Cardinality(S) \in Nat
      BY <1>1
    <2> QED BY <1>4, <2>1 DEF Good
  <1>6. \A s \in SUBSET S : Cardinality(s) <= Cardinality(S)
    BY FS_Subset
  <1> QED BY <1>5, <1>6 DEF TakesOut

\* FoldLeft takes the elements out from the end of the sequence.
FoldsLeft(F, n, b, h) ==
    \A s \in SUBSET (1..n) :
        F[s] = IF s = {} THEN b ELSE h[<<Max(s), F[s \ {Max(s)}]>>]

LEMMA LeftFold ==
    ASSUME NEW n \in Nat, NEW D, NEW b \in D, NEW h, Makes(h, 1..n, D)
    PROVE  \E F \in [SUBSET (1..n) -> D] : FoldsLeft(F, n, b, h)
  <1> DEFINE S == 1..n
             c == [s \in SUBSET S |-> Max(s)]
  <1>1. Chooses(c, S)
    BY MaxIsGreatest DEF Chooses
  <1>2. \A s \in SUBSET S : c[s] = Max(s)
    OBVIOUS
  <1>3. IsFiniteSet(S)
    BY FS_Interval
  <1> HIDE DEF S, c
  <1>4. \E F \in [SUBSET S -> D] : TakesOut(F, S, b, h, c)
    BY <1>1, <1>3, RecursionOnSubsets DEF S
  <1>5. PICK F \in [SUBSET S -> D] : TakesOut(F, S, b, h, c)
    BY <1>4
  <1>6. \A s \in SUBSET S : F[s] = IF s = {} THEN b ELSE h[<<Max(s), F[s \ {Max(s)}]>>]
    BY <1>2, <1>5 DEF TakesOut
  <1> QED BY <1>6 DEF S, FoldsLeft
=============================================================================
