------------------------------ MODULE ListProofs ----------------------------
(***************************************************************************)
(* The lists of list.c: their arrays implement sequences (SequenceLists),  *)
(* for any numbers, any first size and any factor of growth.  First what   *)
(* each operation makes of an array and of the sequence it stands for:     *)
(* the loops of list_insert and list_remove move cells one after the       *)
(* other, the maps, the fold and the filter go along the array as a fold   *)
(* goes along the sequence.  Then the calls of a client, in any order.     *)
(* At the end the programs that fill a list and a tree with the words of   *)
(* their command line (ElementPrograms): what they hold of each element.   *)
(***************************************************************************)
EXTENDS MCData, BasicLemmas

(* The arrays. *)

Cells == Int \cup {Garbage}

ListArrays == UNION {[data : [0..n - 1 -> Cells], len : 0..n, size : {n}] :
                     n \in Nat \ {0}}

LEMMA ArrayIs ==
    \A a : a \in ListArrays <=>
             /\ a = [data |-> a.data, len |-> a.len, size |-> a.size]
             /\ a.size \in Nat \ {0} /\ a.len \in 0..a.size
             /\ a.data \in [0..a.size - 1 -> Cells]
  <1> SUFFICES ASSUME NEW a
      PROVE  a \in ListArrays <=>
             /\ a = [data |-> a.data, len |-> a.len, size |-> a.size]
             /\ a.size \in Nat \ {0} /\ a.len \in 0..a.size
             /\ a.data \in [0..a.size - 1 -> Cells]
    OBVIOUS
  <1>1. a \in ListArrays <=>
          \E n \in Nat \ {0} : a \in [data : [0..n - 1 -> Cells], len : 0..n, size : {n}]
    BY DEF ListArrays
  <1>2. ASSUME NEW n \in Nat \ {0}
        PROVE  a \in [data : [0..n - 1 -> Cells], len : 0..n, size : {n}] <=>
               /\ a = [data |-> a.data, len |-> a.len, size |-> a.size]
               /\ a.size = n /\ a.len \in 0..n /\ a.data \in [0..n - 1 -> Cells]
    OBVIOUS
  <1> QED BY <1>1, <1>2

LEMMA CreatedIsArray ==
    list_create \in ListArrays /\ list_create.len = 0
  <1> DEFINE d == [k \in 0..INITIAL_SIZE - 1 |-> Garbage]
  <1>1. d \in [0..INITIAL_SIZE - 1 -> Cells] /\ INITIAL_SIZE \in Nat \ {0}
    BY ListAssumption DEF Cells
  <1>2. list_create = [data |-> d, len |-> 0, size |-> INITIAL_SIZE]
    BY DEF list_create
  <1> HIDE DEF d
  <1> QED BY <1>1, <1>2, ArrayIs

\* There is room for one more behind what the list holds.
LEMMA RoomyKeeps ==
    ASSUME NEW a \in ListArrays
    PROVE  /\ Roomy(a) \in ListArrays /\ Roomy(a).len = a.len
           /\ a.len < Roomy(a).size
           /\ \A k \in 0..a.len - 1 : Roomy(a).data[k] = a.data[k]
  <1>1. /\ a = [data |-> a.data, len |-> a.len, size |-> a.size]
        /\ a.size \in Nat \ {0} /\ a.len \in 0..a.size
        /\ a.data \in [0..a.size - 1 -> Cells]
    BY ArrayIs
  <1>2. CASE a.len = a.size
    <2> DEFINE z == a.size * GROWTH_FACTOR
               d == [k \in 0..z - 1 |-> IF k < a.size THEN a.data[k] ELSE Garbage]
    <2>1. z \in Nat \ {0} /\ z > a.size
      <3>1. \A g \in Nat \ {0, 1}, m \in Nat \ {0} : m * g \in Nat /\ m * g > m
        OBVIOUS
      <3> QED BY <1>1, <3>1, ListAssumption
    <2>2. Roomy(a) = [data |-> d, len |-> a.len, size |-> z]
      BY <1>1, <1>2 DEF Roomy, expand_list
    <2> HIDE DEF z
    <2>3. d \in [0..z - 1 -> Cells]
      BY <1>1, <2>1 DEF Cells
    <2>4. \A k \in 0..a.len - 1 : d[k] = a.data[k]
      BY <1>1, <1>2, <2>1
    <2> HIDE DEF d
    <2> QED BY <1>1, <1>2, <2>1, <2>2, <2>3, <2>4, ArrayIs
  <1>3. CASE a.len # a.size
    BY <1>1, <1>3 DEF Roomy
  <1> QED BY <1>2, <1>3

LEMMA AppendKeeps ==
    ASSUME NEW a \in ListArrays, NEW e \in Cells
    PROVE  /\ list_append(a, e) \in ListArrays
           /\ list_append(a, e).len = a.len + 1
           /\ \A k \in 0..a.len - 1 : list_append(a, e).data[k] = a.data[k]
           /\ list_append(a, e).data[a.len] = e
  <1> DEFINE r == Roomy(a)
             d == [r.data EXCEPT ![r.len] = e]
  <1>1. r \in ListArrays /\ r.len = a.len /\ a.len < r.size
        /\ \A k \in 0..a.len - 1 : r.data[k] = a.data[k]
    BY RoomyKeeps
  <1>2. /\ r = [data |-> r.data, len |-> r.len, size |-> r.size]
        /\ r.size \in Nat \ {0} /\ r.len \in 0..r.size
        /\ r.data \in [0..r.size - 1 -> Cells]
    BY <1>1, ArrayIs
  <1>3. list_append(a, e) = [data |-> d, len |-> r.len + 1, size |-> r.size]
    <2>1. list_append(a, e) = [r EXCEPT !.data = d, !.len = r.len + 1]
      BY DEF list_append
    <2> HIDE DEF r, d
    <2> QED BY <1>2, <2>1
  <1>4. a.len \in Nat
    BY ArrayIs
  <1> HIDE DEF r
  <1>5. /\ d \in [0..r.size - 1 -> Cells] /\ d[a.len] = e
        /\ \A k \in 0..a.len - 1 : d[k] = a.data[k]
    BY <1>1, <1>2, <1>4
  <1> HIDE DEF d
  <1> QED BY <1>1, <1>2, <1>3, <1>4, <1>5, ArrayIs

\* What an array holds, as a sequence.
LEMMA ForeachIs ==
    ASSUME NEW a \in ListArrays
    PROVE  /\ list_foreach(a) \in Seq(Cells) /\ Len(list_foreach(a)) = a.len
           /\ DOMAIN list_foreach(a) = 1..a.len
           /\ \A k \in 1..a.len : list_foreach(a)[k] = a.data[k - 1]
  <1> DEFINE n == a.len
             f == [k \in 1..n |-> a.data[k - 1]]
  <1>1. n \in Nat /\ \A k \in 1..n : a.data[k - 1] \in Cells
    <2>1. a.size \in Nat /\ n \in 0..a.size /\ a.data \in [0..a.size - 1 -> Cells]
      BY ArrayIs
    <2> QED BY <2>1
  <1> HIDE DEF n
  <1>2. f \in [1..n -> Cells]
    BY <1>1
  <1>3. f \in Seq(Cells) /\ Len(f) = n /\ DOMAIN f = 1..n
    BY <1>1, <1>2
  <1> QED BY <1>3 DEF list_foreach, n

\* The array after the first k elements of s were appended to a.
Holds(a, s, k, r) ==
    /\ r \in ListArrays /\ r.len = a.len + k
    /\ \A j \in 0..a.len - 1 : r.data[j] = a.data[j]
    /\ \A j \in 1..k : r.data[a.len + j - 1] = s[j]

LEMMA HoldsOneMore ==
    ASSUME NEW a \in ListArrays, NEW s, NEW k \in Nat \ {0}, NEW r,
           Holds(a, s, k - 1, r), s[k] \in Cells
    PROVE  Holds(a, s, k, list_append(r, s[k]))
  <1> DEFINE q == list_append(r, s[k])
  <1>1. r \in ListArrays /\ r.len = a.len + k - 1 /\ a.len \in Nat
    BY ArrayIs DEF Holds
  <1>2. /\ q \in ListArrays /\ q.len = r.len + 1 /\ q.data[r.len] = s[k]
        /\ \A j \in 0..r.len - 1 : q.data[j] = r.data[j]
    BY <1>1, AppendKeeps
  <1> HIDE DEF q
  <1>3. ASSUME NEW j \in 1..k PROVE q.data[a.len + j - 1] = s[j]
    <2>1. CASE j = k
      BY <1>1, <1>2, <2>1
    <2>2. CASE j # k
      <3>1. j \in 1..k - 1 /\ a.len + j - 1 \in 0..r.len - 1
        BY <1>1, <2>2
      <3> QED BY <1>2, <3>1 DEF Holds
    <2> QED BY <2>1, <2>2
  <1>4. ASSUME NEW j \in 0..a.len - 1 PROVE q.data[j] = a.data[j]
    <2>1. j \in 0..r.len - 1
      BY <1>1
    <2> QED BY <1>2, <2>1 DEF Holds
  <1> QED BY <1>1, <1>2, <1>3, <1>4 DEF Holds, q

LEMMA HoldsNone == \A a, s : a \in ListArrays => Holds(a, s, 0, a)
  BY ArrayIs DEF Holds

LEMMA AppendedAll ==
    ASSUME NEW a \in ListArrays, NEW s \in Seq(Cells)
    PROVE  Holds(a, s, Len(s), list_append_array(a, s))
  <1> DEFINE n == Len(s)
             Eq(f) == f = [t \in SUBSET (1..n) |->
                             IF t = {} THEN a
                             ELSE LET x == Max(t) IN list_append(f[t \ {x}], s[x])]
             iter == CHOOSE f : Eq(f)
             h == [p \in (1..n) \X ListArrays |-> list_append(p[2], s[p[1]])]
  <1>1. n \in Nat /\ DOMAIN s = 1..n /\ \A k \in 1..n : s[k] \in Cells
    OBVIOUS
  <1>2. list_append_array(a, s) = iter[1..n]
    BY <1>1 DEF list_append_array, FoldLeft, MapThenFoldSet
  <1> HIDE DEF n
  <1>3. Makes(h, 1..n, ListArrays)
    BY <1>1, AppendKeeps DEF Makes
  <1>4. \A k \in 1..n, r \in ListArrays : h[<<k, r>>] = list_append(r, s[k])
    OBVIOUS
  <1> HIDE DEF h
  <1>5. PICK F \in [SUBSET (1..n) -> ListArrays] : FoldsLeft(F, n, a, h)
    <2> DEFINE D == ListArrays
    <2>1. a \in D /\ Makes(h, 1..n, D)
      BY <1>3
    <2> HIDE DEF D, Eq, iter
    <2>2. \E F \in [SUBSET (1..n) -> D] : FoldsLeft(F, n, a, h)
      BY <1>1, <2>1, LeftFold
    <2> QED BY <2>2 DEF D
  <1>6. ASSUME NEW t \in SUBSET (1..n)
        PROVE  F[t] = IF t = {} THEN a
                      ELSE LET x == Max(t) IN list_append(F[t \ {x}], s[x])
    <2> SUFFICES ASSUME t # {} PROVE F[t] = list_append(F[t \ {Max(t)}], s[Max(t)])
      BY <1>5 DEF FoldsLeft
    <2>1. Max(t) \in 1..n /\ F[t \ {Max(t)}] \in ListArrays
      BY <1>1, MaxIsGreatest
    <2> QED BY <1>4, <1>5, <2>1 DEF FoldsLeft
  <1>7. Eq(F)
    <2>1. F = [t \in SUBSET (1..n) |-> F[t]]
      OBVIOUS
    <2> QED BY <1>6, <2>1
  <1>8. Eq(iter)
    <2> HIDE DEF Eq
    <2> QED BY <1>7
  <1>9. \A t \in SUBSET (1..n) :
          iter[t] = IF t = {} THEN a
                    ELSE LET x == Max(t) IN list_append(iter[t \ {x}], s[x])
    <2> HIDE DEF iter
    <2> QED BY <1>8
  <1> HIDE DEF iter
  <1>10. iter[1..0] = a
    <2>1. 1..0 = {} /\ {} \in SUBSET (1..n)
      OBVIOUS
    <2> QED BY <1>9, <2>1
  <1>11. ASSUME NEW k \in 1..n PROVE iter[1..k] = list_append(iter[1..(k - 1)], s[k])
    <2>1. Max(1..k) = k /\ (1..k) \ {k} = 1..(k - 1) /\ 1..k # {} /\ 1..k \in SUBSET (1..n)
      BY <1>1, MaxOfFirst
    <2> QED BY <1>9, <2>1
  <1> HIDE DEF Eq
  <1> DEFINE Right == {k \in 0..n : Holds(a, s, k, iter[1..k])}
  <1>12. 0 \in Right
    BY <1>1, <1>10, HoldsNone
  <1>13. ASSUME NEW k \in 1..n, k - 1 \in Right PROVE k \in Right
    <2>1. Holds(a, s, k - 1, iter[1..(k - 1)]) /\ s[k] \in Cells /\ k \in Nat \ {0}
      BY <1>1, <1>13
    <2> QED BY <1>11, <2>1, HoldsOneMore
  <1>14. \A k \in 0..n : k \in Right
    <2> HIDE DEF Right
    <2> QED BY <1>1, <1>12, <1>13, CountingUp
  <1> QED BY <1>1, <1>2, <1>14 DEF n

LEMMA AppendedIsJoined ==
    ASSUME NEW a \in ListArrays, NEW s \in Seq(Cells), NEW r, Holds(a, s, Len(s), r)
    PROVE  list_foreach(r) = list_foreach(a) \o s
  <1> DEFINE u == list_foreach(a)
             v == list_foreach(r)
             n == Len(s)
  <1>1. /\ u \in Seq(Cells) /\ Len(u) = a.len /\ a.len \in Nat
        /\ \A k \in 1..a.len : u[k] = a.data[k - 1]
    BY ForeachIs, ArrayIs
  <1>2. /\ v \in Seq(Cells) /\ Len(v) = r.len /\ r.len = a.len + n
        /\ \A k \in 1..r.len : v[k] = r.data[k - 1]
    BY ForeachIs DEF Holds
  <1>3. n \in Nat
    OBVIOUS
  <1>4. /\ u \o s \in Seq(Cells) /\ Len(u \o s) = a.len + n
        /\ \A k \in 1..a.len + n : (u \o s)[k] = IF k <= a.len THEN u[k] ELSE s[k - a.len]
    <2> HIDE DEF u
    <2> QED BY <1>1
  <1> HIDE DEF u, v, n
  <1>5. ASSUME NEW k \in 1..Len(v) PROVE v[k] = (u \o s)[k]
    <2>1. k \in 1..r.len /\ v[k] = r.data[k - 1]
      BY <1>2
    <2>2. CASE k <= a.len
      <3>1. k \in 1..a.len /\ k - 1 \in 0..a.len - 1
        BY <1>1, <1>2, <2>1, <2>2
      <3>2. r.data[k - 1] = a.data[k - 1]
        BY <3>1 DEF Holds
      <3> QED BY <1>1, <1>2, <1>4, <2>1, <2>2, <3>1, <3>2
    <2>3. CASE k > a.len
      <3> DEFINE j == k - a.len
      <3>1. j \in 1..n /\ a.len + j - 1 = k - 1
        BY <1>1, <1>2, <1>3, <2>1, <2>3
      <3> HIDE DEF j
      <3>2. r.data[a.len + j - 1] = s[j]
        BY <3>1 DEF Holds, n
      <3>3. (u \o s)[k] = s[j]
        BY <1>1, <1>2, <1>4, <2>1, <2>3 DEF j
      <3>4. r.data[a.len + j - 1] = r.data[k - 1]
        BY <3>1
      <3> QED BY <2>1, <3>2, <3>3, <3>4
    <2>4. k <= a.len \/ k > a.len
      <3>1. a.len + n \in Int
        BY <1>1, <1>3
      <3> QED BY <1>1, <1>2, <2>1, <3>1
    <2> QED BY <2>2, <2>3, <2>4
  <1>6. v = u \o s
    BY <1>2, <1>4, <1>5, SameSequence
  <1> QED BY <1>6 DEF u, v

LEMMA AppendIsAppend ==
    ASSUME NEW a \in ListArrays, NEW e \in Cells
    PROVE  list_foreach(list_append(a, e)) = Append(list_foreach(a), e)
  <1> DEFINE s == <<e>>
             r == list_append(a, e)
  <1>1. s \in Seq(Cells) /\ Len(s) = 1 /\ s[1] = e
    OBVIOUS
  <1>2. Holds(a, s, 1, r)
    <2>1. Holds(a, s, 0, a)
      BY HoldsNone
    <2> HIDE DEF s
    <2>2. 1 \in Nat \ {0} /\ 1 - 1 = 0
      OBVIOUS
    <2> QED BY <1>1, <2>1, <2>2, HoldsOneMore
  <1>3. list_foreach(r) = list_foreach(a) \o s
    <2> HIDE DEF s, r
    <2> QED BY <1>1, <1>2, AppendedIsJoined
  <1>4. list_foreach(a) \in Seq(Cells)
    BY ForeachIs
  <1>5. list_foreach(a) \o <<e>> = Append(list_foreach(a), e)
    BY <1>4
  <1> QED BY <1>3, <1>5

LEMMA ArrayIsAppended ==
    ASSUME NEW a \in ListArrays, NEW s \in Seq(Cells)
    PROVE  /\ list_append_array(a, s) \in ListArrays
           /\ list_foreach(list_append_array(a, s)) = list_foreach(a) \o s
  BY AppendedAll, AppendedIsJoined DEF Holds

\* The functions that make a list append what they make, one after the other.
LEMMA MapAppends ==
    ASSUME NEW out \in ListArrays, NEW in \in ListArrays
    PROVE  list_map1(inc, out, in)
             = list_append_array(out, Sequences!Mapped(list_foreach(in)))
  <1> DEFINE n == in.len
             s == Sequences!Mapped(list_foreach(in))
             q == Up(0, n - 1)
             E1(f) == f = [t \in SUBSET DOMAIN q |->
                             IF t = {} THEN out
                             ELSE LET x == Max(t)
                                  IN  list_append(f[t \ {x}], inc(list_get(in, q[x])))]
             E2(f) == f = [t \in SUBSET DOMAIN s |->
                             IF t = {} THEN out
                             ELSE LET x == Max(t) IN list_append(f[t \ {x}], s[x])]
  <1>1. n \in Nat
    BY ArrayIs
  <1>2. list_map1(inc, out, in) = (CHOOSE f : E1(f))[DOMAIN q]
    BY DEF list_map1, list_len, FoldLeft, MapThenFoldSet
  <1>3. list_append_array(out, s) = (CHOOSE f : E2(f))[DOMAIN s]
    BY DEF list_append_array, FoldLeft, MapThenFoldSet
  <1>4. /\ DOMAIN s = 1..n
        /\ \A k \in 1..n : s[k] = inc(in.data[k - 1])
    BY ForeachIs DEF Sequences!Mapped
  <1>5. DOMAIN q = 1..n /\ \A k \in 1..n : q[k] = k - 1
    BY <1>1 DEF Up
  <1> HIDE DEF n, s, q
  <1>6. ASSUME NEW k \in 1..n PROVE inc(list_get(in, q[k])) = s[k]
    BY <1>4, <1>5 DEF list_get
  <1>7. \A f : E1(f) <=> E2(f)
    <2> SUFFICES ASSUME NEW f
        PROVE  [t \in SUBSET DOMAIN q |->
                  IF t = {} THEN out
                  ELSE LET x == Max(t)
                       IN  list_append(f[t \ {x}], inc(list_get(in, q[x])))]
             = [t \in SUBSET DOMAIN s |->
                  IF t = {} THEN out
                  ELSE LET x == Max(t) IN list_append(f[t \ {x}], s[x])]
      OBVIOUS
    <2>1. ASSUME NEW t \in SUBSET (1..n), t # {}
          PROVE  inc(list_get(in, q[Max(t)])) = s[Max(t)]
      <3>1. Max(t) \in 1..n
        BY <1>1, <2>1, MaxIsGreatest
      <3> QED BY <1>6, <3>1
    <2> QED BY <1>4, <1>5, <2>1
  <1>8. (CHOOSE f : E1(f)) = (CHOOSE f : E2(f))
    <2> HIDE DEF E1, E2
    <2> QED BY <1>7
  <1> QED BY <1>2, <1>3, <1>4, <1>5, <1>8 DEF s

LEMMA ZipAppends ==
    ASSUME NEW out \in ListArrays, NEW in \in ListArrays, NEW in1 \in ListArrays
    PROVE  list_map2(plus, out, in, in1)
             = list_append_array(out, Sequences!Zipped(list_foreach(in), list_foreach(in1)))
  <1> DEFINE n == Shorter(in, in1)
             s == Sequences!Zipped(list_foreach(in), list_foreach(in1))
             q == Up(0, n - 1)
             E1(f) == f = [t \in SUBSET DOMAIN q |->
                             IF t = {} THEN out
                             ELSE LET x == Max(t)
                                  IN  list_append(f[t \ {x}], plus(list_get(in, q[x]),
                                                                   list_get(in1, q[x])))]
             E2(f) == f = [t \in SUBSET DOMAIN s |->
                             IF t = {} THEN out
                             ELSE LET x == Max(t) IN list_append(f[t \ {x}], s[x])]
  <1>1. /\ n \in Nat /\ n <= in.len /\ n <= in1.len /\ (n = in.len \/ n = in1.len)
        /\ in.len \in Nat /\ in1.len \in Nat
    BY ArrayIs DEF Shorter, list_len
  <1>2. list_map2(plus, out, in, in1) = (CHOOSE f : E1(f))[DOMAIN q]
    BY DEF list_map2, FoldLeft, MapThenFoldSet
  <1>3. list_append_array(out, s) = (CHOOSE f : E2(f))[DOMAIN s]
    BY DEF list_append_array, FoldLeft, MapThenFoldSet
  <1> HIDE DEF n
  <1>4. /\ DOMAIN s = 1..n
        /\ \A k \in 1..n : s[k] = plus(in.data[k - 1], in1.data[k - 1])
    <2>1. (1..in.len) \cap (1..in1.len) = 1..n
      BY <1>1
    <2>2. /\ DOMAIN list_foreach(in) = 1..in.len /\ DOMAIN list_foreach(in1) = 1..in1.len
          /\ \A k \in 1..in.len : list_foreach(in)[k] = in.data[k - 1]
          /\ \A k \in 1..in1.len : list_foreach(in1)[k] = in1.data[k - 1]
      BY ForeachIs
    <2>3. /\ DOMAIN s = (DOMAIN list_foreach(in)) \cap (DOMAIN list_foreach(in1))
          /\ \A k \in DOMAIN s : s[k] = plus(list_foreach(in)[k], list_foreach(in1)[k])
      BY DEF Sequences!Zipped
    <2> HIDE DEF s
    <2>4. \A k \in 1..n : k \in 1..in.len /\ k \in 1..in1.len
      BY <1>1
    <2> QED BY <2>1, <2>2, <2>3, <2>4
  <1>5. DOMAIN q = 1..n /\ \A k \in 1..n : q[k] = k - 1
    BY <1>1 DEF Up
  <1> HIDE DEF s, q
  <1>6. ASSUME NEW k \in 1..n
        PROVE  plus(list_get(in, q[k]), list_get(in1, q[k])) = s[k]
    BY <1>4, <1>5 DEF list_get
  <1>7. \A f : E1(f) <=> E2(f)
    <2> SUFFICES ASSUME NEW f
        PROVE  [t \in SUBSET DOMAIN q |->
                  IF t = {} THEN out
                  ELSE LET x == Max(t)
                       IN  list_append(f[t \ {x}], plus(list_get(in, q[x]),
                                                        list_get(in1, q[x])))]
             = [t \in SUBSET DOMAIN s |->
                  IF t = {} THEN out
                  ELSE LET x == Max(t) IN list_append(f[t \ {x}], s[x])]
      OBVIOUS
    <2>1. ASSUME NEW t \in SUBSET (1..n), t # {}
          PROVE  plus(list_get(in, q[Max(t)]), list_get(in1, q[Max(t)])) = s[Max(t)]
      <3>1. Max(t) \in 1..n
        BY <1>1, <2>1, MaxIsGreatest
      <3> QED BY <1>6, <3>1
    <2> QED BY <1>4, <1>5, <2>1
  <1>8. (CHOOSE f : E1(f)) = (CHOOSE f : E2(f))
    <2> HIDE DEF E1, E2
    <2> QED BY <1>7
  <1> QED BY <1>2, <1>3, <1>4, <1>5, <1>8 DEF s

LEMMA FoldsTheSame ==
    ASSUME NEW in \in ListArrays
    PROVE  list_foldl(plus, 0, in) = Sequences!Folded(list_foreach(in))
  <1> DEFINE n == in.len
             s == list_foreach(in)
             q == Up(0, n - 1)
             E1(f) == f = [t \in SUBSET DOMAIN q |->
                             IF t = {} THEN 0
                             ELSE LET x == Max(t)
                                  IN  plus(f[t \ {x}], list_get(in, q[x]))]
             E2(f) == f = [t \in SUBSET DOMAIN s |->
                             IF t = {} THEN 0
                             ELSE LET x == Max(t) IN plus(f[t \ {x}], s[x])]
  <1>1. n \in Nat
    BY ArrayIs
  <1>2. list_foldl(plus, 0, in) = (CHOOSE f : E1(f))[DOMAIN q]
    BY DEF list_foldl, list_len, FoldLeft, MapThenFoldSet
  <1>3. Sequences!Folded(s) = (CHOOSE f : E2(f))[DOMAIN s]
    BY DEF Sequences!Folded, Sequences!FoldLeft, Sequences!MapThenFoldSet, Sequences!Max, Max
  <1>4. DOMAIN s = 1..n /\ \A k \in 1..n : s[k] = in.data[k - 1]
    BY ForeachIs
  <1>5. DOMAIN q = 1..n /\ \A k \in 1..n : q[k] = k - 1
    BY <1>1 DEF Up
  <1> HIDE DEF n, s, q
  <1>6. ASSUME NEW k \in 1..n PROVE list_get(in, q[k]) = s[k]
    BY <1>4, <1>5 DEF list_get
  <1>7. \A f : E1(f) <=> E2(f)
    <2> SUFFICES ASSUME NEW f
        PROVE  [t \in SUBSET DOMAIN q |->
                  IF t = {} THEN 0
                  ELSE LET x == Max(t) IN plus(f[t \ {x}], list_get(in, q[x]))]
             = [t \in SUBSET DOMAIN s |->
                  IF t = {} THEN 0 ELSE LET x == Max(t) IN plus(f[t \ {x}], s[x])]
      OBVIOUS
    <2>1. ASSUME NEW t \in SUBSET (1..n), t # {}
          PROVE  list_get(in, q[Max(t)]) = s[Max(t)]
      <3>1. Max(t) \in 1..n
        BY <1>1, <2>1, MaxIsGreatest
      <3> QED BY <1>6, <3>1
    <2> QED BY <1>4, <1>5, <2>1
  <1>8. (CHOOSE f : E1(f)) = (CHOOSE f : E2(f))
    <2> HIDE DEF E1, E2
    <2> QED BY <1>7
  <1> QED BY <1>2, <1>3, <1>4, <1>5, <1>8 DEF s

\* Cells are copied one after the other: the k-th step copies g[k] to q[k].
Moved(f, n, b, q, g) ==
    [t \in SUBSET (1..n) |->
        IF t = {} THEN b
        ELSE [f[t \ {Max(t)}] EXCEPT ![q[Max(t)]] = f[t \ {Max(t)}][g[Max(t)]]]]

Copied(n, b, q, g) == CHOOSE f : f = Moved(f, n, b, q, g)

CopiesInOrder(f, n, b, q, g) ==
    /\ f[1..0] = b
    /\ \A k \in 1..n : f[1..k] = [f[1..(k - 1)] EXCEPT ![q[k]] = f[1..(k - 1)][g[k]]]

LEMMA MovesInOrder ==
    ASSUME NEW n \in Nat, NEW Z, NEW b \in [Z -> Cells], NEW q, NEW g,
           \A k \in 1..n : q[k] \in Z /\ g[k] \in Z,
           NEW iter, iter = Copied(n, b, q, g)
    PROVE  CopiesInOrder(iter, n, b, q, g)
  <1> DEFINE D == [Z -> Cells]
             h == [p \in (1..n) \X D |-> [p[2] EXCEPT ![q[p[1]]] = p[2][g[p[1]]]]]
             Eq(f) == f = Moved(f, n, b, q, g)
  <1>1. \A k \in 1..n, d \in D : /\ h[<<k, d>>] = [d EXCEPT ![q[k]] = d[g[k]]]
                                 /\ h[<<k, d>>] \in D
    OBVIOUS
  <1> HIDE DEF D, h
  <1>2. Makes(h, 1..n, D) /\ b \in D
    BY <1>1 DEF Makes, D
  <1>3. PICK F \in [SUBSET (1..n) -> D] : FoldsLeft(F, n, b, h)
    BY <1>2, LeftFold
  <1>4. ASSUME NEW t \in SUBSET (1..n), t # {}
        PROVE  /\ Max(t) \in 1..n /\ F[t \ {Max(t)}] \in D
               /\ F[t] = [F[t \ {Max(t)}] EXCEPT ![q[Max(t)]] = F[t \ {Max(t)}][g[Max(t)]]]
    <2>1. Max(t) \in 1..n /\ F[t \ {Max(t)}] \in D
      BY <1>4, MaxIsGreatest
    <2> QED BY <1>1, <1>3, <1>4, <2>1 DEF FoldsLeft
  <1>5. Eq(F)
    <2>1. F = [t \in SUBSET (1..n) |-> F[t]]
      OBVIOUS
    <2>2. F[{}] = b
      BY <1>3 DEF FoldsLeft
    <2> QED BY <1>4, <2>1, <2>2 DEF Moved
  <1>6. Eq(iter)
    <2> HIDE DEF Eq
    <2>1. iter = CHOOSE f : Eq(f)
      BY DEF Eq, Copied
    <2> QED BY <1>5, <2>1
  <1>7. /\ iter[{}] = b
        /\ \A t \in SUBSET (1..n) : t # {} =>
             iter[t] = [iter[t \ {Max(t)}] EXCEPT
                          ![q[Max(t)]] = iter[t \ {Max(t)}][g[Max(t)]]]
    BY <1>6 DEF Moved
  <1> HIDE DEF Eq
  <1>8. iter[1..0] = b
    <2>1. 1..0 = {}
      OBVIOUS
    <2> QED BY <1>7, <2>1
  <1>9. ASSUME NEW k \in 1..n
        PROVE  iter[1..k] = [iter[1..(k - 1)] EXCEPT ![q[k]] = iter[1..(k - 1)][g[k]]]
    <2> DEFINE t == 1..k
    <2>1. Max(t) = k /\ t \ {k} = 1..(k - 1) /\ t # {} /\ t \in SUBSET (1..n)
      BY MaxOfFirst
    <2> HIDE DEF t
    <2>2. iter[t] = [iter[t \ {Max(t)}] EXCEPT ![q[Max(t)]] = iter[t \ {Max(t)}][g[Max(t)]]]
      BY <1>7, <2>1
    <2>3. iter[t] = [iter[1..(k - 1)] EXCEPT ![q[k]] = iter[1..(k - 1)][g[k]]]
      BY <2>1, <2>2
    <2> QED BY <2>3 DEF t
  <1> QED BY <1>8, <1>9 DEF CopiesInOrder

\* What the loops of list_insert and list_remove make of the array.
MovesDown(b, q) ==
    CHOOSE f : f = [t \in SUBSET DOMAIN q |->
                      IF t = {} THEN b
                      ELSE LET x == Max(t)
                           IN  [f[t \ {x}] EXCEPT ![q[x]] = f[t \ {x}][q[x] - 1]]]

MovesUp(b, q) ==
    CHOOSE f : f = [t \in SUBSET DOMAIN q |->
                      IF t = {} THEN b
                      ELSE LET x == Max(t)
                           IN  [f[t \ {x}] EXCEPT ![q[x]] = f[t \ {x}][q[x] + 1]]]

\* Those from the end down to position pos move one place down.
LEMMA MoveDownIs ==
    ASSUME NEW size \in Nat, NEW b \in [0..size - 1 -> Cells],
           NEW len \in 0..size - 1, NEW pos \in 0..len - 1
    PROVE  LET q == Down(len, pos + 1)
           IN  MovesDown(b, q)[DOMAIN q]
                 = [j \in 0..size - 1 |-> IF j \in pos + 1..len THEN b[j - 1] ELSE b[j]]
  <1> DEFINE n == len - pos
             q == Down(len, pos + 1)
             g == [k \in 1..n |-> len - k]
             Eq(f) == f = [t \in SUBSET DOMAIN q |->
                             IF t = {} THEN b
                             ELSE LET x == Max(t)
                                  IN  [f[t \ {x}] EXCEPT ![q[x]] = f[t \ {x}][q[x] - 1]]]
             iter == CHOOSE f : Eq(f)
             Z == 0..size - 1
  <1>1. n \in Nat /\ DOMAIN q = 1..n /\ \A k \in 1..n : q[k] = len - k + 1
    <2> DEFINE u == Up(pos + 1, len)
    <2>1. u = [k \in 1..n |-> pos + k] /\ n \in Nat
      BY DEF Up
    <2> HIDE DEF n
    <2>2. u \in Seq(Int) /\ Len(u) = n /\ \A k \in 1..n : u[k] = pos + k
      BY <2>1
    <2> HIDE DEF u
    <2>3. q = [k \in 1..n |-> u[n - k + 1]]
      BY <2>2 DEF Down, Reverse, u
    <2>4. \A k \in 1..n : n - k + 1 \in 1..n
      BY <2>1
    <2>5. \A k \in 1..n : pos + (n - k + 1) = len - k + 1
      BY <2>1 DEF n
    <2> QED BY <2>1, <2>2, <2>3, <2>4, <2>5
  <1>2. MovesDown(b, q) = iter
    BY DEF MovesDown
  <1>3. \A k \in 1..n : q[k] \in Z /\ g[k] \in Z /\ g[k] = q[k] - 1
    BY <1>1
  <1> HIDE DEF q, g
  <1>4. \A f : Eq(f) <=> f = Moved(f, n, b, q, g)
    <2> SUFFICES ASSUME NEW f
        PROVE  [t \in SUBSET DOMAIN q |->
                  IF t = {} THEN b
                  ELSE LET x == Max(t)
                                  IN  [f[t \ {x}] EXCEPT ![q[x]] = f[t \ {x}][q[x] - 1]]]
             = Moved(f, n, b, q, g)
      OBVIOUS
    <2> HIDE DEF n
    <2>1. ASSUME NEW t \in SUBSET (1..n), t # {}
          PROVE  g[Max(t)] = q[Max(t)] - 1
      <3>1. Max(t) \in 1..n
        BY <1>1, <2>1, MaxIsGreatest
      <3> QED BY <1>3, <3>1
    <2> QED BY <1>1, <2>1 DEF Moved
  <1>5. iter = Copied(n, b, q, g)
    <2> DEFINE E2(f) == f = Moved(f, n, b, q, g)
    <2>1. \A f : Eq(f) <=> E2(f)
      BY <1>4
    <2> HIDE DEF Eq, E2
    <2>2. (CHOOSE f : Eq(f)) = (CHOOSE f : E2(f))
      BY <2>1
    <2> QED BY <2>2 DEF E2, Copied
  <1> HIDE DEF iter, Eq
  <1> DEFINE After(k) == [j \in Z |-> IF j \in len - k + 1..len THEN b[j - 1] ELSE b[j]]
             Right == {k \in 0..n : iter[1..k] = After(k)}
  <1>6. /\ iter[1..0] = b
        /\ \A k \in 1..n : iter[1..k] = [iter[1..(k - 1)] EXCEPT
                                           ![q[k]] = iter[1..(k - 1)][g[k]]]
    <2> HIDE DEF n
    <2>1. b \in [Z -> Cells] /\ n \in Nat /\ \A k \in 1..n : q[k] \in Z /\ g[k] \in Z
      BY <1>1, <1>3
    <2> HIDE DEF Z
    <2>2. CopiesInOrder(iter, n, b, q, g)
      BY <1>5, <2>1, MovesInOrder
    <2> QED BY <2>2 DEF CopiesInOrder
  <1>7. 0 \in Right
    <2>1. After(0) = b
      OBVIOUS
    <2> QED BY <1>1, <1>6, <2>1
  <1>8. ASSUME NEW k \in 1..n, k - 1 \in Right PROVE k \in Right
    <2>1. iter[1..(k - 1)] = After(k - 1)
      BY <1>8
    <2>2. iter[1..k] = [After(k - 1) EXCEPT ![q[k]] = After(k - 1)[g[k]]]
      BY <1>6, <2>1
    <2>3. q[k] = len - k + 1 /\ g[k] = len - k /\ len - k \in Z /\ len - k + 1 \in Z
      BY <1>1, <1>3
    <2>4. After(k - 1)[len - k] = b[len - k]
      BY <2>3
    <2>5. [After(k - 1) EXCEPT ![len - k + 1] = b[len - k]] = After(k)
      <3>1. ASSUME NEW j \in Z
            PROVE  [After(k - 1) EXCEPT ![len - k + 1] = b[len - k]][j] = After(k)[j]
        BY <1>1, <2>3
      <3> QED BY <3>1
    <2>6. iter[1..k] = After(k)
      <3> HIDE DEF After
      <3> QED BY <2>2, <2>3, <2>4, <2>5
    <2> QED BY <2>6
  <1>9. \A k \in 0..n : k \in Right
    <2> HIDE DEF Right, n
    <2> QED BY <1>1, <1>7, <1>8, CountingUp
  <1>10. iter[1..n] = After(n)
    <2>1. n \in 0..n
      BY <1>1
    <2> QED BY <1>9, <2>1
  <1>11. len - n + 1 = pos + 1
    OBVIOUS
  <1> QED BY <1>1, <1>2, <1>10, <1>11 DEF q

\* Those behind position pos move one place up.
LEMMA MoveUpIs ==
    ASSUME NEW size \in Nat, NEW b \in [0..size - 1 -> Cells],
           NEW len \in 0..size, NEW pos \in 0..len - 1
    PROVE  LET q == Up(pos, len - 2)
           IN  MovesUp(b, q)[DOMAIN q]
                 = [j \in 0..size - 1 |-> IF j \in pos..len - 2 THEN b[j + 1] ELSE b[j]]
  <1> DEFINE n == len - 1 - pos
             q == Up(pos, len - 2)
             g == [k \in 1..n |-> pos + k]
             Eq(f) == f = [t \in SUBSET DOMAIN q |->
                             IF t = {} THEN b
                             ELSE LET x == Max(t)
                                  IN  [f[t \ {x}] EXCEPT ![q[x]] = f[t \ {x}][q[x] + 1]]]
             iter == CHOOSE f : Eq(f)
             Z == 0..size - 1
  <1>1. n \in Nat /\ DOMAIN q = 1..n /\ \A k \in 1..n : q[k] = pos + k - 1
    BY DEF Up
  <1>2. MovesUp(b, q) = iter
    BY DEF MovesUp
  <1>3. \A k \in 1..n : q[k] \in Z /\ g[k] \in Z /\ g[k] = q[k] + 1
    BY <1>1
  <1> HIDE DEF q, g
  <1>4. \A f : Eq(f) <=> f = Moved(f, n, b, q, g)
    <2> SUFFICES ASSUME NEW f
        PROVE  [t \in SUBSET DOMAIN q |->
                  IF t = {} THEN b
                  ELSE LET x == Max(t)
                                  IN  [f[t \ {x}] EXCEPT ![q[x]] = f[t \ {x}][q[x] + 1]]]
             = Moved(f, n, b, q, g)
      OBVIOUS
    <2> HIDE DEF n
    <2>1. ASSUME NEW t \in SUBSET (1..n), t # {}
          PROVE  g[Max(t)] = q[Max(t)] + 1
      <3>1. Max(t) \in 1..n
        BY <1>1, <2>1, MaxIsGreatest
      <3> QED BY <1>3, <3>1
    <2> QED BY <1>1, <2>1 DEF Moved
  <1>5. iter = Copied(n, b, q, g)
    <2> DEFINE E2(f) == f = Moved(f, n, b, q, g)
    <2>1. \A f : Eq(f) <=> E2(f)
      BY <1>4
    <2> HIDE DEF Eq, E2
    <2>2. (CHOOSE f : Eq(f)) = (CHOOSE f : E2(f))
      BY <2>1
    <2> QED BY <2>2 DEF E2, Copied
  <1> HIDE DEF iter, Eq
  <1> DEFINE After(k) == [j \in Z |-> IF j \in pos..pos + k - 1 THEN b[j + 1] ELSE b[j]]
             Right == {k \in 0..n : iter[1..k] = After(k)}
  <1>6. /\ iter[1..0] = b
        /\ \A k \in 1..n : iter[1..k] = [iter[1..(k - 1)] EXCEPT
                                           ![q[k]] = iter[1..(k - 1)][g[k]]]
    <2> HIDE DEF n
    <2>1. b \in [Z -> Cells] /\ n \in Nat /\ \A k \in 1..n : q[k] \in Z /\ g[k] \in Z
      BY <1>1, <1>3
    <2> HIDE DEF Z
    <2>2. CopiesInOrder(iter, n, b, q, g)
      BY <1>5, <2>1, MovesInOrder
    <2> QED BY <2>2 DEF CopiesInOrder
  <1>7. 0 \in Right
    <2>1. After(0) = b
      OBVIOUS
    <2> QED BY <1>1, <1>6, <2>1
  <1>8. ASSUME NEW k \in 1..n, k - 1 \in Right PROVE k \in Right
    <2>1. iter[1..(k - 1)] = After(k - 1)
      BY <1>8
    <2>2. iter[1..k] = [After(k - 1) EXCEPT ![q[k]] = After(k - 1)[g[k]]]
      BY <1>6, <2>1
    <2>3. q[k] = pos + k - 1 /\ g[k] = pos + k /\ pos + k - 1 \in Z /\ pos + k \in Z
      BY <1>1, <1>3
    <2>4. After(k - 1)[pos + k] = b[pos + k]
      BY <2>3
    <2>5. [After(k - 1) EXCEPT ![pos + k - 1] = b[pos + k]] = After(k)
      <3>1. ASSUME NEW j \in Z
            PROVE  [After(k - 1) EXCEPT ![pos + k - 1] = b[pos + k]][j] = After(k)[j]
        BY <1>1, <2>3
      <3> QED BY <3>1
    <2>6. iter[1..k] = After(k)
      <3> HIDE DEF After
      <3> QED BY <2>2, <2>3, <2>4, <2>5
    <2> QED BY <2>6
  <1>9. \A k \in 0..n : k \in Right
    <2> HIDE DEF Right, n
    <2> QED BY <1>1, <1>7, <1>8, CountingUp
  <1>10. iter[1..n] = After(n)
    <2>1. n \in 0..n
      BY <1>1
    <2> QED BY <1>9, <2>1
  <1>11. pos + n - 1 = len - 2
    OBVIOUS
  <1> QED BY <1>1, <1>2, <1>10, <1>11 DEF q

LEMMA RemoveIsRemove ==
    ASSUME NEW a \in ListArrays, NEW pos \in 0..a.len - 1
    PROVE  /\ list_remove(a, pos) \in ListArrays
           /\ list_foreach(list_remove(a, pos)) = RemoveAt(list_foreach(a), pos + 1)
  <1> DEFINE d == [j \in 0..a.size - 1 |->
                     IF j \in pos..a.len - 2 THEN a.data[j + 1] ELSE a.data[j]]
             r == list_remove(a, pos)
             s == list_foreach(a)
             v == list_foreach(r)
             u == RemoveAt(s, pos + 1)
  <1>1. /\ a = [data |-> a.data, len |-> a.len, size |-> a.size]
        /\ a.size \in Nat \ {0} /\ a.len \in 0..a.size
        /\ a.data \in [0..a.size - 1 -> Cells]
    BY ArrayIs
  <1>2. r = [data |-> d, len |-> a.len - 1, size |-> a.size]
    <2> DEFINE q == Up(pos, a.len - 2)
               e == MovesUp(a.data, q)[DOMAIN q]
    <2>1. r = [a EXCEPT !.data = e, !.len = a.len - 1]
      BY DEF list_remove, FoldLeft, MapThenFoldSet, MovesUp
    <2>2. e = d
      <3>1. /\ a.size \in Nat /\ a.data \in [0..a.size - 1 -> Cells]
            /\ a.len \in 0..a.size /\ pos \in 0..a.len - 1
        BY <1>1
      <3> DEFINE Moves(size, b, len, at) ==
                   MovesUp(b, Up(at, len - 2))[DOMAIN Up(at, len - 2)]
                     = [j \in 0..size - 1 |-> IF j \in at..len - 2 THEN b[j + 1] ELSE b[j]]
      <3>2. \A size \in Nat : \A b \in [0..size - 1 -> Cells], len \in 0..size :
              \A at \in 0..len - 1 : Moves(size, b, len, at)
        BY MoveUpIs
      <3> HIDE DEF Moves
      <3>3. Moves(a.size, a.data, a.len, pos)
        BY <3>1, <3>2
      <3> QED BY <3>3 DEF Moves
    <2> HIDE DEF e, d, r
    <2> QED BY <1>1, <2>1, <2>2
  <1>3. d \in [0..a.size - 1 -> Cells]
    BY <1>1
  <1>4. \A k \in 1..a.len - 1 : d[k - 1] = IF k < pos + 1 THEN a.data[k - 1] ELSE a.data[k]
    BY <1>1
  <1>5. a.len - 1 \in 0..a.size
    BY <1>1
  <1> HIDE DEF d, r
  <1>6. r \in ListArrays /\ r.len = a.len - 1 /\ r.data = d
    BY <1>1, <1>2, <1>3, <1>5, ArrayIs
  <1>7. /\ s \in Seq(Cells) /\ Len(s) = a.len
        /\ \A k \in 1..a.len : s[k] = a.data[k - 1]
    BY ForeachIs
  <1>8. /\ v \in Seq(Cells) /\ Len(v) = a.len - 1
        /\ \A k \in 1..a.len - 1 : v[k] = d[k - 1]
    BY <1>6, ForeachIs
  <1> HIDE DEF s, v
  <1>9. /\ u \in Seq(Cells) /\ Len(u) = a.len - 1
        /\ \A k \in 1..a.len - 1 : u[k] = IF k < pos + 1 THEN s[k] ELSE s[k + 1]
    <2>1. pos + 1 \in 1..Len(s)
      BY <1>1, <1>7
    <2> DEFINE p == pos + 1
               S == Cells
    <2>2. s \in Seq(S) /\ p \in 1..Len(s)
      BY <1>7, <2>1
    <2> HIDE DEF p, S
    <2>3. /\ RemoveAt(s, p) \in Seq(S)
          /\ Len(RemoveAt(s, p)) = Len(s) - 1
          /\ \A k \in 1..Len(s) - 1 :
               RemoveAt(s, p)[k] = IF k < p THEN s[k] ELSE s[k + 1]
      BY <2>2, RemoveFromQueue
    <2> QED BY <1>7, <2>3 DEF p, S
  <1> HIDE DEF u
  <1>10. \A k \in 1..a.len - 1 : v[k] = u[k]
    <2> SUFFICES ASSUME NEW k \in 1..a.len - 1 PROVE v[k] = u[k]
      OBVIOUS
    <2>1. /\ k \in 1..a.len /\ k + 1 \in 1..a.len /\ (k + 1) - 1 = k
          /\ (k < pos + 1 \/ ~(k < pos + 1))
      BY <1>1
    <2>2. s[k] = a.data[k - 1] /\ s[k + 1] = a.data[k]
      BY <1>7, <2>1
    <2> QED BY <1>4, <1>8, <1>9, <2>2
  <1>11. v = u
    BY <1>8, <1>9, <1>10, SameSequence
  <1> QED BY <1>6, <1>11 DEF u, v, s, r

LEMMA InsertIsInsert ==
    ASSUME NEW a \in ListArrays, NEW e \in Cells, NEW pos \in 0..a.len - 1
    PROVE  /\ list_insert(a, pos, e) \in ListArrays
           /\ list_foreach(list_insert(a, pos, e)) = InsertAt(list_foreach(a), pos + 1, e)
  <1> DEFINE b == Roomy(a)
             d == [j \in 0..b.size - 1 |->
                     IF j \in pos + 1..b.len THEN b.data[j - 1] ELSE b.data[j]]
             c == [d EXCEPT ![pos] = e]
             r == list_insert(a, pos, e)
             s == list_foreach(a)
             v == list_foreach(r)
             p == pos + 1
             u == InsertAt(s, p, e)
  <1>1. /\ b \in ListArrays /\ b.len = a.len /\ a.len < b.size
        /\ \A k \in 0..a.len - 1 : b.data[k] = a.data[k]
    BY RoomyKeeps
  <1>2. /\ b = [data |-> b.data, len |-> b.len, size |-> b.size]
        /\ b.size \in Nat \ {0} /\ b.len \in 0..b.size
        /\ b.data \in [0..b.size - 1 -> Cells]
    BY <1>1, ArrayIs
  <1>3. r = [data |-> c, len |-> b.len + 1, size |-> b.size]
    <2> DEFINE q == Down(b.len, pos + 1)
               m == MovesDown(b.data, q)[DOMAIN q]
    <2>1. r = [b EXCEPT !.data = [m EXCEPT ![pos] = e], !.len = b.len + 1]
      BY DEF list_insert, FoldLeft, MapThenFoldSet, MovesDown
    <2>2. m = d
      <3> HIDE DEF b
      <3>1. /\ b.size \in Nat /\ b.data \in [0..b.size - 1 -> Cells]
            /\ b.len \in 0..b.size - 1 /\ pos \in 0..b.len - 1
        BY <1>1, <1>2
      <3> DEFINE Moves(size, f, len, at) ==
                   MovesDown(f, Down(len, at + 1))[DOMAIN Down(len, at + 1)]
                     = [j \in 0..size - 1 |-> IF j \in at + 1..len THEN f[j - 1] ELSE f[j]]
      <3>2. \A size \in Nat : \A f \in [0..size - 1 -> Cells], len \in 0..size - 1 :
              \A at \in 0..len - 1 : Moves(size, f, len, at)
        BY MoveDownIs
      <3> HIDE DEF Moves
      <3>3. Moves(b.size, b.data, b.len, pos)
        BY <3>1, <3>2
      <3> QED BY <3>3 DEF Moves
    <2> HIDE DEF m, d, r, b
    <2>3. r = [b EXCEPT !.data = c, !.len = b.len + 1]
      BY <2>1, <2>2
    <2> HIDE DEF c
    <2> QED BY <1>2, <2>3
  <1> HIDE DEF b, r
  <1>4. a.len \in Nat /\ b.len + 1 \in 0..b.size /\ c \in [0..b.size - 1 -> Cells]
    <2>1. a.len \in Nat /\ b.len + 1 \in 0..b.size
      BY <1>1, <1>2, ArrayIs
    <2>2. \A j \in 0..b.size - 1 :
            /\ b.data[j] \in Cells
            /\ j \in pos + 1..b.len => b.data[j - 1] \in Cells
      BY <1>2, <2>1
    <2>3. d \in [0..b.size - 1 -> Cells]
      BY <2>2
    <2> HIDE DEF d
    <2> QED BY <2>1, <2>3
  <1>5. \A k \in 1..a.len + 1 :
          c[k - 1] = IF k < pos + 1 THEN a.data[k - 1] ELSE IF k = pos + 1 THEN e
                     ELSE a.data[k - 2]
    <2> SUFFICES ASSUME NEW k \in 1..a.len + 1
        PROVE  c[k - 1] = IF k < pos + 1 THEN a.data[k - 1] ELSE IF k = pos + 1 THEN e
                          ELSE a.data[k - 2]
      OBVIOUS
    <2>1. k - 1 \in 0..b.size - 1
      BY <1>1, <1>2, <1>4
    <2>2. CASE k < pos + 1
      <3>1. k - 1 \in 0..a.len - 1 /\ k - 1 # pos /\ k - 1 \notin pos + 1..b.len
        BY <1>4, <2>2
      <3> QED BY <1>1, <2>1, <2>2, <3>1
    <2>3. CASE k = pos + 1
      BY <2>1, <2>3
    <2>4. CASE k > pos + 1
      <3>1. k - 2 \in 0..a.len - 1 /\ k - 1 # pos /\ k - 1 \in pos + 1..b.len
            /\ (k - 1) - 1 = k - 2
        BY <1>1, <1>4, <2>4
      <3> QED BY <1>1, <2>1, <2>4, <3>1
    <2> QED BY <2>2, <2>3, <2>4
  <1> HIDE DEF c, d
  <1>6. r \in ListArrays /\ r.len = a.len + 1 /\ r.data = c
    BY <1>1, <1>2, <1>3, <1>4, ArrayIs
  <1>7. /\ s \in Seq(Cells) /\ Len(s) = a.len
        /\ \A k \in 1..a.len : s[k] = a.data[k - 1]
    BY ForeachIs
  <1>8. /\ v \in Seq(Cells) /\ Len(v) = a.len + 1
        /\ \A k \in 1..a.len + 1 : v[k] = c[k - 1]
    BY <1>6, ForeachIs
  <1> HIDE DEF s, v
  <1>9. /\ u \in Seq(Cells) /\ Len(u) = a.len + 1
        /\ \A k \in 1..a.len + 1 :
             u[k] = IF k < pos + 1 THEN s[k] ELSE IF k = pos + 1 THEN e ELSE s[k - 1]
    <2> DEFINE S == Cells
    <2>1. s \in Seq(S) /\ p \in 1..Len(s) /\ e \in S
      BY <1>4, <1>7
    <2> HIDE DEF p, S
    <2>2. /\ u \in Seq(S) /\ Len(u) = Len(s) + 1
          /\ \A k \in 1..Len(s) + 1 :
               u[k] = IF k < p THEN s[k] ELSE IF k = p THEN e ELSE s[k - 1]
      BY <2>1, InsertIntoSequence
    <2> QED BY <1>7, <2>2 DEF p, S
  <1> HIDE DEF u
  <1>10. \A k \in 1..a.len + 1 : v[k] = u[k]
    <2> SUFFICES ASSUME NEW k \in 1..a.len + 1 PROVE v[k] = u[k]
      OBVIOUS
    <2>1. CASE k < pos + 1
      <3>1. k \in 1..a.len
        BY <1>4, <2>1
      <3> QED BY <1>5, <1>7, <1>8, <1>9, <2>1, <3>1
    <2>2. CASE k = pos + 1
      BY <1>5, <1>8, <1>9, <2>2
    <2>3. CASE k > pos + 1
      <3>1. k - 1 \in 1..a.len /\ (k - 1) - 1 = k - 2
            /\ ~(k < pos + 1) /\ k # pos + 1
        BY <1>4, <2>3
      <3>2. s[k - 1] = a.data[k - 2]
        BY <1>7, <3>1
      <3> QED BY <1>5, <1>8, <1>9, <3>1, <3>2
    <2> QED BY <1>4, <2>1, <2>2, <2>3
  <1>11. v = u
    BY <1>8, <1>9, <1>10, SameSequence
  <1> QED BY <1>6, <1>11 DEF u, v, s, r, p

LEMMA IndexIsIndex ==
    ASSUME NEW a \in ListArrays, NEW e \in Int
    PROVE  list_index(a, e, equal) = Sequences!IndexOf(list_foreach(a), e)
  <1> DEFINE s == list_foreach(a)
             f0 == {j \in 0..a.len - 1 : equal(a.data[j], e)}
             f1 == {k \in DOMAIN s : equal(s[k], e)}
  <1>1. /\ a.len \in Nat /\ DOMAIN s = 1..a.len
        /\ \A k \in 1..a.len : s[k] = a.data[k - 1]
    BY ForeachIs, ArrayIs
  <1>2. list_index(a, e, equal) = IF f0 = {} THEN -1 ELSE Min(f0)
    BY DEF list_index
  <1>3. Sequences!IndexOf(s, e) = IF f1 = {} THEN -1 ELSE Min(f1) - 1
    BY DEF Sequences!IndexOf, Sequences!Min, Min
  <1> HIDE DEF s
  <1>4. \A j \in f0 : j + 1 \in f1
    <2> SUFFICES ASSUME NEW j \in f0 PROVE j + 1 \in f1
      OBVIOUS
    <2>1. j + 1 \in 1..a.len /\ (j + 1) - 1 = j
      BY <1>1
    <2> QED BY <1>1, <2>1
  <1>5. \A k \in f1 : k - 1 \in f0
    BY <1>1
  <1>6. f0 \in SUBSET Nat /\ f1 \in SUBSET Nat
    BY <1>1
  <1> HIDE DEF f0, f1
  <1> SUFFICES list_index(a, e, equal) = Sequences!IndexOf(s, e)
    BY DEF s
  <1>7. CASE f0 = {}
    BY <1>2, <1>3, <1>5, <1>7
  <1>8. CASE f0 # {}
    <2>1. f1 # {}
      BY <1>4, <1>8
    <2>2. /\ Min(f0) \in f0 /\ \A y \in f0 : Min(f0) <= y
          /\ Min(f1) \in f1 /\ \A y \in f1 : Min(f1) <= y
      BY <1>6, <1>8, <2>1, MinIsLeast
    <2>3. Min(f0) \in Nat /\ Min(f1) \in Nat
      BY <1>6, <2>2
    <2>4. Min(f0) <= Min(f1) - 1 /\ Min(f1) <= Min(f0) + 1
      BY <1>4, <1>5, <2>2
    <2>5. Min(f0) = Min(f1) - 1
      BY <2>3, <2>4
    <2> QED BY <1>2, <1>3, <1>8, <2>1, <2>5
  <1> QED BY <1>7, <1>8

LEMMA SameCardinality == \A T : Sequences!Cardinality(T) = Cardinality(T)
  BY DEF Sequences!Cardinality, Cardinality

\* The elements that list_filter selects, in their order.
LEMMA FilteredIs ==
    ASSUME NEW S, NEW s \in Seq(S)
    PROVE  LET T == {k \in DOMAIN s : isEven(s[k])}
               u == Sequences!Filtered(s)
           IN  /\ u \in Seq(S) /\ Len(u) = Cardinality(T)
               /\ \A k \in T : u[CountUpTo(T, k)] = s[k]
  <1> DEFINE n == Len(s)
             T == {k \in DOMAIN s : isEven(s[k])}
             u == Sequences!Filtered(s)
             Nth(m) == CHOOSE k \in T : CountUpTo(T, k) = m
             z == Cardinality(T)
  <1>1. n \in Nat /\ T \in SUBSET (1..n) /\ \A k \in T : s[k] \in S
    OBVIOUS
  <1>2. u = [m \in 1..z |-> s[Nth(m)]]
    <2>1. u = [m \in 1..z |-> s[Sequences!Nth(T, m)]]
      BY SameCardinality DEF Sequences!Filtered, Sequences!Selected
    <2>2. \A m : Sequences!Nth(T, m) = Nth(m)
      BY SameCardinality DEF Sequences!Nth, CountUpTo, UpTo
    <2> HIDE DEF Nth, u, z
    <2> QED BY <2>1, <2>2
  <1> HIDE DEF n, T, u
  <1>3. z \in Nat
    BY <1>1, CountingMembers, FS_CardinalityType
  <1>4. ASSUME NEW m \in 1..z PROVE Nth(m) \in T
    BY <1>1, CountsReach
  <1>5. u \in Seq(S) /\ Len(u) = z
    <2> HIDE DEF Nth, z
    <2>1. \A m \in 1..z : s[Nth(m)] \in S
      BY <1>1, <1>4
    <2> QED BY <1>2, <1>3, <2>1
  <1>6. ASSUME NEW k \in T PROVE u[CountUpTo(T, k)] = s[k]
    <2> DEFINE m == CountUpTo(T, k)
    <2>1. m \in 1..z
      <3>1. /\ k \in 1..n /\ k - 1 \in 0..n /\ k \in 0..n
        BY <1>1
      <3>2. CountUpTo(T, k) \in Nat /\ CountUpTo(T, k - 1) \in Nat
            /\ CountUpTo(T, k) = CountUpTo(T, k - 1) + 1
        BY <1>1, <3>1, CountingMembers
      <3>3. IsFiniteSet(T) /\ UpTo(T, k) \subseteq T
        BY <1>1, CountingMembers DEF UpTo
      <3>4. CountUpTo(T, k) <= z
        BY <3>3, FS_Subset DEF CountUpTo
      <3> QED BY <1>3, <3>2, <3>4
    <2>2. Nth(m) = k
      <3>1. Nth(m) \in T /\ CountUpTo(T, Nth(m)) = CountUpTo(T, k)
        OBVIOUS
      <3> HIDE DEF Nth, m
      <3>2. Nth(m) \in Nat /\ k \in Nat
        <4>1. \A j \in T : j \in 1..n
          BY <1>1
        <4> QED BY <3>1, <4>1
      <3>3. \A j \in T : CountUpTo(T, j) \in Nat
        <4>1. \A j \in T : j \in 0..n
          BY <1>1
        <4> QED BY <1>1, <4>1, CountingMembers
      <3>4. \A j, y \in T : j < y => CountUpTo(T, j) < CountUpTo(T, y)
        BY <1>1, CountsGrow
      <3>5. ~(Nth(m) < k) /\ ~(k < Nth(m))
        BY <3>1, <3>3, <3>4
      <3> QED BY <3>2, <3>5
    <2> HIDE DEF Nth, z
    <2>3. u[m] = s[Nth(m)]
      BY <1>2, <2>1
    <2> QED BY <2>2, <2>3
  <1> QED BY <1>5, <1>6 DEF T, u

LEMMA FilterAppends ==
    ASSUME NEW a \in ListArrays, NEW in \in ListArrays
    PROVE  /\ list_filter(isEven, a, in) \in ListArrays
           /\ list_foreach(list_filter(isEven, a, in))
                = list_foreach(a) \o Sequences!Filtered(list_foreach(in))
  <1> DEFINE n == in.len
             s == list_foreach(in)
             u == Sequences!Filtered(s)
             T == {k \in DOMAIN s : isEven(s[k])}
             C(k) == CountUpTo(T, k)
             q == Up(0, n - 1)
             Step(r, e) == IF isEven(e) THEN list_append(r, e) ELSE r
             Eq(f) == f = [t \in SUBSET (1..n) |->
                             IF t = {} THEN a
                             ELSE LET x == Max(t) IN Step(f[t \ {x}], s[x])]
             iter == CHOOSE f : Eq(f)
             E1(f) == f = [t \in SUBSET DOMAIN q |->
                             IF t = {} THEN a
                             ELSE LET x == Max(t)
                                  IN  Step(f[t \ {x}], list_get(in, q[x]))]
             h == [p \in (1..n) \X ListArrays |-> Step(p[2], s[p[1]])]
  <1>1. n \in Nat
    BY ArrayIs
  <1>2. /\ s \in Seq(Cells) /\ Len(s) = n /\ DOMAIN s = 1..n
        /\ \A k \in 1..n : s[k] = in.data[k - 1] /\ s[k] \in Cells
    <2>1. /\ s \in Seq(Cells) /\ Len(s) = n /\ DOMAIN s = 1..n
          /\ \A k \in 1..n : s[k] = in.data[k - 1]
      BY ForeachIs
    <2> HIDE DEF s
    <2> QED BY <2>1
  <1>3. list_filter(isEven, a, in) = (CHOOSE f : E1(f))[DOMAIN q]
    BY DEF list_filter, list_len, FoldLeft, MapThenFoldSet
  <1>4. DOMAIN q = 1..n /\ \A k \in 1..n : q[k] = k - 1
    BY <1>1 DEF Up
  <1> HIDE DEF n, s, q
  <1>5. ASSUME NEW k \in 1..n PROVE list_get(in, q[k]) = s[k]
    BY <1>2, <1>4 DEF list_get
  <1>6. \A f : E1(f) <=> Eq(f)
    <2> SUFFICES ASSUME NEW f
        PROVE  [t \in SUBSET DOMAIN q |->
                  IF t = {} THEN a
                  ELSE LET x == Max(t) IN Step(f[t \ {x}], list_get(in, q[x]))]
             = [t \in SUBSET (1..n) |->
                  IF t = {} THEN a ELSE LET x == Max(t) IN Step(f[t \ {x}], s[x])]
      OBVIOUS
    <2>1. ASSUME NEW t \in SUBSET (1..n), t # {}
          PROVE  list_get(in, q[Max(t)]) = s[Max(t)]
      <3>1. Max(t) \in 1..n
        BY <1>1, <2>1, MaxIsGreatest
      <3> QED BY <1>5, <3>1
    <2> HIDE DEF Step
    <2> QED BY <1>4, <2>1
  <1>7. list_filter(isEven, a, in) = iter[1..n]
    <2>1. (CHOOSE f : E1(f)) = iter
      <3> HIDE DEF E1, Eq
      <3> QED BY <1>6
    <2> QED BY <1>3, <1>4, <2>1
  <1>8. Makes(h, 1..n, ListArrays)
    BY <1>2, AppendKeeps DEF Makes
  <1>9. \A k \in 1..n, r \in ListArrays : h[<<k, r>>] = Step(r, s[k])
    OBVIOUS
  <1> HIDE DEF h, Step
  <1>10. PICK F \in [SUBSET (1..n) -> ListArrays] : FoldsLeft(F, n, a, h)
    <2> DEFINE D == ListArrays
    <2>1. a \in D /\ Makes(h, 1..n, D)
      BY <1>8
    <2> HIDE DEF D, Eq, iter
    <2>2. \E F \in [SUBSET (1..n) -> D] : FoldsLeft(F, n, a, h)
      BY <1>1, <2>1, LeftFold
    <2> QED BY <2>2 DEF D
  <1>11. Eq(F)
    <2>1. ASSUME NEW t \in SUBSET (1..n)
          PROVE  F[t] = IF t = {} THEN a
                        ELSE LET x == Max(t) IN Step(F[t \ {x}], s[x])
      <3> SUFFICES ASSUME t # {} PROVE F[t] = Step(F[t \ {Max(t)}], s[Max(t)])
        BY <1>10 DEF FoldsLeft
      <3>1. Max(t) \in 1..n /\ F[t \ {Max(t)}] \in ListArrays
        BY <1>1, MaxIsGreatest
      <3> QED BY <1>9, <1>10, <3>1 DEF FoldsLeft
    <2>2. F = [t \in SUBSET (1..n) |-> F[t]]
      OBVIOUS
    <2> QED BY <2>1, <2>2
  <1>12. Eq(iter)
    <2> HIDE DEF Eq
    <2> QED BY <1>11
  <1>13. \A t \in SUBSET (1..n) :
           iter[t] = IF t = {} THEN a
                     ELSE LET x == Max(t) IN Step(iter[t \ {x}], s[x])
    <2> HIDE DEF iter
    <2> QED BY <1>12
  <1> HIDE DEF iter, Eq, E1
  <1>14. iter[1..0] = a
    <2>1. 1..0 = {} /\ {} \in SUBSET (1..n)
      OBVIOUS
    <2> QED BY <1>13, <2>1
  <1>15. ASSUME NEW k \in 1..n PROVE iter[1..k] = Step(iter[1..(k - 1)], s[k])
    <2>1. Max(1..k) = k /\ (1..k) \ {k} = 1..(k - 1) /\ 1..k # {} /\ 1..k \in SUBSET (1..n)
      BY <1>1, MaxOfFirst
    <2> QED BY <1>13, <2>1
  <1>16. /\ u \in Seq(Cells) /\ Len(u) = Cardinality(T)
         /\ \A k \in T : u[C(k)] = s[k]
    BY <1>2, FilteredIs
  <1>17. T \in SUBSET (1..n) /\ \A k \in 1..n : k \in T <=> isEven(s[k])
    BY <1>2
  <1>18. /\ \A k \in 0..n : C(k) \in Nat
         /\ C(0) = 0 /\ C(n) = Cardinality(T)
         /\ \A k \in 1..n : C(k) = C(k - 1) + (IF k \in T THEN 1 ELSE 0)
    <2> HIDE DEF T
    <2> QED BY <1>1, <1>17, CountingMembers
  <1> HIDE DEF T, C, u
  <1> DEFINE Right == {k \in 0..n : Holds(a, u, C(k), iter[1..k])}
  <1>19. 0 \in Right
    BY <1>1, <1>14, <1>18, HoldsNone
  <1>20. ASSUME NEW k \in 1..n, k - 1 \in Right PROVE k \in Right
    <2> DEFINE r == iter[1..(k - 1)]
    <2>1. Holds(a, u, C(k - 1), r)
      BY <1>20
    <2>2. CASE k \in T
      <3>1. /\ iter[1..k] = list_append(r, s[k]) /\ u[C(k)] = s[k] /\ s[k] \in Cells
            /\ C(k) \in Nat \ {0} /\ C(k) - 1 = C(k - 1)
        <4>1. k - 1 \in 0..n
          BY <1>1
        <4>2. C(k) = C(k - 1) + 1 /\ C(k - 1) \in Nat
          BY <1>18, <2>2, <4>1
        <4>3. iter[1..k] = list_append(r, s[k])
          BY <1>15, <1>17, <2>2 DEF Step
        <4>4. C(k) \in Nat \ {0} /\ C(k) - 1 = C(k - 1)
          BY <4>2
        <4> QED BY <1>2, <1>16, <2>2, <4>3, <4>4
      <3> HIDE DEF r
      <3>2. Holds(a, u, C(k), list_append(r, u[C(k)]))
        <4> DEFINE c == C(k)
        <4>1. c \in Nat \ {0} /\ Holds(a, u, c - 1, r) /\ u[c] \in Cells
          BY <2>1, <3>1
        <4> HIDE DEF c
        <4>2. Holds(a, u, c, list_append(r, u[c]))
          BY <4>1, HoldsOneMore
        <4> QED BY <4>2 DEF c
      <3> QED BY <3>1, <3>2
    <2>3. CASE k \notin T
      <3>1. iter[1..k] = r
        BY <1>15, <1>17, <2>3 DEF Step
      <3>2. C(k) = C(k - 1)
        <4>1. k - 1 \in 0..n
          BY <1>1
        <4> QED BY <1>18, <2>3, <4>1
      <3> QED BY <2>1, <3>1, <3>2
    <2> QED BY <2>2, <2>3
  <1>21. \A k \in 0..n : k \in Right
    <2> HIDE DEF Right
    <2> QED BY <1>1, <1>19, <1>20, CountingUp
  <1>22. Holds(a, u, Len(u), list_filter(isEven, a, in))
    BY <1>1, <1>7, <1>16, <1>18, <1>21
  <1>23. list_foreach(list_filter(isEven, a, in)) = list_foreach(a) \o u
    BY <1>16, <1>22, AppendedIsJoined
  <1>24. list_filter(isEven, a, in) \in ListArrays
    BY <1>22 DEF Holds
  <1> QED BY <1>23, <1>24 DEF u, s
-----------------------------------------------------------------------------
(* The clients of array lists. *)

\* Every list is an array that holds numbers of the client.
ArraysInv ==
    /\ lists = [c \in Created |-> lists[c]]
    /\ \A c \in Created : lists[c] \in ListArrays /\ list_foreach(lists[c]) \in Seq(Items)

\* A list becomes the sequence s, and its client has put all of s into it.
LEMMA ChangeIs ==
    ASSUME ArraysInv, NEW c \in Created, NEW new, new \in ListArrays,
           NEW s, s \in Seq(Int), list_foreach(new) = s, Change(c, new)
    PROVE  Sequences!Becomes(c, s) /\ ArraysInv'
  <1> DEFINE n == Len(s)
  <1>1. /\ new.len <= MaxLen /\ lists' = [lists EXCEPT ![c] = new] /\ returned' = NoResult
        /\ \A k \in 0..new.len - 1 : new.data[k] \in Items \cup {Garbage}
    BY DEF Change
  <1>2. n = new.len /\ n \in Nat /\ DOMAIN s = 1..n
        /\ \A k \in 1..n : s[k] = new.data[k - 1] /\ s[k] \in Int
    <2>1. /\ Len(list_foreach(new)) = new.len
          /\ \A k \in 1..new.len : list_foreach(new)[k] = new.data[k - 1]
      BY ForeachIs
    <2>2. n \in Nat /\ DOMAIN s = 1..n /\ \A k \in 1..n : s[k] \in Int
      OBVIOUS
    <2> QED BY <2>1, <2>2
  <1> HIDE DEF n
  <1>3. ASSUME NEW k \in 1..n PROVE s[k] \in Items
    <2>1. k - 1 \in 0..new.len - 1
      BY <1>2
    <2> QED BY <1>1, <1>2, <2>1, ClientAssumption
  <1>4. s \in Seq(Items)
    <2>1. s = [k \in 1..n |-> s[k]]
      BY <1>2
    <2>2. s \in [1..n -> Items]
      BY <1>3, <2>1
    <2> QED BY <1>2, <2>2
  <1>5. Sequences!ToSet(s) \subseteq Items /\ Len(s) <= MaxLen
    BY <1>1, <1>2, <1>3 DEF Sequences!ToSet, n
  <1>6. Created' = Created /\ lists'[c] = new
        /\ \A d \in Created \ {c} : lists'[d] = lists[d]
    <2>1. lists = [d \in Created |-> lists[d]]
      BY DEF ArraysInv
    <2> QED BY <1>1, <2>1 DEF Created
  <1>7. Contents' = [Contents EXCEPT ![c] = s]
    <2>1. Contents' = [d \in Created' |-> list_foreach(lists'[d])]
      BY DEF Contents, list_foreach
    <2>2. \A d \in Created : list_foreach(lists'[d]) = IF d = c THEN s
                                                       ELSE list_foreach(lists[d])
      BY <1>6
    <2> QED BY <1>6, <2>1, <2>2 DEF Contents
  <1>8. ArraysInv'
    <2>1. lists' = [d \in Created' |-> lists'[d]]
      <3>1. lists = [d \in Created |-> lists[d]]
        BY DEF ArraysInv
      <3>2. lists' = [d \in Created |-> IF d = c THEN new ELSE lists[d]]
        BY <1>1, <3>1
      <3> QED BY <1>6, <3>2
    <2>2. \A d \in Created' : lists'[d] \in ListArrays /\ list_foreach(lists'[d]) \in Seq(Items)
      BY <1>4, <1>6 DEF ArraysInv
    <2>3. \A d : list_foreach(lists[d])' = list_foreach(lists'[d])
      BY DEF list_foreach
    <2> QED BY <2>1, <2>2, <2>3 DEF ArraysInv
  <1> QED BY <1>1, <1>5, <1>7, <1>8 DEF Sequences!Becomes

LEMMA ReturnIs ==
    ASSUME ArraysInv, NEW c \in Created, NEW x, NEW y, x = y, Return(c, x)
    PROVE  Sequences!Returns(y) /\ ArraysInv'
  <1>1. lists' = lists /\ returned' = x
    BY DEF Return
  <1>2. Contents' = Contents
    BY <1>1 DEF Contents, Created, list_foreach
  <1>3. ArraysInv'
    BY <1>1 DEF ArraysInv, Created, list_foreach
  <1> QED BY <1>1, <1>2, <1>3 DEF Sequences!Returns

\* What a client has before a call.
LEMMA ListIs ==
    ASSUME ArraysInv, NEW c \in Created
    PROVE  /\ lists[c] \in ListArrays /\ lists[c].len \in Nat
           /\ Contents[c] = list_foreach(lists[c]) /\ Contents[c] \in Seq(Int)
           /\ Len(Contents[c]) = lists[c].len /\ DOMAIN Contents[c] = 1..lists[c].len
           /\ \A k \in 1..lists[c].len : Contents[c][k] = lists[c].data[k - 1]
  <1>1. lists[c] \in ListArrays /\ list_foreach(lists[c]) \in Seq(Items)
    BY DEF ArraysInv
  <1>2. Contents[c] = list_foreach(lists[c])
    BY DEF Contents
  <1>3. list_foreach(lists[c]) \in Seq(Int)
    BY <1>1, ClientAssumption, LargerSequences
  <1>4. lists[c].len \in Nat
    BY <1>1, ArrayIs
  <1> QED BY <1>1, <1>2, <1>3, <1>4, ForeachIs

LEMMA IntsAreCells == \A s \in Seq(Int) : s \in Seq(Cells)
  BY DEF Cells

LEMMA ExistingIsCreated == Sequences!Existing = Created
  BY DEF Sequences!Existing, Contents

LEMMA CallIsStep ==
    ASSUME NEW c \in Created,
           \/ Sequences!Modified(c, Contents[c]) \/ Sequences!Read(Contents[c])
           \/ \E in, in1 \in Created \ {c} : Sequences!Combined(c, in, in1)
    PROVE  Sequences!SequencesNext
  BY ExistingIsCreated DEF Sequences!SequencesNext

LEMMA CreateIsNew ==
    ASSUME ArraysInv, NEW c \in Names, Create(c)
    PROVE  Sequences!SequencesNext /\ ArraysInv'
  <1>1. /\ c \notin Created /\ returned' = NoResult
        /\ lists' = [d \in Created \cup {c} |-> IF d = c THEN list_create ELSE lists[d]]
    BY DEF Create
  <1>2. Created' = Created \cup {c} /\ lists'[c] = list_create
        /\ \A d \in Created : lists'[d] = lists[d]
    BY <1>1 DEF Created
  <1>3. list_create \in ListArrays /\ list_foreach(list_create) = <<>>
    <2>1. list_create \in ListArrays /\ list_create.len = 0
      BY CreatedIsArray
    <2>2. list_foreach(list_create) \in Seq(Cells) /\ Len(list_foreach(list_create)) = 0
      BY <2>1, ForeachIs
    <2> QED BY <2>1, <2>2
  <1>4. Contents' = [d \in Created \cup {c} |-> IF d = c THEN <<>> ELSE Contents[d]]
    <2>1. Contents' = [d \in Created' |-> list_foreach(lists'[d])]
      BY DEF Contents, list_foreach
    <2>2. \A d \in Created \cup {c} :
            list_foreach(lists'[d]) = IF d = c THEN <<>> ELSE list_foreach(lists[d])
      BY <1>1, <1>2, <1>3
    <2> QED BY <1>2, <2>1, <2>2 DEF Contents
  <1>5. Sequences!New(c)
    BY <1>1, <1>4, ExistingIsCreated DEF Sequences!New
  <1>6. ArraysInv'
    <2>1. lists' = [d \in Created' |-> lists'[d]]
      BY <1>1, <1>2
    <2>2. <<>> \in Seq(Items)
      OBVIOUS
    <2>3. \A d \in Created' : lists'[d] \in ListArrays /\ list_foreach(lists'[d]) \in Seq(Items)
      BY <1>2, <1>3, <2>2 DEF ArraysInv
    <2>4. \A d : list_foreach(lists[d])' = list_foreach(lists'[d])
      BY DEF list_foreach
    <2> QED BY <2>1, <2>3, <2>4 DEF ArraysInv
  <1> QED BY <1>1, <1>5, <1>6, ExistingIsCreated DEF Sequences!SequencesNext

LEMMA DestroyIsGone ==
    ASSUME ArraysInv, NEW c \in Names, Destroy(c)
    PROVE  Sequences!SequencesNext /\ ArraysInv'
  <1>1. /\ c \in Created /\ returned' = NoResult
        /\ lists' = [d \in Created \ {c} |-> lists[d]]
    BY DEF Destroy, Restrict
  <1>2. Created' = Created \ {c} /\ \A d \in Created' : lists'[d] = lists[d]
    BY <1>1 DEF Created
  <1>3. Contents' = [d \in Created \ {c} |-> Contents[d]]
    <2>1. Contents' = [d \in Created' |-> list_foreach(lists'[d])]
      BY DEF Contents, list_foreach
    <2>2. \A d \in Created \ {c} : list_foreach(lists'[d]) = list_foreach(lists[d])
      BY <1>2
    <2> QED BY <1>2, <2>1, <2>2 DEF Contents
  <1>4. Sequences!Gone(c)
    BY <1>1, <1>3, ExistingIsCreated DEF Sequences!Gone, Sequences!Restrict
  <1>5. ArraysInv'
    <2>1. lists' = [d \in Created' |-> lists'[d]]
      BY <1>1, <1>2
    <2>2. \A d \in Created' : lists'[d] \in ListArrays /\ list_foreach(lists'[d]) \in Seq(Items)
      BY <1>2 DEF ArraysInv
    <2>3. \A d : list_foreach(lists[d])' = list_foreach(lists'[d])
      BY DEF list_foreach
    <2> QED BY <2>1, <2>2, <2>3 DEF ArraysInv
  <1> QED BY <1>1, <1>4, <1>5, ExistingIsCreated DEF Sequences!SequencesNext

LEMMA AppendStep ==
    ASSUME ArraysInv, NEW c \in Created, NEW e \in Items,
           Change(c, list_append(lists[c], e))
    PROVE  Sequences!SequencesNext /\ ArraysInv'
  <1> DEFINE new == list_append(lists[c], e)
             s == Append(Contents[c], e)
  <1>1. e \in Int /\ e \in Cells
    BY ClientAssumption DEF Cells
  <1>2. new \in ListArrays /\ list_foreach(new) = s
    BY <1>1, ListIs, AppendKeeps, AppendIsAppend
  <1>3. s \in Seq(Int)
    BY <1>1, ListIs
  <1> HIDE DEF new, s
  <1>4. Sequences!Becomes(c, s) /\ ArraysInv'
    BY <1>2, <1>3, ChangeIs DEF new
  <1>5. Sequences!Modified(c, Contents[c])
    BY <1>4 DEF Sequences!Modified, s
  <1> QED BY <1>4, <1>5, CallIsStep

LEMMA AppendArrayStep ==
    ASSUME ArraysInv, NEW c \in Created, NEW a \in Arrays,
           Change(c, list_append_array(lists[c], a))
    PROVE  Sequences!SequencesNext /\ ArraysInv'
  <1> DEFINE new == list_append_array(lists[c], a)
             s == Contents[c] \o a
  <1>1. a \in Seq(Int) /\ a \in Seq(Cells)
    BY ClientAssumption, LargerSequences, IntsAreCells
  <1>2. new \in ListArrays /\ list_foreach(new) = s
    BY <1>1, ListIs, ArrayIsAppended
  <1>3. s \in Seq(Int)
    BY <1>1, ListIs
  <1> HIDE DEF new, s
  <1>4. Sequences!Becomes(c, s) /\ ArraysInv'
    BY <1>2, <1>3, ChangeIs DEF new
  <1>5. Sequences!Modified(c, Contents[c])
    BY <1>4 DEF Sequences!Modified, s
  <1> QED BY <1>4, <1>5, CallIsStep

\* A position of the array is one of the sequence, which begins with 1.
LEMMA PositionIs ==
    ASSUME ArraysInv, NEW c \in Created, NEW pos \in Positions(c)
    PROVE  pos \in 0..lists[c].len - 1 /\ pos + 1 \in DOMAIN Contents[c]
  <1>1. pos \in 0..lists[c].len - 1
    BY DEF Positions, list_len
  <1>2. pos + 1 \in 1..lists[c].len
    BY <1>1, ListIs
  <1> QED BY <1>1, <1>2, ListIs

LEMMA InsertStep ==
    ASSUME ArraysInv, NEW c \in Created, NEW pos \in Positions(c), NEW e \in Items,
           Change(c, list_insert(lists[c], pos, e))
    PROVE  Sequences!SequencesNext /\ ArraysInv'
  <1> DEFINE new == list_insert(lists[c], pos, e)
             p == pos + 1
             t == Contents[c]
             s == InsertAt(t, p, e)
             S == Int
  <1>1. e \in Int /\ e \in Cells
    BY ClientAssumption DEF Cells
  <1>2. pos \in 0..lists[c].len - 1 /\ p \in DOMAIN t
    BY PositionIs
  <1>3. new \in ListArrays /\ list_foreach(new) = s
    BY <1>1, <1>2, ListIs, InsertIsInsert
  <1>4. t \in Seq(S) /\ p \in 1..Len(t) /\ e \in S
    BY <1>1, <1>2, ListIs
  <1> HIDE DEF p, t, S
  <1>5. s \in Seq(S)
    BY <1>4, InsertIntoSequence
  <1> HIDE DEF new, s
  <1>6. Sequences!Becomes(c, s) /\ ArraysInv'
    BY <1>3, <1>5, ChangeIs DEF new, S
  <1>7. s = Sequences!InsertAt(t, p, e)
    BY DEF s, InsertAt, Sequences!InsertAt
  <1>8. Sequences!Modified(c, t)
    BY <1>2, <1>6, <1>7 DEF Sequences!Modified
  <1> QED BY <1>6, <1>8, CallIsStep DEF t

LEMMA RemoveStep ==
    ASSUME ArraysInv, NEW c \in Created, NEW pos \in Positions(c),
           Change(c, list_remove(lists[c], pos))
    PROVE  Sequences!SequencesNext /\ ArraysInv'
  <1> DEFINE new == list_remove(lists[c], pos)
             p == pos + 1
             t == Contents[c]
             s == RemoveAt(t, p)
             S == Int
  <1>1. pos \in 0..lists[c].len - 1 /\ p \in DOMAIN t
    BY PositionIs
  <1>2. new \in ListArrays /\ list_foreach(new) = s
    BY <1>1, ListIs, RemoveIsRemove
  <1>3. t \in Seq(S) /\ p \in 1..Len(t)
    BY <1>1, ListIs
  <1> HIDE DEF p, t, S
  <1>4. s \in Seq(S)
    BY <1>3, RemoveFromQueue
  <1> HIDE DEF new, s
  <1>5. Sequences!Becomes(c, s) /\ ArraysInv'
    BY <1>2, <1>4, ChangeIs DEF new, S
  <1>6. s = Sequences!RemoveAt(t, p)
    BY DEF s, RemoveAt, Sequences!RemoveAt
  <1>7. Sequences!Modified(c, t)
    BY <1>1, <1>5, <1>6 DEF Sequences!Modified
  <1> QED BY <1>5, <1>7, CallIsStep DEF t

\* The calls that only read a list.
LEMMA ReadStep ==
    ASSUME ArraysInv, NEW c \in Created,
           \/ \E pos \in Positions(c) : Return(c, <<list_get(lists[c], pos)>>)
           \/ \E e \in Items : Return(c, <<list_index(lists[c], e, equal)>>)
           \/ Return(c, <<list_len(lists[c])>>)
           \/ Return(c, <<list_foldl(plus, 0, lists[c])>>)
           \/ Return(c, list_foreach(lists[c]))
    PROVE  Sequences!SequencesNext /\ ArraysInv'
  <1> DEFINE t == Contents[c]
  <1>1. lists[c] \in ListArrays /\ t = list_foreach(lists[c]) /\ Len(t) = lists[c].len
        /\ \A k \in 1..lists[c].len : t[k] = lists[c].data[k - 1]
    BY ListIs
  <1> SUFFICES Sequences!Read(t) /\ ArraysInv'
    BY CallIsStep
  <1> HIDE DEF t
  <1>2. ASSUME NEW pos \in Positions(c), Return(c, <<list_get(lists[c], pos)>>)
        PROVE  Sequences!Read(t) /\ ArraysInv'
    <2>1. pos \in 0..lists[c].len - 1 /\ pos + 1 \in DOMAIN t
      BY PositionIs DEF t
    <2>2. list_get(lists[c], pos) = t[pos + 1]
      <3>1. pos + 1 \in 1..lists[c].len /\ (pos + 1) - 1 = pos
        BY <2>1, ListIs
      <3> QED BY <1>1, <3>1 DEF list_get
    <2>3. Sequences!Returns(<<t[pos + 1]>>) /\ ArraysInv'
      BY <1>2, <2>2, ReturnIs
    <2> QED BY <2>1, <2>3 DEF Sequences!Read
  <1>3. ASSUME NEW e \in Items, Return(c, <<list_index(lists[c], e, equal)>>)
        PROVE  Sequences!Read(t) /\ ArraysInv'
    <2>1. list_index(lists[c], e, equal) = Sequences!IndexOf(t, e)
      BY <1>1, IndexIsIndex, ClientAssumption
    <2>2. Sequences!Returns(<<Sequences!IndexOf(t, e)>>) /\ ArraysInv'
      BY <1>3, <2>1, ReturnIs
    <2> QED BY <2>2 DEF Sequences!Read
  <1>4. ASSUME Return(c, <<list_len(lists[c])>>)
        PROVE  Sequences!Read(t) /\ ArraysInv'
    <2>1. Sequences!Returns(<<Len(t)>>) /\ ArraysInv'
      BY <1>1, <1>4, ReturnIs DEF list_len
    <2> QED BY <2>1 DEF Sequences!Read
  <1>5. ASSUME Return(c, <<list_foldl(plus, 0, lists[c])>>)
        PROVE  Sequences!Read(t) /\ ArraysInv'
    <2>1. list_foldl(plus, 0, lists[c]) = Sequences!Folded(t)
      BY <1>1, FoldsTheSame
    <2>2. Sequences!Returns(<<Sequences!Folded(t)>>) /\ ArraysInv'
      BY <1>5, <2>1, ReturnIs
    <2> QED BY <2>2 DEF Sequences!Read
  <1>6. ASSUME Return(c, list_foreach(lists[c]))
        PROVE  Sequences!Read(t) /\ ArraysInv'
    <2>1. Sequences!Returns(t) /\ ArraysInv'
      BY <1>1, <1>6, ReturnIs
    <2> QED BY <2>1 DEF Sequences!Read
  <1> QED BY <1>2, <1>3, <1>4, <1>5, <1>6

\* The calls that append to c what they make of other lists.
LEMMA TwoListsStep ==
    ASSUME ArraysInv, NEW c \in Created, NEW in \in Created \ {c}, TwoLists(c, in)
    PROVE  Sequences!SequencesNext /\ ArraysInv'
  <1> DEFINE t == Contents[c]
             s == Contents[in]
  <1>1. lists[c] \in ListArrays /\ t = list_foreach(lists[c]) /\ t \in Seq(Int)
    BY ListIs
  <1>2. lists[in] \in ListArrays /\ s = list_foreach(lists[in]) /\ s \in Seq(Int)
    BY ListIs
  <1>3. CASE Change(c, list_map1(inc, lists[c], lists[in]))
    <2> DEFINE m == Sequences!Mapped(s)
               new == list_append_array(lists[c], m)
               u == t \o m
    <2>1. list_map1(inc, lists[c], lists[in]) = new
      BY <1>1, <1>2, MapAppends
    <2>2. m \in Seq(Int) /\ m \in Seq(Cells)
      <3> HIDE DEF s
      <3>1. /\ Len(s) \in Nat /\ DOMAIN s = 1..Len(s) /\ \A k \in 1..Len(s) : s[k] \in Int
        BY <1>2
      <3>2. m = [k \in 1..Len(s) |-> s[k] + 1]
        BY <3>1 DEF Sequences!Mapped, inc
      <3>3. m \in [1..Len(s) -> Int]
        BY <3>1, <3>2
      <3> HIDE DEF m
      <3> QED BY <3>1, <3>3, IntsAreCells
    <2> HIDE DEF t, s, m
    <2>3. new \in ListArrays /\ list_foreach(new) = u /\ u \in Seq(Int)
      <3> DEFINE b == lists[c]
      <3>1. b \in ListArrays /\ t = list_foreach(b) /\ t \in Seq(Int)
        BY <1>1
      <3> HIDE DEF b
      <3>2. /\ list_append_array(b, m) \in ListArrays
            /\ list_foreach(list_append_array(b, m)) = list_foreach(b) \o m
        BY <2>2, <3>1, ArrayIsAppended
      <3>3. u \in Seq(Int)
        BY <2>2, <3>1
      <3> QED BY <3>1, <3>2, <3>3 DEF b
    <2> HIDE DEF u, new
    <2>4. Sequences!Becomes(c, u) /\ ArraysInv'
      BY <1>3, <2>1, <2>3, ChangeIs
    <2>5. Sequences!Combined(c, in, in)
      BY <2>4 DEF Sequences!Combined, u, m, t, s
    <2> QED BY <2>4, <2>5, CallIsStep
  <1>4. CASE Change(c, list_filter(isEven, lists[c], lists[in]))
    <2> DEFINE m == Sequences!Filtered(s)
               new == list_filter(isEven, lists[c], lists[in])
               u == t \o m
    <2>1. m \in Seq(Int)
      <3> HIDE DEF s
      <3> DEFINE S == Int
      <3>1. s \in Seq(S)
        BY <1>2
      <3> HIDE DEF S
      <3>2. m \in Seq(S)
        BY <3>1, FilteredIs
      <3> QED BY <3>2 DEF S
    <2>2. new \in ListArrays /\ list_foreach(new) = u
      BY <1>1, <1>2, FilterAppends
    <2> HIDE DEF t, s, m
    <2>3. u \in Seq(Int)
      BY <1>1, <2>1
    <2> HIDE DEF u, new
    <2>4. Sequences!Becomes(c, u) /\ ArraysInv'
      BY <1>4, <2>2, <2>3, ChangeIs DEF new
    <2>5. Sequences!Combined(c, in, in)
      BY <2>4 DEF Sequences!Combined, u, m, t, s
    <2> QED BY <2>4, <2>5, CallIsStep
  <1>5. ASSUME NEW in1 \in Created \ {c},
               Change(c, list_map2(plus, lists[c], lists[in], lists[in1]))
        PROVE  Sequences!SequencesNext /\ ArraysInv'
    <2> DEFINE r == Contents[in1]
               m == Sequences!Zipped(s, r)
               new == list_append_array(lists[c], m)
               u == t \o m
    <2>1. lists[in1] \in ListArrays /\ r = list_foreach(lists[in1]) /\ r \in Seq(Int)
      BY ListIs
    <2>2. list_map2(plus, lists[c], lists[in], lists[in1]) = new
      BY <1>1, <1>2, <2>1, ZipAppends
    <2>3. m \in Seq(Int) /\ m \in Seq(Cells)
      <3> HIDE DEF s, r
      <3>1. /\ Len(s) \in Nat /\ DOMAIN s = 1..Len(s) /\ \A k \in 1..Len(s) : s[k] \in Int
            /\ Len(r) \in Nat /\ DOMAIN r = 1..Len(r) /\ \A k \in 1..Len(r) : r[k] \in Int
        BY <1>2, <2>1
      <3>2. PICK n \in Nat : DOMAIN s \cap DOMAIN r = 1..n
        <4>1. CASE Len(s) <= Len(r)
          <5>1. DOMAIN s \cap DOMAIN r = 1..Len(s)
            BY <3>1, <4>1
          <5> QED BY <3>1, <5>1
        <4>2. CASE Len(r) <= Len(s)
          <5>1. DOMAIN s \cap DOMAIN r = 1..Len(r)
            BY <3>1, <4>2
          <5> QED BY <3>1, <5>1
        <4> QED BY <3>1, <4>1, <4>2
      <3>3. m = [k \in 1..n |-> s[k] + r[k]]
        BY <3>2 DEF Sequences!Zipped, plus
      <3>4. \A k \in 1..n : s[k] \in Int /\ r[k] \in Int
        <4>1. \A k \in 1..n : k \in DOMAIN s /\ k \in DOMAIN r
          BY <3>2
        <4> QED BY <3>1, <4>1
      <3>5. m \in [1..n -> Int]
        BY <3>3, <3>4
      <3> HIDE DEF m
      <3> QED BY <3>5, IntsAreCells
    <2> HIDE DEF t, s, r, m
    <2>4. new \in ListArrays /\ list_foreach(new) = u /\ u \in Seq(Int)
      <3> DEFINE b == lists[c]
      <3>1. b \in ListArrays /\ t = list_foreach(b) /\ t \in Seq(Int)
        BY <1>1
      <3> HIDE DEF b
      <3>2. /\ list_append_array(b, m) \in ListArrays
            /\ list_foreach(list_append_array(b, m)) = list_foreach(b) \o m
        BY <2>3, <3>1, ArrayIsAppended
      <3>3. u \in Seq(Int)
        BY <2>3, <3>1
      <3> QED BY <3>1, <3>2, <3>3 DEF b
    <2> HIDE DEF u, new
    <2>5. Sequences!Becomes(c, u) /\ ArraysInv'
      BY <1>5, <2>2, <2>4, ChangeIs
    <2>6. Sequences!Combined(c, in, in1)
      BY <2>5 DEF Sequences!Combined, u, m, t, s, r
    <2> QED BY <2>5, <2>6, CallIsStep
  <1> QED BY <1>3, <1>4, <1>5 DEF TwoLists

LEMMA CallsAreSteps ==
    ASSUME ArraysInv, ArrayListNext
    PROVE  Sequences!SequencesNext /\ ArraysInv'
  <1>1. PICK c \in Names :
          OneList(c) \/ (c \in Created /\ \E in \in Created \ {c} : TwoLists(c, in))
    BY DEF ArrayListNext
  <1>2. ASSUME c \in Created, \E in \in Created \ {c} : TwoLists(c, in)
        PROVE  Sequences!SequencesNext /\ ArraysInv'
    BY <1>2, TwoListsStep
  <1>3. CASE Create(c)
    BY <1>3, CreateIsNew
  <1>4. CASE Destroy(c)
    BY <1>4, DestroyIsGone
  <1>5. CASE OneList(c) /\ ~Create(c) /\ ~Destroy(c)
    <2>1. c \in Created
      BY <1>5 DEF OneList, Change, Return, Positions
    <2>2. CASE \E e \in Items : Change(c, list_append(lists[c], e))
      BY <2>1, <2>2, AppendStep
    <2>3. CASE \E a \in Arrays : Change(c, list_append_array(lists[c], a))
      BY <2>1, <2>3, AppendArrayStep
    <2>4. CASE \E pos \in Positions(c) : \E e \in Items : Change(c, list_insert(lists[c], pos, e))
      BY <2>1, <2>4, InsertStep
    <2>5. CASE \E pos \in Positions(c) : Change(c, list_remove(lists[c], pos))
      BY <2>1, <2>5, RemoveStep
    <2>6. CASE \/ \E pos \in Positions(c) : Return(c, <<list_get(lists[c], pos)>>)
               \/ \E e \in Items : Return(c, <<list_index(lists[c], e, equal)>>)
               \/ Return(c, <<list_len(lists[c])>>)
               \/ Return(c, <<list_foldl(plus, 0, lists[c])>>)
               \/ Return(c, list_foreach(lists[c]))
      BY <2>1, <2>6, ReadStep
    <2> QED BY <1>5, <2>2, <2>3, <2>4, <2>5, <2>6 DEF OneList
  <1> QED BY <1>1, <1>2, <1>3, <1>4, <1>5

LEMMA ArraysInitially == ArrayListInit => Sequences!SequencesInit /\ ArraysInv
  <1> SUFFICES ASSUME ArrayListInit PROVE Sequences!SequencesInit /\ ArraysInv
    OBVIOUS
  <1>1. lists = <<>> /\ returned = NoResult
    BY DEF ArrayListInit
  <1>2. Created = {}
    BY <1>1 DEF Created
  <1>3. Contents = <<>> /\ lists = [c \in Created |-> lists[c]]
    BY <1>1, <1>2 DEF Contents
  <1> QED BY <1>1, <1>2, <1>3 DEF Sequences!SequencesInit, ArraysInv

LEMMA ArraysStep ==
    ASSUME ArraysInv, [ArrayListNext]_arrayListVars
    PROVE  [Sequences!SequencesNext]_<<Contents, returned>> /\ ArraysInv'
  <1>1. CASE ArrayListNext
    BY <1>1, CallsAreSteps
  <1>2. CASE UNCHANGED arrayListVars
    <2>1. lists' = lists /\ returned' = returned
      BY <1>2 DEF arrayListVars
    <2>2. Contents' = Contents /\ ArraysInv'
      BY <2>1 DEF Contents, ArraysInv, Created, list_foreach
    <2> QED BY <2>1, <2>2
  <1> QED BY <1>1, <1>2

-----------------------------------------------------------------------------
(* The programs that fill a list and a tree, for any arguments.            *)

Args == DOMAIN argv

\* The memory of the elements.
Memories == [elem : [Args -> Int], str : [Args -> Int], faults : SUBSET Args]

\* What Use asks for.
Allocated(m, k) == m.elem[k] > 0 /\ (EP!IsNumeral(k) \/ m.str[k] > 0)

\* All of T are used; all of T are released, in one step.
Used(m, T) == [m EXCEPT !.faults = @ \cup {k \in T : ~Allocated(m, k)}]

ElemLeft(m, k) == IF EP!Owned THEN 0 ELSE m.elem[k] - 1

StrLeft(m, k) ==
    IF EP!Owned THEN 0
    ELSE IF version = "soln-4" \/ (~EP!IsNumeral(k) /\ m.elem[k] = 1)
         THEN m.str[k] - 1 ELSE m.str[k]

Released(m, T) ==
    [elem |-> [k \in Args |-> IF k \in T THEN ElemLeft(m, k) ELSE m.elem[k]],
     str |-> [k \in Args |-> IF k \in T THEN StrLeft(m, k) ELSE m.str[k]],
     faults |-> m.faults \cup {k \in T : ~Allocated(m, k)}]

LEMMA UseIs ==
    ASSUME NEW m \in Memories, NEW k \in Args
    PROVE  /\ EP!Use(m, k) \in Memories
           /\ EP!Use(m, k).elem = m.elem /\ EP!Use(m, k).str = m.str
           /\ EP!Use(m, k).faults = m.faults \cup {j \in {k} : ~Allocated(m, j)}
  BY DEF EP!Use, Memories, Allocated

LEMMA FreeIs ==
    ASSUME NEW m \in Memories, NEW k \in Args
    PROVE  /\ EP!element_free_ref(m, k) \in Memories
           /\ EP!element_free_ref(m, k) = Released(m, {k})
  <1> DEFINE u == EP!Use(m, k)
             r == EP!element_free_ref(m, k)
             a == ElemLeft(m, k)
             b == StrLeft(m, k)
             f == u.faults
  <1>1. /\ u \in Memories /\ u.elem = m.elem /\ u.str = m.str
        /\ u.faults = m.faults \cup {j \in {k} : ~Allocated(m, j)}
    BY UseIs
  <1>2. u = [elem |-> m.elem, str |-> m.str, faults |-> f]
    BY <1>1 DEF Memories
  <1>3. r = [[u EXCEPT !.elem[k] = a] EXCEPT !.str[k] = b]
    BY <1>1, <1>2 DEF EP!element_free_ref, ElemLeft, StrLeft
  <1>4. a \in Int /\ b \in Int
    BY DEF Memories, ElemLeft, StrLeft
  <1> HIDE DEF a, b, f
  <1>5. r = [elem |-> [m.elem EXCEPT ![k] = a], str |-> [m.str EXCEPT ![k] = b],
             faults |-> f]
    <2> HIDE DEF u
    <2> QED BY <1>2, <1>3
  <1> HIDE DEF u, r
  <1>6. r \in Memories
    BY <1>1, <1>4, <1>5 DEF Memories, f
  <1>7. Released(m, {k}) = [elem |-> [j \in Args |-> IF j = k THEN a ELSE m.elem[j]],
                            str |-> [j \in Args |-> IF j = k THEN b ELSE m.str[j]],
                            faults |-> f]
    BY <1>1 DEF Released, a, b, f
  <1>8. r = Released(m, {k})
    BY <1>5, <1>7 DEF Memories
  <1> QED BY <1>6, <1>8 DEF r

LEMMA UsedMore ==
    ASSUME NEW m \in Memories, NEW T \in SUBSET Args, NEW k \in Args
    PROVE  /\ Used(m, T) \in Memories
           /\ EP!Use(Used(m, T), k) = Used(m, T \cup {k})
  <1> DEFINE w == Used(m, T)
             u == EP!Use(w, k)
             v == Used(m, T \cup {k})
  <1>1. /\ w \in Memories /\ w.elem = m.elem /\ w.str = m.str
        /\ w.faults = m.faults \cup {j \in T : ~Allocated(m, j)}
    BY DEF Used, Memories
  <1>2. /\ v \in Memories /\ v.elem = m.elem /\ v.str = m.str
        /\ v.faults = m.faults \cup {j \in T \cup {k} : ~Allocated(m, j)}
    BY DEF Used, Memories
  <1>3. \A j : Allocated(w, j) <=> Allocated(m, j)
    BY <1>1 DEF Allocated
  <1> HIDE DEF w, v
  <1>4. /\ u \in Memories /\ u.elem = w.elem /\ u.str = w.str
        /\ u.faults = w.faults \cup {j \in {k} : ~Allocated(w, j)}
    BY <1>1, UseIs
  <1> HIDE DEF u
  <1>5. u.faults = v.faults
    BY <1>1, <1>2, <1>3, <1>4
  <1>6. u = v
    BY <1>1, <1>2, <1>4, <1>5 DEF Memories
  <1> QED BY <1>1, <1>6 DEF u, v, w

LEMMA ReleasedMore ==
    ASSUME NEW m \in Memories, NEW T \in SUBSET Args, NEW k \in Args \ T
    PROVE  /\ Released(m, T) \in Memories
           /\ EP!element_free_ref(Released(m, T), k) = Released(m, T \cup {k})
  <1> DEFINE w == Released(m, T)
  <1>1. \A j \in Args : ElemLeft(m, j) \in Int /\ StrLeft(m, j) \in Int
    BY DEF Memories, ElemLeft, StrLeft
  <1>2. w \in Memories
    BY <1>1 DEF Memories, Released
  <1>3. w.elem[k] = m.elem[k] /\ w.str[k] = m.str[k]
    BY DEF Released
  <1>4. /\ ElemLeft(w, k) = ElemLeft(m, k) /\ StrLeft(w, k) = StrLeft(m, k)
        /\ Allocated(w, k) <=> Allocated(m, k)
    BY <1>3 DEF ElemLeft, StrLeft, Allocated
  <1>5. Released(w, {k}) = Released(m, T \cup {k})
    <2>1. /\ w.elem = [j \in Args |-> IF j \in T THEN ElemLeft(m, j) ELSE m.elem[j]]
          /\ w.str = [j \in Args |-> IF j \in T THEN StrLeft(m, j) ELSE m.str[j]]
          /\ w.faults = m.faults \cup {j \in T : ~Allocated(m, j)}
      BY DEF Released
    <2> HIDE DEF w
    <2>2. [j \in Args |-> IF j \in {k} THEN ElemLeft(w, j) ELSE w.elem[j]]
            = [j \in Args |-> IF j \in T \cup {k} THEN ElemLeft(m, j) ELSE m.elem[j]]
      BY <1>4, <2>1
    <2>3. [j \in Args |-> IF j \in {k} THEN StrLeft(w, j) ELSE w.str[j]]
            = [j \in Args |-> IF j \in T \cup {k} THEN StrLeft(m, j) ELSE m.str[j]]
      BY <1>4, <2>1
    <2>4. w.faults \cup {j \in {k} : ~Allocated(w, j)}
            = m.faults \cup {j \in T \cup {k} : ~Allocated(m, j)}
      BY <1>4, <2>1
    <2> QED BY <2>2, <2>3, <2>4 DEF Released
  <1> HIDE DEF w
  <1> QED BY <1>2, <1>5, FreeIs DEF w

-----------------------------------------------------------------------------
\* The memory before the first element of s and after each of them, where they
\* are used or released.
Does(act, m, k) == IF act = "free" THEN EP!element_free_ref(m, k) ELSE EP!Use(m, k)

Stages(act, m, s) ==
    CHOOSE f : f = [t \in SUBSET DOMAIN s |->
                      IF t = {} THEN m ELSE Does(act, f[t \ {Max(t)}], s[Max(t)])]

LEMMA FoldsAreStages ==
    ASSUME NEW m, NEW s
    PROVE  /\ EP!FoldLeft(EP!Use, m, s) = Stages("use", m, s)[DOMAIN s]
           /\ EP!FoldLeft(EP!element_free_ref, m, s) = Stages("free", m, s)[DOMAIN s]
           /\ EP!FoldLeft(EP!list_delete_element, m, s) = Stages("free", m, s)[DOMAIN s]
  <1> DEFINE E(act, f) == f = [t \in SUBSET DOMAIN s |->
                                  IF t = {} THEN m
                                  ELSE Does(act, f[t \ {Max(t)}], s[Max(t)])]
             E1(f) == f = [t \in SUBSET DOMAIN s |->
                             IF t = {} THEN m ELSE EP!Use(f[t \ {Max(t)}], s[Max(t)])]
             E2(f) == f = [t \in SUBSET DOMAIN s |->
                             IF t = {} THEN m
                             ELSE EP!element_free_ref(f[t \ {Max(t)}], s[Max(t)])]
  <1>1. \A f : (E("use", f) <=> E1(f)) /\ (E("free", f) <=> E2(f))
    BY DEF Does
  <1>2. /\ Stages("use", m, s) = CHOOSE f : E("use", f)
        /\ Stages("free", m, s) = CHOOSE f : E("free", f)
    BY DEF Stages
  <1>3. /\ EP!FoldLeft(EP!Use, m, s) = (CHOOSE f : E1(f))[DOMAIN s]
        /\ EP!FoldLeft(EP!element_free_ref, m, s) = (CHOOSE f : E2(f))[DOMAIN s]
        /\ EP!FoldLeft(EP!list_delete_element, m, s) = (CHOOSE f : E2(f))[DOMAIN s]
    BY DEF EP!list_delete_element, EP!FoldLeft, EP!MapThenFoldSet, EP!Max, Max
  <1> HIDE DEF E, E1, E2
  <1>4. /\ (CHOOSE f : E("use", f)) = (CHOOSE f : E1(f))
        /\ (CHOOSE f : E("free", f)) = (CHOOSE f : E2(f))
    BY <1>1
  <1> QED BY <1>2, <1>3, <1>4

LEMMA StagesInOrder ==
    ASSUME NEW act \in {"use", "free"}, NEW m \in Memories, NEW n \in Nat,
           NEW s \in [1..n -> Args]
    PROVE  /\ Stages(act, m, s)[1..0] = m
           /\ \A k \in 1..n : Stages(act, m, s)[1..k]
                               = Does(act, Stages(act, m, s)[1..(k - 1)], s[k])
  <1> DEFINE D == Memories
             h == [p \in (1..n) \X D |-> Does(act, p[2], s[p[1]])]
             Eq(f) == f = [t \in SUBSET DOMAIN s |->
                             IF t = {} THEN m ELSE Does(act, f[t \ {Max(t)}], s[Max(t)])]
             iter == Stages(act, m, s)
  <1>1. \A k \in 1..n, d \in D : /\ h[<<k, d>>] = Does(act, d, s[k])
                                 /\ h[<<k, d>>] \in D
    BY UseIs, FreeIs DEF Does
  <1> HIDE DEF D, h
  <1>2. Makes(h, 1..n, D) /\ m \in D
    BY <1>1 DEF Makes, D
  <1>3. PICK F \in [SUBSET (1..n) -> D] : FoldsLeft(F, n, m, h)
    BY <1>2, LeftFold
  <1>4. Eq(F)
    <2>1. ASSUME NEW t \in SUBSET (1..n), t # {}
          PROVE  F[t] = Does(act, F[t \ {Max(t)}], s[Max(t)])
      <3>1. Max(t) \in 1..n /\ F[t \ {Max(t)}] \in D
        BY <2>1, MaxIsGreatest
      <3> QED BY <1>1, <1>3, <2>1, <3>1 DEF FoldsLeft
    <2>2. F = [t \in SUBSET (1..n) |-> F[t]] /\ F[{}] = m
      BY <1>3 DEF FoldsLeft
    <2> QED BY <2>1, <2>2
  <1>5. Eq(iter)
    <2> HIDE DEF Eq
    <2>1. iter = CHOOSE f : Eq(f)
      BY DEF Eq, Stages
    <2> QED BY <1>4, <2>1
  <1>6. /\ iter[{}] = m
        /\ \A t \in SUBSET (1..n) : t # {} =>
             iter[t] = Does(act, iter[t \ {Max(t)}], s[Max(t)])
    BY <1>5
  <1> HIDE DEF Eq, iter
  <1>7. ASSUME NEW k \in 1..n
        PROVE  iter[1..k] = Does(act, iter[1..(k - 1)], s[k])
    <2> DEFINE t == 1..k
    <2>1. Max(t) = k /\ t \ {k} = 1..(k - 1) /\ t # {} /\ t \in SUBSET (1..n)
      BY MaxOfFirst
    <2> HIDE DEF t
    <2>2. iter[t] = Does(act, iter[t \ {Max(t)}], s[Max(t)])
      BY <1>6, <2>1
    <2> QED BY <2>1, <2>2 DEF t
  <1>8. 1..0 = {}
    OBVIOUS
  <1> QED BY <1>6, <1>7, <1>8 DEF iter

\* The elements at the first k places of s.
FirstOf(s, k) == {s[j] : j \in 1..k}

LEMMA NothingDone ==
    ASSUME NEW m \in Memories
    PROVE  Used(m, {}) = m /\ Released(m, {}) = m
  BY DEF Used, Released, Memories

LEMMA UsesAll ==
    ASSUME NEW m \in Memories, NEW n \in Nat, NEW s \in [1..n -> Args]
    PROVE  EP!FoldLeft(EP!Use, m, s) = Used(m, ToSet(s))
  <1>0. /\ FirstOf(s, 0) = {} /\ FirstOf(s, n) = ToSet(s) /\ DOMAIN s = 1..n
        /\ \A k \in 1..n : /\ FirstOf(s, k - 1) \in SUBSET Args /\ s[k] \in Args
                            /\ FirstOf(s, k - 1) \cup {s[k]} = FirstOf(s, k)
    BY DEF FirstOf, ToSet, IsInjective
  <1> DEFINE iter == Stages("use", m, s)
             Right == {k \in 0..n : iter[1..k] = Used(m, FirstOf(s, k))}
  <1>1. /\ iter[1..0] = m
        /\ \A k \in 1..n : iter[1..k] = EP!Use(iter[1..(k - 1)], s[k])
    <2>1. /\ iter[1..0] = m
          /\ \A k \in 1..n : iter[1..k] = Does("use", iter[1..(k - 1)], s[k])
      BY StagesInOrder
    <2> HIDE DEF iter
    <2> QED BY <2>1 DEF Does
  <1> HIDE DEF iter
  <1>2. 0 \in Right
    <2>1. Used(m, FirstOf(s, 0)) = m
      BY <1>0, NothingDone
    <2> QED BY <1>1, <2>1
  <1>3. \A k \in 1..n : k - 1 \in Right => k \in Right
    <2> SUFFICES ASSUME NEW k \in 1..n, k - 1 \in Right
                 PROVE  iter[1..k] = Used(m, FirstOf(s, k))
      OBVIOUS
    <2>1. iter[1..k] = EP!Use(Used(m, FirstOf(s, k - 1)), s[k])
      BY <1>1
    <2> QED BY <1>0, <2>1, UsedMore
  <1>4. n \in Right
    <2> HIDE DEF Right
    <2> QED BY <1>2, <1>3, CountingUp
  <1> QED BY <1>0, <1>4, FoldsAreStages DEF iter

LEMMA ReleasesAll ==
    ASSUME NEW m \in Memories, NEW n \in Nat, NEW s \in [1..n -> Args], IsInjective(s)
    PROVE  /\ EP!FoldLeft(EP!element_free_ref, m, s) = Released(m, ToSet(s))
           /\ EP!FoldLeft(EP!list_delete_element, m, s) = Released(m, ToSet(s))
  <1>0. /\ FirstOf(s, 0) = {} /\ FirstOf(s, n) = ToSet(s) /\ DOMAIN s = 1..n
        /\ \A k \in 1..n : /\ FirstOf(s, k - 1) \in SUBSET Args /\ s[k] \in Args
                            /\ FirstOf(s, k - 1) \cup {s[k]} = FirstOf(s, k)
                            /\ s[k] \notin FirstOf(s, k - 1)
    BY DEF FirstOf, ToSet, IsInjective
  <1> DEFINE iter == Stages("free", m, s)
             Right == {k \in 0..n : iter[1..k] = Released(m, FirstOf(s, k))}
  <1>1. /\ iter[1..0] = m
        /\ \A k \in 1..n : iter[1..k] = EP!element_free_ref(iter[1..(k - 1)], s[k])
    <2>1. /\ iter[1..0] = m
          /\ \A k \in 1..n : iter[1..k] = Does("free", iter[1..(k - 1)], s[k])
      BY StagesInOrder
    <2> HIDE DEF iter
    <2> QED BY <2>1 DEF Does
  <1> HIDE DEF iter
  <1>2. 0 \in Right
    <2>1. Released(m, FirstOf(s, 0)) = m
      BY <1>0, NothingDone
    <2> QED BY <1>1, <2>1
  <1>3. \A k \in 1..n : k - 1 \in Right => k \in Right
    <2> SUFFICES ASSUME NEW k \in 1..n, k - 1 \in Right
                 PROVE  iter[1..k] = Released(m, FirstOf(s, k))
      OBVIOUS
    <2>1. iter[1..k] = EP!element_free_ref(Released(m, FirstOf(s, k - 1)), s[k])
      BY <1>1
    <2> QED BY <1>0, <2>1, ReleasedMore
  <1>4. n \in Right
    <2> HIDE DEF Right
    <2> QED BY <1>2, <1>3, CountingUp
  <1> QED BY <1>0, <1>4, FoldsAreStages DEF iter

\* A sequence that contains each element of a finite set once has all of them.
LEMMA InjectionCovers ==
    ASSUME NEW S, IsFiniteSet(S), NEW f \in [1..Cardinality(S) -> S], IsInjective(f)
    PROVE  ToSet(f) = S
  <1>1. Cardinality(S) \in Nat
    BY FS_CardinalityType
  <1> DEFINE n == Cardinality(S)
  <1>2. Cardinality(1..n) = n
    BY <1>1, FS_Interval
  <1>3. f \in Injection(1..n, S)
    BY DEF Injection, IsInjective
  <1>4. f \in Surjection(1..n, S)
    BY <1>2, <1>3, FS_Injection
  <1> QED BY <1>4 DEF Surjection, ToSet

LEMMA ListsWhole ==
    ASSUME NEW S, IsFiniteSet(S)
    PROVE  LET s == EP!SetToSeq(S)
           IN  /\ s \in [1..Cardinality(S) -> S] /\ Cardinality(S) \in Nat
               /\ IsInjective(s) /\ ToSet(s) = S
  <1> DEFINE n == Cardinality(S)
             s == EP!SetToSeq(S)
  <1>1. n \in Nat /\ ExistsBijection(1..n, S)
    BY FS_CardinalityType
  <1> HIDE DEF n
  <1>2. PICK g : g \in Bijection(1..n, S)
    BY <1>1 DEF ExistsBijection
  <1>3. g \in [1..n -> S] /\ IsInjective(g)
    BY <1>2 DEF Bijection, Injection, IsInjective
  <1>4. s \in [1..n -> S] /\ IsInjective(s)
    BY <1>3 DEF EP!SetToSeq, EP!IsInjective, IsInjective, EP!Cardinality, Cardinality,
                EP!IsFiniteSet, IsFiniteSet, n
  <1> HIDE DEF s
  <1>5. ToSet(s) = S
    BY <1>4, InjectionCovers DEF n
  <1> QED BY <1>1, <1>4, <1>5 DEF s, n

LEMMA NewIs ==
    ASSUME NEW m \in Memories, NEW k \in Args
    PROVE  EP!element_new(m, k)
             = [elem |-> [m.elem EXCEPT ![k] = 1],
                str |-> [m.str EXCEPT ![k] = IF EP!IsNumeral(k) THEN 0 ELSE 1],
                faults |-> m.faults]
  <1> DEFINE a == m.elem
             b == m.str
             c == m.faults
             v == IF EP!IsNumeral(k) THEN 0 ELSE 1
  <1>1. m = [elem |-> a, str |-> b, faults |-> c]
    BY DEF Memories
  <1>2. EP!element_new(m, k) = [[m EXCEPT !.elem[k] = 1] EXCEPT !.str[k] = v]
    BY <1>1 DEF EP!element_new
  <1> HIDE DEF a, b, c, v
  <1>3. EP!element_new(m, k) = [elem |-> [a EXCEPT ![k] = 1],
                                str |-> [b EXCEPT ![k] = v], faults |-> c]
    BY <1>1, <1>2
  <1> QED BY <1>3 DEF a, b, c, v

LEMMA KeepIs ==
    ASSUME NEW m \in Memories, NEW k \in Args, ~EP!Owned
    PROVE  EP!element_keep_ref(m, k)
             = [elem |-> [m.elem EXCEPT ![k] = m.elem[k] + 1],
                str |-> [m.str EXCEPT ![k] = IF version = "soln-4" THEN m.str[k] + 1
                                             ELSE m.str[k]],
                faults |-> m.faults \cup {j \in {k} : ~Allocated(m, j)}]
  <1> DEFINE u == EP!Use(m, k)
             a == m.elem
             b == m.str
             c == m.faults \cup {j \in {k} : ~Allocated(m, j)}
             x == a[k] + 1
             v == IF version = "soln-4" THEN b[k] + 1 ELSE b[k]
  <1>1. u = [elem |-> a, str |-> b, faults |-> c]
    <2>1. u \in Memories /\ u.elem = a /\ u.str = b /\ u.faults = c
      BY UseIs
    <2> HIDE DEF u, a, b, c
    <2> QED BY <2>1 DEF Memories
  <1>2. EP!element_keep_ref(m, k) = [[u EXCEPT !.elem[k] = x] EXCEPT !.str[k] = v]
    <2> HIDE DEF a, b, c
    <2> QED BY <1>1 DEF EP!element_keep_ref
  <1> HIDE DEF u, a, b, c, x, v
  <1>3. EP!element_keep_ref(m, k) = [elem |-> [a EXCEPT ![k] = x],
                                     str |-> [b EXCEPT ![k] = v], faults |-> c]
    BY <1>1, <1>2
  <1> QED BY <1>3 DEF a, b, c, x, v
-----------------------------------------------------------------------------
\* The references to k there are to be, of which code-3 has none in the tree;
\* and to its string, when there are c to k.
RefsTo(k) ==
    IF EP!Sorting /\ EP!At("done") THEN 0
    ELSE (IF k \in ToSet(list) THEN 1 ELSE 0)
         + (IF k \in EP!TreeElements /\ ~EP!Owned THEN 1 ELSE 0)

StringRefs(k, c) ==
    IF EP!IsNumeral(k) \/ c = 0 THEN 0 ELSE IF version = "soln-4" THEN c ELSE 1

Phases == {"read", "sort", "print sorted", "insert", "delete list", "print again",
           "delete tree", "done"}

ProgramTypes ==
    /\ version \in {"code-3", "soln-4", "soln-9", "sort"}
    /\ Len(argv) \in Nat /\ Args = 1..Len(argv)
    /\ done \in [phase : Phases, steps : Nat]
    /\ list \in Seq(Args) /\ IsInjective(list)
    /\ EP!TreeElements \in SUBSET Args
    /\ rc \in Memories

\* Where the elements are in each phase.
ProgramPhases ==
    /\ IF EP!Sorting
       THEN /\ done.phase \in {"read", "sort", "print sorted", "done"}
            /\ EP!TreeElements = {}
       ELSE done.phase \notin {"sort", "print sorted"}
    /\ EP!At("read") => ToSet(list) \subseteq 1..done.steps /\ EP!TreeElements = {}
    /\ EP!At("insert") => EP!TreeElements \subseteq FirstOf(list, done.steps)
    /\ EP!At("insert") => done.steps <= Len(list)
    /\ done.phase \in {"print again", "delete tree"} => list = <<>>
    /\ EP!At("done") /\ ~EP!Sorting => list = <<>> /\ EP!TreeElements = {}

MemoryRight ==
    /\ \A k \in Args : /\ rc.elem[k] = RefsTo(k)
                       /\ rc.str[k] = StringRefs(k, RefsTo(k))
    /\ ~EP!Owned => rc.faults = {}
    /\ EP!Owned /\ ~EP!At("done") =>
         rc.faults = IF EP!At("delete tree") THEN EP!TreeElements ELSE {}

ProgramsInv == ProgramTypes /\ ProgramPhases /\ MemoryRight

LEMMA RefsAllocate ==
    ASSUME ProgramTypes, MemoryRight, NEW k \in Args
    PROVE  /\ RefsTo(k) > 0 => Allocated(rc, k)
           /\ RefsTo(k) = 0 => ~Allocated(rc, k)
  <1>1. RefsTo(k) \in Nat
    BY DEF RefsTo
  <1>2. rc.elem[k] = RefsTo(k) /\ rc.str[k] = StringRefs(k, RefsTo(k))
    BY DEF MemoryRight
  <1> QED BY <1>1, <1>2 DEF Allocated, StringRefs

\* A release leaves the string as many references as it is to have.
LEMMA StringsFollow ==
    ASSUME ProgramTypes, MemoryRight, NEW k \in Args, EP!Owned \/ RefsTo(k) > 0
    PROVE  /\ ElemLeft(rc, k) = IF EP!Owned THEN 0 ELSE RefsTo(k) - 1
           /\ StrLeft(rc, k) = StringRefs(k, ElemLeft(rc, k))
  <1>1. RefsTo(k) \in Nat
    BY DEF RefsTo
  <1>2. rc.elem[k] = RefsTo(k) /\ rc.str[k] = StringRefs(k, RefsTo(k))
    BY DEF MemoryRight
  <1>3. ElemLeft(rc, k) = IF EP!Owned THEN 0 ELSE RefsTo(k) - 1
    BY <1>2 DEF ElemLeft
  <1>4. StrLeft(rc, k) = StringRefs(k, ElemLeft(rc, k))
    <2>1. CASE EP!Owned
      BY <1>3, <2>1 DEF StrLeft, StringRefs
    <2>2. CASE ~EP!Owned
      <3>1. RefsTo(k) > 0 /\ ElemLeft(rc, k) = RefsTo(k) - 1
        BY <1>3, <2>2
      <3>2. CASE version = "soln-4"
        <4>1. ~EP!IsNumeral(k)
          BY <3>2 DEF EP!IsNumeral
        <4>2. StrLeft(rc, k) = rc.str[k] - 1
          BY <2>2, <3>2 DEF StrLeft
        <4> QED BY <1>1, <1>2, <3>1, <3>2, <4>1, <4>2 DEF StringRefs
      <3>3. CASE version # "soln-4"
        <4>1. StrLeft(rc, k) = IF ~EP!IsNumeral(k) /\ rc.elem[k] = 1 THEN rc.str[k] - 1
                               ELSE rc.str[k]
          BY <2>2, <3>3 DEF StrLeft
        <4> QED BY <1>1, <1>2, <3>1, <3>3, <4>1 DEF StringRefs
      <3> QED BY <3>2, <3>3
    <2> QED BY <2>1, <2>2
  <1> QED BY <1>3, <1>4

\* What is used without a fault leaves no trace.
LEMMA UseOfAllocated ==
    ASSUME ProgramTypes, MemoryRight, NEW T \in SUBSET Args, \A k \in T : RefsTo(k) > 0
    PROVE  Used(rc, T) = rc
  <1>1. {k \in T : ~Allocated(rc, k)} = {}
    BY RefsAllocate
  <1>2. rc \in Memories
    BY DEF ProgramTypes
  <1> QED BY <1>1, <1>2 DEF Used, Memories

\* What the references are after each element of T is released.
LEMMA ReleaseOfAllocated ==
    ASSUME ProgramTypes, MemoryRight, NEW T \in SUBSET Args,
           EP!Owned \/ \A k \in T : RefsTo(k) > 0,
           NEW m, m = Released(rc, T)
    PROVE  /\ m \in Memories
           /\ \A k \in Args :
                /\ m.elem[k] = IF k \notin T THEN RefsTo(k)
                               ELSE IF EP!Owned THEN 0 ELSE RefsTo(k) - 1
                /\ m.str[k] = StringRefs(k, m.elem[k])
           /\ (\A k \in T : RefsTo(k) > 0) => m.faults = rc.faults
  <1>1. rc \in Memories
    BY DEF ProgramTypes
  <1>2. \A k \in Args : ElemLeft(rc, k) \in Int /\ StrLeft(rc, k) \in Int
    BY <1>1 DEF Memories, ElemLeft, StrLeft
  <1>3. m \in Memories
    BY <1>1, <1>2 DEF Memories, Released
  <1>4. ASSUME NEW k \in Args
        PROVE  /\ m.elem[k] = IF k \notin T THEN RefsTo(k)
                              ELSE IF EP!Owned THEN 0 ELSE RefsTo(k) - 1
               /\ m.str[k] = StringRefs(k, m.elem[k])
    <2>1. rc.elem[k] = RefsTo(k) /\ rc.str[k] = StringRefs(k, RefsTo(k))
      BY DEF MemoryRight
    <2>2. k \in T => /\ ElemLeft(rc, k) = IF EP!Owned THEN 0 ELSE RefsTo(k) - 1
                     /\ StrLeft(rc, k) = StringRefs(k, ElemLeft(rc, k))
      BY StringsFollow
    <2>3. /\ m.elem[k] = IF k \in T THEN ElemLeft(rc, k) ELSE rc.elem[k]
          /\ m.str[k] = IF k \in T THEN StrLeft(rc, k) ELSE rc.str[k]
      BY DEF Released
    <2> QED BY <2>1, <2>2, <2>3
  <1>5. ASSUME \A k \in T : RefsTo(k) > 0 PROVE m.faults = rc.faults
    <2>1. {k \in T : ~Allocated(rc, k)} = {}
      BY <1>5, RefsAllocate
    <2> QED BY <2>1 DEF Released
  <1> QED BY <1>3, <1>4, <1>5

\* What stays when no element is put anywhere.
LEMMA SamePlaces ==
    ASSUME UNCHANGED <<version, argv, nodes>>
    PROVE  /\ Args' = Args /\ Memories' = Memories
           /\ EP!TreeElements' = EP!TreeElements
           /\ EP!Owned' = EP!Owned /\ EP!Sorting' = EP!Sorting
           /\ \A k, c : StringRefs(k, c)' = StringRefs(k, c)
  BY DEF Args, Memories, EP!TreeElements, EP!Owned, EP!Sorting, StringRefs, EP!IsNumeral

LEMMA ProgramsInitially == library = "ElementPrograms" /\ Init => ProgramsInv
  <1> SUFFICES ASSUME EP!ElementProgramsInit PROVE ProgramsInv
    BY DEF Init
  <1>1. PICK n \in 0..MaxElements : argv \in [1..n -> Arguments]
    BY DEF EP!ElementProgramsInit, EP!SeqOf
  <1>2. Args = 1..n /\ n \in Nat /\ Len(argv) = n
    BY <1>1, MaxElementsIsNat DEF Args
  <1>3. list = <<>> /\ ToSet(list) = {} /\ list \in Seq(Args) /\ IsInjective(list)
    BY DEF EP!ElementProgramsInit, ToSet, IsInjective
  <1>4. EP!TreeElements = {}
    BY DEF EP!ElementProgramsInit, EP!TreeElements
  <1>5. /\ rc = [elem |-> [k \in Args |-> 0], str |-> [k \in Args |-> 0], faults |-> {}]
        /\ done = [phase |-> "read", steps |-> 0]
        /\ version \in {"code-3", "soln-4", "soln-9", "sort"}
    BY DEF EP!ElementProgramsInit, Args
  <1>6. rc \in Memories /\ done \in [phase : Phases, steps : Nat]
    <2>1. [k \in Args |-> 0] \in [Args -> Int] /\ {} \in SUBSET Args
      OBVIOUS
    <2>2. rc \in Memories
      BY <1>5, <2>1 DEF Memories
    <2>3. done \in [phase : Phases, steps : Nat]
      BY <1>5 DEF Phases
    <2> QED BY <2>2, <2>3
  <1>7. ProgramTypes
    BY <1>2, <1>3, <1>4, <1>5, <1>6 DEF ProgramTypes
  <1>8. ProgramPhases
    BY <1>3, <1>4, <1>5 DEF ProgramPhases, EP!Sorting, EP!At
  <1>9. MemoryRight
    BY <1>3, <1>4, <1>5 DEF MemoryRight, RefsTo, StringRefs, EP!At
  <1> QED BY <1>7, <1>8, <1>9 DEF ProgramsInv

LEMMA AddKeepsPrograms == ProgramsInv /\ EP!AddArgument => ProgramsInv'
  <1> SUFFICES ASSUME ProgramsInv, EP!AddArgument PROVE ProgramsInv'
    OBVIOUS
  <1> DEFINE k == done.steps + 1
             m == EP!element_new(rc, k)
  <1>1. /\ done.phase = "read" /\ done.steps < Len(argv) /\ done.steps \in Nat
        /\ list' = Append(list, k) /\ UNCHANGED <<version, argv, nodes>>
        /\ rc' = IF EP!Owned \/ EP!Sorting THEN m
                 ELSE EP!element_free_ref(EP!list_add_element(m, k), k)
        /\ done' = [done EXCEPT !.steps = @ + 1]
    BY DEF EP!AddArgument, EP!At, EP!Again, ProgramsInv, ProgramTypes
  <1>2. /\ k \in Args /\ ToSet(list) \subseteq 1..done.steps /\ k \notin ToSet(list)
        /\ EP!TreeElements = {} /\ EP!TreeElements' = {} /\ Args' = Args
    <2>1. ToSet(list) \subseteq 1..done.steps /\ EP!TreeElements = {}
      BY <1>1 DEF ProgramsInv, ProgramPhases, EP!At
    <2>2. EP!TreeElements' = EP!TreeElements /\ Args' = Args
      BY <1>1 DEF EP!TreeElements, Args
    <2> QED BY <1>1, <2>1, <2>2 DEF ProgramsInv, ProgramTypes
  <1>3. /\ done' \in [phase : Phases, steps : Nat]
        /\ done'.phase = "read" /\ done'.steps = k
    BY <1>1 DEF ProgramsInv, ProgramTypes
  <1>4. /\ list' \in Seq(Args) /\ IsInjective(list') /\ ToSet(list') = ToSet(list) \cup {k}
    BY <1>1, <1>2, AppendQueue DEF ProgramsInv, ProgramTypes
  <1>5. /\ rc \in Memories /\ rc.faults = {}
        /\ \A j \in Args : rc.elem[j] = RefsTo(j) /\ rc.str[j] = StringRefs(j, RefsTo(j))
    BY <1>1 DEF ProgramsInv, ProgramTypes, MemoryRight, EP!At
  <1>6. /\ \A j \in Args : RefsTo(j)' = IF j = k THEN 1 ELSE RefsTo(j)
        /\ \A j, c : StringRefs(j, c)' = StringRefs(j, c)
    BY <1>1, <1>2, <1>3, <1>4 DEF RefsTo, StringRefs, EP!At, EP!IsNumeral
  <1> HIDE DEF k
  <1>7. /\ rc' \in Memories /\ rc'.faults = {}
        /\ \A j \in Args : rc'.elem[j] = IF j = k THEN 1 ELSE rc.elem[j]
        /\ \A j \in Args : rc'.str[j] = IF j = k THEN StringRefs(k, 1) ELSE rc.str[j]
    <2>1. m = [elem |-> [rc.elem EXCEPT ![k] = 1],
               str |-> [rc.str EXCEPT ![k] = IF EP!IsNumeral(k) THEN 0 ELSE 1],
               faults |-> {}]
      BY <1>2, <1>5, NewIs
    <2> HIDE DEF m
    <2>2. /\ m \in Memories /\ m.faults = {}
          /\ \A j \in Args : m.elem[j] = IF j = k THEN 1 ELSE rc.elem[j]
          /\ \A j \in Args : m.str[j] = IF j = k THEN StringRefs(k, 1) ELSE rc.str[j]
      BY <1>2, <1>5, <2>1 DEF Memories, StringRefs
    <2>3. CASE EP!Owned \/ EP!Sorting
      BY <1>1, <2>2, <2>3
    <2>4. CASE ~(EP!Owned \/ EP!Sorting)
      <3> DEFINE w == EP!element_keep_ref(m, k)
      <3>1. w = [elem |-> [m.elem EXCEPT ![k] = m.elem[k] + 1],
                 str |-> [m.str EXCEPT ![k] = IF version = "soln-4" THEN m.str[k] + 1
                                              ELSE m.str[k]],
                 faults |-> m.faults \cup {j \in {k} : ~Allocated(m, j)}]
        BY <1>2, <2>2, <2>4, KeepIs
      <3> HIDE DEF w
      <3>2. Allocated(m, k)
        BY <1>2, <2>2 DEF Allocated, StringRefs
      <3>3. /\ w \in Memories /\ w.faults = {}
            /\ \A j \in Args : w.elem[j] = IF j = k THEN 2 ELSE rc.elem[j]
            /\ \A j \in Args : w.str[j] = IF j = k THEN StringRefs(k, 2) ELSE rc.str[j]
        BY <1>2, <2>2, <3>1, <3>2 DEF Memories, StringRefs, EP!IsNumeral
      <3>4. Allocated(w, k)
        BY <1>2, <3>3 DEF Allocated, StringRefs
      <3>5. rc' = Released(w, {k}) /\ rc' \in Memories
        BY <1>1, <1>2, <2>4, <3>3, FreeIs DEF EP!list_add_element, w
      <3>6. ElemLeft(w, k) = 1 /\ StrLeft(w, k) = StringRefs(k, 1)
        BY <1>2, <2>4, <3>3 DEF ElemLeft, StrLeft, StringRefs, EP!IsNumeral
      <3> QED BY <3>3, <3>4, <3>5, <3>6 DEF Released
    <2> QED BY <2>3, <2>4
  <1>8. ProgramTypes'
    BY <1>1, <1>2, <1>3, <1>4, <1>7 DEF ProgramsInv, ProgramTypes, Memories
  <1>9. ProgramPhases'
    <2>1. IF EP!Sorting' THEN done'.phase \in {"read", "sort", "print sorted", "done"}
          ELSE done'.phase \notin {"sort", "print sorted"}
      BY <1>3
    <2>2. ToSet(list') \subseteq 1..done'.steps
      BY <1>1, <1>2, <1>3, <1>4 DEF k
    <2> QED BY <1>2, <1>3, <2>1, <2>2 DEF ProgramPhases, EP!At
  <1>10. MemoryRight'
    BY <1>1, <1>2, <1>3, <1>5, <1>6, <1>7 DEF MemoryRight, EP!At, EP!Owned
  <1> QED BY <1>8, <1>9, <1>10 DEF ProgramsInv

LEMMA EndKeepsPrograms == ProgramsInv /\ EP!EndOfArguments => ProgramsInv'
  <1> SUFFICES ASSUME ProgramsInv, EP!EndOfArguments PROVE ProgramsInv'
    OBVIOUS
  <1>1. /\ done.phase = "read" /\ UNCHANGED <<version, argv, list, nodes, rc>>
        /\ done' = [phase |-> IF EP!Sorting THEN "sort" ELSE "insert", steps |-> 0]
    BY DEF EP!EndOfArguments, EP!At, EP!GoTo
  <1>2. /\ Args' = Args /\ Memories' = Memories /\ EP!TreeElements' = EP!TreeElements
        /\ EP!Owned' = EP!Owned /\ EP!Sorting' = EP!Sorting
        /\ \A k, c : StringRefs(k, c)' = StringRefs(k, c)
    BY <1>1, SamePlaces
  <1>3. \A k : RefsTo(k)' = RefsTo(k)
    BY <1>1, <1>2 DEF RefsTo, EP!At
  <1>4. EP!TreeElements = {} /\ Len(list) \in Nat
    BY <1>1 DEF ProgramsInv, ProgramTypes, ProgramPhases, EP!At
  <1>5. done' \in [phase : Phases, steps : Nat]
    BY <1>1 DEF Phases
  <1>6. ProgramTypes'
    BY <1>1, <1>2, <1>5 DEF ProgramsInv, ProgramTypes
  <1>7. ProgramPhases'
    BY <1>1, <1>2, <1>4 DEF ProgramPhases, EP!At
  <1>8. MemoryRight'
    BY <1>1, <1>2, <1>3 DEF ProgramsInv, MemoryRight, EP!At
  <1> QED BY <1>6, <1>7, <1>8 DEF ProgramsInv

LEMMA IncludeKeepsPrograms == ProgramsInv /\ EP!includeElement => ProgramsInv'
  <1> SUFFICES ASSUME ProgramsInv, EP!includeElement PROVE ProgramsInv'
    OBVIOUS
  <1>0. PICK k : k = list[done.steps + 1]
    OBVIOUS
  <1> DEFINE T == EP!TreeElements
  <1>1. /\ done.phase = "insert" /\ done.steps < Len(list) /\ done.steps \in Nat
        /\ UNCHANGED <<version, argv, list>>
        /\ done' = [done EXCEPT !.steps = @ + 1]
    BY DEF EP!includeElement, EP!At, EP!Again, ProgramsInv, ProgramTypes
  <1>2. /\ Len(list) \in Nat /\ list \in Seq(Args) /\ IsInjective(list)
        /\ DOMAIN list = 1..Len(list)
    BY DEF ProgramsInv, ProgramTypes
  <1>3. /\ k \in Args /\ k \in ToSet(list) /\ k \notin FirstOf(list, done.steps)
        /\ FirstOf(list, done.steps + 1) = FirstOf(list, done.steps) \cup {k}
    BY <1>0, <1>1, <1>2 DEF ToSet, FirstOf, IsInjective
  <1>4. T \subseteq FirstOf(list, done.steps) /\ T \in SUBSET Args /\ k \notin T
    BY <1>1, <1>3 DEF ProgramsInv, ProgramTypes, ProgramPhases, EP!At
  <1>5. /\ Args' = Args /\ Memories' = Memories
        /\ EP!Owned' = EP!Owned /\ EP!Sorting' = EP!Sorting /\ ~EP!Sorting
        /\ \A j, c : StringRefs(j, c)' = StringRefs(j, c)
    BY <1>1 DEF Args, Memories, EP!Owned, EP!Sorting, StringRefs, EP!IsNumeral,
                ProgramsInv, ProgramPhases
  <1>6. /\ done' \in [phase : Phases, steps : Nat]
        /\ done'.phase = "insert" /\ done'.steps = done.steps + 1
    BY <1>1 DEF ProgramsInv, ProgramTypes
  <1>7. /\ rc \in Memories /\ rc.faults = {}
        /\ \A j \in Args : rc.elem[j] = RefsTo(j) /\ rc.str[j] = StringRefs(j, RefsTo(j))
    BY <1>1 DEF ProgramsInv, ProgramTypes, MemoryRight, EP!At
  <1> HIDE DEF T
  <1>8. CASE UNCHANGED <<nodes, rc>>
    <2>1. EP!TreeElements' = EP!TreeElements
      BY <1>8 DEF EP!TreeElements
    <2>2. \A j : RefsTo(j)' = RefsTo(j)
      BY <1>1, <1>5, <1>6, <2>1 DEF RefsTo, EP!At
    <2>3. ProgramTypes'
      BY <1>1, <1>5, <1>6, <1>8, <2>1 DEF ProgramsInv, ProgramTypes
    <2>4. ProgramPhases'
      <3>1. EP!TreeElements' \subseteq FirstOf(list', done'.steps)
        BY <1>1, <1>3, <1>4, <1>6, <2>1 DEF T
      <3>2. done'.steps <= Len(list')
        BY <1>1, <1>2, <1>6
      <3> QED BY <1>5, <1>6, <3>1, <3>2 DEF ProgramPhases, EP!At
    <2>5. MemoryRight'
      BY <1>5, <1>6, <1>7, <1>8, <2>2 DEF MemoryRight, EP!At
    <2> QED BY <2>3, <2>4, <2>5 DEF ProgramsInv
  <1>9. CASE /\ rc' = EP!element_keep_ref(rc, k)
             /\ \E p : /\ p \notin DOMAIN nodes
                      /\ nodes' = [q \in DOMAIN nodes \cup {p} |->
                                     IF q = p THEN k ELSE nodes[q]]
    <2>1. EP!TreeElements' = T \cup {k}
      <3>1. PICK p : /\ p \notin DOMAIN nodes
                     /\ nodes' = [q \in DOMAIN nodes \cup {p} |->
                                    IF q = p THEN k ELSE nodes[q]]
        BY <1>9
      <3>2. /\ DOMAIN nodes' = DOMAIN nodes \cup {p} /\ nodes'[p] = k
            /\ \A q \in DOMAIN nodes : nodes'[q] = nodes[q]
        BY <3>1
      <3> QED BY <3>2 DEF EP!TreeElements, T
    <2>2. \A j \in Args : RefsTo(j)' = IF j = k /\ ~EP!Owned THEN RefsTo(j) + 1 ELSE RefsTo(j)
      <3> SUFFICES ASSUME NEW j \in Args
          PROVE  RefsTo(j)' = IF j = k /\ ~EP!Owned THEN RefsTo(j) + 1 ELSE RefsTo(j)
        OBVIOUS
      <3>1. /\ RefsTo(j) = (IF j \in ToSet(list) THEN 1 ELSE 0)
                            + (IF j \in T /\ ~EP!Owned THEN 1 ELSE 0)
            /\ RefsTo(j)' = (IF j \in ToSet(list) THEN 1 ELSE 0)
                             + (IF j \in T \cup {k} /\ ~EP!Owned THEN 1 ELSE 0)
        BY <1>1, <1>5, <1>6, <2>1 DEF RefsTo, T
      <3> QED BY <1>4, <3>1
    <2>3. RefsTo(k) = 1
      BY <1>3, <1>4, <1>5 DEF RefsTo, T
    <2>4. Allocated(rc, k)
      BY <1>3, <2>3, RefsAllocate DEF ProgramsInv
    <2>5. /\ rc' \in Memories /\ rc'.faults = {}
          /\ \A j \in Args : /\ rc'.elem[j] = RefsTo(j)'
                              /\ rc'.str[j] = StringRefs(j, RefsTo(j)')
      <3>1. CASE EP!Owned
        <4>1. rc' = EP!Use(rc, k)
          BY <1>9, <3>1 DEF EP!element_keep_ref
        <4>2. /\ rc' \in Memories /\ rc'.elem = rc.elem /\ rc'.str = rc.str
              /\ rc'.faults = {}
          BY <1>3, <1>7, <2>4, <4>1, UseIs
        <4> QED BY <1>7, <2>2, <3>1, <4>2
      <3>2. CASE ~EP!Owned
        <4>1. rc' = [elem |-> [rc.elem EXCEPT ![k] = rc.elem[k] + 1],
                     str |-> [rc.str EXCEPT ![k] = IF version = "soln-4" THEN rc.str[k] + 1
                                                   ELSE rc.str[k]],
                     faults |-> rc.faults \cup {j \in {k} : ~Allocated(rc, j)}]
          BY <1>3, <1>7, <1>9, <3>2, KeepIs
        <4>2. /\ rc' \in Memories /\ rc'.faults = {}
              /\ \A j \in Args : j # k => rc'.elem[j] = rc.elem[j] /\ rc'.str[j] = rc.str[j]
              /\ rc'.elem[k] = rc.elem[k] + 1
              /\ rc'.str[k] = IF version = "soln-4" THEN rc.str[k] + 1 ELSE rc.str[k]
          BY <1>3, <1>7, <2>4, <4>1 DEF Memories
        <4>3. rc.elem[k] = 1 /\ rc.str[k] = StringRefs(k, 1) /\ RefsTo(k)' = 2
          BY <1>3, <1>7, <2>2, <2>3, <3>2
        <4>4. rc'.elem[k] = 2 /\ rc'.str[k] = StringRefs(k, 2)
          BY <4>2, <4>3 DEF StringRefs, EP!IsNumeral
        <4> QED BY <1>7, <2>2, <4>2, <4>3, <4>4
      <3> QED BY <3>1, <3>2
    <2>6. ProgramTypes'
      BY <1>1, <1>3, <1>4, <1>5, <1>6, <2>1, <2>5 DEF ProgramsInv, ProgramTypes
    <2>7. ProgramPhases'
      <3>1. EP!TreeElements' \subseteq FirstOf(list', done'.steps)
        BY <1>1, <1>3, <1>4, <1>6, <2>1
      <3>2. done'.steps <= Len(list')
        BY <1>1, <1>2, <1>6
      <3> QED BY <1>5, <1>6, <3>1, <3>2 DEF ProgramPhases, EP!At
    <2>8. MemoryRight'
      BY <1>5, <1>6, <2>5 DEF MemoryRight, EP!At
    <2> QED BY <2>6, <2>7, <2>8 DEF ProgramsInv
  <1> QED BY <1>0, <1>8, <1>9 DEF EP!includeElement, EP!Place

LEMMA JoinedHas ==
    ASSUME NEW S, NEW a \in Seq(S), NEW b \in Seq(S)
    PROVE  a \o b \in Seq(S) /\ ToSet(a \o b) = ToSet(a) \cup ToSet(b)
  <1> DEFINE s == a \o b
             m == Len(a)
             n == Len(b)
  <1>1. /\ m \in Nat /\ n \in Nat /\ DOMAIN a = 1..m /\ DOMAIN b = 1..n
    BY LenProperties
  <1>2. /\ s \in Seq(S) /\ Len(s) = m + n
        /\ \A k \in 1..m + n : s[k] = IF k <= m THEN a[k] ELSE b[k - m]
    BY JoinedSequence
  <1>3. DOMAIN s = 1..m + n
    BY <1>2, LenProperties
  <1> HIDE DEF s, m, n
  <1>4. ASSUME NEW k \in 1..m + n PROVE s[k] \in ToSet(a) \cup ToSet(b)
    <2>1. k <= m \/ k - m \in 1..n
      BY <1>1
    <2>2. k <= m => k \in DOMAIN a /\ s[k] = a[k]
      BY <1>1, <1>2
    <2>3. ~(k <= m) => k - m \in DOMAIN b /\ s[k] = b[k - m]
      BY <1>1, <1>2
    <2> QED BY <2>2, <2>3 DEF ToSet
  <1>5. ASSUME NEW k \in 1..m PROVE a[k] \in ToSet(s)
    <2>1. k \in 1..m + n /\ k <= m
      BY <1>1
    <2> QED BY <1>2, <1>3, <2>1 DEF ToSet
  <1>6. ASSUME NEW k \in 1..n PROVE b[k] \in ToSet(s)
    <2>1. m + k \in 1..m + n /\ ~(m + k <= m) /\ (m + k) - m = k
      BY <1>1
    <2>2. s[m + k] = b[k]
      BY <1>2, <2>1
    <2> QED BY <1>3, <2>1, <2>2 DEF ToSet
  <1>7. ToSet(s) = ToSet(a) \cup ToSet(b)
    BY <1>1, <1>3, <1>4, <1>5, <1>6 DEF ToSet
  <1> QED BY <1>2, <1>7 DEF s

LEMMA FunctionsAreSequences ==
    ASSUME NEW S
    PROVE  /\ \A n \in Nat : \A f \in [1..n -> S] : f \in Seq(S)
           /\ \A s \in Seq(S) : Len(s) \in Nat /\ s \in [1..Len(s) -> S]
  OBVIOUS

\* Where the references are.
LEMMA RefsAre ==
    ASSUME ~(EP!Sorting /\ EP!At("done")), NEW k
    PROVE  /\ RefsTo(k) \in Nat
           /\ k \in ToSet(list) => RefsTo(k) > 0
           /\ k \in EP!TreeElements /\ ~EP!Owned => RefsTo(k) > 0
           /\ k \notin ToSet(list) /\ (k \notin EP!TreeElements \/ EP!Owned) => RefsTo(k) = 0
  <1>1. CASE k \in ToSet(list)
    BY <1>1 DEF RefsTo
  <1>2. CASE k \notin ToSet(list)
    <2>1. CASE k \in EP!TreeElements /\ ~EP!Owned
      BY <1>2, <2>1 DEF RefsTo
    <2>2. CASE ~(k \in EP!TreeElements /\ ~EP!Owned)
      BY <1>2, <2>2 DEF RefsTo
    <2> QED BY <2>1, <2>2
  <1> QED BY <1>1, <1>2

LEMMA ArgsFinite == ProgramTypes => IsFiniteSet(Args)
  <1> SUFFICES ASSUME ProgramTypes PROVE IsFiniteSet(Args)
    OBVIOUS
  <1>1. PICK n \in Nat : Args = 1..n
    BY DEF ProgramTypes
  <1>2. IsFiniteSet(1..n)
    BY FS_Interval
  <1> QED BY <1>1, <1>2

LEMMA PrintKeepsPrograms ==
    ProgramsInv /\ (\/ EP!tree_ordered_print("insert", "delete list")
                    \/ EP!tree_ordered_print("print again", "delete tree"))
      => ProgramsInv'
  <1> SUFFICES ASSUME ProgramsInv,
                      NEW phase, NEW next_, EP!tree_ordered_print(phase, next_),
                      \/ phase = "insert" /\ next_ = "delete list"
                      \/ phase = "print again" /\ next_ = "delete tree"
               PROVE  ProgramsInv'
    OBVIOUS
  <1> DEFINE T == EP!TreeElements
             a == EP!SetToSeq(T)
             b == IF version = "soln-9" THEN list ELSE <<>>
             s == a \o b
  <1>1. /\ done.phase = phase /\ (phase = "insert" => done.steps = Len(list))
        /\ rc' = EP!FoldLeft(EP!Use, rc, s)
        /\ done' = [phase |-> next_, steps |-> 0]
        /\ UNCHANGED <<version, argv, list, nodes>>
    BY DEF EP!tree_ordered_print, EP!At, EP!GoTo
  <1>2. /\ Args' = Args /\ Memories' = Memories /\ EP!TreeElements' = T
        /\ EP!Owned' = EP!Owned /\ EP!Sorting' = EP!Sorting
        /\ \A k, c : StringRefs(k, c)' = StringRefs(k, c)
    BY <1>1, SamePlaces
  <1>3. ~EP!Sorting
    BY <1>1 DEF ProgramsInv, ProgramPhases
  <1>4. \A k : RefsTo(k)' = RefsTo(k)
    BY <1>1, <1>2, <1>3 DEF RefsTo
  <1>5. /\ T \in SUBSET Args /\ list \in Seq(Args) /\ Len(list) \in Nat
        /\ DOMAIN list = 1..Len(list) /\ rc \in Memories /\ rc.faults = {}
    <2>1. T \in SUBSET Args /\ list \in Seq(Args) /\ rc \in Memories
      BY DEF ProgramsInv, ProgramTypes
    <2>2. rc.faults = {}
      BY <1>1 DEF ProgramsInv, MemoryRight, EP!At
    <2> QED BY <2>1, <2>2, LenProperties
  <1> DEFINE U == T \cup ToSet(b)
  <1>6. PICK n \in Nat : s \in [1..n -> Args] /\ ToSet(s) = U
    <2>1. IsFiniteSet(T)
      <3>1. IsFiniteSet(Args)
        BY ArgsFinite DEF ProgramsInv
      <3> QED BY <1>5, <3>1, FS_Subset
    <2>2. a \in [1..Cardinality(T) -> T] /\ Cardinality(T) \in Nat /\ ToSet(a) = T
      BY <2>1, ListsWhole
    <2>3. a \in Seq(Args)
      <3> HIDE DEF a, T
      <3>1. a \in [1..Cardinality(T) -> Args]
        BY <1>5, <2>2
      <3> QED BY <2>2, <3>1, FunctionsAreSequences
    <2>4. b \in Seq(Args)
      BY <1>5, EmptyQueue
    <2> HIDE DEF a, b
    <2>5. s \in Seq(Args) /\ ToSet(s) = ToSet(a) \cup ToSet(b)
      BY <2>3, <2>4, JoinedHas
    <2> HIDE DEF s
    <2>6. Len(s) \in Nat /\ s \in [1..Len(s) -> Args]
      BY <2>5, FunctionsAreSequences
    <2> QED BY <2>2, <2>5, <2>6
  <1>7. rc' = Used(rc, U)
    <2> HIDE DEF s, U
    <2> QED BY <1>1, <1>5, <1>6, UsesAll
  <1>8. U \in SUBSET Args
    BY <1>5, QueueElements, EmptyQueue
  <1> HIDE DEF s, a
  <1>9. /\ rc' \in Memories /\ rc'.elem = rc.elem /\ rc'.str = rc.str
        /\ rc'.faults = IF next_ = "delete tree" /\ EP!Owned THEN T ELSE {}
    <2>1. CASE EP!Owned /\ phase = "print again"
      <3>1. list = <<>> /\ U = T
        <4>1. b = <<>>
          BY <2>1 DEF EP!Owned
        <4>2. ToSet(b) = {}
          BY <4>1, EmptyQueue
        <4> QED BY <1>1, <2>1, <4>2 DEF ProgramsInv, ProgramPhases
      <3>2. \A k \in T : RefsTo(k) = 0
        <4>1. \A k : k \notin ToSet(list)
          BY <3>1, EmptyQueue
        <4> QED BY <1>3, <2>1, <4>1, RefsAre
      <3>3. \A k \in T : ~Allocated(rc, k)
        <4> SUFFICES ASSUME NEW k \in T PROVE ~Allocated(rc, k)
          OBVIOUS
        <4>1. k \in Args /\ RefsTo(k) = 0
          BY <1>5, <3>2
        <4> QED BY <4>1, RefsAllocate DEF ProgramsInv
      <3> HIDE DEF U, T
      <3>4. rc' = [rc EXCEPT !.faults = T]
        <4>1. rc.faults \cup {k \in T : ~Allocated(rc, k)} = T
          BY <1>5, <3>3
        <4> QED BY <1>7, <3>1, <4>1 DEF Used
      <3> QED BY <1>5, <2>1, <3>4 DEF Memories
    <2>2. CASE ~(EP!Owned /\ phase = "print again")
      <3>1. \A k \in ToSet(b) : k \in ToSet(list)
        BY EmptyQueue
      <3>2. EP!Owned => T \subseteq ToSet(list)
        BY <1>1, <1>5, <2>2 DEF ProgramsInv, ProgramPhases, EP!At, FirstOf, ToSet
      <3>3. \A k \in U : RefsTo(k) > 0
        <4>1. \A k \in U : k \in ToSet(list) \/ (k \in T /\ ~EP!Owned)
          BY <3>1, <3>2
        <4> QED BY <1>3, <4>1, RefsAre
      <3> HIDE DEF U, T
      <3>4. rc' = rc
        BY <1>7, <1>8, <3>3, UseOfAllocated DEF ProgramsInv
      <3> QED BY <1>5, <2>2, <3>4
    <2> QED BY <2>1, <2>2
  <1> HIDE DEF T, U, b
  <1>10. ProgramTypes'
    <2>1. done' \in [phase : Phases, steps : Nat]
      BY <1>1 DEF Phases
    <2> QED BY <1>1, <1>2, <1>9, <2>1 DEF ProgramsInv, ProgramTypes, T
  <1>11. ProgramPhases'
    <2>1. phase = "print again" => list = <<>>
      BY <1>1 DEF ProgramsInv, ProgramPhases
    <2>2. done'.phase = next_
      BY <1>1
    <2> QED BY <1>1, <1>2, <1>3, <2>1, <2>2 DEF ProgramPhases, EP!At
  <1>12. MemoryRight'
    <2>1. \A k \in Args : rc.elem[k] = RefsTo(k) /\ rc.str[k] = StringRefs(k, RefsTo(k))
      BY DEF ProgramsInv, MemoryRight
    <2>2. done'.phase = next_
      BY <1>1
    <2> QED BY <1>2, <1>4, <1>9, <2>1, <2>2 DEF MemoryRight, EP!At
  <1> QED BY <1>10, <1>11, <1>12 DEF ProgramsInv

\* The state after all of T was released.
LEMMA AfterRelease ==
    ASSUME ProgramsInv, UNCHANGED <<version, argv>>, NEW T \in SUBSET Args,
           \A k \in T : RefsTo(k) > 0,
           rc' = Released(rc, T),
           \A k \in Args : RefsTo(k)' = IF k \notin T THEN RefsTo(k)
                                        ELSE IF EP!Owned THEN 0 ELSE RefsTo(k) - 1,
           rc.faults = {}, ~EP!At("delete tree")'
    PROVE  rc' \in Memories /\ MemoryRight'
  <1> DEFINE m == Released(rc, T)
  <1>1. /\ m \in Memories
        /\ \A k \in Args :
             /\ m.elem[k] = IF k \notin T THEN RefsTo(k)
                            ELSE IF EP!Owned THEN 0 ELSE RefsTo(k) - 1
             /\ m.str[k] = StringRefs(k, m.elem[k])
        /\ (\A k \in T : RefsTo(k) > 0) => m.faults = rc.faults
    BY ReleaseOfAllocated DEF ProgramsInv
  <1>2. /\ Args' = Args /\ EP!Owned' = EP!Owned
        /\ \A k, c : StringRefs(k, c)' = StringRefs(k, c)
    BY DEF Args, EP!Owned, StringRefs, EP!IsNumeral
  <1> HIDE DEF m
  <1>3. rc' = m
    BY DEF m
  <1>4. \A k \in Args : rc'.elem[k] = RefsTo(k)' /\ rc'.str[k] = StringRefs(k, RefsTo(k)')
    BY <1>1, <1>3
  <1>5. rc'.faults = {}
    BY <1>1, <1>3
  <1> QED BY <1>1, <1>2, <1>3, <1>4, <1>5 DEF MemoryRight

LEMMA DeleteListKeepsPrograms == ProgramsInv /\ EP!list_delete => ProgramsInv'
  <1> SUFFICES ASSUME ProgramsInv, EP!list_delete PROVE ProgramsInv'
    OBVIOUS
  <1>1. /\ done.phase = "delete list" /\ list' = <<>>
        /\ rc' = EP!FoldLeft(EP!list_delete_element, rc, list)
        /\ done' = [phase |-> "print again", steps |-> 0]
        /\ UNCHANGED <<version, argv, nodes>>
    BY DEF EP!list_delete, EP!At, EP!GoTo
  <1>2. /\ Args' = Args /\ Memories' = Memories /\ EP!TreeElements' = EP!TreeElements
        /\ EP!Owned' = EP!Owned /\ EP!Sorting' = EP!Sorting
    BY <1>1, SamePlaces
  <1>3. /\ ~EP!Sorting /\ list \in Seq(Args) /\ IsInjective(list) /\ rc \in Memories
        /\ rc.faults = {} /\ EP!TreeElements \in SUBSET Args
    BY <1>1 DEF ProgramsInv, ProgramTypes, ProgramPhases, MemoryRight, EP!At
  <1>4. list' \in Seq(Args) /\ IsInjective(list') /\ ToSet(list') = {}
    BY <1>1, EmptyQueue
  <1>5. ToSet(list) \in SUBSET Args
    BY <1>3, QueueElements
  <1>6. rc' = Released(rc, ToSet(list))
    <2>1. Len(list) \in Nat /\ list \in [1..Len(list) -> Args]
      BY <1>3, FunctionsAreSequences
    <2> QED BY <1>1, <1>3, <2>1, ReleasesAll
  <1>7. \A k \in ToSet(list) : RefsTo(k) > 0
    BY <1>3, RefsAre
  <1>8. ASSUME NEW k \in Args
        PROVE  RefsTo(k)' = IF k \notin ToSet(list) THEN RefsTo(k)
                            ELSE IF EP!Owned THEN 0 ELSE RefsTo(k) - 1
    <2> DEFINE t == IF k \in EP!TreeElements /\ ~EP!Owned THEN 1 ELSE 0
    <2>1. RefsTo(k) = (IF k \in ToSet(list) THEN 1 ELSE 0) + t
      BY <1>3 DEF RefsTo
    <2>2. RefsTo(k)' = 0 + t
      BY <1>2, <1>3, <1>4 DEF RefsTo
    <2>3. t \in Nat /\ (EP!Owned => t = 0)
      OBVIOUS
    <2> HIDE DEF t
    <2> QED BY <2>1, <2>2, <2>3
  <1>9. rc' \in Memories /\ MemoryRight'
    <2>1. ~EP!At("delete tree")'
      BY <1>1 DEF EP!At
    <2> QED BY <1>1, <1>3, <1>5, <1>6, <1>7, <1>8, <2>1, AfterRelease
  <1>10. ProgramTypes'
    <2>1. done' \in [phase : Phases, steps : Nat]
      BY <1>1 DEF Phases
    <2> QED BY <1>1, <1>2, <1>3, <1>4, <1>9, <2>1 DEF ProgramsInv, ProgramTypes
  <1>11. ProgramPhases'
    BY <1>1, <1>2, <1>3 DEF ProgramPhases, EP!At
  <1> QED BY <1>9, <1>10, <1>11 DEF ProgramsInv

LEMMA DeleteTreeKeepsPrograms == ProgramsInv /\ EP!tree_delete => ProgramsInv'
  <1> SUFFICES ASSUME ProgramsInv, EP!tree_delete PROVE ProgramsInv'
    OBVIOUS
  <1> DEFINE T == EP!TreeElements
  <1>1. /\ done.phase = "delete tree" /\ nodes' = <<>>
        /\ rc' = EP!FoldLeft(EP!element_free_ref, rc, EP!SetToSeq(T))
        /\ done' = [phase |-> "done", steps |-> 0]
        /\ UNCHANGED <<version, argv, list>>
    BY DEF EP!tree_delete, EP!At, EP!GoTo
  <1>2. /\ Args' = Args /\ Memories' = Memories /\ EP!TreeElements' = {}
        /\ EP!Owned' = EP!Owned /\ EP!Sorting' = EP!Sorting
    <2>1. EP!TreeElements' = {}
      <3>1. DOMAIN nodes' = {}
        <4>1. nodes' = <<>>
          BY <1>1
        <4>2. DOMAIN <<>> = {}
          OBVIOUS
        <4> QED BY <4>1, <4>2
      <3> QED BY <3>1 DEF EP!TreeElements
    <2> QED BY <1>1, <2>1 DEF Args, Memories, EP!Owned, EP!Sorting
  <1>3. /\ ~EP!Sorting /\ list = <<>> /\ rc \in Memories /\ T \in SUBSET Args
        /\ ~EP!Owned => rc.faults = {}
    BY <1>1 DEF ProgramsInv, ProgramTypes, ProgramPhases, MemoryRight
  <1>4. \A k : k \notin ToSet(list) /\ k \notin ToSet(list')
    BY <1>1, <1>3, EmptyQueue
  <1>5. rc' = Released(rc, T)
    <2>1. IsFiniteSet(T)
      <3>1. IsFiniteSet(Args)
        BY ArgsFinite DEF ProgramsInv
      <3> QED BY <1>3, <3>1, FS_Subset
    <2> DEFINE a == EP!SetToSeq(T)
    <2>2. /\ a \in [1..Cardinality(T) -> T] /\ Cardinality(T) \in Nat
          /\ ToSet(a) = T /\ IsInjective(a)
      BY <2>1, ListsWhole
    <2> HIDE DEF a, T
    <2>3. a \in [1..Cardinality(T) -> Args]
      BY <1>3, <2>2
    <2> QED BY <1>1, <1>3, <2>2, <2>3, ReleasesAll DEF a
  <1>6. ~EP!Owned => \A k \in T : RefsTo(k) > 0
    BY <1>3, RefsAre
  <1>7. ASSUME NEW k \in Args
        PROVE  RefsTo(k)' = IF k \notin T THEN RefsTo(k)
                            ELSE IF EP!Owned THEN 0 ELSE RefsTo(k) - 1
    <2>1. RefsTo(k) = 0 + (IF k \in T /\ ~EP!Owned THEN 1 ELSE 0)
      BY <1>3, <1>4 DEF RefsTo
    <2>2. RefsTo(k)' = 0 + 0
      BY <1>2, <1>3, <1>4 DEF RefsTo
    <2> QED BY <2>1, <2>2
  <1> DEFINE m == Released(rc, T)
  <1>8. /\ m \in Memories
        /\ \A k \in Args :
             /\ m.elem[k] = IF k \notin T THEN RefsTo(k)
                            ELSE IF EP!Owned THEN 0 ELSE RefsTo(k) - 1
             /\ m.str[k] = StringRefs(k, m.elem[k])
        /\ (\A k \in T : RefsTo(k) > 0) => m.faults = rc.faults
    <2> HIDE DEF T
    <2> QED BY <1>3, <1>6, ReleaseOfAllocated DEF ProgramsInv
  <1> HIDE DEF m, T
  <1>9. rc' = m /\ (~EP!Owned => rc'.faults = {})
    BY <1>3, <1>5, <1>6, <1>8 DEF m
  <1>10. \A k, c : StringRefs(k, c)' = StringRefs(k, c)
    BY <1>1 DEF StringRefs, EP!IsNumeral
  <1>11. MemoryRight'
    <2>1. \A k \in Args : rc'.elem[k] = RefsTo(k)' /\ rc'.str[k] = StringRefs(k, RefsTo(k)')
      BY <1>7, <1>8, <1>9
    <2> QED BY <1>1, <1>2, <1>9, <1>10, <2>1 DEF MemoryRight, EP!At
  <1>12. ProgramTypes'
    <2>1. done' \in [phase : Phases, steps : Nat]
      BY <1>1 DEF Phases
    <2> QED BY <1>1, <1>2, <1>8, <1>9, <2>1 DEF ProgramsInv, ProgramTypes
  <1>13. ProgramPhases'
    BY <1>1, <1>2, <1>3 DEF ProgramPhases, EP!At
  <1> QED BY <1>11, <1>12, <1>13 DEF ProgramsInv

LEMMA SortKeepsPrograms == ProgramsInv /\ EP!qsort => ProgramsInv'
  <1> SUFFICES ASSUME ProgramsInv, EP!qsort PROVE ProgramsInv'
    OBVIOUS
  <1>1. /\ done.phase = "sort" /\ list' \in EP!SetToSeqs(ToSet(list))
        /\ done' = [phase |-> "print sorted", steps |-> 0]
        /\ UNCHANGED <<version, argv, nodes, rc>>
    BY DEF EP!qsort, EP!At, EP!GoTo, EP!ToSet, ToSet
  <1>2. /\ Args' = Args /\ Memories' = Memories /\ EP!TreeElements' = EP!TreeElements
        /\ EP!Owned' = EP!Owned /\ EP!Sorting' = EP!Sorting
        /\ \A k, c : StringRefs(k, c)' = StringRefs(k, c)
    BY <1>1, SamePlaces
  <1>3. EP!Sorting /\ EP!TreeElements = {} /\ list \in Seq(Args)
    BY <1>1 DEF ProgramsInv, ProgramTypes, ProgramPhases
  <1> DEFINE S == ToSet(list)
  <1>4. IsFiniteSet(S) /\ S \in SUBSET Args
    <2>1. S \in SUBSET Args
      BY <1>3, QueueElements
    <2>2. IsFiniteSet(Args)
      BY ArgsFinite DEF ProgramsInv
    <2> QED BY <2>1, <2>2, FS_Subset
  <1>5. list' \in [1..Cardinality(S) -> S] /\ IsInjective(list')
    BY <1>1 DEF EP!SetToSeqs, EP!Cardinality, Cardinality, EP!IsFiniteSet, IsFiniteSet, IsInjective
  <1> HIDE DEF S
  <1>6. ToSet(list') = S /\ list' \in Seq(Args)
    <2> DEFINE f == list'
    <2> HIDE DEF f
    <2>1. f \in [1..Cardinality(S) -> S] /\ IsInjective(f)
      BY <1>5 DEF f
    <2>2. ToSet(f) = S /\ Cardinality(S) \in Nat
      BY <1>4, <2>1, InjectionCovers, FS_CardinalityType
    <2>3. f \in [1..Cardinality(S) -> Args]
      BY <1>4, <2>1
    <2> QED BY <2>2, <2>3, FunctionsAreSequences DEF f
  <1>7. \A k : RefsTo(k)' = RefsTo(k)
    BY <1>1, <1>2, <1>6 DEF RefsTo, EP!At, S
  <1>8. ProgramTypes'
    <2>1. done' \in [phase : Phases, steps : Nat]
      BY <1>1 DEF Phases
    <2> QED BY <1>1, <1>2, <1>5, <1>6, <2>1 DEF ProgramsInv, ProgramTypes
  <1>9. ProgramPhases'
    BY <1>1, <1>2, <1>3 DEF ProgramPhases, EP!At
  <1>10. MemoryRight'
    <2>1. ~EP!Owned
      BY <1>3 DEF EP!Sorting, EP!Owned
    <2> QED BY <1>1, <1>2, <1>7, <2>1 DEF ProgramsInv, MemoryRight
  <1> QED BY <1>8, <1>9, <1>10 DEF ProgramsInv

LEMMA FreeSortedKeepsPrograms == ProgramsInv /\ EP!FreeSorted => ProgramsInv'
  <1> SUFFICES ASSUME ProgramsInv, EP!FreeSorted PROVE ProgramsInv'
    OBVIOUS
  <1>1. /\ done.phase = "print sorted"
        /\ rc' = EP!FoldLeft(EP!element_free_ref, EP!FoldLeft(EP!Use, rc, list), list)
        /\ done' = [phase |-> "done", steps |-> 0]
        /\ UNCHANGED <<version, argv, list, nodes>>
    BY DEF EP!FreeSorted, EP!At, EP!GoTo
  <1>2. /\ Args' = Args /\ Memories' = Memories /\ EP!TreeElements' = EP!TreeElements
        /\ EP!Owned' = EP!Owned /\ EP!Sorting' = EP!Sorting
    BY <1>1, SamePlaces
  <1>3. /\ EP!Sorting /\ ~EP!Owned /\ ~EP!At("done") /\ EP!TreeElements = {}
        /\ list \in Seq(Args) /\ IsInjective(list) /\ rc \in Memories /\ rc.faults = {}
    BY <1>1 DEF ProgramsInv, ProgramTypes, ProgramPhases, MemoryRight, EP!At, EP!Sorting, EP!Owned
  <1>4. ToSet(list) \in SUBSET Args
    BY <1>3, QueueElements
  <1>5. \A k \in ToSet(list) : RefsTo(k) > 0
    BY <1>3, RefsAre
  <1>6. rc' = Released(rc, ToSet(list))
    <2>1. Len(list) \in Nat /\ list \in [1..Len(list) -> Args]
      BY <1>3, FunctionsAreSequences
    <2>2. EP!FoldLeft(EP!Use, rc, list) = Used(rc, ToSet(list))
      BY <1>3, <2>1, UsesAll
    <2>3. Used(rc, ToSet(list)) = rc
      BY <1>4, <1>5, UseOfAllocated DEF ProgramsInv
    <2> QED BY <1>1, <1>3, <2>1, <2>2, <2>3, ReleasesAll
  <1>7. ASSUME NEW k \in Args
        PROVE  RefsTo(k)' = IF k \notin ToSet(list) THEN RefsTo(k)
                            ELSE IF EP!Owned THEN 0 ELSE RefsTo(k) - 1
    <2>1. RefsTo(k) = IF k \in ToSet(list) THEN 1 ELSE 0
      BY <1>3 DEF RefsTo
    <2>2. RefsTo(k)' = 0
      BY <1>1, <1>2, <1>3 DEF RefsTo, EP!At
    <2> QED BY <1>3, <2>1, <2>2
  <1>8. rc' \in Memories /\ MemoryRight'
    <2>1. ~EP!At("delete tree")'
      BY <1>1 DEF EP!At
    <2> QED BY <1>1, <1>3, <1>4, <1>5, <1>6, <1>7, <2>1, AfterRelease
  <1>9. ProgramTypes'
    <2>1. done' \in [phase : Phases, steps : Nat]
      BY <1>1 DEF Phases
    <2> QED BY <1>1, <1>2, <1>3, <1>8, <2>1 DEF ProgramsInv, ProgramTypes
  <1>10. ProgramPhases'
    BY <1>1, <1>2, <1>3 DEF ProgramPhases, EP!At
  <1> QED BY <1>8, <1>9, <1>10 DEF ProgramsInv

LEMMA ProgramsStep ==
    ASSUME ProgramsInv, EP!ElementProgramsNext \/ UNCHANGED elementProgramVars
    PROVE  ProgramsInv'
  <1>1. CASE EP!ElementProgramsNext
    BY <1>1, AddKeepsPrograms, EndKeepsPrograms, IncludeKeepsPrograms, PrintKeepsPrograms,
       DeleteListKeepsPrograms, DeleteTreeKeepsPrograms, SortKeepsPrograms,
       FreeSortedKeepsPrograms DEF EP!ElementProgramsNext
  <1>2. CASE UNCHANGED elementProgramVars
    <2>1. UNCHANGED <<version, argv, done, list, nodes, rc>>
      BY <1>2 DEF elementProgramVars
    <2>2. /\ Args' = Args /\ Memories' = Memories /\ EP!TreeElements' = EP!TreeElements
          /\ EP!Owned' = EP!Owned /\ EP!Sorting' = EP!Sorting
          /\ \A k, c : StringRefs(k, c)' = StringRefs(k, c)
      BY <2>1, SamePlaces
    <2>3. \A k : RefsTo(k)' = RefsTo(k)
      BY <2>1, <2>2 DEF RefsTo, EP!At
    <2>4. ProgramTypes' /\ ProgramPhases'
      BY <2>1, <2>2 DEF ProgramsInv, ProgramTypes, ProgramPhases, EP!At
    <2>5. MemoryRight'
      BY <2>1, <2>2, <2>3 DEF ProgramsInv, MemoryRight, EP!At
    <2> QED BY <2>4, <2>5 DEF ProgramsInv
  <1> QED BY <1>1, <1>2

LEMMA ProgramsFree == ProgramsInv => EP!AllFreedOnce
  <1> SUFFICES ASSUME ProgramsInv PROVE EP!AllFreedOnce
    OBVIOUS
  <1>1. EP!Owned /\ ~EP!At("done") =>
          rc.faults = IF EP!At("delete tree") THEN EP!TreeElements ELSE {}
    BY DEF ProgramsInv, MemoryRight
  <1>2. ~EP!Owned => rc.faults = {}
    BY DEF ProgramsInv, MemoryRight
  <1>3. ASSUME ~EP!Owned, EP!At("done"), NEW k \in Args PROVE rc.elem[k] = 0 /\ rc.str[k] = 0
    <2>1. RefsTo(k) = 0
      <3>1. CASE EP!Sorting
        BY <1>3, <3>1 DEF RefsTo
      <3>2. CASE ~EP!Sorting
        <4>1. k \notin ToSet(list) /\ k \notin EP!TreeElements
          BY <1>3, <3>2, EmptyQueue DEF ProgramsInv, ProgramPhases
        <4> QED BY <3>2, <4>1, RefsAre
      <3> QED BY <3>1, <3>2
    <2>2. rc.elem[k] = RefsTo(k) /\ rc.str[k] = StringRefs(k, RefsTo(k))
      BY DEF ProgramsInv, MemoryRight
    <2> QED BY <2>1, <2>2 DEF StringRefs
  <1> QED BY <1>1, <1>2, <1>3 DEF EP!AllFreedOnce, Args
=============================================================================
