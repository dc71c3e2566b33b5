---------------------------- MODULE SequenceLists ---------------------------
(***************************************************************************)
(* What the comments of list.c promise: a list is a sequence of elements.  *)
(***************************************************************************)
EXTENDS Integers, FiniteSets, SequencesExt

CONSTANTS
    Names,       \* the variables that hold lists
    Items,       \* the elements
    Arrays,      \* the arrays that are appended
    MaxLen,      \* bound: the length of a list
    NoResult,
    equal(_, _), isEven(_), inc(_), plus(_, _)

VARIABLES seqs,    \* seqs[l]: the list in l, for the variables that hold one
          answer   \* what the last call returned, or gave to the function of foreach

\* The list in l becomes s, within the bounds.
Becomes(l, s) ==
    /\ Len(s) <= MaxLen /\ ToSet(s) \subseteq Items
    /\ seqs' = [seqs EXCEPT ![l] = s]
    /\ answer' = NoResult

\* The list in l is read.
Returns(a) == answer' = a /\ UNCHANGED seqs

IndexOf(s, e) ==
    LET found == {k \in DOMAIN s : equal(s[k], e)}
    IN  IF found = {} THEN -1 ELSE Min(found) - 1

Mapped(s) == [k \in DOMAIN s |-> inc(s[k])]

Zipped(s, t) ==
    [k \in DOMAIN s \cap DOMAIN t |-> plus(s[k], t[k])]

Folded(s) == FoldLeft(plus, 0, s)

Selected(s) == {k \in DOMAIN s : isEven(s[k])}

Nth(T, n) == CHOOSE k \in T : Cardinality({j \in T : j <= k}) = n

\* The even elements of s, in their order.
Filtered(s) == [n \in 1..Cardinality(Selected(s)) |-> s[Nth(Selected(s), n)]]

Modified(l, s) ==
    \/ \E e \in Items : Becomes(l, Append(s, e))
    \/ \E a \in Arrays : Becomes(l, s \o a)
    \/ \E k \in DOMAIN s :
         \/ Becomes(l, RemoveAt(s, k))
         \/ \E e \in Items : Becomes(l, InsertAt(s, k, e))

Read(s) ==
    \/ \E k \in DOMAIN s : Returns(<<s[k]>>)
    \/ \E e \in Items : Returns(<<IndexOf(s, e)>>)
    \/ Returns(<<Len(s)>>)
    \/ Returns(<<Folded(s)>>)
    \/ Returns(s)

Combined(out, in, in1) ==
    \/ Becomes(out, seqs[out] \o Mapped(seqs[in]))
    \/ Becomes(out, seqs[out] \o Filtered(seqs[in]))
    \/ Becomes(out, seqs[out] \o Zipped(seqs[in], seqs[in1]))

Existing == DOMAIN seqs

SequencesInit == seqs = <<>> /\ answer = NoResult

New(l) ==
    /\ seqs' = [c \in Existing \cup {l} |-> IF c = l THEN <<>> ELSE seqs[c]]
    /\ answer' = NoResult

Gone(l) == seqs' = Restrict(seqs, Existing \ {l}) /\ answer' = NoResult

SequencesNext ==
    \/ \E l \in Names \ Existing : New(l)
    \/ \E l \in Existing :
         \/ Gone(l)
         \/ Modified(l, seqs[l]) \/ Read(seqs[l])
         \/ \E in, in1 \in Existing \ {l} : Combined(l, in, in1)

SequencesSpec == SequencesInit /\ [][SequencesNext]_<<seqs, answer>>
=============================================================================
