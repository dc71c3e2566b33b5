------------------------------ MODULE ArrayList -----------------------------
(***************************************************************************)
(* Lists of numbers in the arrays of list.c, used in any way its comments  *)
(* allow, with the functions that code-8/q1/test.c gives to map, fold and  *)
(* filter.                                                                 *)
(***************************************************************************)
EXTENDS ListOps

CONSTANTS
    Names,       \* the variables of the client that hold lists
    Items,       \* the numbers
    Arrays,      \* the arrays that it appends
    MaxLen,      \* bound: the length of a list
    NoResult

ASSUME ClientAssumption ==
    /\ Items \subseteq Int /\ Garbage \notin Int
    /\ Arrays \subseteq Seq(Items) /\ MaxLen \in Nat

VARIABLES
    lists,       \* lists[l]: the list in variable l, for those that hold one
    returned     \* what the last call returned, or gave to the function of
                 \* list_foreach

arrayListVars == <<lists, returned>>

equal(a, b) == a = b
isEven(a) == a % 2 = 0
inc(a) == a + 1
plus(a, b) == a + b

ArrayListInit == lists = <<>> /\ returned = NoResult

Created == DOMAIN lists

Create(l) ==
    /\ l \notin Created
    /\ lists' = [c \in Created \cup {l} |-> IF c = l THEN list_create ELSE lists[c]]
    /\ returned' = NoResult

Destroy(l) ==
    /\ l \in Created
    /\ lists' = Restrict(lists, Created \ {l})
    /\ returned' = NoResult

\* The list in l is changed to new, within the bounds: an element that nobody
\* stored would be in it all the same.
Change(l, new) ==
    /\ l \in Created
    /\ new.len <= MaxLen /\ \A i \in 0..new.len - 1 : new.data[i] \in Items \cup {Garbage}
    /\ lists' = [lists EXCEPT ![l] = new]
    /\ returned' = NoResult

\* A call that changes no list.
Return(l, result) == l \in Created /\ returned' = result /\ UNCHANGED lists

\* The positions 0..len-1.
Positions(l) == IF l \in Created THEN 0..list_len(lists[l]) - 1 ELSE {}

OneList(l) ==
    \/ Create(l) \/ Destroy(l)
    \/ \E e \in Items : Change(l, list_append(lists[l], e))
    \/ \E a \in Arrays : Change(l, list_append_array(lists[l], a))
    \/ \E pos \in Positions(l) :
         \/ \E e \in Items : Change(l, list_insert(lists[l], pos, e))
         \/ Change(l, list_remove(lists[l], pos))
         \/ Return(l, <<list_get(lists[l], pos)>>)
    \/ \E e \in Items : Return(l, <<list_index(lists[l], e, equal)>>)
    \/ Return(l, <<list_len(lists[l])>>)
    \/ Return(l, <<list_foldl(plus, 0, lists[l])>>)
    \/ Return(l, list_foreach(lists[l]))

TwoLists(out, in) ==
    \/ Change(out, list_map1(inc, lists[out], lists[in]))
    \/ Change(out, list_filter(isEven, lists[out], lists[in]))
    \/ \E in1 \in Created \ {out} :
         Change(out, list_map2(plus, lists[out], lists[in], lists[in1]))

ArrayListNext ==
    \E l \in Names :
        OneList(l) \/ (l \in Created /\ \E in \in Created \ {l} : TwoLists(l, in))

ArrayListSpec == ArrayListInit /\ [][ArrayListNext]_arrayListVars
-----------------------------------------------------------------------------
\* The sequences that the lists stand for.
Contents == [l \in Created |-> list_foreach(lists[l])]

Sequences == INSTANCE SequenceLists WITH seqs <- Contents, answer <- returned

\* The arrays implement sequences: whatever is appended, inserted, removed,
\* mapped, folded or filtered, across every growth of an array, a list holds
\* and returns what its comments say, and no element is uninitialized memory.
ImplementsSequences == Sequences!SequencesSpec
=============================================================================
