------------------------------- MODULE ListOps ------------------------------
(***************************************************************************)
(* The lists of list.c: an array that grows when it is full.  A list is    *)
(* its struct, with the elements of data in place of the pointer to them;  *)
(* what malloc and realloc leave uninitialized is Garbage.                 *)
(***************************************************************************)
EXTENDS Integers, SequencesExt

CONSTANTS
    INITIAL_SIZE, GROWTH_FACTOR,
    Garbage      \* what is in memory that nothing was stored in

ASSUME ListAssumption ==
    INITIAL_SIZE \in Nat \ {0} /\ GROWTH_FACTOR \in Nat \ {0, 1}

\* The values of i in a loop that counts up, and in one that counts down.
Up(from, to) == [k \in 1..to - from + 1 |-> from + k - 1]
Down(from, to) == Reverse(Up(to, from))

list_create ==
    [data |-> [i \in 0..INITIAL_SIZE - 1 |-> Garbage],
     len |-> 0, size |-> INITIAL_SIZE]

\* realloc keeps what was there.
expand_list(l) ==
    LET size == l.size * GROWTH_FACTOR
    IN  [l EXCEPT !.size = size,
                  !.data = [i \in 0..size - 1 |->
                              IF i < l.size THEN l.data[i] ELSE Garbage]]

\* The test that list_append and list_insert begin with.
Roomy(l) == IF l.len = l.size THEN expand_list(l) ELSE l

list_append(l, e) ==
    LET r == Roomy(l) IN [r EXCEPT !.data[r.len] = e, !.len = @ + 1]

list_append_array(l, elements) == FoldLeft(list_append, l, elements)

list_insert(l, pos, e) ==
    LET r == Roomy(l)
        MoveDown(d, i) == [d EXCEPT ![i] = d[i - 1]]
    IN  [r EXCEPT !.data = [FoldLeft(MoveDown, @, Down(r.len, pos + 1))
                              EXCEPT ![pos] = e],
                  !.len = @ + 1]

\* Mutant: the elements are moved from the end on.
list_remove_FromEnd(l, pos) ==
    LET MoveUp(d, i) == [d EXCEPT ![i] = d[i + 1]]
    IN  [l EXCEPT !.data = FoldLeft(MoveUp, @, Down(l.len - 2, pos)), !.len = @ - 1]

list_remove(l, pos) ==
    LET MoveUp(d, i) == [d EXCEPT ![i] = d[i + 1]]
    IN  [l EXCEPT !.data = FoldLeft(MoveUp, @, Up(pos, l.len - 2)), !.len = @ - 1]

list_get(l, pos) == l.data[pos]

list_index(l, e, equal(_, _)) ==
    LET found == {i \in 0..l.len - 1 : equal(l.data[i], e)}
    IN  IF found = {} THEN -1 ELSE Min(found)

list_len(l) == l.len

(* The higher-order functions.  out is another list than those that are    *)
(* read, as their comments ask.                                            *)

list_map1(f(_), out, in) ==
    LET Step(o, i) == list_append(o, f(list_get(in, i)))
    IN  FoldLeft(Step, out, Up(0, list_len(in) - 1))

Shorter(in0, in1) ==
    IF list_len(in0) < list_len(in1) THEN list_len(in0) ELSE list_len(in1)

list_map2(f(_, _), out, in0, in1) ==
    LET Step(o, i) == list_append(o, f(list_get(in0, i), list_get(in1, i)))
    IN  FoldLeft(Step, out, Up(0, Shorter(in0, in1) - 1))

list_foldl(f(_, _), base, in) ==
    LET Step(o, i) == f(o, list_get(in, i))
    IN  FoldLeft(Step, base, Up(0, list_len(in) - 1))

list_filter(f(_), out, in) ==
    LET Step(o, i) == IF f(list_get(in, i)) THEN list_append(o, list_get(in, i))
                                            ELSE o
    IN  FoldLeft(Step, out, Up(0, list_len(in) - 1))

\* The arguments of the calls that list_foreach makes.
list_foreach(l) == [k \in 1..l.len |-> l.data[k - 1]]
=============================================================================
