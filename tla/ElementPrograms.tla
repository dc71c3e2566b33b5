--------------------------- MODULE ElementPrograms --------------------------
(***************************************************************************)
(* The programs that fill a list and a tree with the elements of their     *)
(* arguments: q3/main.c as it was before references were counted (code-3   *)
(* and code-4), with counted references (soln-4), with two kinds of        *)
(* elements and finalizers (soln-9), and q3/sortmain.c of soln-9.  The     *)
(* list is the sequence of its elements: its links are those of Elements.  *)
(***************************************************************************)
EXTENDS Integers, SequencesExt

CONSTANTS
    Arguments,    \* what an argument can be: its place in the order of strcmp
    Numerals,     \* those that are numbers, here in the order of their values
    MaxElements   \* bound: the number of arguments

VARIABLES
    version,   \* the directory of main.c, or "sort"
    argv,      \* the arguments
    done,      \* done.phase, and the iterations of its loop that are done
    list,      \* the elements of the list, or of the array of sortmain.c
    nodes,     \* the elements of the tree, by the path from the root
    rc         \* the memory of the elements: counts, and what was used freed

elementProgramVars == <<version, argv, done, list, nodes, rc>>

Owned == version = "code-3"
Sorting == version = "sort"

\* Element k is made of the k-th argument; those before soln-9 are strings.
IsNumeral(k) == version \in {"soln-9", "sort"} /\ argv[k] \in Numerals

(* Memory: rc.elem[k] and rc.str[k] count the references to the struct of  *)
(* element k and to its string, where it has one; before counting, 1 is    *)
(* for allocated.  rc.faults has the elements that were used when free.    *)

\* The struct of k is used, and its string where it has one.
Use(m, k) ==
    IF m.elem[k] > 0 /\ (IsNumeral(k) \/ m.str[k] > 0) THEN m
    ELSE [m EXCEPT !.faults = @ \cup {k}]

element_new(m, k) ==
    [m EXCEPT !.elem[k] = 1, !.str[k] = IF IsNumeral(k) THEN 0 ELSE 1]

\* soln-4 counts both together.
element_keep_ref(m, k) ==
    IF Owned THEN Use(m, k)
    ELSE [Use(m, k) EXCEPT !.elem[k] = @ + 1,
                           !.str[k] = IF version = "soln-4" THEN @ + 1 ELSE @]

\* element_delete in code-3; in soln-9 the last release runs the finalizer.
element_free_ref(m, k) ==
    IF Owned THEN [Use(m, k) EXCEPT !.elem[k] = 0, !.str[k] = 0]
    ELSE [Use(m, k) EXCEPT
            !.elem[k] = @ - 1,
            !.str[k] = IF version = "soln-4" \/ (~IsNumeral(k) /\ m.elem[k] = 1)
                       THEN @ - 1 ELSE @]

(* The order of the tree and of qsort. *)

compare(k, j) ==
    IF IsNumeral(k) = IsNumeral(j) THEN argv[k] - argv[j]
    ELSE IF IsNumeral(k) THEN -1 ELSE 1

(* The list and the tree count a reference for every element in them; those *)
(* of code-3 own their elements.                                            *)

list_add_element(m, k) == IF Owned THEN m ELSE element_keep_ref(m, k)
list_delete_element(m, k) == element_free_ref(m, k)

\* Where tree_insert_node_helper puts k.
Place(p, k) ==
    /\ p \notin DOMAIN nodes
    /\ \A i \in 1..Len(p) :
         LET q == SubSeq(p, 1, i - 1) IN
         q \in DOMAIN nodes /\ (p[i] = "left" <=> compare(k, nodes[q]) <= 0)

TreeElements == {nodes[p] : p \in DOMAIN nodes}

At(phase) == done.phase = phase
GoTo(phase) == done' = [phase |-> phase, steps |-> 0]
Again == done' = [done EXCEPT !.steps = @ + 1]

AddArgument ==
    /\ At("read") /\ done.steps < Len(argv)
    /\ LET k == done.steps + 1
           m == element_new(rc, k)
       IN  /\ list' = Append(list, k)
           /\ rc' = IF Owned \/ Sorting THEN m
                    ELSE element_free_ref(list_add_element(m, k), k)
    /\ Again
    /\ UNCHANGED <<version, argv, nodes>>

EndOfArguments ==
    /\ At("read") /\ done.steps = Len(argv)
    /\ IF Sorting THEN GoTo("sort") ELSE GoTo("insert")
    /\ UNCHANGED <<version, argv, list, nodes, rc>>

\* The program "must work with any arbitrary selection function".
includeElement ==
    /\ At("insert") /\ done.steps < Len(list)
    /\ LET k == list[done.steps + 1] IN
       \/ UNCHANGED <<nodes, rc>>
       \/ /\ \E p \in SeqOf({"left", "right"}, MaxElements - 1) :
               /\ Place(p, k)
               /\ nodes' = [q \in DOMAIN nodes \cup {p} |->
                              IF q = p THEN k ELSE nodes[q]]
          /\ rc' = element_keep_ref(rc, k)
    /\ Again
    /\ UNCHANGED <<version, argv, list>>

\* tree_ordered_print, of what is in the tree; soln-9 prints the list as well.
tree_ordered_print(phase, next) ==
    /\ At(phase) /\ (phase = "insert" => done.steps = Len(list))
    /\ rc' = FoldLeft(Use, rc, SetToSeq(TreeElements)
                               \o (IF version = "soln-9" THEN list ELSE <<>>))
    /\ GoTo(next)
    /\ UNCHANGED <<version, argv, list, nodes>>

list_delete ==
    /\ At("delete list")
    /\ rc' = FoldLeft(list_delete_element, rc, list)
    /\ list' = <<>>
    /\ GoTo("print again")
    /\ UNCHANGED <<version, argv, nodes>>

tree_delete ==
    /\ At("delete tree")
    /\ rc' = FoldLeft(element_free_ref, rc, SetToSeq(TreeElements))
    /\ nodes' = <<>>
    /\ GoTo("done")
    /\ UNCHANGED <<version, argv, list>>

\* sortmain.c: qsort leaves some order that compare_element agrees with.
qsort ==
    /\ At("sort")
    /\ \E s \in SetToSeqs(ToSet(list)) :
         /\ \A i \in 1..Len(s) - 1 : compare(s[i], s[i + 1]) <= 0
         /\ list' = s
    /\ GoTo("print sorted")
    /\ UNCHANGED <<version, argv, nodes, rc>>

FreeSorted ==
    /\ At("print sorted")
    /\ rc' = FoldLeft(element_free_ref, FoldLeft(Use, rc, list), list)
    /\ GoTo("done")
    /\ UNCHANGED <<version, argv, list, nodes>>

ElementProgramsInit ==
    /\ version \in {"code-3", "soln-4", "soln-9", "sort"}
    /\ argv \in SeqOf(Arguments, MaxElements)
    /\ done = [phase |-> "read", steps |-> 0]
    /\ list = <<>> /\ nodes = <<>>
    /\ rc = [elem |-> [k \in DOMAIN argv |-> 0],
             str |-> [k \in DOMAIN argv |-> 0], faults |-> {}]

ElementProgramsNext ==
    \/ AddArgument \/ EndOfArguments \/ includeElement
    \/ tree_ordered_print("insert", "delete list")
    \/ list_delete
    \/ tree_ordered_print("print again", "delete tree")
    \/ tree_delete
    \/ qsort \/ FreeSorted

ElementProgramsSpec ==
    ElementProgramsInit /\ [][ElementProgramsNext]_elementProgramVars
-----------------------------------------------------------------------------
\* Whichever elements are put into the tree, a program with counted references
\* uses no element and no string after it was freed, though the list goes
\* before the tree, and frees all of them; without counting (code-3) the tree
\* outlives its elements, and every one of them is used after it was freed.
AllFreedOnce ==
    /\ Owned /\ ~At("done") =>
         rc.faults = IF At("delete tree") THEN TreeElements ELSE {}
    /\ ~Owned => rc.faults = {}
    /\ ~Owned /\ At("done") =>
         \A k \in DOMAIN argv : rc.elem[k] = 0 /\ rc.str[k] = 0
=============================================================================
