------------------------------ MODULE Elements ------------------------------
(***************************************************************************)
(* Reference-counted elements kept in a list and in a tree                 *)
(* (CS213/soln-9: refcount.c, q3/list.c, q3/tree.c, q3/int_element.c,      *)
(* q3/str_element.c) and a client that calls their operations in any order *)
(* the comments of the headers allow.                                      *)
(***************************************************************************)
EXTENDS Integers, SequencesExt

CONSTANTS
    IntElements, StrElements,  \* the memory of the elements
    Nodes,       \* list nodes
    Values,      \* the numbers, or the strings in the order of strcmp
    MaxRefs,     \* bound: references to one object that the client keeps
    MaxNodes,    \* bound: nodes of the list and of the tree together
    None         \* the null pointer

ASSUME ElementsAssumption ==
    /\ IntElements \cap StrElements = {}
    /\ None \notin Nodes \cup IntElements \cup StrElements
    /\ Values \subseteq Int /\ MaxRefs \in Nat /\ MaxNodes \in Nat

Elems == IntElements \cup StrElements

VARIABLES
    value,         \* value[e]
    count,         \* count[e]: the refcount in the header of e
    strCount,      \* strCount[e]: that of the string of e, apart from e
    refs, strRefs, \* the references the client keeps, to each of them
    head, tail, next, prev, elem,  \* the list and its nodes
    tree           \* the elements of the tree, by the path from the root

listVars == <<head, tail, next, prev, elem>>
countVars == <<count, strCount>>
clientVars == <<value, refs, strRefs>>
elementsVars == <<clientVars, countVars, listVars, tree>>

ElementsInit ==
    /\ value \in [Elems -> Values]
    /\ count = [e \in Elems |-> 0]
    /\ strCount = [e \in StrElements |-> 0]
    /\ refs = [e \in Elems |-> 0]
    /\ strRefs = [e \in StrElements |-> 0]
    /\ head = None /\ tail = None
    /\ next = [n \in Nodes |-> None]
    /\ prev = [n \in Nodes |-> None]
    /\ elem = [n \in Nodes |-> None]
    /\ tree = <<>>

\* The list nodes that are allocated; room for one more node.
ListNodes == {n \in Nodes : elem[n] # None}
Room == Cardinality(ListNodes) + Cardinality(DOMAIN tree) < MaxNodes

\* The places of e in the list and in the tree.
InList(e) == {n \in Nodes : elem[n] = e}
InTree(e) == {p \in DOMAIN tree : tree[p] = e}

\* The client can reach e: it keeps a reference, or finds e in a structure.
Reachable(e) == refs[e] > 0 \/ InList(e) # {} \/ InTree(e) # {}

-----------------------------------------------------------------------------
(* Counting. *)

rc_keep_ref(e) ==
    /\ count' = [count EXCEPT ![e] = @ + 1]
    /\ UNCHANGED strCount

\* rc_free_ref, as often as times says; the last one of a string element runs
\* str_element_finalize, which releases the string.
rc_free_ref(times) ==
    /\ count' = [e \in Elems |-> count[e] - times[e]]
    /\ strCount' = [s \in StrElements |->
                      strCount[s] - (IF times[s] > 0 /\ times[s] = count[s]
                                     THEN 1 ELSE 0)]

Once(e) == [f \in Elems |-> IF f = e THEN 1 ELSE 0]

\* int_element_new, str_element_new: of memory that is free.
element_new(e) ==
    /\ count[e] = 0
    /\ e \in StrElements => strCount[e] = 0
    /\ refs' = [refs EXCEPT ![e] = 1]
    /\ count' = [count EXCEPT ![e] = 1]
    /\ strCount' = [s \in StrElements |-> IF s = e THEN 1 ELSE strCount[s]]
    /\ UNCHANGED <<value, strRefs, listVars, tree>>

\* The client keeps what it can reach, and releases what it kept.
KeepElement(e) ==
    /\ Reachable(e) /\ refs[e] < MaxRefs
    /\ rc_keep_ref(e)
    /\ refs' = [refs EXCEPT ![e] = @ + 1]
    /\ UNCHANGED <<value, strRefs, listVars, tree>>

FreeElement(e) ==
    /\ refs[e] > 0
    /\ rc_free_ref(Once(e))
    /\ refs' = [refs EXCEPT ![e] = @ - 1]
    /\ UNCHANGED <<value, strRefs, listVars, tree>>

\* The same for the string that str_element_get_value returns.
KeepString(e) ==
    /\ Reachable(e) /\ strRefs[e] < MaxRefs
    /\ strCount' = [strCount EXCEPT ![e] = @ + 1]
    /\ strRefs' = [strRefs EXCEPT ![e] = @ + 1]
    /\ UNCHANGED <<value, refs, count, listVars, tree>>

FreeString(e) ==
    /\ strRefs[e] > 0
    /\ strCount' = [strCount EXCEPT ![e] = @ - 1]
    /\ strRefs' = [strRefs EXCEPT ![e] = @ - 1]
    /\ UNCHANGED <<value, refs, count, listVars, tree>>
-----------------------------------------------------------------------------
(* The doubly linked list. *)

list_add_element(n, e) ==
    /\ Reachable(e) /\ elem[n] = None /\ Room
    /\ rc_keep_ref(e)
    /\ elem' = [elem EXCEPT ![n] = e]
    /\ tail' = n
    /\ IF head = None
       THEN head' = n /\ UNCHANGED <<next, prev>>
       ELSE /\ next' = [next EXCEPT ![tail] = n]
            /\ prev' = [prev EXCEPT ![n] = tail]
            /\ UNCHANGED head
    /\ UNCHANGED <<clientVars, tree>>

\* The neighbours of the node are linked to each other, where it has any.
list_delete_element(n) ==
    /\ n \in ListNodes
    /\ rc_free_ref(Once(elem[n]))
    /\ head' = IF n = head THEN next[n] ELSE head
    /\ tail' = IF n = tail THEN prev[n] ELSE tail
    /\ next' = [m \in Nodes |-> IF m = n THEN None
                                ELSE IF n # head /\ m = prev[n] THEN next[n]
                                ELSE next[m]]
    /\ prev' = [m \in Nodes |-> IF m = n THEN None
                                ELSE IF n # tail /\ m = next[n] THEN prev[n]
                                ELSE prev[m]]
    /\ elem' = [elem EXCEPT ![n] = None]
    /\ UNCHANGED <<clientVars, tree>>

\* list_delete deletes the nodes from the head on; the client goes on with a
\* new list.
list_delete ==
    /\ ListNodes # {}
    /\ rc_free_ref([e \in Elems |-> Cardinality(InList(e))])
    /\ head' = None /\ tail' = None
    /\ next' = [n \in Nodes |-> None]
    /\ prev' = [n \in Nodes |-> None]
    /\ elem' = [n \in Nodes |-> None]
    /\ UNCHANGED <<clientVars, tree>>
-----------------------------------------------------------------------------
(* The binary search tree. *)

\* The sign of compare: numbers, then strings.
compare(e, f) ==
    IF (e \in IntElements) = (f \in IntElements) THEN value[e] - value[f]
    ELSE IF e \in IntElements THEN -1 ELSE 1

Turns == {"left", "right"}

\* Where tree_insert_node_helper gets to with e: to the left of what e is not
\* greater than, until there is no node.
IsPlace(p, e) ==
    /\ p \notin DOMAIN tree
    /\ \A i \in 1..Len(p) :
         LET q == SubSeq(p, 1, i - 1) IN
         q \in DOMAIN tree /\ (p[i] = "left" <=> compare(e, tree[q]) <= 0)

tree_insert_node(e) ==
    /\ Reachable(e) /\ Room
    /\ rc_keep_ref(e)
    /\ \E p \in SeqOf(Turns, MaxNodes - 1) :
         /\ IsPlace(p, e)
         /\ tree' = [q \in DOMAIN tree \cup {p} |-> IF q = p THEN e ELSE tree[q]]
    /\ UNCHANGED <<clientVars, listVars>>

tree_delete ==
    /\ DOMAIN tree # {}
    /\ rc_free_ref([e \in Elems |-> Cardinality(InTree(e))])
    /\ tree' = <<>>
    /\ UNCHANGED <<clientVars, listVars>>

ElementsNext ==
    \/ \E e \in Elems : \/ element_new(e) \/ KeepElement(e) \/ FreeElement(e)
                        \/ tree_insert_node(e)
                        \/ \E n \in Nodes : list_add_element(n, e)
    \/ \E e \in StrElements : KeepString(e) \/ FreeString(e)
    \/ \E n \in Nodes : list_delete_element(n)
    \/ list_delete \/ tree_delete

ElementsSpec == ElementsInit /\ [][ElementsNext]_elementsVars
-----------------------------------------------------------------------------
\* An object is freed when, and only when, nobody refers to it any more.
CountsAreReferences ==
    /\ \A e \in Elems :
         count[e] = refs[e] + Cardinality(InList(e)) + Cardinality(InTree(e))
    /\ \A s \in StrElements :
         strCount[s] = strRefs[s] + (IF count[s] > 0 THEN 1 ELSE 0)

\* Some sequence of the nodes is the list, read forwards and backwards.
ListIsLinked ==
    \E s \in SetToSeqs(ListNodes) :
        /\ head = (IF s = <<>> THEN None ELSE Head(s))
        /\ tail = (IF s = <<>> THEN None ELSE Last(s))
        /\ \A i \in DOMAIN s :
             /\ next[s[i]] = (IF i = Len(s) THEN None ELSE s[i + 1])
             /\ prev[s[i]] = (IF i = 1 THEN None ELSE s[i - 1])

\* What is below a node to the left is not greater than its element, what is
\* below it to the right is.
TreeIsOrdered ==
    \A p, q \in DOMAIN tree :
        IsStrictPrefix(p, q) =>
            (q[Len(p) + 1] = "left" <=> compare(tree[q], tree[p]) <= 0)

StructuresSound == CountsAreReferences /\ ListIsLinked /\ TreeIsOrdered
=============================================================================
