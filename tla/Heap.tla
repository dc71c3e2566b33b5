-------------------------------- MODULE Heap --------------------------------
(***************************************************************************)
(* The memory managers of CS213/soln-4/q2 and code-3/q2, and a client with *)
(* a fixed number of pointers, as in the tests of main.c.  mymalloc.c      *)
(* takes the first free block that fits, mymalloc_alt.c (BESTFIT) the      *)
(* smallest; neither splits or joins blocks.  The skeleton of code-3 does  *)
(* not keep the blocks that are freed.                                     *)
(*                                                                         *)
(* A block is known by the offset of its metadata in the heap, whose base  *)
(* is aligned.  An allocation that fails returns NULL and changes nothing. *)
(***************************************************************************)
EXTENDS Integers, SequencesExt

CONSTANTS
    HeapSize,   \* heapsize
    Buckets,    \* the pointers of the client
    Requests,   \* the sizes it asks for
    IntMax,     \* the largest int
    NULL

ASSUME HeapAssumption ==
    /\ IntMax \in Nat /\ HeapSize \in 0..IntMax
    /\ Requests \subseteq 0..IntMax
    /\ NULL \notin Nat

VARIABLES
    build,      \* which of the three files is linked
    top,
    blockSize,  \* blockSize[a]: the size in the metadata of block a
    freeList,   \* from free_head along the next links
    held,       \* held[b]: the block the client has in pointer b, or NULL
    asked       \* asked[b]: the size it asked for

heapVars == <<build, top, blockSize, freeList, held, asked>>

Builds == {"mymalloc", "mymalloc_alt", "skeleton"}

HeapInit ==
    /\ build \in Builds
    /\ top = 0
    /\ blockSize = <<>>
    /\ freeList = <<>>
    /\ held = [b \in Buckets |-> NULL]
    /\ asked = [b \in Buckets |-> 0]

\* sizeof (struct metadata) with an 8-byte pointer, or the 8 bytes of the
\* version that keeps its link in the block; the skeleton keeps none.
Metadata ==
    CASE build = "mymalloc" -> 16 [] build = "mymalloc_alt" -> 8
      [] build = "skeleton" -> 0

\* What int arithmetic leaves of n, where the build lets it wrap around.
Wrapped(n) == ((n + IntMax + 1) % (2 * (IntMax + 1))) - (IntMax + 1)

\* n / 8 * 8: the division of C goes towards zero.
InEights(n) == IF n >= 0 THEN n - (n % 8) ELSE n + ((-n) % 8)

\* The block that a request needs.
Needed(request) ==
    LET size == IF request = 0 /\ build # "skeleton" THEN 1 ELSE request
    IN  Wrapped(InEights(Wrapped(size + 7)) + Metadata)

\* The positions in the free list of the blocks that are large enough.
Fitting(n) == {i \in DOMAIN freeList : n <= blockSize[freeList[i]]}

\* The one the search of each file ends with.
FirstFit(n) == Min(Fitting(n))
BestFit(n) ==
    CHOOSE i \in Fitting(n) : \A j \in Fitting(n) :
        LET si == blockSize[freeList[i]]
            sj == blockSize[freeList[j]]
        IN  si < sj \/ (si = sj /\ i <= j)
Fit(n) == IF build = "mymalloc" THEN FirstFit(n) ELSE BestFit(n)

\* Mutant: the first link is taken out, wherever the block was.
Reuse_UnlinksHead(b, n) ==
    /\ Fitting(n) # {}
    /\ held' = [held EXCEPT ![b] = freeList[Fit(n)]]
    /\ freeList' = Tail(freeList)
    /\ UNCHANGED <<top, blockSize>>

\* mymalloc finds a free block and unlinks it.
Reuse(b, n) ==
    /\ Fitting(n) # {}
    /\ held' = [held EXCEPT ![b] = freeList[Fit(n)]]
    /\ freeList' = RemoveAt(freeList, Fit(n))
    /\ UNCHANGED <<top, blockSize>>

\* There is no free block, and not enough room for a new one: mymalloc fails.
NoRoom(n) == Fitting(n) = {} /\ (n < 0 \/ n > HeapSize \/ HeapSize - n < top)

\* mymalloc finds none and takes a new block at the top of the heap.
Extend(b, n) ==
    /\ Fitting(n) = {}
    /\ ~NoRoom(n)
    /\ held' = [held EXCEPT ![b] = top]
    /\ top' = top + n
    /\ blockSize' = [a \in DOMAIN blockSize \cup {top} |->
                       IF a = top THEN n ELSE blockSize[a]]
    /\ UNCHANGED freeList

mymalloc(b, request) ==
    /\ held[b] = NULL
    /\ asked' = [asked EXCEPT ![b] = request]
    /\ Reuse(b, Needed(request)) \/ Extend(b, Needed(request))
    /\ UNCHANGED build

myfree(b) ==
    /\ held[b] # NULL
    /\ freeList' = IF build = "skeleton" THEN freeList ELSE <<held[b]>> \o freeList
    /\ held' = [held EXCEPT ![b] = NULL]
    /\ asked' = [asked EXCEPT ![b] = 0]
    /\ UNCHANGED <<build, top, blockSize>>

HeapNext ==
    \E b \in Buckets : myfree(b) \/ \E request \in Requests : mymalloc(b, request)

HeapSpec == HeapInit /\ [][HeapNext]_heapVars
-----------------------------------------------------------------------------
Blocks == DOMAIN blockSize
Live == {held[b] : b \in Buckets} \ {NULL}

\* Every block is aligned, lies in the heap and overlaps no other; of the
\* managers that reuse blocks it is either free, once, or the client's, in one
\* pointer.
BlocksApart ==
    /\ top <= HeapSize
    /\ \A a \in Blocks : a % 8 = 0 /\ a >= 0 /\ a + blockSize[a] <= top
    /\ \A a, c \in Blocks : a < c => a + blockSize[a] <= c
    /\ build # "skeleton" =>
         /\ IsInjective(freeList)
         /\ ToSet(freeList) \cup Live = Blocks /\ ToSet(freeList) \cap Live = {}
         /\ \A b, c \in Buckets : held[b] = held[c] /\ held[b] # NULL => b = c

\* "Allocate a block of memory of the given size, or NULL if unable."
\* (mymalloc.c:35): the client's part of its block holds what it asked for.
BlockIsBigEnough ==
    \A b \in Buckets :
        held[b] # NULL => asked[b] + Metadata <= blockSize[held[b]]

\* The blocks of each pointer are its own, and as big as it asked for.
HeapSound == BlocksApart /\ BlockIsBigEnough

\* Blocks are reused: the heap never gets more blocks of one size than the
\* client has pointers, however long it allocates and frees.  This is what
\* lets the tests of main.c run forever in a bounded heap.
ReuseBounds ==
    build # "skeleton" => \A s \in {blockSize[a] : a \in Blocks} :
        Cardinality({a \in Blocks : blockSize[a] = s}) <= Cardinality(Buckets)
=============================================================================
