------------------------------ MODULE HeapTests -----------------------------
(***************************************************************************)
(* The test programs of the memory managers (q2/main.c of soln-4, code-3   *)
(* and code-4), run one after the other as by the argument "all".  Every   *)
(* test goes over its pointers: one that is NULL is allocated and checked, *)
(* one that is not is freed.                                               *)
(***************************************************************************)
EXTENDS Heap

CONSTANTS
    SimpleIters, FixedIters, RandomIters,  \* bounds: the ITERS of the tests
    FixedSize,     \* bound: FIXED_SIZE
    RandomBuckets  \* bound: RAND_NBUCKETS

\* The sizes in main.c are far from the largest int.
ASSUME HeapTestsAssumption ==
    /\ IsFiniteSet(Buckets)
    /\ FixedSize \in Nat
    /\ \A size \in {16, FixedSize, 8 * Cardinality(Buckets)} : size + 24 <= IntMax

VARIABLES
    tests,       \* the names of the tests that are not done
    i,           \* the iterations the current test has done
    sizes,       \* sizes[b] of test_random
    pointers,    \* the pointers the current test was given so far
    failures     \* the tests that failed

heapTestVars == <<tests, i, sizes, pointers, failures, heapVars>>

\* ptrs[idx]: the pointers are numbered from 0.
BucketSeq == SetToSeq(Buckets)
Bucket(idx) == BucketSeq[idx + 1]
Index(b) == (CHOOSE k \in DOMAIN BucketSeq : BucketSeq[k] = b) - 1

(* The tests: how many pointers there are, how often one is allocated or   *)
(* freed, and the iterations that expect a block to be reused.             *)

test_sanity == [buckets |-> 1, iters |-> 2, reuses |-> {}]
test_freelist1 == [buckets |-> 1, iters |-> 3, reuses |-> {2}]
test_freelist2 == [buckets |-> 2, iters |-> 8, reuses |-> {4, 5}]
test_simple ==
    [buckets |-> Cardinality(Buckets), iters |-> SimpleIters, reuses |-> {}]
test_fixedsize ==
    [buckets |-> Cardinality(Buckets), iters |-> FixedIters, reuses |-> {}]
test_random == [buckets |-> RandomBuckets, iters |-> RandomIters, reuses |-> {}]

testfuncs == <<"sanity", "freelist1", "freelist2", "simple", "fixedsize", "random">>

Func(name) ==
    CASE name = "sanity" -> test_sanity
      [] name = "freelist1" -> test_freelist1
      [] name = "freelist2" -> test_freelist2
      [] name = "simple" -> test_simple
      [] name = "fixedsize" -> test_fixedsize
      [] name = "random" -> test_random

Size(name, b) ==
    CASE name \in {"sanity", "freelist1", "freelist2"} -> 16
      [] name = "simple" -> Index(b) * 8
      [] name = "fixedsize" -> FixedSize
      [] name = "random" -> sizes[b]

\* The pointer that mymalloc returns for a block.
Pointer(block) == block + Metadata

\* What the harness accepts: an aligned pointer to memory of the heap that does
\* not start inside another allocation.
check_alloc(b, size) ==
    LET ptr == Pointer(held'[b]) IN
    /\ ptr % 8 = 0
    /\ ptr >= 0 /\ ptr + size <= HeapSize
    /\ \A c \in Buckets \ {b} :
         held[c] # NULL => ~(ptr >= Pointer(held[c])
                             /\ ptr < Pointer(held[c]) + asked[c])

Accepted(b, size) ==
    /\ check_alloc(b, size)
    /\ i \in Func(Head(tests)).reuses => Pointer(held'[b]) \in pointers

Going == tests # <<>> /\ i < Func(Head(tests)).iters

\* test_random takes any pointer, the others go round.
Turn(b) ==
    LET n == Func(Head(tests)).buckets IN
    IF Head(tests) = "random" THEN Index(b) < n ELSE b = Bucket(i % n)

Free(b) ==
    /\ Going /\ Turn(b)
    /\ myfree(b)
    /\ i' = i + 1
    /\ UNCHANGED <<tests, sizes, pointers, failures>>

\* A test that fails returns at once.
Fail ==
    /\ failures' = failures \cup {Head(tests)}
    /\ i' = Func(Head(tests)).iters

Allocate(b) ==
    LET size == Size(Head(tests), b) IN
    /\ Going /\ Turn(b) /\ held[b] = NULL
    /\ \/ /\ mymalloc(b, size)
          /\ pointers' = pointers \cup {Pointer(held'[b])}
          /\ IF Accepted(b, size) THEN i' = i + 1 /\ UNCHANGED failures ELSE Fail
       \/ NoRoom(Needed(size)) /\ Fail /\ UNCHANGED <<pointers, heapVars>>
    /\ UNCHANGED <<tests, sizes>>

\* Mutant: the free list of the old heap is kept.
mymalloc_init_KeepsList ==
    /\ top' = 0
    /\ held' = [b \in Buckets |-> NULL] /\ asked' = [b \in Buckets |-> 0]
    /\ UNCHANGED <<build, blockSize, freeList>>

\* A new heap; the pointers of the last test are gone.
mymalloc_init ==
    /\ top' = 0 /\ freeList' = <<>> /\ blockSize' = <<>>
    /\ held' = [b \in Buckets |-> NULL] /\ asked' = [b \in Buckets |-> 0]
    /\ UNCHANGED build

\* The end of one call of test in main, and the start of the next.
test ==
    /\ tests # <<>> /\ ~Going
    /\ mymalloc_init
    /\ tests' = Tail(tests)
    /\ i' = 0 /\ pointers' = {}
    /\ UNCHANGED <<sizes, failures>>

HeapTestsInit ==
    /\ HeapInit
    /\ tests = testfuncs
    /\ i = 0 /\ pointers = {} /\ failures = {}
    /\ sizes \in [Buckets -> Requests]

HeapTestsNext == test \/ \E b \in Buckets : Free(b) \/ Allocate(b)

HeapTestsSpec == HeapTestsInit /\ [][HeapTestsNext]_heapTestVars
-----------------------------------------------------------------------------
\* The tests tell the managers apart: those of soln-4 pass all of them, each on
\* its new heap, whatever the order in which test_random allocates and frees;
\* the skeleton fails the three that need the blocks again, and no other.
TestsTell ==
    IF build # "skeleton" THEN failures = {}
    ELSE /\ failures \subseteq {"freelist1", "freelist2", "fixedsize"}
         /\ tests = <<>> => failures = {"freelist1", "freelist2", "fixedsize"}
=============================================================================
