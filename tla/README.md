# Verification of the CS213 thread library, disk, data libraries and SM213

`src/` holds the programs of a systems course: a user-level thread package, a
simulated disk with interrupts, programs built on both, memory managers,
reference-counted data structures, array lists, and the SM213 processor with two
simulators and its programs. This project models them in TLA+, checks small
instances with TLC and proves with TLAPS, for every size, the safety of the
thread package, the disk, the monitor programs and the data libraries.

Many directories hold the same file at several stages of an assignment. The
models follow the completed version named below, and these files are the same
text (or the same but for the header):

| Modelled file | Same as |
|---|---|
| `code-11/uthreads/uthread.c` | `code-10`'s |
| `code-11/uthreads/uthread_sem.c`, `uthread_mutex_cond.c` | those of `code-10`, `soln-7`, `soln-8`; `code-9/uthread_mutex_cond.c` adds `uthread_cond_naked_signal` |
| `soln-7/uthreads/uthread.c` | `soln-8`'s; `code-9/uthread.c` differs in its queue and blocks SIGALRM in its spin locks |
| `soln-8/pc.c`, `q3.c`, `q4.c` | `soln-7`'s; `soln-7/q1.c` and `q2.c` are `soln-8`'s |
| `soln-4/q2/main.c` | `code-3`'s and `code-4`'s |
| `code-3/q3/*` | `code-4`'s |
| `soln-9/refcount.c`, `q3/list.c`, `tree.c` | those of `code-6` |
| `src/list.c` | `a8/list.c` |
| `code-8/q3/sm.c` | `code-7`'s |

## Inventory

| Part | State | Operations | What is hard |
|---|---|---|---|
| scheduler `code-11/uthreads/uthread.c` | ready queue, `pthread_num_sleeping`, `pthread_mutex`; per thread: state, joiner, stack; per pthread: the thread it executes | init, create, detach, join, yield, block, unblock, exit; dequeue with idle sleep; switch | several pthreads share the queue and the threads; a thread is published before its stack is left; unblock may come before the block; join, detach and exit race for the TCB |
| earlier schedulers `soln-7/uthreads/uthread.c`, `code-9/uthread.c` | the same without sleeping | the same; the queue is polled, a thread is enqueued before it leaves its stack | a thread in the queue that still runs; an insertion that does not look whether the thread is queued |
| queues of threads (in `uthread.c`, semaphores, mutexes) | head and tail, one `next` field per thread | initialize, enqueue, dequeue, is empty | links left over from one queue in the next |
| semaphores `uthread_sem.c` | value, queue of waiters, spin lock | signal, wait | a newcomer takes the permit a waiter was woken for; a signal falls between queueing and blocking |
| mutexes, conditions `uthread_mutex_cond.c` | holder, reader count, writers' and readers' queues, one queue per condition | lock, lock_readonly, unlock, wait, signal, broadcast | unlock hands nothing over; readers queue behind queued writers; wait queues, unlocks and blocks in three steps |
| thread creation programs `code-10`, `soln-7`: `q1.c`, `q2.c` | a count, what was printed | create, join, add, print | the order of what is printed comes from the joins alone |
| monitor programs `soln-8/pc.c`, `q3.c`, `q4.c`, `code-10/q3.c`, `code-11/well.c` | items; counters; flags; occupancy, waiting counts, histogram | produce and consume; two barriers; ordering; drink from the well | newcomers get in before woken threads; waits outside loops; counts that lag behind the queues; a decrement without the lock |
| disk `code-9/disk.c` | pending reads, completion times; signal mask, `isInterrupt` | schedule a read; timer handler: transfer, interrupt | the handler interrupts any thread, and opens the signal for a second activation half way |
| read queue `code-9/queue.c` | linked list, spin lock | enqueue by threads, dequeue by the interrupt routine | a routine that runs with the signal open |
| disk programs `sRead.c`, `aRead.c`, `tRead.c` | a sum, a pending count, buffers | read by polling, by callback, by blocking | completions before, between and after the program's own steps |
| memory managers `soln-4/q2`, `code-3/q2` and their tests `main.c` | top of heap, free list, block sizes; pointers, failures | allocate, free; six tests, each on a new heap | unlinking from the middle of the list, reuse, what one test leaves to the next |
| elements, list, tree `soln-9` and the programs on them | reference counts, links | new, keep, free, add, delete, insert | ownership shared by client, list, tree and finalizer; ends of the list |
| array lists `list.c` and `a8/trunc.c`, `code-8/q1/test.c` | array, length, size | create, append, insert, remove, get, index, map, fold, filter, foreach | growth at the boundary; strings shared by several lists and cut in place |
| SM213: `a6-soln/CPU.java`, `code-8/q3/sm.c`, `sm-jt.c`, `MainMemory.java`, `*.s` | registers, pc, memory | load, fetch, execute; words to bytes and back | widths, signs, bounds; three implementations of one instruction set |

Calls go downwards: the monitor programs call the mutexes and conditions, which
call `uthread_block` and `uthread_unblock` of the scheduler, as the semaphores
and `tRead.c` do. The disk calls upwards: its handler calls the routine the
program gave to `disk_start`, on the stack of the interrupted thread, and that
routine calls the read queue and `uthread_unblock`. Spin locks are the only
shared primitive; in `code-9` they also block SIGALRM. The sequential libraries
are called by one thread each.

What makes each correct: a thread is executed by one pthread at a time, none is
lost, none is used after it is freed, an unblock is not forgotten, no pthread
sleeps while work is queued (scheduler); permits are conserved and no wake-up is
lost (semaphores); a writer excludes everybody and every queued thread has
someone who will serve it (mutexes); reads are delivered once, in order, with
their own data, and the programs end (disk); no signal is lost to a newcomer and
nothing comes to a standstill (monitors); blocks do not overlap and are reused
(heap); counts are references, and structures keep their shape (elements, array
lists); the machines compute what the C programs say (SM213).
The hazards, each at its line, are listed in `PROJECT.json`.

## Modules

| Module | Models | Correspondence |
|---|---|---|
| `ThreadSched` | what the scheduler promises to semaphores and mutexes | a thread that has called block is in `parked`; an unblock that comes early is kept as a token, and the block then returns at once; `Return` is the thread's next step |
| `ThreadLife` | what the scheduler promises to a program that creates threads | `life[t]` is "unborn", "alive" or "exited"; a join ends after its target has exited |
| `Uthread` | `uthread.c` of `code-11`, with `PTHREAD_IDLE_SLEEP` | `pc[p]`, `cur[p]`, `from[p]`, `to[p]`: where pthread `p` is in `uthread_switch` and its locals; `state`, `joiner`, `ready`, `numSleeping`, `pmutex`: the fields and `pthread_mutex`. Client calls are made by the thread a pthread executes, in any order |
| `UthreadSpin` | `uthread.c` of `soln-7` | `Uthread` with the functions that differ replaced: polling dequeue, base threads that yield, insertion before the switch |
| `LinkQueue` | the queues of threads, with and without the guard of `code-9` | `first`, `last` and `link` are head, tail and the next fields; `contents` is the history they are compared with |
| `UthreadInv` | the inductive invariant `Placement` and its parts | |
| `USem` | `uthread_sem.c` over `ThreadSched` | one action per section of `sem->spinlock`; `Retry` is the loop around the block |
| `UMutex`, `CondQueues` | `uthread_mutex_cond.c` over `ThreadSched` | one action per section of `mutex->spinlock` |
| `Monitor` | the abstract specification of `UMutex` | a writer, a set of readers, the threads waiting for each condition |
| `JoinPrograms` | `q1.c`, `q2.c` of `code-10` and `soln-7`, over `ThreadLife` | each thread is a sequence of calls, `done[t]` how many it has made |
| `ProdCons`, `Barrier`, `Ordering`, `Well` | the monitor programs | a critical section up to a wait or the unlock is one action; `Barrier` has both barriers, `CountDown` being that of `code-10` |
| `Disk`, `DiskQueue` | `disk.c`, `queue.c`, spin locks of `code-9/uthread.c` | `frames` is the stack of handler activations; `masked` the signal mask; one action for each section under a lock |
| `DiskClock` | `tm_add`, `tm_compare` | integers: seconds and microseconds, the length of a second a constant |
| `SRead`, `ARead`, `TRead` | the three disk programs | a block's number stands for its contents |
| `Heap` | `mymalloc.c`, `mymalloc_alt.c`, and the manager without a free list | a block is its offset; the free list is the sequence along the links |
| `HeapTests` | `q2/main.c` | the tests one after the other, each a loop over its pointers |
| `Elements` | `refcount.c`, list, tree, both element kinds | list links are functions on nodes; the tree is a function from paths to elements |
| `ElementPrograms` | `q3/main.c` in three stages, `sortmain.c` | `version` chooses the stage; `rc` has the counts of elements and strings and the accesses after a free |
| `ListOps`, `ArrayList` | `list.c`, and a client that makes any calls | a list is `[data, len, size]` with what was not stored as `Garbage` |
| `SequenceLists` | what the comments of `list.c` promise | a list is a sequence |
| `ListPrograms` | `trunc.c`, `test.c` | `memory` maps each allocated pointer to what it holds |
| `Words` | 32-bit words and their bytes | sums that wrap, shifts that keep the sign |
| `SimpleMachine` | `sm.c`, `sm-jt.c`, `CPU.java` | one operator per instruction and machine; a machine is its registers, pc, memory and `cont` |
| `SMCode`, `SMPrograms` | the assembler sources and the C they translate | an assembled line is an address and its bytes |
| `MainMemory` | both `MainMemory.java` | bytes by address; a store that leaves the memory half way throws |
| `MCUthread`, `MCDisk`, `MCMonitor`, `MCData` | instances | the last three choose a program or library in the first state and run only that one |
| `BasicLemmas`, `UthreadProofs`, `USemProofs`, `UMutexProofs`, `MonitorProofs`, `DiskProofs`, `ListProofs`, `DataProofs` | proofs | |

What composes what: `USem` and `UMutex` run on `ThreadSched`, the thread
creation programs on `ThreadLife`, and `Uthread` is shown to implement both. The
monitor programs run on `Monitor`, which `UMutex` implements. The disk programs
run on `Disk` itself, because their hazards are the interrupts.

### Why the actions may be this large

* A section under a spin lock is one action: everything it touches is touched
  only under that lock. What is read or written outside (the state tested at
  `uthread.c:544`, the joiner at 652, the ticker of the well, the count of
  `code-10/q3.c`) is a step of its own.
* `pthread_mutex` is taken while `ready_queue_spinlock` is held, so that
  inserting a thread and waking a pthread is one action.
* In `USem` and `UMutex` the step from the queue into `uthread_block` belongs to
  the action that queues the thread. Nothing is lost: a wake-up in between is an
  early unblock, which `ThreadSched` keeps, and `ImplementsSched` says that the
  scheduler does keep it (`uthread.c:721`).
* `isInterrupt` is one variable, because the handler never switches threads.
* A critical section of a monitor program is one action, because `UMutex`
  implements `Monitor` (`ImplementsMonitor`, checked and proved): between two
  steps of one writer nobody else is inside.
* A queue of threads is a sequence in `Uthread`, `USem` and `UMutex`:
  `LinkQueue` checks that the links are one, if no thread is in two queues, and
  `EnqueuedOnce` that the scheduler sees to that.
* The sequential libraries have one caller: a call of `list.c`, or the deletion
  of a whole list or tree, is one action, since nothing observes its middle.

### Assumptions that are parameters

* `LateCheck` (scheduler). FALSE says that a pthread which has published the
  state of the thread it leaves tests that state before that thread runs
  elsewhere and stops again: a few instructions against two context switches.
  TRUE drops the assumption; what fails then is the first disagreement below.
  The package of `soln-7` needs no such assumption for exclusion: `UthreadSpin`
  is checked with TRUE. (Its test for a dying thread still comes late, so that
  `NoUseAfterFree` is not claimed there.)
* `MaxClaims`: join and detach calls on one thread. The interface asks for one;
  with two the second disagreement appears.
* `MaxNest` (disk). How many activations of the handler may be on the stack. 1
  says that the handler returns within a timer period.
* `Prompt` (disk programs). A read is not complete before the program has made
  its next call: the latency is 10 ms and the two calls are consecutive. Only
  `aRead.c` and `tRead.c` need it.
* The sets of constants: `Producers` and the other sets of actors are finite
  (`MonitorProofs` counts them), `MaxNest` is at least 1 and there is a buffer
  (`DiskAssumption`), the disk has a block for each buffer
  (`ProgramAssumption`), the pointers of the tests are finitely many and the sizes
  of the tests fit an `int` (`HeapTestsAssumption`), `q2.c` counts a natural
  number (`JoinAssumption`), there are as many consumers as producers
  (`BalancedAssumption`, `pc.c:15`), the arguments of the SM213 programs are
  integers (`ArgumentsAreInts`), and so is what a client puts into lists, which
  uninitialized memory (`Garbage`) is not (`ClientAssumption`); the bound on the
  arguments of the element programs is a number (`MaxElementsIsNat`). TLC evaluates
  all of them.
* `RequestsFit` (memory managers, proofs only): a size and the 24 bytes that
  rounding and metadata add fit an `int`. For larger sizes the sum wraps and a free
  block that is too small may be handed out; `Heap` has the wrapping, and the three
  sizes of `MCData` fit.

## Runs

| Run | Instance | Shows |
|---|---|---|
| `UthreadLive` | 2 pthreads, main and 2 threads, no joins | no thread is lost; every thread in the ready queue runs; the scheduler implements the fair `ThreadSched`, so that unblocked threads return and pthreads do not spin for each other for ever |
| `UthreadTwoCpus` | 2 pthreads, main and 2 threads, 1 claim | types, `Placement`, exclusive execution, kept unblocks, life cycle, no pthread asleep over queued work, refinement of `ThreadSched` and `ThreadLife` |
| `UthreadSpin` | 2 pthreads, main and 1 thread, 1 claim, `LateCheck` TRUE; deadlock checked | the earlier package: no thread enters the queue twice or is lost, exclusive execution, the fair `ThreadSched` |
| `UthreadLateCheck` | as TwoCpus, `LateCheck` TRUE | violation: a thread on two pthreads |
| `UthreadTwoJoiners` | as TwoCpus, 2 claims | violation: the exit releases one of two joiners |
| `USem` | 4 threads, 1 permit, 4 signals | queue and scheduler agree, no lost wake-up, permits conserved, a free permit is taken |
| `UMutex` | 5 threads, 2 conditions | fields and queues agree with the threads, nobody stranded, a free mutex is taken, refinement of `Monitor` |
| `MCMonitor` | ten programs: 2 producers and 2 consumers, 4 parties, 4 letters, 3 workers, 4 people | bounds, order, counts, and that nobody waits for ever |
| `MCDisk` | 3 buffers, 5 blocks, up to 3 nested activations | data and end of the disk programs; sections masked; completion-time arithmetic |
| `AReadNested` | `aRead.c`, 3 blocks, 2 nested activations | violation: completions delivered out of order |
| `MCData` | nine libraries and programs, see the constants of its cfg | heap, links, machines, programs, and `list.c` as sequences |
| `MainMemory` | both memories, 6 bytes, 3 words | violation: a word of `SM213/src` is not kept |

Some properties are conjunctions of one part for each program:

* `EnqueuedOnceAndKept` (`UthreadSpin`): whoever may be enqueued next is not in
  the queue, and `NoThreadLost`.
* `CounterSound`: `items` stays in its bounds, and each change of it reaches
  somebody who waits for it, also when a newcomer gets in first.
* `PrintsInOrder`: behind the barriers all a's come before all b's, the letters
  of `q4.c` in turn, all threads of `code-10/q3.c` pass or none, and main prints
  last and the right count.
* `WellConsistent`: one kind inside, waiting times inside the histogram, and
  whoever waits will be signalled.
* `NoStandstill`: as long as a thread of the program has calls to make, one that
  has is not asleep on a condition, behind a barrier or in a join. The exception in
  `CountDown` is spelt out in `CountDownDone`: a decrement was lost. That such a
  thread can take a step is left to the check for deadlock: the programs end in
  the step `Finished`, so that any other state without a step is an error.
* `SumsAreOfReads`: what a disk program adds is what it read. For the polling and
  threaded programs under nested activations too, for `aRead.c` without.
* `ManagersSound`: blocks do not overlap and are as big as asked for, and there
  are never more blocks of a size than the client has pointers.
* `LinksSound`: counts are references, the list is linked in both directions, the
  tree is ordered; a queue of threads holds what was put in; the element programs
  free everything once, or read freed memory exactly where ownership was not
  counted (`AllFreedOnce`, of `code-3`).
* `MachinesAgree`: `sm.c` and `sm-jt.c` do in every step what `CPU.java` does;
  `MainMemory` of `CS213/code` keeps what is stored.
* `AllProgramsRight`: the tests of the managers fail exactly for the manager
  without a free list; `trunc.c` and `test.c` print what they should, and the first frees all it allocated; every SM213 program
  stays in its memory, meets legal instructions only and ends with the result of
  its C, and no indirect jump has an offset of 0x80 or more (`OffsetsFit`), the one
  point on which the machines differ.

**Are the bounds enough?** Two pthreads and three clients give every pairing of
a thread leaving, its successor, and a third that unblocks or joins; a thread can
be on two pthreads or in two places only through two dispatches, which two
pthreads produce. With joins the fair specification has too many states, so that
`UthreadLive` has none; the safety of joins is in `UthreadTwoCpus`, and proved.
In `UthreadSpin` the two base threads are ordinary threads of the queue, so that
there are four. Four semaphore threads give a signaller, two waiters and a
newcomer; five mutex threads give a holder, queued writers, queued readers, and
threads waiting for two conditions. Three disk buffers overlap three threads'
reads; `aRead.c` has all five reads pending at once; the third activation is the
first that can nest in a nested one. Two visits of four people to a well for two
make both ends wait and change turns. The heap of 128 bytes holds blocks of all
three sizes and refuses further ones. A list of three nodes has a first, a middle
and a last; a tree of three has a node two levels down. The array lists start with
room for one and hold three, so that they grow twice. Four threads in two queues
leave links behind to each other. The SM213 programs run on the inputs their
sources name, the jump tables on values below, in and above their range. Where a
property is proved (below) the proof removes the bounds.

`CHECK_DEADLOCK FALSE` is set where the programs end or threads may all stop for
good (threads that nobody unblocks; programs that are done). In `MCDisk` it also
hides a hang that is real: with nested activations a second
activation may spin for `q->mutex` or the ready queue's lock held by the stack
below it. In `MCMonitor` deadlock is checked: a program that is
done takes the step `Finished`, for ever. In `UthreadSpin` base threads yield for ever, and deadlock is
checked.

Symmetry is declared only over threads that the specification does not tell
apart, and only in runs without liveness properties; the refinements checked with
it are safety properties whose mappings treat those threads alike.

**Fairness.** Scheduler: weak fairness of each pthread's steps inside the
scheduler (the kernel runs every pthread) and of `GiveUp` (threads give the
processor up; the package does not preempt, so without it nothing can be
promised). Semaphore and mutex: weak fairness of a ready thread's return and
retry, which `UthreadLive` justifies, and of leaving the mutex; nothing says that a
thread calls signal. Disk: weak fairness of time, timer and handler; strong
fairness of main or each thread, since the handler takes less than a period and so
interrupts every step but not every attempt at one. No fairness is
assumed in runs without liveness properties.

## What is proved

All for every value of the constants that satisfies the named assumptions.

* **Scheduler: who executes what.** `TypeCorrect` (`UthreadProofs`): types, and that
  a pthread which switches has a successor, with or without the timing assumption.
  The invariant is `Typed`, the types with `Locals`, what a pthread's program
  counter says of the locals of its switch. `PlacementInvariant` and
  `NeverOnTwoPthreads`, with `LateCheck = FALSE`: exclusion
  itself is not inductive, since a thread may run twice only after it was
  dispatched twice. `Placement` says where a thread can be: `Locals`, `BasesStay`
  (base threads stay at home), `OneDispatch` (one dispatch of a thread is under way
  at most), `StopsFirst` (a thread dispatched while it runs is on its way to stop),
  `OneDisposal` (one pthread at a time disposes of a thread, which is still as it
  was published), and states that agree with places. There is one lemma for each
  action, and under it one step for each part it can disturb.
* **Scheduler: its promise** (`UthreadProofs`). `UnblockKeptCorrect`, with no timing
  assumption: a thread that was unblocked is on its way to a pthread until its
  block returns. What every step does to the threads on their way (`InFlight`) is
  one lemma for each action; the rest follows from it.
  `ImplementsSchedCorrect`, with `LateCheck = FALSE`: `Uthread` implements
  `ThreadSched`. It needs `CalledYield`: a thread that is enqueued without an
  unblock called yield, or is new, and is not in `uthread_block`.
  `NoIdleOverWorkCorrect`, for finitely many pthreads: `NoIdleOverWork` becomes
  inductive with `SleepersCounted`, that `pthread_num_sleeping` is exact and that a
  pthread on its way to sleep holds the mutex with the queue empty.
* **Scheduler: life and death**. `NoThreadLostCorrect`,
  `JoinMeetsExitCorrect`, `NoUseAfterFreeCorrect` and `ImplementsLifeCorrect`, with
  `LateCheck = FALSE` and `MaxClaims <= 1`. The invariant adds to `Placement`:
  `ClaimedOnce` (who joins or detaches a thread is alone in that, the thread is not
  freed meanwhile, and its joiner field is that claim's), `FromSet` (`from_thread`
  is set only while a pthread disposes of it), `AllSomewhere` (a thread that is
  created and not exited runs, yields, is on its way, or waits where somebody can
  find it) and `JoinerStarted` (the joiner of a thread that exited is on its way or
  runs). Without `AllSomewhere` a joiner could be waiting for a thread that nobody
  would ever run; without `ClaimedOnce` the TCB could be freed under it.
* **Earlier scheduler.** `SpinExclusive`, `EnqueuedOnceAndKeptCorrect` and
  `SpinImplementsSched` for the package of `soln-7` (`UthreadSpin`). The first and
  the last, and the part `EnqueuedOnce`, need no timing assumption and no bound on
  claims; that no thread is lost needs `MaxClaims <= 1`. `Placement` does not hold
  here, since a pthread may dispose of a thread long after it left it. In
  `SpinPlacement`, `SpinStopsFirst` takes its place: a thread that is sent to a
  pthread while it still executes is on its way to stop, and RUNNING until it has,
  which is what the other pthread's loop waits for; `OneDispatch` and exclusion
  follow for the next step.
* **Semaphore** (`USemProofs`). `StoppedIsQueued`, `NoLostWakeup` (while somebody
  stays queued each free permit is matched by a thread on its way) and
  `PermitsConserved`, from their conjunction with the types, `IInv`.
* **Mutex** (`UMutexProofs`). `IInv` is `TypeOK /\ Inside /\ StoppedIsQueued`:
  `Inside` adds to `FieldsAgree` that a writer excludes readers. From it follow
  `FieldsAgree`, mutual exclusion, `StoppedIsQueued`, `NoStrandedWaiter`, and
  `ImplementsMonitorCorrect`: initial states map to initial states and each step
  to a step or a stutter of `Monitor`.
* **Monitor programs** (`MonitorProofs`), for any number of threads.
  `CounterSoundCorrect`: `NoSignalLost` is inductive with the types; each step
  changes the number of threads on their way by one, or moves one out of a queue.
  `PrintsInOrderCorrect` joins four invariants: `BarrierInv` (the counter is the
  number of threads that came, and nobody is past the barrier before all are),
  `CountDownInv` (the count and every copy of it that is still to be stored are at
  least the number of threads that have not stored: the lost decrement can make
  them wait for ever and never lets one pass early), `OrderingInv` (what was
  printed is given by where the threads are) and `JoinProgInv` (the same for the
  programs on joins, from the calls each thread has made). `WellConsistentCorrect`:
  `WellInv` adds that whoever waits is queued and that the ticker is the number of
  entries, which bounds the waiting times.
* **Nobody waits for ever** (`MonitorProofs`). `NoStandstillCorrect`, for all seven
  programs and any number of threads; that nobody who could still be served is
  asleep with all others is not inductive in any of them. `ProdCons` needs
  `Balance`: the rounds the producers have made are those of the consumers and the
  items in between. A producer that sleeps finds the items at their bound, and so by
  `NoSignalLost` no consumer is queued; if all are asleep the consumers are then
  done, with more rounds than the producers made. The same with sides changed. The
  barriers need that whoever is queued waits at a stage which the last one to come
  will open (`BarrierQueued`, `LetterQueued`); `Ordering` that a flag unset belongs
  to a thread which has not passed (`OrderQueued`); the joins that a thread joins
  only those it has created (`JoinBorn`), and that the programs join in one order
  (`JoinRank`), so that nobody waits in a circle; the well `NobodyForgotten`.
* **Disk** (`DiskProofs`), for any number of buffers, blocks and nested
  activations. `TypeCorrect` and `SectionsAreMaskedCorrect`: the signal is open in
  the middle of the handler, so that masking is not an invariant of the handler
  alone. `Masks` says that an activation comes to the lock with `isInterrupt` set
  only if it interrupted one that does not hold it, and that the signal is then
  blocked; `Times` that requests, due times and completions count in one order.
  `SReadAddsWhatItReads`: the polling program needs nothing else.
  `SumsAreOfReadsCorrect`, with `Prompt`: `TInv` relates the queue of threads to
  the pending reads, shifted by what nested activations still owe, and `AInv`
  (without nesting, as the finding `AReadNested` requires) the variable `result`
  to the read that was transferred. `DueInTimeCorrect`: a read is due exactly when
  its latency has passed, although an exact second is left uncarried.
* **Data libraries and machines** (`DataProofs`; the lemmas about the programs on
  lists and trees are in `ListProofs`). `ManagersSoundCorrect`, with
  `RequestsFit`, for every heap and number of pointers and through the tests:
  `HeapInv` adds to the parts of `ManagersSound` the types and `BlocksAreMade`
  (blocks are not empty, so that an offset names one block, and the skeleton frees
  none). `ReuseBounds` is inductive because a block is made only when no free one
  is large enough: all blocks of its size are then in pointers, and one pointer is
  empty. `LinksSoundCorrect`, for any number of elements, nodes and threads: the
  list needs `IsList` (the linked nodes are the allocated ones, the others have no
  links), the tree `TreeIsClosed` (a node has its ancestors, so that a new one is
  above none), the queues of threads `LinksCleared`, on which the guard of
  `code-9` relies. Its part about the programs holds for any number of arguments,
  whichever are numbers and whichever go into the tree: `ProgramsInv` says in which
  phase the list and the tree hold what, and that an element has as many references
  as there are places that hold it (`RefsTo`) and its string as many as follow from
  that (`StringRefs`). `UsesAll` and `ReleasesAll` give what the walks over list and
  tree leave in memory, as functions of the set of elements they meet.
  `MemoryExactCorrect`: the memory of `CS213/code`, of any
  capacity, keeps words. `SimulatorsStepTogether`: in every state, whatever bytes
  are in memory, `sm.c`, `sm-jt.c` and `CPU.java` execute the next instruction
  alike, except an indirect jump with an offset of 0x80 or more.
  `TablesAgree`: in every run of the programs, whatever their arguments, the tables
  of `sm-jt.c` and the switches of `sm.c` give the same machine.
  `MachinesAgreeCorrect`: so does `CPU.java`, as long as `OffsetsFit`. Their
  invariant is `TablesInv`, that registers are integers and memory is bytes
  (`IsMachine`). It holds at the start because each of the twelve programs assembles
  to bytes (`SwitchIsCode` and the lemmas beside it), and afterwards because every
  instruction stores words as bytes (`ExecKeeps`). The words are folds over
  recursive functions; what those return comes from `RecursionOnNumbers` and
  `RecursionOnSubsets`, which are proved from the least number at which a recursion
  could first go wrong, without an induction theorem.

* **Array lists** (`ListProofs`, `DataProofs`). `ImplementsSequencesCorrect`, for
  any numbers, any first size of the array, factor of growth and greatest length:
  initial states map to initial states and every call to a step of `SequenceLists`.
  The invariant `ArraysInv` says that `len` is within `size` and that what is below
  `len` is what clients stored. Each operation of `list.c` has a lemma which says
  that the sequence of the new array is the operation on the sequence of the old
  one. For the loops of `list_insert` and `list_remove` it is `MoveDownIs` and
  `MoveUpIs`: after k steps the first k cells have moved and the others have not,
  which is where the direction of the loop counts. The functions that make lists
  are shown to append, one by one, what `SequenceLists` says of the whole; for
  `list_filter` that the k-th append is of the k-th selected element
  (`CountingMembers`, `CountsGrow`, `CountsReach`). A client may append any element,
  also uninitialized memory; the proof is that it never does.

`BasicLemmas` has what several of these need and what is about no module: what
appending, taking the head, inserting and removing do to a sequence, least and
greatest elements of sets of numbers, counting the members of a set, and the two
recursion lemmas with the left fold.

With these every safety property that a run checks is also proved, except the
following, which are only model-checked:

* Liveness (`ReadyEventuallyRuns`, `ImplementsFairSched`, `PermitEventuallyTaken`,
  `FreeMutexTaken`, `ReadsEnd`) and the absence of deadlock, which is about
  `ENABLED`: both are outside the prover.
* `OffsetsFit`, a part of `AllProgramsRight` and the hypothesis of
  `MachinesAgreeCorrect`. That no program meets
  such a jump is a fact about whole programs, their return addresses and where they
  store: each would need an invariant at each of its instructions.
* `AllProgramsRight`, about what programs compute from the inputs listed in the
  configuration, for the same reason.

## Where the code and its text disagree

1. `UthreadLateCheck`. `uthread_switch` re-reads `from_thread->state` after it has
   left that thread. If the thread has run elsewhere and stopped again meanwhile,
   both pthreads dispose of it: it is queued twice, or freed while in use. The
   parameter `from_thread_state` holds the right value.
2. `UthreadTwoJoiners`. `uthread_join` tests the joiner before it takes the lock
   and not again: of two concurrent joiners the first is overwritten and never
   starts again.
3. `AReadNested`. The handler's unlock opens the signal between a transfer and
   its delivery; a second activation delivers the next read first.
4. `MainMemory`. `integerToBytes` in `SM213/src` (`MainMemory.java:63`) casts the
   word to a byte before it takes it apart: every word is stored as the sign
   extension of its last byte.

The models also show, as what the code does and not as a disagreement: the
decrement without the lock in `code-10/q3.c` that leaves all threads waiting
(`CountDownDone`); the element programs of `code-3` that read elements the list
has freed (`AllFreedOnce`); the store of `MainMemory` across the end of memory
that writes three bytes before it throws.

Seen while reading, not run:

* `sm.c:119` widens the offset of `j o(r)` with its sign, `CPU.java:177` without;
  no program of the repository has an offset above 0x7f (`OffsetsFit`), and
  `SimulatorsStepTogether` says that this is the only difference.
* `SA-dynamic-call.s:78`, 91 and 104 allocate 4, 4 and 8 bytes for objects of 8, 8
  and 12; nothing follows them in memory that is used.
* `a8/q2.c:28` compares `arr2` with itself where the comment of `q2.s` compares two
  arrays; `code-6/int_element.c:28` compares an element with itself.
* A negative or huge size passes the free-list search of `mymalloc.c` before it
  meets the test at line 62.
* `queue_destroy` reads `e->next` after `free(e)`, and has no caller.
* The fairness count of the well does not bound a wait, since an empty well admits
  any newcomer.

## Not modelled

* System calls (instruction `f1`) and the display of the simulators; earlier
  stages of `CPU.java`; the framework of the Java simulator, of which there is
  only a jar; SM213 programs that use no instruction or convention which the
  twelve modelled do not.
* `uthread_cond_naked_signal` of `code-9`, which nobody calls: it takes a waiter
  from the queue under the spin lock, while `uthread_cond_wait` adds one under the
  mutex only.
* `smoke.c`, which has the agent without its smokers; skeletons left to
  the student, which do not synchronise as they stand.
* `uthread_unblock` of a thread that is in no wait queue; stack allocation
  and the assembly of the switch; memory order: spin locks are taken to be
  sequentially consistent. Failure of `malloc` and of pthread calls.
* The histograms of `pc.c` and the occupancy histogram of the well; printing,
  except where the order of what is printed is the point; examples of a language
  construct; binaries; the lab on buffer overflows.

## Plan

Done, in this order: scheduler and its promise; semaphore; mutex, condition and
`Monitor`; disk and its programs; monitor programs; heap and elements; the
earlier scheduler; the linked queues; thread creation programs on `ThreadLife`;
array lists and their programs; the tests of the managers; the element programs;
the machines, their memory and programs; the proofs above. What is left:

1. Proofs: `OffsetsFit` and the results of the SM213 programs, program by program.
2. Variants: the naked signal of `code-9` in `UMutex`; smokers for the agent of
   `smoke.c`, if the repository gets them.
3. Inputs that the repository's programs do not give: offsets of indirect jumps
   above 0x7f in `SMCode`.
