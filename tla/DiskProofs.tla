----------------------------- MODULE DiskProofs ----------------------------
(***************************************************************************)
(* The disk and its programs, for every number of buffers and blocks and   *)
(* every depth to which the timer handler nests; and the arithmetic of     *)
(* completion times, for every length of a second and every latency up to  *)
(* a second.                                                               *)
(***************************************************************************)
EXTENDS MCDisk, BasicLemmas, FiniteSetTheorems

(* The activations of the handler. *)

Pcs == {"lock", "set", "isr", "clear", "dequeue", "unblock", "start", "count",
        "counted", "callback", "add"}

\* An activation whose local variable holds a member of V.
FrameOf(V) == [pc : Pcs, now : Nat, tmp : V]

LEMMA FrameFields ==
    ASSUME NEW V, NEW f \in Seq(FrameOf(V)), NEW i \in 1..Len(f)
    PROVE  f[i].pc \in Pcs /\ f[i].now \in Nat /\ f[i].tmp \in V
  <1>1. f[i] \in FrameOf(V)
    OBVIOUS
  <1> QED BY <1>1 DEF FrameOf

\* The innermost activation moves on, the others stay.
LEMMA GotoFrames ==
    ASSUME NEW V, frames \in Seq(FrameOf(V)), frames # <<>>,
           NEW k \in Pcs, NEW v \in V, Goto(k, v)
    PROVE  /\ frames' \in Seq(FrameOf(V)) /\ Len(frames') = Len(frames)
           /\ \A i \in 1..(Len(frames) - 1) : frames'[i] = frames[i]
           /\ Top'.pc = k /\ Top'.tmp = v /\ Top'.now = Top.now
           /\ frames' # <<>>
  <1> DEFINE n == Len(frames)
  <1>1. n \in Nat \ {0} /\ frames = [i \in 1..n |-> frames[i]]
        /\ \A i \in 1..n : frames[i] \in FrameOf(V)
    BY SeqDef
  <1>2. frames' = [i \in 1..n |-> IF i = n THEN [frames[n] EXCEPT !.pc = k, !.tmp = v]
                                          ELSE frames[i]]
    BY <1>1 DEF Goto
  <1>3. [frames[n] EXCEPT !.pc = k, !.tmp = v] \in FrameOf(V)
    <2>1. frames[n] \in FrameOf(V)
      BY <1>1
    <2> QED BY <2>1 DEF FrameOf
  <1>4. frames' \in Seq(FrameOf(V)) /\ Len(frames') = n
    BY <1>1, <1>2, <1>3
  <1>5. Top' = [frames[n] EXCEPT !.pc = k, !.tmp = v]
    <2>1. Top' = frames'[n] /\ n \in 1..n
      BY <1>1, <1>4 DEF Top
    <2> QED BY <1>2, <2>1
  <1>6. Top'.pc = k /\ Top'.tmp = v /\ Top'.now = Top.now
    BY <1>1, <1>5 DEF FrameOf, Top
  <1> QED BY <1>1, <1>2, <1>4, <1>6

\* A new activation is put on top.
LEMMA AlarmFrames ==
    ASSUME NEW V, None \in V, frames \in Seq(FrameOf(V)), elapsed \in Nat, Alarm
    PROVE  /\ frames' \in Seq(FrameOf(V)) /\ Len(frames') = Len(frames) + 1
           /\ \A i \in 1..Len(frames) : frames'[i] = frames[i]
           /\ Top'.pc = "lock" /\ Top'.tmp = None /\ Top'.now = elapsed
           /\ frames' # <<>>
  <1> DEFINE new == [pc |-> "lock", now |-> elapsed, tmp |-> None]
  <1>1. new \in FrameOf(V) /\ frames' = Append(frames, new)
    BY DEF FrameOf, Pcs, Alarm
  <1> HIDE DEF new
  <1>2. /\ frames' \in Seq(FrameOf(V)) /\ Len(frames') = Len(frames) + 1
        /\ \A i \in 1..Len(frames) : frames'[i] = frames[i]
        /\ frames'[Len(frames) + 1] = new
    BY <1>1, AppendProperties
  <1>3. Top' = new
    BY <1>2 DEF Top
  <1> QED BY <1>2, <1>3 DEF new

\* The innermost activation goes.
LEMMA ReturnFrames ==
    ASSUME NEW V, frames \in Seq(FrameOf(V)), frames # <<>>, frames' = Front(frames)
    PROVE  /\ frames' \in Seq(FrameOf(V)) /\ Len(frames') = Len(frames) - 1
           /\ \A i \in 1..(Len(frames) - 1) : frames'[i] = frames[i]
           /\ frames' # <<>> => Len(frames) > 1 /\ Top' = frames[Len(frames) - 1]
  <1>1. Len(frames) \in Nat \ {0}
    OBVIOUS
  <1>2. /\ frames' \in Seq(FrameOf(V)) /\ Len(frames') = Len(frames) - 1
        /\ \A i \in 1..(Len(frames) - 1) : frames'[i] = frames[i]
    <2> DEFINE m == Len(frames) - 1
    <2>1. 1 \in Int /\ m \in Nat /\ \A i \in 1..m : frames[i] \in FrameOf(V)
      BY <1>1
    <2>2. /\ SubSeq(frames, 1, m) \in Seq(FrameOf(V))
          /\ Len(SubSeq(frames, 1, m)) = IF 1 <= m THEN m - 1 + 1 ELSE 0
          /\ \A i \in 1..(m - 1 + 1) : SubSeq(frames, 1, m)[i] = frames[1 + i - 1]
      <3> HIDE DEF m
      <3> QED BY <2>1, SubSeqProperties
    <2>3. frames' = SubSeq(frames, 1, m)
      BY DEF Front
    <2> HIDE DEF m
    <2>4. Len(frames') = m /\ \A i \in 1..m : frames'[i] = frames[i]
      BY <2>1, <2>2, <2>3
    <2> QED BY <2>2, <2>3, <2>4 DEF m
  <1>3. frames' # <<>> => Len(frames') > 0
    BY <1>2
  <1> QED BY <1>1, <1>2, <1>3 DEF Top
-----------------------------------------------------------------------------
(* The queue of pending reads, the signal mask and isInterrupt. *)

Requests == [buf : Buffers, blockNo : Blocks]

Times ==
    /\ completed \in Nat
    /\ elapsed \in Nat
    /\ completed <= elapsed
    /\ elapsed <= completed + Len(prq)
    /\ \A i \in 1..Len(frames) : frames[i].now <= elapsed

\* An activation comes to the lock with isInterrupt set only if it has
\* interrupted one that does not hold it, and then with the signal blocked.
Masks ==
    /\ masked \in BOOLEAN
    /\ isInterrupt \in BOOLEAN
    /\ ThreadRuns => ~masked /\ ~isInterrupt
    /\ In("lock") /\ isInterrupt =>
         masked /\ Len(frames) > 1 /\ frames[Len(frames) - 1].pc # "lock"

DiskInv(V) ==
    /\ frames \in Seq(FrameOf(V))
    /\ Len(frames) <= MaxNest
    /\ prq \in Seq(Requests)
    /\ mem \in [Buffers -> Blocks \cup {None}]
    /\ Times
    /\ Masks

LEMMA DiskInitInv == ASSUME NEW V, DiskInit PROVE DiskInv(V)
  <1>1. frames = <<>> /\ prq = <<>> /\ Len(frames) = 0 /\ Len(prq) = 0
    BY DEF DiskInit
  <1>2. Times
    BY <1>1 DEF DiskInit, Times
  <1>3. Masks
    BY DEF DiskInit, Masks, ThreadRuns, In
  <1>4. frames \in Seq(FrameOf(V)) /\ prq \in Seq(Requests)
    BY <1>1
  <1> QED BY <1>1, <1>2, <1>3, <1>4, DiskAssumption DEF DiskInit, DiskInv

LEMMA DiskInvUnchanged ==
    ASSUME NEW V, DiskInv(V), UNCHANGED diskVars
    PROVE  DiskInv(V)'
  BY DEF DiskInv, Times, Masks, ThreadRuns, In, Top, diskVars

LEMMA ScheduleKeeps ==
    ASSUME NEW V, DiskInv(V), NEW b \in Buffers, NEW n \in Blocks, Schedule(b, n)
    PROVE  DiskInv(V)'
  <1>1. /\ UNCHANGED <<frames, masked, isInterrupt, mem, completed, elapsed>>
        /\ [buf |-> b, blockNo |-> n] \in Requests
        /\ prq' = Append(prq, [buf |-> b, blockNo |-> n])
    BY DEF Schedule, Requests
  <1>2. prq' \in Seq(Requests) /\ Len(prq') = Len(prq) + 1
    BY <1>1, AppendProperties DEF DiskInv
  <1>3. Times' /\ Masks'
    BY <1>1, <1>2 DEF DiskInv, Times, Masks, ThreadRuns, In, Top
  <1> QED BY <1>1, <1>2, <1>3 DEF DiskInv

LEMMA TimePassesKeeps ==
    ASSUME NEW V, DiskInv(V), TimePasses
    PROVE  DiskInv(V)'
  <1>1. elapsed' = elapsed + 1 /\ elapsed < completed + Len(prq)
        /\ UNCHANGED <<prq, mem, completed, frames, masked, isInterrupt>>
    BY DEF TimePasses
  <1>2. Len(prq) \in Nat /\ \A i \in 1..Len(frames) : frames[i].now \in Nat
    BY FrameFields DEF DiskInv
  <1>3. Times'
    BY <1>1, <1>2 DEF DiskInv, Times
  <1>4. Masks'
    BY <1>1 DEF DiskInv, Masks, ThreadRuns, In, Top
  <1> QED BY <1>1, <1>3, <1>4 DEF DiskInv

LEMMA AlarmKeeps ==
    ASSUME NEW V, None \in V, DiskInv(V), Alarm
    PROVE  DiskInv(V)'
  <1>1. ~masked /\ masked' = TRUE /\ Len(frames) < MaxNest
        /\ UNCHANGED <<prq, mem, completed, elapsed, isInterrupt>>
    BY DEF Alarm
  <1>2. frames \in Seq(FrameOf(V)) /\ elapsed \in Nat /\ Len(frames) \in Nat
    BY DEF DiskInv, Times
  <1>3. /\ frames' \in Seq(FrameOf(V)) /\ Len(frames') = Len(frames) + 1
        /\ \A i \in 1..Len(frames) : frames'[i] = frames[i]
        /\ Top'.pc = "lock" /\ Top'.now = elapsed
        /\ frames' # <<>>
    BY <1>2, AlarmFrames
  <1>4. frames'[Len(frames) + 1].now = elapsed
    BY <1>3 DEF Top
  <1>5. Times'
    BY <1>1, <1>2, <1>3, <1>4 DEF DiskInv, Times
  <1>6. isInterrupt => Len(frames) > 0 /\ frames[Len(frames)].pc # "lock"
    BY <1>1, <1>2 DEF DiskInv, Masks, ThreadRuns, In, Top
  <1>7. Masks'
    BY <1>1, <1>2, <1>3, <1>6 DEF DiskInv, Masks, ThreadRuns, In
  <1> QED BY <1>1, <1>2, <1>3, <1>5, <1>7, DiskAssumption DEF DiskInv

\* The innermost activation moves to a place other than the lock.
LEMMA MoveKeeps ==
    ASSUME NEW V, DiskInv(V), frames # <<>>, NEW k \in Pcs, k # "lock", NEW v \in V,
           Goto(k, v), masked' \in BOOLEAN, isInterrupt' \in BOOLEAN,
           UNCHANGED <<prq, mem, completed, elapsed>>
    PROVE  DiskInv(V)'
  <1>1. frames \in Seq(FrameOf(V)) /\ Len(frames) \in Nat
    BY DEF DiskInv
  <1>2. /\ frames' \in Seq(FrameOf(V)) /\ Len(frames') = Len(frames)
        /\ \A i \in 1..(Len(frames) - 1) : frames'[i] = frames[i]
        /\ Top'.pc = k /\ Top'.now = Top.now
        /\ frames' # <<>>
    BY <1>1, GotoFrames
  <1>3. \A i \in 1..Len(frames) : frames'[i].now = frames[i].now
    BY <1>1, <1>2 DEF Top
  <1>4. Times'
    BY <1>1, <1>2, <1>3 DEF DiskInv, Times
  <1>5. Masks'
    BY <1>2 DEF Masks, ThreadRuns, In
  <1> QED BY <1>2, <1>4, <1>5 DEF DiskInv

LEMMA TransferKeeps ==
    ASSUME NEW V, None \in V, DiskInv(V), Transfer
    PROVE  DiskInv(V)'
  <1>1. /\ In("lock") /\ prq # <<>> /\ completed < Top.now
        /\ mem' = [mem EXCEPT ![Head(prq).buf] = Head(prq).blockNo]
        /\ completed' = completed + 1 /\ prq' = Tail(prq)
        /\ masked' = MaskedByUnlock /\ Goto("set", None)
        /\ UNCHANGED <<elapsed, isInterrupt>>
    BY DEF Transfer, Due
  <1>2. frames \in Seq(FrameOf(V)) /\ Len(frames) \in Nat /\ frames # <<>> /\ "set" \in Pcs
    BY <1>1 DEF DiskInv, In, Pcs
  <1>3. /\ frames' \in Seq(FrameOf(V)) /\ Len(frames') = Len(frames)
        /\ \A i \in 1..(Len(frames) - 1) : frames'[i] = frames[i]
        /\ Top'.pc = "set" /\ Top'.now = Top.now
        /\ frames' # <<>>
    BY <1>1, <1>2, GotoFrames
  <1>4. Head(prq) \in Requests /\ prq' \in Seq(Requests) /\ Len(prq') = Len(prq) - 1
        /\ Len(prq) \in Nat
    BY <1>1 DEF DiskInv
  <1>5. mem' \in [Buffers -> Blocks \cup {None}]
    BY <1>1, <1>4 DEF DiskInv, Requests
  <1>6. \A i \in 1..Len(frames) : frames'[i].now = frames[i].now /\ frames[i].now \in Nat
    BY <1>2, <1>3, FrameFields DEF Top
  <1>7. Top.now \in Nat /\ Top.now <= elapsed
    BY <1>2, <1>6 DEF DiskInv, Times, Top
  <1>8. Times'
    BY <1>1, <1>3, <1>4, <1>6, <1>7 DEF DiskInv, Times
  <1>9. Masks'
    BY <1>1, <1>3 DEF Masks, ThreadRuns, In, DiskInv, MaskedByUnlock
  <1> QED BY <1>3, <1>4, <1>5, <1>8, <1>9 DEF DiskInv

LEMMA ReturnKeeps ==
    ASSUME NEW V, DiskInv(V), Return
    PROVE  DiskInv(V)'
  <1>1. /\ In("lock") /\ frames' = Front(frames) /\ masked' = FALSE
        /\ UNCHANGED <<prq, mem, completed, elapsed, isInterrupt>>
    BY DEF Return
  <1>2. frames \in Seq(FrameOf(V)) /\ Len(frames) \in Nat /\ frames # <<>>
    BY <1>1 DEF DiskInv, In
  <1>3. /\ frames' \in Seq(FrameOf(V)) /\ Len(frames') = Len(frames) - 1
        /\ \A i \in 1..(Len(frames) - 1) : frames'[i] = frames[i]
        /\ frames' # <<>> => Len(frames) > 1 /\ Top' = frames[Len(frames) - 1]
    BY <1>1, <1>2, ReturnFrames
  <1>4. Times'
    BY <1>1, <1>2, <1>3 DEF DiskInv, Times
  <1>5. isInterrupt => Len(frames) > 1 /\ frames[Len(frames) - 1].pc # "lock"
    BY <1>1 DEF DiskInv, Masks
  <1>6. ASSUME isInterrupt PROVE frames' # <<>> /\ ~In("lock")'
    <2>1. Len(frames') # 0
      BY <1>2, <1>3, <1>5, <1>6
    <2>2. frames' # <<>>
      BY <2>1
    <2> QED BY <1>3, <1>5, <1>6, <2>2 DEF In
  <1>7. Masks'
    BY <1>1, <1>6 DEF DiskInv, Masks, ThreadRuns
  <1> QED BY <1>1, <1>2, <1>3, <1>4, <1>7, DiskAssumption DEF DiskInv

LEMMA SetInterruptKeeps ==
    ASSUME NEW V, None \in V, DiskInv(V), SetInterrupt
    PROVE  DiskInv(V)'
  <1>1. frames # <<>> /\ Goto("isr", None) /\ isInterrupt' = TRUE
        /\ UNCHANGED <<prq, mem, completed, elapsed, masked>>
    BY DEF SetInterrupt, In
  <1>2. masked \in BOOLEAN /\ "isr" \in Pcs
    BY DEF DiskInv, Masks, Pcs
  <1> QED BY <1>1, <1>2, MoveKeeps

LEMMA ClearInterruptKeeps ==
    ASSUME NEW V, None \in V, DiskInv(V), ClearInterrupt
    PROVE  DiskInv(V)'
  <1>1. frames # <<>> /\ Goto("lock", None) /\ isInterrupt' = FALSE
        /\ UNCHANGED <<prq, mem, completed, elapsed, masked>>
    BY DEF ClearInterrupt, In
  <1>2. frames \in Seq(FrameOf(V)) /\ Len(frames) \in Nat /\ "lock" \in Pcs
    BY DEF DiskInv, Pcs
  <1>3. /\ frames' \in Seq(FrameOf(V)) /\ Len(frames') = Len(frames)
        /\ \A i \in 1..(Len(frames) - 1) : frames'[i] = frames[i]
        /\ Top'.now = Top.now
        /\ frames' # <<>>
    BY <1>1, <1>2, GotoFrames
  <1>4. \A i \in 1..Len(frames) : frames'[i].now = frames[i].now
    BY <1>2, <1>3 DEF Top
  <1>5. Times'
    BY <1>1, <1>2, <1>3, <1>4 DEF DiskInv, Times
  <1>6. Masks'
    BY <1>1, <1>3 DEF DiskInv, Masks, ThreadRuns
  <1> QED BY <1>1, <1>3, <1>5, <1>6 DEF DiskInv

LEMMA HandlerKeeps ==
    ASSUME NEW V, None \in V, DiskInv(V), Handler
    PROVE  DiskInv(V)'
  BY TransferKeeps, ReturnKeeps, SetInterruptKeeps, ClearInterruptKeeps DEF Handler
-----------------------------------------------------------------------------
(* sRead.c. *)

LEMMA SReadDisk ==
    /\ SN!DiskInit <=> DiskInit
    /\ \A b, n : SN!Schedule(b, n) <=> Schedule(b, n)
    /\ SN!ThreadRuns <=> ThreadRuns
    /\ \A l : SN!In(l) <=> In(l)
    /\ \A l, v : SN!Goto(l, v) <=> Goto(l, v)
    /\ SN!Alarm <=> Alarm
    /\ SN!TimePasses <=> TimePasses
    /\ SN!Handler <=> Handler
  <1>1. SN!DiskInit <=> DiskInit
    BY DEF SN!DiskInit, DiskInit
  <1>2. \A b, n : SN!Schedule(b, n) <=> Schedule(b, n)
    BY DEF SN!Schedule, Schedule, SN!ThreadRuns, ThreadRuns
  <1>3. SN!ThreadRuns <=> ThreadRuns
    BY DEF SN!ThreadRuns, ThreadRuns
  <1>4. \A l : SN!In(l) <=> In(l)
    BY DEF SN!In, In, SN!Top, Top
  <1>5. \A l, v : SN!Goto(l, v) <=> Goto(l, v)
    BY DEF SN!Goto, Goto
  <1>6. SN!Alarm <=> Alarm
    BY DiskAssumption DEF SN!Alarm, Alarm
  <1>7. SN!TimePasses <=> TimePasses
    BY DEF SN!TimePasses, TimePasses
  <1>8. SN!Transfer <=> Transfer
    BY <1>4, <1>5 DEF SN!Transfer, Transfer, SN!Due, Due, SN!Top, Top,
       SN!MaskedByUnlock, MaskedByUnlock
  <1>9. SN!Return <=> Return
    BY <1>4 DEF SN!Return, Return, SN!Due, Due, SN!Top, Top, SN!Front, Front
  <1>10. SN!SetInterrupt <=> SetInterrupt
    BY <1>4, <1>5 DEF SN!SetInterrupt, SetInterrupt
  <1>11. SN!ClearInterrupt <=> ClearInterrupt
    BY <1>4, <1>5 DEF SN!ClearInterrupt, ClearInterrupt
  <1> QED BY <1>1, <1>2, <1>3, <1>4, <1>5, <1>6, <1>7, <1>8, <1>9, <1>10, <1>11
          DEF SN!Handler, Handler

\* A handler that returns within a timer period is one that may nest.
LEMMA SReadOnceDisk ==
    /\ S!DiskInit <=> DiskInit
    /\ \A b, n : S!Schedule(b, n) <=> Schedule(b, n)
    /\ S!ThreadRuns <=> ThreadRuns
    /\ \A l : S!In(l) <=> In(l)
    /\ \A l, v : S!Goto(l, v) <=> Goto(l, v)
    /\ S!Alarm => Alarm
    /\ S!TimePasses <=> TimePasses
    /\ S!Handler <=> Handler
  <1>1. S!DiskInit <=> DiskInit
    BY DEF S!DiskInit, DiskInit
  <1>2. \A b, n : S!Schedule(b, n) <=> Schedule(b, n)
    BY DEF S!Schedule, Schedule, S!ThreadRuns, ThreadRuns
  <1>3. S!ThreadRuns <=> ThreadRuns
    BY DEF S!ThreadRuns, ThreadRuns
  <1>4. \A l : S!In(l) <=> In(l)
    BY DEF S!In, In, S!Top, Top
  <1>5. \A l, v : S!Goto(l, v) <=> Goto(l, v)
    BY DEF S!Goto, Goto
  <1>6. S!Alarm => Alarm
    BY DiskAssumption DEF S!Alarm, Alarm
  <1>7. S!TimePasses <=> TimePasses
    BY DEF S!TimePasses, TimePasses
  <1>8. S!Transfer <=> Transfer
    BY <1>4, <1>5 DEF S!Transfer, Transfer, S!Due, Due, S!Top, Top,
       S!MaskedByUnlock, MaskedByUnlock
  <1>9. S!Return <=> Return
    BY <1>4 DEF S!Return, Return, S!Due, Due, S!Top, Top, S!Front, Front
  <1>10. S!SetInterrupt <=> SetInterrupt
    BY <1>4, <1>5 DEF S!SetInterrupt, SetInterrupt
  <1>11. S!ClearInterrupt <=> ClearInterrupt
    BY <1>4, <1>5 DEF S!ClearInterrupt, ClearInterrupt
  <1> QED BY <1>1, <1>2, <1>3, <1>4, <1>5, <1>6, <1>7, <1>8, <1>9, <1>10, <1>11
          DEF S!Handler, Handler

LEMMA SReadOnceStep == S!Next => SN!Next
  <1>1. S!result = SN!result
    BY DEF S!result, SN!result
  <1>2. S!Main => SN!Main
    BY <1>1, SReadDisk, SReadOnceDisk
       DEF S!Main, SN!Main, S!SetPending, SN!SetPending, S!Request, SN!Request,
           S!Poll, SN!Poll, S!Add, SN!Add, S!diskVars, SN!diskVars
  <1>3. S!Interrupt => SN!Interrupt
    BY SReadDisk, SReadOnceDisk
       DEF S!Interrupt, SN!Interrupt, S!InterruptServiceRoutine,
           SN!InterruptServiceRoutine
  <1> QED BY <1>2, <1>3, SReadDisk, SReadOnceDisk
          DEF S!Next, SN!Next, S!Fires, SN!Fires, S!Passes, SN!Passes

SPcs == {"set", "request", "poll", "add", "done"}

\* The one read that may be under way is the one main asked for last; once it
\* is transferred, only its routine has still to run.
SInv ==
    /\ pc \in SPcs
    /\ blockno \in 0..NumBlocks
    /\ pc \in {"request", "poll", "add"} => blockno < NumBlocks
    /\ sum = [i \in 1..blockno |-> i - 1]
    /\ pc = "request" => is_read_pending
    /\ pc # "poll" => prq = <<>>
    /\ pc = "poll" =>
         \/ prq = <<[buf |-> SN!result, blockNo |-> blockno]>> /\ is_read_pending
         \/ prq = <<>> /\ mem[SN!result] = blockno
    /\ pc = "add" => mem[SN!result] = blockno
    /\ \A i \in 1..Len(frames) :
         frames[i].pc \in {"set", "isr"} => pc = "poll" /\ prq = <<>>

LEMMA SReadResult == SN!result \in Buffers
  BY DiskAssumption DEF SN!result

LEMMA SReadInit == SN!Init => DiskInv({None}) /\ SInv
  <1> SUFFICES ASSUME SN!Init PROVE DiskInv({None}) /\ SInv
    OBVIOUS
  <1>1. DiskInit /\ pc = "set" /\ blockno = 0 /\ sum = <<>>
    BY SReadDisk DEF SN!Init
  <1>2. frames = <<>> /\ prq = <<>> /\ Len(frames) = 0
    BY <1>1 DEF DiskInit
  <1>3. sum = [i \in 1..blockno |-> i - 1]
    BY <1>1
  <1>4. SInv
    BY <1>1, <1>2, <1>3, DiskAssumption DEF SInv, SPcs
  <1> QED BY <1>1, <1>4, DiskInitInv

SProgVars == <<pc, blockno, is_read_pending, sum>>

LEMMA SReadMainKeeps ==
    ASSUME DiskInv({None}), SInv, SN!Main
    PROVE  DiskInv({None})' /\ SInv'
  <1>1. CASE SN!SetPending
    <2>1. /\ pc = "set" /\ blockno < NumBlocks /\ is_read_pending' = TRUE
          /\ pc' = "request" /\ UNCHANGED <<blockno, sum, diskVars>>
      BY <1>1 DEF SN!SetPending, SN!diskVars, diskVars
    <2>2. SInv'
      BY <2>1 DEF SInv, SPcs, diskVars
    <2> QED BY <2>1, <2>2, DiskInvUnchanged
  <1>2. CASE SN!Request
    <2>1. /\ pc = "request" /\ Schedule(SN!result, blockno) /\ pc' = "poll"
          /\ UNCHANGED <<blockno, is_read_pending, sum>>
      BY <1>2, SReadDisk DEF SN!Request
    <2>2. prq = <<>> /\ frames = <<>> /\ UNCHANGED <<frames, mem>>
          /\ prq' = Append(prq, [buf |-> SN!result, blockNo |-> blockno])
      BY <2>1 DEF SInv, Schedule, ThreadRuns
    <2>3. prq' = <<[buf |-> SN!result, blockNo |-> blockno]>> /\ Len(frames) = 0
      BY <2>2
    <2>4. SInv'
      BY <2>1, <2>2, <2>3 DEF SInv, SPcs
    <2>5. blockno \in Blocks
      BY <2>1, DiskAssumption DEF SInv, Blocks
    <2> QED BY <2>1, <2>4, <2>5, SReadResult, ScheduleKeeps
  <1>3. CASE SN!Poll
    <2>1. /\ pc = "poll" /\ ~is_read_pending /\ pc' = "add" /\ frames = <<>>
          /\ UNCHANGED <<blockno, is_read_pending, sum, diskVars>>
      BY <1>3, SReadDisk DEF SN!Poll, SN!diskVars, diskVars, ThreadRuns
    <2>2. Len(frames) = 0
      BY <2>1
    <2>3. SInv'
      BY <2>1, <2>2 DEF SInv, SPcs, diskVars
    <2> QED BY <2>1, <2>3, DiskInvUnchanged
  <1>4. CASE SN!Add
    <2>1. /\ pc = "add" /\ sum' = Append(sum, mem[SN!result]) /\ blockno' = blockno + 1
          /\ pc' = (IF blockno' = NumBlocks THEN "done" ELSE "set")
          /\ UNCHANGED <<is_read_pending, diskVars>>
      BY <1>4 DEF SN!Add, SN!diskVars, diskVars
    <2>2. /\ mem[SN!result] = blockno /\ blockno \in 0..NumBlocks /\ blockno < NumBlocks
          /\ sum = [i \in 1..blockno |-> i - 1] /\ prq = <<>>
      BY <2>1 DEF SInv
    <2>3. sum' = [i \in 1..blockno' |-> i - 1]
      BY <2>1, <2>2
    <2>4. blockno' \in 0..NumBlocks /\ pc' \in {"done", "set"}
      BY <2>1, <2>2, DiskAssumption
    <2>5. SInv'
      BY <2>1, <2>2, <2>3, <2>4 DEF SInv, SPcs, diskVars
    <2> QED BY <2>1, <2>5, DiskInvUnchanged
  <1> QED BY <1>1, <1>2, <1>3, <1>4 DEF SN!Main

LEMMA SReadHandlerKeeps ==
    ASSUME DiskInv({None}), SInv, Handler, UNCHANGED SProgVars
    PROVE  SInv'
  <1>1. frames \in Seq(FrameOf({None})) /\ Len(frames) \in Nat
        /\ "set" \in Pcs /\ "isr" \in Pcs /\ "lock" \in Pcs
    BY DEF DiskInv, Pcs
  <1>2. CASE Transfer
    <2>1. /\ frames # <<>> /\ prq # <<>> /\ Goto("set", None)
          /\ mem' = [mem EXCEPT ![Head(prq).buf] = Head(prq).blockNo]
          /\ prq' = Tail(prq)
      BY <1>2 DEF Transfer, Due, In
    <2>2. pc = "poll" /\ prq = <<[buf |-> SN!result, blockNo |-> blockno]>>
      BY <2>1 DEF SInv
    <2>3. Head(prq) = [buf |-> SN!result, blockNo |-> blockno] /\ Tail(prq) = <<>>
      BY <2>2
    <2>4. prq' = <<>> /\ mem'[SN!result] = blockno
      BY <2>1, <2>3, SReadResult DEF DiskInv
    <2> QED BY <2>2, <2>4 DEF SInv, SProgVars
  <1>3. CASE Return
    <2>1. frames # <<>> /\ frames' = Front(frames) /\ UNCHANGED <<prq, mem>>
      BY <1>3 DEF Return, In
    <2>2. Len(frames') = Len(frames) - 1
          /\ \A i \in 1..(Len(frames) - 1) : frames'[i] = frames[i]
      BY <1>1, <2>1, ReturnFrames
    <2>3. \A i \in 1..Len(frames') : i \in 1..Len(frames) /\ frames'[i] = frames[i]
      BY <1>1, <2>2
    <2> QED BY <2>1, <2>3 DEF SInv, SProgVars
  <1>4. CASE SetInterrupt
    <2>1. frames # <<>> /\ Goto("isr", None) /\ UNCHANGED <<prq, mem>> /\ Top.pc = "set"
      BY <1>4 DEF SetInterrupt, In
    <2>2. Len(frames') = Len(frames)
          /\ \A i \in 1..(Len(frames) - 1) : frames'[i] = frames[i]
      BY <1>1, <2>1, GotoFrames
    <2>3. \A i \in 1..Len(frames') : i \in 1..Len(frames)
            /\ (frames'[i] = frames[i] \/ frames[i].pc = "set")
      BY <1>1, <2>1, <2>2 DEF Top
    <2> QED BY <2>1, <2>3 DEF SInv, SProgVars
  <1>5. CASE ClearInterrupt
    <2>1. frames # <<>> /\ Goto("lock", None) /\ UNCHANGED <<prq, mem>>
      BY <1>5 DEF ClearInterrupt, In
    <2>2. Len(frames') = Len(frames) /\ Top'.pc = "lock"
          /\ \A i \in 1..(Len(frames) - 1) : frames'[i] = frames[i]
      BY <1>1, <2>1, GotoFrames
    <2>3. \A i \in 1..Len(frames') : i \in 1..Len(frames)
            /\ (frames'[i] = frames[i] \/ frames'[i].pc = "lock")
      BY <1>1, <2>2 DEF Top
    <2> QED BY <2>1, <2>3 DEF SInv, SProgVars
  <1> QED BY <1>2, <1>3, <1>4, <1>5 DEF Handler

LEMMA SReadKeeps ==
    ASSUME DiskInv({None}), SInv, SN!Next
    PROVE  DiskInv({None})' /\ SInv'
  <1>1. frames \in Seq(FrameOf({None})) /\ Len(frames) \in Nat /\ elapsed \in Nat
    BY DEF DiskInv, Times
  <1>2. CASE SN!Main
    BY <1>2, SReadMainKeeps
  <1>3. CASE SN!Interrupt
    <2>1. CASE SN!InterruptServiceRoutine
      <3>1. /\ frames # <<>> /\ Top.pc = "isr" /\ is_read_pending' = FALSE
            /\ Goto("clear", None)
            /\ UNCHANGED <<prq, mem, completed, elapsed, masked, isInterrupt, pc,
                           blockno, sum>>
        BY <2>1, SReadDisk DEF SN!InterruptServiceRoutine, In
      <3>2. "clear" \in Pcs /\ masked \in BOOLEAN /\ isInterrupt \in BOOLEAN
        BY DEF Pcs, DiskInv, Masks
      <3>3. Len(frames') = Len(frames) /\ Top'.pc = "clear"
            /\ \A i \in 1..(Len(frames) - 1) : frames'[i] = frames[i]
        BY <1>1, <3>1, <3>2, GotoFrames
      <3>4. \A i \in 1..Len(frames') : i \in 1..Len(frames)
              /\ (frames'[i] = frames[i] \/ frames'[i].pc = "clear")
        BY <1>1, <3>3 DEF Top
      <3>5. pc = "poll" /\ prq = <<>>
        <4>1. Len(frames) \in 1..Len(frames)
          BY <1>1, <3>1
        <4> QED BY <3>1, <4>1 DEF SInv, Top
      <3>6. SInv'
        BY <3>1, <3>4, <3>5 DEF SInv
      <3> QED BY <3>1, <3>2, <3>6, MoveKeeps
    <2>2. CASE Handler /\ UNCHANGED SProgVars
      BY <2>2, SReadHandlerKeeps, HandlerKeeps
    <2> QED BY <1>3, <2>1, <2>2, SReadDisk DEF SN!Interrupt, SProgVars
  <1>4. CASE SN!Fires
    <2>1. Alarm /\ UNCHANGED <<pc, blockno, is_read_pending, sum, prq, mem>>
      BY <1>4, SReadDisk DEF SN!Fires, Alarm
    <2>2. /\ Len(frames') = Len(frames) + 1 /\ Top'.pc = "lock"
          /\ \A i \in 1..Len(frames) : frames'[i] = frames[i]
      BY <1>1, <2>1, AlarmFrames
    <2>3. \A i \in 1..Len(frames') :
            (i \in 1..Len(frames) /\ frames'[i] = frames[i]) \/ frames'[i].pc = "lock"
      BY <1>1, <2>2 DEF Top
    <2>4. SInv'
      BY <2>1, <2>3 DEF SInv
    <2> QED BY <2>1, <2>4, AlarmKeeps
  <1>5. CASE SN!Passes
    <2>1. TimePasses /\ UNCHANGED <<pc, blockno, is_read_pending, sum, prq, mem, frames>>
      BY <1>5, SReadDisk DEF SN!Passes, TimePasses
    <2> QED BY <2>1, TimePassesKeeps DEF SInv
  <1> QED BY <1>2, <1>3, <1>4, <1>5 DEF SN!Next

LEMMA SReadSound ==
    ASSUME SInv
    PROVE  SN!AddsWhatItRead
  <1>1. sum = [i \in 1..Len(sum) |-> i - 1]
    BY DEF SInv
  <1> QED BY <1>1 DEF SInv, SN!AddsWhatItRead
-----------------------------------------------------------------------------
(* tRead.c. *)

LEMMA TReadDisk ==
    /\ TN!DiskInit <=> DiskInit
    /\ \A b, n : TN!Schedule(b, n) <=> Schedule(b, n)
    /\ TN!ThreadRuns <=> ThreadRuns
    /\ \A l : TN!In(l) <=> In(l)
    /\ \A l, v : TN!Goto(l, v) <=> Goto(l, v)
    /\ TN!Alarm <=> Alarm
    /\ TN!TimePasses <=> TimePasses
    /\ TN!Handler <=> Handler
  <1>1. TN!DiskInit <=> DiskInit
    BY DEF TN!DiskInit, DiskInit
  <1>2. \A b, n : TN!Schedule(b, n) <=> Schedule(b, n)
    BY DEF TN!Schedule, Schedule, TN!ThreadRuns, ThreadRuns
  <1>3. TN!ThreadRuns <=> ThreadRuns
    BY DEF TN!ThreadRuns, ThreadRuns
  <1>4. \A l : TN!In(l) <=> In(l)
    BY DEF TN!In, In, TN!Top, Top
  <1>5. \A l, v : TN!Goto(l, v) <=> Goto(l, v)
    BY DEF TN!Goto, Goto
  <1>6. TN!Alarm <=> Alarm
    BY DiskAssumption DEF TN!Alarm, Alarm
  <1>7. TN!TimePasses <=> TimePasses
    BY DEF TN!TimePasses, TimePasses
  <1>8. TN!Transfer <=> Transfer
    BY <1>4, <1>5 DEF TN!Transfer, Transfer, TN!Due, Due, TN!Top, Top,
       TN!MaskedByUnlock, MaskedByUnlock
  <1>9. TN!Return <=> Return
    BY <1>4 DEF TN!Return, Return, TN!Due, Due, TN!Top, Top, TN!Front, Front
  <1>10. TN!SetInterrupt <=> SetInterrupt
    BY <1>4, <1>5 DEF TN!SetInterrupt, SetInterrupt
  <1>11. TN!ClearInterrupt <=> ClearInterrupt
    BY <1>4, <1>5 DEF TN!ClearInterrupt, ClearInterrupt
  <1> QED BY <1>1, <1>2, <1>3, <1>4, <1>5, <1>6, <1>7, <1>8, <1>9, <1>10, <1>11
          DEF TN!Handler, Handler

LEMMA TReadQueue ==
    /\ TN!QueueInit <=> QueueInit
    /\ \A e : TN!QueueEnqueue(e) <=> QueueEnqueue(e)
    /\ \A l : TN!QueueLock(l) <=> QueueLock(l)
    /\ \A l : TN!QueueDequeue(l) <=> QueueDequeue(l)
    /\ TN!QueueTimePasses <=> QueueTimePasses
  <1>1. TN!QueueInit <=> QueueInit
    BY DEF TN!QueueInit, QueueInit
  <1>2. \A e : TN!QueueEnqueue(e) <=> QueueEnqueue(e)
    BY TReadDisk DEF TN!QueueEnqueue, QueueEnqueue, TN!diskVars, diskVars
  <1>3. \A l : TN!QueueLock(l) <=> QueueLock(l)
    BY TReadDisk DEF TN!QueueLock, QueueLock, TN!MaskedByLock, MaskedByLock
  <1>4. \A l : TN!QueueDequeue(l) <=> QueueDequeue(l)
    BY TReadDisk DEF TN!QueueDequeue, QueueDequeue, TN!MaskedByUnlock, MaskedByUnlock
  <1>5. TN!QueueTimePasses <=> QueueTimePasses
    BY TReadDisk DEF TN!QueueTimePasses, QueueTimePasses, TN!queueVars, queueVars
  <1> QED BY <1>1, <1>2, <1>3, <1>4, <1>5

LEMMA TReadOnceDisk ==
    /\ T!DiskInit <=> DiskInit
    /\ \A b, n : T!Schedule(b, n) <=> Schedule(b, n)
    /\ T!ThreadRuns <=> ThreadRuns
    /\ \A l : T!In(l) <=> In(l)
    /\ \A l, v : T!Goto(l, v) <=> Goto(l, v)
    /\ T!Alarm => Alarm
    /\ T!TimePasses <=> TimePasses
    /\ T!Handler <=> Handler
  <1>1. T!DiskInit <=> DiskInit
    BY DEF T!DiskInit, DiskInit
  <1>2. \A b, n : T!Schedule(b, n) <=> Schedule(b, n)
    BY DEF T!Schedule, Schedule, T!ThreadRuns, ThreadRuns
  <1>3. T!ThreadRuns <=> ThreadRuns
    BY DEF T!ThreadRuns, ThreadRuns
  <1>4. \A l : T!In(l) <=> In(l)
    BY DEF T!In, In, T!Top, Top
  <1>5. \A l, v : T!Goto(l, v) <=> Goto(l, v)
    BY DEF T!Goto, Goto
  <1>6. T!Alarm => Alarm
    BY DiskAssumption DEF T!Alarm, Alarm
  <1>7. T!TimePasses <=> TimePasses
    BY DEF T!TimePasses, TimePasses
  <1>8. T!Transfer <=> Transfer
    BY <1>4, <1>5 DEF T!Transfer, Transfer, T!Due, Due, T!Top, Top,
       T!MaskedByUnlock, MaskedByUnlock
  <1>9. T!Return <=> Return
    BY <1>4 DEF T!Return, Return, T!Due, Due, T!Top, Top, T!Front, Front
  <1>10. T!SetInterrupt <=> SetInterrupt
    BY <1>4, <1>5 DEF T!SetInterrupt, SetInterrupt
  <1>11. T!ClearInterrupt <=> ClearInterrupt
    BY <1>4, <1>5 DEF T!ClearInterrupt, ClearInterrupt
  <1> QED BY <1>1, <1>2, <1>3, <1>4, <1>5, <1>6, <1>7, <1>8, <1>9, <1>10, <1>11
          DEF T!Handler, Handler

LEMMA TReadOnceQueue ==
    /\ T!QueueInit <=> QueueInit
    /\ \A e : T!QueueEnqueue(e) <=> QueueEnqueue(e)
    /\ \A l : T!QueueLock(l) <=> QueueLock(l)
    /\ \A l : T!QueueDequeue(l) <=> QueueDequeue(l)
    /\ T!QueueTimePasses <=> QueueTimePasses
  <1>1. T!QueueInit <=> QueueInit
    BY DEF T!QueueInit, QueueInit
  <1>2. \A e : T!QueueEnqueue(e) <=> QueueEnqueue(e)
    BY TReadOnceDisk DEF T!QueueEnqueue, QueueEnqueue, T!diskVars, diskVars
  <1>3. \A l : T!QueueLock(l) <=> QueueLock(l)
    BY TReadOnceDisk DEF T!QueueLock, QueueLock, T!MaskedByLock, MaskedByLock
  <1>4. \A l : T!QueueDequeue(l) <=> QueueDequeue(l)
    BY TReadOnceDisk DEF T!QueueDequeue, QueueDequeue, T!MaskedByUnlock, MaskedByUnlock
  <1>5. T!QueueTimePasses <=> QueueTimePasses
    BY TReadOnceDisk DEF T!QueueTimePasses, QueueTimePasses, T!queueVars, queueVars
  <1> QED BY <1>1, <1>2, <1>3, <1>4, <1>5

LEMMA TReadOnceThread == \A t : T!Thread(t) => TN!Thread(t)
  <1> SUFFICES ASSUME NEW t PROVE T!Thread(t) => TN!Thread(t)
    OBVIOUS
  <1>1. T!BlockOf = TN!BlockOf
    BY DEF T!BlockOf, TN!BlockOf, T!IsInjective, TN!IsInjective, T!Blocks, TN!Blocks
  <1>2. T!Start(t) => TN!Start(t)
    BY TReadDisk, TReadOnceDisk DEF T!Start, TN!Start, T!diskVars, TN!diskVars,
       T!queueVars, TN!queueVars
  <1>3. T!Request(t) => TN!Request(t)
    BY <1>1, TReadDisk, TReadOnceDisk DEF T!Request, TN!Request,
       T!queueVars, TN!queueVars
  <1>4. T!Enqueue(t) => TN!Enqueue(t)
    BY TReadQueue, TReadOnceQueue DEF T!Enqueue, TN!Enqueue, T!Sched!Block, TN!Sched!Block
  <1>5. T!Block(t) => TN!Block(t)
    BY TReadDisk, TReadOnceDisk DEF T!Block, TN!Block, T!diskVars, TN!diskVars,
       T!queueVars, TN!queueVars
  <1>6. T!Resume(t) => TN!Resume(t)
    BY TReadDisk, TReadOnceDisk DEF T!Resume, TN!Resume, T!diskVars, TN!diskVars,
       T!queueVars, TN!queueVars, T!Sched!Return, TN!Sched!Return
  <1>7. T!Add(t) => TN!Add(t)
    BY TReadDisk, TReadOnceDisk DEF T!Add, TN!Add, T!diskVars, TN!diskVars,
       T!queueVars, TN!queueVars
  <1> QED BY <1>2, <1>3, <1>4, <1>5, <1>6, <1>7 DEF T!Thread, TN!Thread

LEMMA TReadOnceStep == T!Next => TN!Next
  <1>1. T!Lock => TN!Lock
    BY TReadQueue, TReadOnceQueue DEF T!Lock, TN!Lock, T!progVars, TN!progVars
  <1>2. T!Dequeue => TN!Dequeue
    BY TReadQueue, TReadOnceQueue DEF T!Dequeue, TN!Dequeue, T!progVars, TN!progVars
  <1>3. T!ReadyLock => TN!ReadyLock
    BY TReadDisk, TReadOnceDisk DEF T!ReadyLock, TN!ReadyLock, T!queueVars,
       TN!queueVars, T!Top, TN!Top, T!MaskedByLock, TN!MaskedByLock
  <1>4. T!ReadyEnqueue => TN!ReadyEnqueue
    BY TReadDisk, TReadOnceDisk DEF T!ReadyEnqueue, TN!ReadyEnqueue, T!queueVars,
       TN!queueVars, T!Top, TN!Top, T!MaskedByUnlock, TN!MaskedByUnlock,
       T!Sched!Unblock, TN!Sched!Unblock
  <1>5. T!Interrupt => TN!Interrupt
    BY <1>1, <1>2, <1>3, <1>4, TReadDisk, TReadOnceDisk
       DEF T!Interrupt, TN!Interrupt, T!progVars, TN!progVars, T!queueVars, TN!queueVars
  <1>6. T!Fires => TN!Fires
    BY TReadDisk, TReadOnceDisk
       DEF T!Fires, TN!Fires, T!progVars, TN!progVars, T!queueVars, TN!queueVars
  <1>7. T!Passes => TN!Passes
    BY TReadQueue, TReadOnceQueue DEF T!Passes, TN!Passes, T!progVars, TN!progVars
  <1> QED BY <1>5, <1>6, <1>7, TReadOnceThread DEF T!Next, TN!Next

TPcs == {"request", "enqueue", "block", "blocked", "add", "done"}
TVals == Buffers \cup {None}

\* The activations that have transferred a read and not yet dequeued the
\* thread that made it.
OwingPcs == {"set", "isr", "dequeue"}
Owing == {i \in 1..Len(frames) : frames[i].pc \in OwingPcs}
Owed == Cardinality(Owing)

\* A thread has requested its read and is about to enqueue itself.
Ahead == IF \E t \in Buffers : pc[t] = "enqueue" THEN 1 ELSE 0

\* Thread t has its block.
Has(t) == mem[t] = TN!BlockOf[t]

ToUnblockPcs == {"unblock", "start"}

\* The queue holds the threads whose reads were transferred and that an
\* activation still has to dequeue, and after them those of the pending reads,
\* in the order of the requests; only the last read may be without its entry.
TInv ==
    /\ pc \in [Buffers -> TPcs]
    /\ tokens \subseteq Buffers
    /\ queue \in Seq(Buffers)
    /\ enqueued \in Nat
    /\ elapsed <= enqueued
    /\ \A t \in Buffers : pc[t] = "enqueue" => cpu = t
    /\ completed + Len(prq) = enqueued + Ahead
    /\ Ahead = 1 => prq # <<>> /\ prq[Len(prq)].buf = cpu
    /\ Len(queue) + completed = enqueued + Owed
    /\ \A i \in 1..Len(prq) : prq[i].blockNo = TN!BlockOf[prq[i].buf]
    /\ \A i \in 1..Len(prq) : Owed + i <= Len(queue) => prq[i].buf = queue[Owed + i]
    /\ \A j \in 1..Owed : Has(queue[j])
    /\ \A i \in 1..Len(frames) :
         frames[i].pc \in ToUnblockPcs => frames[i].tmp \in Buffers /\ Has(frames[i].tmp)
    /\ \A t \in tokens : Has(t)
    /\ \A t \in Buffers : pc[t] \in {"add", "done"} => Has(t)

LEMMA BlockOfType == TN!BlockOf \in [Buffers -> Blocks]
  <1>1. PICK f \in [Buffers -> Blocks] : IsInjective(f)
    BY ProgramAssumption
  <1>2. TN!IsInjective(f)
    BY <1>1 DEF IsInjective, TN!IsInjective
  <1>3. TN!Blocks = Blocks
    BY DEF TN!Blocks, Blocks
  <1> QED BY <1>1, <1>2, <1>3 DEF TN!BlockOf

LEMMA OwingFinite ==
    ASSUME NEW V, frames \in Seq(FrameOf(V))
    PROVE  IsFiniteSet(Owing) /\ Owed \in Nat
  <1>1. IsFiniteSet(1..Len(frames)) /\ Owing \subseteq 1..Len(frames)
    BY FS_Interval DEF Owing
  <1>2. IsFiniteSet(Owing)
    BY <1>1, FS_Subset
  <1> QED BY <1>2, FS_CardinalityType DEF Owed

\* Only the innermost activation comes to owe or no longer owes.
LEMMA GotoOwing ==
    ASSUME NEW V, frames \in Seq(FrameOf(V)), frames # <<>>,
           NEW k \in Pcs, NEW v \in V, Goto(k, v)
    PROVE  /\ Top.pc \in OwingPcs /\ k \in OwingPcs => Owed' = Owed
           /\ Top.pc \notin OwingPcs /\ k \notin OwingPcs => Owed' = Owed
           /\ Top.pc \notin OwingPcs /\ k \in OwingPcs => Owed' = Owed + 1
           /\ Top.pc \in OwingPcs /\ k \notin OwingPcs => Owed > 0 /\ Owed' = Owed - 1
  <1> DEFINE n == Len(frames)
  <1>1. n \in Nat \ {0} /\ n \in 1..n /\ IsFiniteSet(Owing) /\ Owed \in Nat
    BY OwingFinite
  <1>2. /\ Len(frames') = n /\ frames'[n].pc = k
        /\ \A i \in 1..(n - 1) : frames'[i] = frames[i]
    <2>1. /\ Len(frames') = n /\ Top'.pc = k
          /\ \A i \in 1..(n - 1) : frames'[i] = frames[i]
      BY GotoFrames
    <2> QED BY <2>1 DEF Top
  <1>3. \A i \in 1..n : i # n => frames'[i] = frames[i]
    BY <1>1, <1>2
  <1>4. n \in Owing <=> Top.pc \in OwingPcs
    BY <1>1 DEF Owing, Top
  <1>5. Owing' = IF k \in OwingPcs THEN Owing \cup {n} ELSE Owing \ {n}
    BY <1>1, <1>2, <1>3 DEF Owing
  <1>6. CASE k \in OwingPcs
    <2>1. Owing' = Owing \cup {n}
      BY <1>5, <1>6
    <2>2. Cardinality(Owing \cup {n}) = IF n \in Owing THEN Cardinality(Owing) ELSE Cardinality(Owing) + 1
      BY <1>1, FS_AddElement
    <2> QED BY <1>4, <1>6, <2>1, <2>2 DEF Owed
  <1>7. CASE k \notin OwingPcs
    <2>1. Owing' = Owing \ {n}
      BY <1>5, <1>7
    <2>2. Cardinality(Owing \ {n}) = IF n \in Owing THEN Cardinality(Owing) - 1 ELSE Cardinality(Owing)
      BY <1>1, FS_RemoveElement
    <2>3. n \in Owing => Cardinality(Owing) > 0
      BY <1>1, FS_EmptySet DEF Owed
    <2> QED BY <1>4, <1>7, <2>1, <2>2, <2>3 DEF Owed
  <1> QED BY <1>6, <1>7

LEMMA AlarmOwing ==
    ASSUME NEW V, None \in V, frames \in Seq(FrameOf(V)), elapsed \in Nat, Alarm
    PROVE  Owed' = Owed
  <1>1. /\ Len(frames') = Len(frames) + 1 /\ Top'.pc = "lock"
        /\ \A i \in 1..Len(frames) : frames'[i] = frames[i]
    BY AlarmFrames
  <1>2. Len(frames) \in Nat /\ frames'[Len(frames) + 1].pc = "lock"
    BY <1>1 DEF Top
  <1>3. Owing' = Owing
    BY <1>1, <1>2 DEF Owing, OwingPcs
  <1> QED BY <1>3 DEF Owed

LEMMA ReturnOwing ==
    ASSUME NEW V, frames \in Seq(FrameOf(V)), frames # <<>>, Top.pc = "lock",
           frames' = Front(frames)
    PROVE  Owed' = Owed
  <1>1. /\ Len(frames') = Len(frames) - 1
        /\ \A i \in 1..(Len(frames) - 1) : frames'[i] = frames[i]
    BY ReturnFrames
  <1>2. Len(frames) \in Nat \ {0} /\ frames[Len(frames)].pc = "lock"
    BY DEF Top
  <1>3. Owing' = Owing
    BY <1>1, <1>2 DEF Owing, OwingPcs
  <1> QED BY <1>3 DEF Owed

LEMMA NobodyOwes == frames = <<>> => Owed = 0
  <1> SUFFICES ASSUME frames = <<>> PROVE Owed = 0
    OBVIOUS
  <1>1. Len(frames) = 0
    OBVIOUS
  <1>2. Owing = {}
    BY <1>1 DEF Owing
  <1> QED BY <1>2, FS_EmptySet DEF Owed

LEMMA TReadInit == TN!Init => DiskInv(TVals) /\ TInv
  <1> SUFFICES ASSUME TN!Init PROVE DiskInv(TVals) /\ TInv
    OBVIOUS
  <1>1. DiskInit /\ pc = [t \in Buffers |-> "request"] /\ queue = <<>> /\ enqueued = 0
        /\ tokens = {}
    BY TReadDisk, TReadQueue DEF TN!Init, QueueInit, TN!Sched!Init
  <1>2. frames = <<>> /\ prq = <<>> /\ Len(frames) = 0 /\ Len(prq) = 0 /\ Owed = 0
        /\ completed = 0 /\ elapsed = 0 /\ queue = <<>> /\ Len(queue) = 0
        /\ queue \in Seq(Buffers)
    BY <1>1, NobodyOwes DEF DiskInit
  <1>3. pc \in [Buffers -> TPcs] /\ \A t \in Buffers : pc[t] = "request"
    BY <1>1 DEF TPcs
  <1>4. Ahead = 0
    BY <1>3 DEF Ahead
  <1>5. TInv
    BY <1>1, <1>2, <1>3, <1>4 DEF TInv
  <1> QED BY <1>1, <1>5, DiskInitInv

\* What a thread does without the disk.
LEMMA TIdleKeeps ==
    ASSUME DiskInv(TVals), TInv, UNCHANGED <<diskVars, queue, enqueued>>,
           NEW t \in Buffers, NEW l \in TPcs, pc' = [pc EXCEPT ![t] = l],
           l # "enqueue", pc[t] # "enqueue", cpu = None \/ cpu = t,
           tokens' \subseteq tokens, l \in {"add", "done"} => Has(t)
    PROVE  DiskInv(TVals)' /\ TInv'
  <1>1. pc' \in [Buffers -> TPcs] /\ pc'[t] = l /\ \A u \in Buffers : u # t => pc'[u] = pc[u]
    BY DEF TInv
  <1>2. UNCHANGED <<prq, mem, completed, elapsed, frames>>
    BY DEF diskVars
  <1>3. \A u \in Buffers : pc[u] # "enqueue" /\ pc'[u] # "enqueue"
    BY <1>1, DiskAssumption DEF TInv
  <1>4. Ahead' = 0 /\ Ahead = 0 /\ Owed' = Owed
    BY <1>2, <1>3 DEF Ahead, Owed, Owing
  <1>5. \A u : Has(u)' <=> Has(u)
    BY <1>2 DEF Has
  <1>6. TInv'
    BY <1>1, <1>2, <1>3, <1>4, <1>5 DEF TInv
  <1> QED BY <1>6, DiskInvUnchanged

LEMMA TRequestKeeps ==
    ASSUME DiskInv(TVals), TInv, NEW t \in Buffers, TN!Request(t)
    PROVE  DiskInv(TVals)' /\ TInv'
  <1>1. /\ cpu = t /\ pc[t] = "request" /\ Schedule(t, TN!BlockOf[t])
        /\ pc' = [pc EXCEPT ![t] = "enqueue"]
        /\ UNCHANGED <<queue, enqueued, cpu, tokens>>
    BY TReadDisk DEF TN!Request, TN!queueVars
  <1>2. TN!BlockOf[t] \in Blocks
    BY BlockOfType
  <1>3. /\ frames = <<>> /\ UNCHANGED <<mem, completed, elapsed, frames>>
        /\ prq' = Append(prq, [buf |-> t, blockNo |-> TN!BlockOf[t]])
    BY <1>1 DEF Schedule, ThreadRuns
  <1>4. prq \in Seq(Requests) /\ Len(prq) \in Nat
        /\ [buf |-> t, blockNo |-> TN!BlockOf[t]] \in Requests
    BY <1>2 DEF DiskInv, Requests
  <1>5. /\ Len(prq') = Len(prq) + 1 /\ \A i \in 1..Len(prq) : prq'[i] = prq[i]
        /\ prq'[Len(prq) + 1] = [buf |-> t, blockNo |-> TN!BlockOf[t]]
        /\ prq' \in Seq(Requests)
    BY <1>3, <1>4, AppendProperties
  <1>6. pc' \in [Buffers -> TPcs] /\ pc'[t] = "enqueue"
        /\ \A u \in Buffers : u # t => pc'[u] = pc[u] /\ pc[u] # "enqueue"
    BY <1>1 DEF TInv, TPcs
  <1>7. Ahead = 0 /\ Ahead' = 1 /\ Owed = 0 /\ Owed' = 0
    BY <1>1, <1>3, <1>6, NobodyOwes DEF Ahead, Owed, Owing
  <1>8. \A u : Has(u)' <=> Has(u)
    BY <1>3 DEF Has
  <1>9. Len(queue) = Len(prq) /\ completed \in Nat /\ enqueued \in Nat
    BY <1>4, <1>7 DEF TInv, DiskInv, Times
  <1>10. \A i \in 1..Len(prq') : /\ prq'[i].blockNo = TN!BlockOf[prq'[i].buf]
                                 /\ Owed' + i <= Len(queue) => prq'[i].buf = queue[Owed' + i]
    <2> SUFFICES ASSUME NEW i \in 1..Len(prq')
                 PROVE  /\ prq'[i].blockNo = TN!BlockOf[prq'[i].buf]
                        /\ Owed' + i <= Len(queue) => prq'[i].buf = queue[Owed' + i]
      OBVIOUS
    <2>1. CASE i \in 1..Len(prq)
      BY <1>5, <1>7, <2>1 DEF TInv
    <2>2. CASE i = Len(prq) + 1
      BY <1>4, <1>5, <1>7, <1>9, <2>2
    <2> QED BY <1>4, <1>5, <2>1, <2>2
  <1>11. prq' # <<>> /\ prq'[Len(prq')].buf = t
    BY <1>4, <1>5
  <1>12. completed + Len(prq') = enqueued + Ahead'
    BY <1>4, <1>5, <1>7, <1>9 DEF TInv
  <1>13. TInv'
    BY <1>1, <1>3, <1>6, <1>7, <1>8, <1>10, <1>11, <1>12 DEF TInv
  <1> QED BY <1>1, <1>2, <1>13, ScheduleKeeps

LEMMA TEnqueueKeeps ==
    ASSUME DiskInv(TVals), TInv, NEW t \in Buffers, TN!Enqueue(t)
    PROVE  DiskInv(TVals)' /\ TInv'
  <1>1. /\ cpu = t /\ pc[t] = "enqueue" /\ frames = <<>>
        /\ pc' = [pc EXCEPT ![t] = "block"]
        /\ queue' = Append(queue, t) /\ enqueued' = enqueued + 1
        /\ UNCHANGED <<diskVars, cpu, tokens>>
    BY TReadQueue DEF TN!Enqueue, QueueEnqueue, TN!Sched!Block, ThreadRuns
  <1>2. UNCHANGED <<prq, mem, completed, elapsed, frames>>
    BY <1>1 DEF diskVars
  <1>3. pc' \in [Buffers -> TPcs] /\ pc'[t] = "block"
        /\ \A u \in Buffers : u # t => pc'[u] = pc[u] /\ pc[u] # "enqueue"
    BY <1>1 DEF TInv, TPcs
  <1>4. Ahead = 1 /\ Ahead' = 0 /\ Owed = 0 /\ Owed' = 0
    BY <1>1, <1>2, <1>3, NobodyOwes DEF Ahead, Owed, Owing
  <1>5. /\ Len(queue') = Len(queue) + 1 /\ \A i \in 1..Len(queue) : queue'[i] = queue[i]
        /\ queue'[Len(queue) + 1] = t /\ queue' \in Seq(Buffers) /\ Len(queue) \in Nat
    BY <1>1, AppendProperties DEF TInv
  <1>6. Len(prq) = Len(queue) + 1 /\ completed \in Nat /\ enqueued \in Nat
        /\ prq[Len(prq)].buf = t /\ elapsed \in Nat /\ Len(prq) \in Nat
    BY <1>1, <1>4, <1>5 DEF TInv, DiskInv, Times
  <1>7. \A i \in 1..Len(prq) : prq[i].buf = queue'[i]
    <2> SUFFICES ASSUME NEW i \in 1..Len(prq) PROVE prq[i].buf = queue'[i]
      OBVIOUS
    <2>1. CASE i \in 1..Len(queue)
      BY <1>4, <1>5, <2>1 DEF TInv
    <2> QED BY <1>5, <1>6, <2>1
  <1>8. \A u : Has(u)' <=> Has(u)
    BY <1>2 DEF Has
  <1>9. elapsed' <= enqueued'
    BY <1>1, <1>2, <1>6 DEF TInv
  <1>10. completed' + Len(prq') = enqueued' + Ahead' /\ Len(queue') + completed' = enqueued' + Owed'
    BY <1>1, <1>2, <1>4, <1>5, <1>6 DEF TInv
  <1>11. TInv'
    BY <1>1, <1>2, <1>3, <1>4, <1>5, <1>6, <1>7, <1>8, <1>9, <1>10 DEF TInv
  <1> QED BY <1>1, <1>11, DiskInvUnchanged

LEMMA TThreadKeeps ==
    ASSUME DiskInv(TVals), TInv, NEW t \in Buffers, TN!Thread(t)
    PROVE  DiskInv(TVals)' /\ TInv'
  <1>1. CASE TN!Start(t)
    <2>1. cpu = None /\ pc[t] = "request" /\ UNCHANGED <<diskVars, queue, enqueued, pc, tokens>>
      BY <1>1 DEF TN!Start, TN!diskVars, diskVars, TN!queueVars
    <2>2. pc' = [pc EXCEPT ![t] = "request"] /\ "request" \in TPcs
      BY <2>1 DEF TInv, TPcs
    <2> QED BY <2>1, <2>2, TIdleKeeps
  <1>2. CASE TN!Block(t)
    <2>1. /\ cpu = t /\ pc[t] = "block" /\ pc' = [pc EXCEPT ![t] = "blocked"]
          /\ UNCHANGED <<diskVars, queue, enqueued, tokens>> /\ "blocked" \in TPcs
      BY <1>2 DEF TN!Block, TN!diskVars, diskVars, TN!queueVars, TPcs
    <2> QED BY <2>1, TIdleKeeps
  <1>3. CASE TN!Resume(t)
    <2>1. /\ cpu = None /\ pc[t] = "blocked" /\ pc' = [pc EXCEPT ![t] = "add"]
          /\ UNCHANGED <<diskVars, queue, enqueued>> /\ "add" \in TPcs
          /\ t \in tokens /\ tokens' \subseteq tokens
      BY <1>3 DEF TN!Resume, TN!diskVars, diskVars, TN!queueVars, TPcs, TN!Sched!Return
    <2>2. Has(t)
      BY <2>1 DEF TInv
    <2> QED BY <2>1, <2>2, TIdleKeeps
  <1>4. CASE TN!Add(t)
    <2>1. /\ cpu = t /\ pc[t] = "add" /\ pc' = [pc EXCEPT ![t] = "done"]
          /\ UNCHANGED <<diskVars, queue, enqueued, tokens>> /\ "done" \in TPcs
      BY <1>4 DEF TN!Add, TN!diskVars, diskVars, TN!queueVars, TPcs
    <2>2. Has(t)
      BY <2>1 DEF TInv
    <2> QED BY <2>1, <2>2, TIdleKeeps
  <1> QED BY <1>1, <1>2, <1>3, <1>4, TRequestKeeps, TEnqueueKeeps DEF TN!Thread

\* The innermost activation moves on without taking a thread from the queue.
LEMMA TMoveKeeps ==
    ASSUME DiskInv(TVals), TInv, frames # <<>>, NEW k \in Pcs, NEW v \in TVals, Goto(k, v),
           Top.pc \in OwingPcs <=> k \in OwingPcs,
           k \in ToUnblockPcs => v \in Buffers /\ Has(v),
           tokens' \subseteq Buffers, \A t \in tokens' : Has(t),
           UNCHANGED <<prq, mem, completed, elapsed, queue, enqueued, pc, cpu>>
    PROVE  TInv'
  <1>1. frames \in Seq(FrameOf(TVals)) /\ Len(frames) \in Nat
    BY DEF DiskInv
  <1>2. Owed' = Owed /\ Ahead' = Ahead
    BY <1>1, GotoOwing DEF Ahead
  <1>4. /\ Len(frames') = Len(frames) /\ Top'.pc = k /\ Top'.tmp = v
        /\ \A i \in 1..(Len(frames) - 1) : frames'[i] = frames[i]
    BY <1>1, GotoFrames
  <1>5. \A i \in 1..Len(frames') : i \in 1..Len(frames)
          /\ (frames'[i] = frames[i] \/ (frames'[i].pc = k /\ frames'[i].tmp = v))
    BY <1>1, <1>4 DEF Top
  <1>6. \A i \in 1..Len(frames') :
          frames'[i].pc \in ToUnblockPcs =>
            frames'[i].tmp \in Buffers /\ mem'[frames'[i].tmp] = TN!BlockOf[frames'[i].tmp]
    BY <1>5 DEF TInv, Has
  <1>7. /\ \A t \in tokens' : mem'[t] = TN!BlockOf[t]
        /\ \A t \in Buffers : pc'[t] \in {"add", "done"} => mem'[t] = TN!BlockOf[t]
        /\ \A j \in 1..Owed' : mem'[queue'[j]] = TN!BlockOf[queue'[j]]
    BY <1>2 DEF TInv, Has
  <1>8. UNCHANGED <<prq, mem, completed, elapsed, queue, enqueued, pc, cpu>>
    OBVIOUS
  <1> QED BY <1>2, <1>6, <1>7, <1>8 DEF TInv, Has

LEMMA TTransferKeeps ==
    ASSUME DiskInv(TVals), TInv, Transfer, UNCHANGED <<queue, enqueued, pc, cpu, tokens>>
    PROVE  TInv'
  <1>1. /\ frames # <<>> /\ prq # <<>> /\ completed < Top.now /\ Top.pc = "lock"
        /\ mem' = [mem EXCEPT ![Head(prq).buf] = Head(prq).blockNo]
        /\ completed' = completed + 1 /\ prq' = Tail(prq) /\ Goto("set", None)
        /\ UNCHANGED elapsed
    BY DEF Transfer, Due, In
  <1>2. /\ frames \in Seq(FrameOf(TVals)) /\ Len(frames) \in Nat \ {0}
        /\ "set" \in Pcs /\ None \in TVals
        /\ "set" \in OwingPcs /\ "lock" \notin OwingPcs /\ "set" \notin ToUnblockPcs
    BY <1>1 DEF DiskInv, Pcs, TVals, OwingPcs, ToUnblockPcs
  <1>3. Owed' = Owed + 1 /\ Owed \in Nat
    BY <1>1, <1>2, GotoOwing, OwingFinite
  <1>4. Ahead' = Ahead /\ Ahead \in {0, 1}
    BY DEF Ahead
  <1>5. /\ prq \in Seq(Requests) /\ Len(prq) \in Nat \ {0} /\ prq' \in Seq(Requests)
        /\ Len(prq') = Len(prq) - 1 /\ \A i \in 1..Len(prq') : prq'[i] = prq[i + 1]
        /\ Head(prq) = prq[1] /\ prq[1] \in Requests
    BY <1>1 DEF DiskInv
  <1>6. completed \in Nat /\ elapsed \in Nat /\ completed < elapsed
    <2>1. Len(frames) \in 1..Len(frames) /\ Top.now \in Nat
      BY <1>2, FrameFields DEF Top
    <2> QED BY <1>1, <2>1 DEF DiskInv, Times, Top
  <1>7. enqueued \in Nat /\ completed + 1 <= enqueued
    BY <1>6 DEF TInv
  <1>8. Len(queue) \in Nat /\ Len(queue) >= Owed + 1
    BY <1>3, <1>6, <1>7 DEF TInv
  <1>9. prq[1].buf = queue[Owed + 1] /\ prq[1].blockNo = TN!BlockOf[prq[1].buf]
    BY <1>5, <1>8 DEF TInv
  <1>10. prq[1].buf \in Buffers /\ mem' = [mem EXCEPT ![prq[1].buf] = TN!BlockOf[prq[1].buf]]
    BY <1>1, <1>5, <1>9 DEF Requests
  <1>11. \A u \in Buffers : Has(u) \/ u = prq[1].buf => Has(u)'
    BY <1>10 DEF Has, DiskInv
  <1>12. \A j \in 1..Owed' : mem'[queue[j]] = TN!BlockOf[queue[j]]
    <2> SUFFICES ASSUME NEW j \in 1..(Owed + 1) PROVE mem'[queue[j]] = TN!BlockOf[queue[j]]
      BY <1>3
    <2>1. queue[j] \in Buffers
      BY <1>3, <1>8 DEF TInv
    <2>2. CASE j \in 1..Owed
      BY <1>11, <2>1, <2>2 DEF TInv, Has
    <2>3. CASE j = Owed + 1
      BY <1>9, <1>11, <2>1, <2>3 DEF Has
    <2> QED BY <1>3, <2>2, <2>3
  <1>13. \A i \in 1..Len(prq') : /\ prq'[i].blockNo = TN!BlockOf[prq'[i].buf]
                                 /\ Owed' + i <= Len(queue) => prq'[i].buf = queue[Owed' + i]
    <2> SUFFICES ASSUME NEW i \in 1..Len(prq')
                 PROVE  /\ prq'[i].blockNo = TN!BlockOf[prq'[i].buf]
                        /\ Owed' + i <= Len(queue) => prq'[i].buf = queue[Owed' + i]
      OBVIOUS
    <2>1. i + 1 \in 1..Len(prq) /\ prq'[i] = prq[i + 1]
      BY <1>5
    <2>2. Owed' + i = Owed + (i + 1)
      BY <1>3
    <2> QED BY <2>1, <2>2 DEF TInv
  <1>14. Ahead = 1 => prq' # <<>> /\ prq'[Len(prq')].buf = cpu
    <2> SUFFICES ASSUME Ahead = 1 PROVE prq' # <<>> /\ prq'[Len(prq')].buf = cpu
      OBVIOUS
    <2>1. Len(prq) >= 2
      BY <1>5, <1>6, <1>7 DEF TInv
    <2>2. Len(prq') \in 1..Len(prq') /\ Len(prq') + 1 = Len(prq)
      BY <1>5, <2>1
    <2>3. prq'[Len(prq')] = prq[Len(prq)]
      BY <1>5, <2>2
    <2> QED BY <2>2, <2>3 DEF TInv
  <1>15. completed' + Len(prq') = enqueued + Ahead' /\ Len(queue) + completed' = enqueued + Owed'
    <2>1. completed + Len(prq) = enqueued + Ahead /\ Len(queue) + completed = enqueued + Owed
      BY DEF TInv
    <2>2. completed' = completed + 1 /\ Len(prq') = Len(prq) - 1 /\ Owed' = Owed + 1
          /\ Ahead' = Ahead
      BY <1>1, <1>3, <1>4, <1>5
    <2>3. completed \in Nat /\ Len(prq) \in Nat /\ Owed \in Nat /\ Len(queue) \in Nat
          /\ enqueued \in Nat /\ Ahead \in Nat
      BY <1>3, <1>4, <1>5, <1>6, <1>7, <1>8
    <2>4. completed' + Len(prq') = enqueued + Ahead'
      BY <2>1, <2>2, <2>3
    <2>5. Len(queue) + completed' = enqueued + Owed'
      BY <2>1, <2>2, <2>3
    <2> QED BY <2>4, <2>5
  <1>16. /\ Len(frames') = Len(frames) /\ Top'.pc = "set"
         /\ \A i \in 1..(Len(frames) - 1) : frames'[i] = frames[i]
    BY <1>1, <1>2, GotoFrames
  <1>17. \A i \in 1..Len(frames') : i \in 1..Len(frames)
           /\ (frames'[i] = frames[i] \/ frames'[i].pc = "set")
    BY <1>2, <1>16 DEF Top
  <1>18. \A i \in 1..Len(frames') :
           frames'[i].pc \in ToUnblockPcs =>
            frames'[i].tmp \in Buffers /\ mem'[frames'[i].tmp] = TN!BlockOf[frames'[i].tmp]
    BY <1>2, <1>11, <1>17 DEF TInv, Has
  <1>19. /\ \A t \in tokens' : mem'[t] = TN!BlockOf[t]
         /\ \A t \in Buffers : pc'[t] \in {"add", "done"} => mem'[t] = TN!BlockOf[t]
    BY <1>11 DEF TInv, Has
  <1>20. UNCHANGED <<queue, enqueued, pc, cpu, tokens, elapsed>>
    BY <1>1
  <1>21. \A i \in 1..Len(prq') : prq'[i].blockNo = TN!BlockOf[prq'[i].buf]
    BY <1>13
  <1>22. \A i \in 1..Len(prq') : Owed' + i <= Len(queue') => prq'[i].buf = queue'[Owed' + i]
    BY <1>13, <1>20
  <1> QED BY <1>4, <1>12, <1>14, <1>15, <1>18, <1>19, <1>20, <1>21, <1>22 DEF TInv, Has

LEMMA TReturnKeeps ==
    ASSUME DiskInv(TVals), TInv, Return, UNCHANGED <<queue, enqueued, pc, cpu, tokens>>
    PROVE  TInv'
  <1>1. frames # <<>> /\ Top.pc = "lock" /\ frames' = Front(frames)
        /\ UNCHANGED <<prq, mem, completed, elapsed>>
    BY DEF Return, In
  <1>2. frames \in Seq(FrameOf(TVals)) /\ Len(frames) \in Nat
    BY DEF DiskInv
  <1>3. Owed' = Owed /\ Ahead' = Ahead
    BY <1>1, <1>2, ReturnOwing DEF Ahead
  <1>4. \A u : Has(u)' <=> Has(u)
    BY <1>1 DEF Has
  <1>5. Len(frames') = Len(frames) - 1
        /\ \A i \in 1..(Len(frames) - 1) : frames'[i] = frames[i]
    BY <1>1, <1>2, ReturnFrames
  <1>6. \A i \in 1..Len(frames') : i \in 1..Len(frames) /\ frames'[i] = frames[i]
    BY <1>2, <1>5
  <1> QED BY <1>1, <1>3, <1>4, <1>6 DEF TInv

LEMMA TAlarmKeeps ==
    ASSUME DiskInv(TVals), TInv, Alarm, UNCHANGED <<queue, enqueued, pc, cpu, tokens>>
    PROVE  TInv'
  <1>1. frames \in Seq(FrameOf(TVals)) /\ Len(frames) \in Nat /\ None \in TVals
        /\ elapsed \in Nat /\ "lock" \notin ToUnblockPcs
    BY DEF DiskInv, TVals, Times, ToUnblockPcs
  <1>2. Owed' = Owed /\ Ahead' = Ahead
    BY <1>1, AlarmOwing DEF Ahead
  <1>3. UNCHANGED <<prq, mem, completed, elapsed>>
    BY DEF Alarm
  <1>4. \A u : Has(u)' <=> Has(u)
    BY <1>3 DEF Has
  <1>5. /\ Len(frames') = Len(frames) + 1 /\ Top'.pc = "lock"
        /\ \A i \in 1..Len(frames) : frames'[i] = frames[i]
    BY <1>1, AlarmFrames
  <1>6. \A i \in 1..Len(frames') :
          (i \in 1..Len(frames) /\ frames'[i] = frames[i]) \/ frames'[i].pc = "lock"
    BY <1>1, <1>5 DEF Top
  <1> QED BY <1>1, <1>2, <1>3, <1>4, <1>6 DEF TInv

LEMMA TDequeueKeeps ==
    ASSUME DiskInv(TVals), TInv, QueueDequeue("unblock"), UNCHANGED <<pc, cpu, tokens>>
    PROVE  DiskInv(TVals)' /\ TInv'
  <1>1. frames # <<>> /\ Top.pc = "dequeue" /\ masked' = MaskedByUnlock
        /\ UNCHANGED <<prq, mem, completed, elapsed, isInterrupt, enqueued>>
    BY DEF QueueDequeue, In
  <1>2. /\ frames \in Seq(FrameOf(TVals)) /\ Len(frames) \in Nat \ {0}
        /\ "unblock" \in Pcs /\ "dequeue" \in OwingPcs /\ "unblock" \notin OwingPcs
        /\ masked' \in BOOLEAN /\ isInterrupt' \in BOOLEAN
    BY <1>1 DEF DiskInv, Pcs, OwingPcs, Masks, MaskedByUnlock
  <1>3. Owed > 0 /\ Owed \in Nat
    <2>1. Len(frames) \in Owing /\ IsFiniteSet(Owing) /\ Owed \in Nat
      BY <1>1, <1>2, OwingFinite DEF Owing, Top
    <2> QED BY <2>1, FS_EmptySet DEF Owed
  <1>4. completed \in Nat /\ enqueued \in Nat /\ completed <= enqueued /\ queue \in Seq(Buffers)
    BY DEF TInv, DiskInv, Times
  <1>5. Len(queue) \in Nat /\ Len(queue) >= Owed /\ queue # <<>>
    BY <1>3, <1>4 DEF TInv
  <1>6. Goto("unblock", Head(queue)) /\ queue' = Tail(queue)
    BY <1>5 DEF QueueDequeue
  <1>7. /\ Head(queue) = queue[1] /\ queue[1] \in Buffers /\ queue' \in Seq(Buffers)
        /\ Len(queue') = Len(queue) - 1 /\ \A i \in 1..Len(queue') : queue'[i] = queue[i + 1]
    BY <1>4, <1>5, <1>6
  <1>8. queue[1] \in TVals /\ Has(queue[1])
    BY <1>3, <1>7 DEF TInv, TVals
  <1>9. Owed' = Owed - 1
    BY <1>1, <1>2, <1>6, <1>7, <1>8, GotoOwing
  <1>10. Ahead' = Ahead
    BY DEF Ahead
  <1>12. \A j \in 1..Owed' : mem'[queue'[j]] = TN!BlockOf[queue'[j]]
    <2> SUFFICES ASSUME NEW j \in 1..(Owed - 1) PROVE mem[queue'[j]] = TN!BlockOf[queue'[j]]
      BY <1>1, <1>9
    <2>1. j + 1 \in 1..Owed /\ queue'[j] = queue[j + 1]
      BY <1>3, <1>5, <1>7
    <2> QED BY <2>1 DEF TInv, Has
  <1>13. \A i \in 1..Len(prq) : Owed' + i <= Len(queue') => prq[i].buf = queue'[Owed' + i]
    <2> SUFFICES ASSUME NEW i \in 1..Len(prq), Owed' + i <= Len(queue')
                 PROVE  prq[i].buf = queue'[Owed' + i]
      OBVIOUS
    <2>1. Owed' + i \in 1..Len(queue') /\ Owed' + i + 1 = Owed + i /\ Owed + i <= Len(queue)
      BY <1>3, <1>5, <1>7, <1>9
    <2>2. queue'[Owed' + i] = queue[Owed + i]
      BY <1>7, <2>1
    <2> QED BY <2>1, <2>2 DEF TInv
  <1>14. /\ Len(frames') = Len(frames) /\ Top'.pc = "unblock" /\ Top'.tmp = queue[1]
         /\ \A i \in 1..(Len(frames) - 1) : frames'[i] = frames[i]
    BY <1>1, <1>2, <1>6, <1>7, <1>8, GotoFrames
  <1>15. \A i \in 1..Len(frames') : i \in 1..Len(frames)
           /\ (frames'[i] = frames[i] \/ frames'[i].tmp = queue[1])
    BY <1>2, <1>14 DEF Top
  <1>16. \A i \in 1..Len(frames') :
           frames'[i].pc \in ToUnblockPcs =>
            frames'[i].tmp \in Buffers /\ mem'[frames'[i].tmp] = TN!BlockOf[frames'[i].tmp]
    BY <1>1, <1>7, <1>8, <1>15 DEF TInv, Has
  <1>17. Len(queue') + completed' = enqueued' + Owed'
    <2>1. Len(queue) + completed = enqueued + Owed
      BY DEF TInv
    <2>2. Len(queue') = Len(queue) - 1 /\ Owed' = Owed - 1 /\ UNCHANGED <<completed, enqueued>>
      BY <1>1, <1>7, <1>9
    <2> QED BY <1>3, <1>4, <1>5, <2>1, <2>2
  <1>18. UNCHANGED <<prq, mem, completed, elapsed, enqueued, pc, cpu, tokens>>
    BY <1>1
  <1>19. TInv'
    <2>1. \A i \in 1..Len(prq') : prq'[i].blockNo = TN!BlockOf[prq'[i].buf]
      BY <1>18 DEF TInv
    <2>2. \A i \in 1..Len(prq') : Owed' + i <= Len(queue') => prq'[i].buf = queue'[Owed' + i]
      BY <1>13, <1>18
    <2>3. /\ \A t \in tokens' : mem'[t] = TN!BlockOf[t]
          /\ \A t \in Buffers : pc'[t] \in {"add", "done"} => mem'[t] = TN!BlockOf[t]
      BY <1>18 DEF TInv, Has
    <2> QED BY <1>7, <1>10, <1>12, <1>16, <1>17, <1>18, <2>1, <2>2, <2>3 DEF TInv, Has
  <1> QED BY <1>1, <1>2, <1>6, <1>7, <1>8, <1>19, MoveKeeps

LEMMA TReadKeeps ==
    ASSUME Prompt, DiskInv(TVals), TInv, TN!Next
    PROVE  DiskInv(TVals)' /\ TInv'
  <1>1. /\ None \in TVals /\ "isr" \in Pcs /\ "set" \in Pcs /\ "clear" \in Pcs
        /\ "dequeue" \in Pcs /\ "start" \in Pcs /\ "lock" \in Pcs
    BY DEF TVals, Pcs
  <1>2. masked \in BOOLEAN /\ isInterrupt \in BOOLEAN /\ MaskedByLock \in BOOLEAN
        /\ MaskedByUnlock \in BOOLEAN /\ frames \in Seq(FrameOf(TVals))
    BY DEF DiskInv, Masks, MaskedByLock, MaskedByUnlock
  <1>3. tokens \subseteq Buffers /\ \A t \in tokens : Has(t)
    BY DEF TInv
  <1>4. CASE \E t \in Buffers : TN!Thread(t)
    BY <1>4, TThreadKeeps
  <1>5. CASE Handler /\ UNCHANGED <<queue, enqueued, pc, cpu, tokens>>
    <2>1. CASE SetInterrupt
      <3>1. frames # <<>> /\ Top.pc = "set" /\ Goto("isr", None)
            /\ UNCHANGED <<prq, mem, completed, elapsed>>
        BY <2>1 DEF SetInterrupt, In
      <3>2. TInv'
        BY <1>1, <1>3, <1>5, <3>1, TMoveKeeps DEF OwingPcs, ToUnblockPcs
      <3> QED BY <1>1, <1>5, <3>2, HandlerKeeps
    <2>2. CASE ClearInterrupt
      <3>1. frames # <<>> /\ Top.pc = "clear" /\ Goto("lock", None)
            /\ UNCHANGED <<prq, mem, completed, elapsed>>
        BY <2>2 DEF ClearInterrupt, In
      <3>2. TInv'
        BY <1>1, <1>3, <1>5, <3>1, TMoveKeeps DEF OwingPcs, ToUnblockPcs
      <3> QED BY <1>1, <1>5, <3>2, HandlerKeeps
    <2> QED BY <1>1, <1>5, <2>1, <2>2, HandlerKeeps, TTransferKeeps, TReturnKeeps
            DEF Handler
  <1>6. CASE TN!Lock
    <2>1. /\ frames # <<>> /\ Top.pc = "isr" /\ Goto("dequeue", None)
          /\ masked' = MaskedByLock
          /\ UNCHANGED <<prq, mem, completed, elapsed, isInterrupt, queue, enqueued>>
          /\ UNCHANGED <<pc, cpu, tokens>>
      BY <1>6, TReadQueue DEF TN!Lock, QueueLock, In, TN!progVars
    <2>2. TInv'
      BY <1>1, <1>3, <2>1, TMoveKeeps DEF OwingPcs, ToUnblockPcs
    <2> QED BY <1>1, <1>2, <2>1, <2>2, MoveKeeps
  <1>7. CASE TN!Dequeue
    <2>1. QueueDequeue("unblock") /\ UNCHANGED <<pc, cpu, tokens>>
      BY <1>7, TReadQueue DEF TN!Dequeue, TN!progVars
    <2> QED BY <2>1, TDequeueKeeps
  <1>8. CASE TN!ReadyLock
    <2>1. /\ frames # <<>> /\ Top.pc = "unblock" /\ Goto("start", Top.tmp)
          /\ masked' = MaskedByLock
          /\ UNCHANGED <<prq, mem, completed, elapsed, isInterrupt, queue, enqueued>>
          /\ UNCHANGED <<pc, cpu, tokens>>
      BY <1>8, TReadDisk DEF TN!ReadyLock, In, TN!queueVars, TN!MaskedByLock,
         MaskedByLock, TN!Top, Top
    <2>2. Len(frames) \in 1..Len(frames)
      BY <1>2, <2>1
    <2>3. Top.tmp \in Buffers /\ Has(Top.tmp) /\ Top.tmp \in TVals
      BY <2>1, <2>2 DEF TInv, Top, ToUnblockPcs, TVals
    <2>4. TInv'
      BY <1>1, <1>3, <2>1, <2>3, TMoveKeeps DEF OwingPcs
    <2> QED BY <1>1, <1>2, <2>1, <2>3, <2>4, MoveKeeps
  <1>9. CASE TN!ReadyEnqueue
    <2>1. /\ frames # <<>> /\ Top.pc = "start" /\ Goto("clear", None)
          /\ masked' = MaskedByUnlock
          /\ tokens' = tokens \cup {Top.tmp}
          /\ UNCHANGED <<prq, mem, completed, elapsed, isInterrupt, queue, enqueued>>
          /\ UNCHANGED <<pc, cpu>>
      BY <1>9, TReadDisk DEF TN!ReadyEnqueue, In, TN!queueVars, TN!MaskedByUnlock,
         MaskedByUnlock, TN!Sched!Unblock, TN!Top, Top
    <2>2. Len(frames) \in 1..Len(frames)
      BY <1>2, <2>1
    <2>3. Top.tmp \in Buffers /\ Has(Top.tmp)
      BY <2>1, <2>2 DEF TInv, Top, ToUnblockPcs
    <2>4. tokens' \subseteq Buffers /\ \A t \in tokens' : Has(t)
      BY <1>3, <2>1, <2>3
    <2>5. TInv'
      BY <1>1, <2>1, <2>4, TMoveKeeps DEF OwingPcs, ToUnblockPcs
    <2> QED BY <1>1, <1>2, <2>1, <2>5, MoveKeeps
  <1>10. CASE Alarm /\ UNCHANGED <<queue, enqueued, pc, cpu, tokens>>
    BY <1>1, <1>10, AlarmKeeps, TAlarmKeeps
  <1>11. CASE TN!Passes
    <2>1. TimePasses /\ elapsed < enqueued /\ UNCHANGED <<queue, enqueued, pc, cpu, tokens>>
      BY <1>11, TReadQueue DEF TN!Passes, TN!progVars, QueueTimePasses, queueVars
    <2>2. elapsed' = elapsed + 1 /\ UNCHANGED <<prq, mem, completed, frames>>
      BY <2>1 DEF TimePasses
    <2>3. elapsed' <= enqueued'
      BY <2>1, <2>2 DEF TInv, DiskInv, Times
    <2>4. Owed' = Owed /\ Ahead' = Ahead
      BY <2>1, <2>2 DEF Owed, Owing, Ahead
    <2>5. TInv'
      BY <2>1, <2>2, <2>3, <2>4 DEF TInv, Has
    <2> QED BY <2>1, <2>5, TimePassesKeeps
  <1> QED
    BY <1>4, <1>5, <1>6, <1>7, <1>8, <1>9, <1>10, <1>11, TReadDisk
       DEF TN!Next, TN!Interrupt, TN!Fires, TN!progVars, TN!queueVars

LEMMA TReadSound ==
    ASSUME DiskInv(TVals), TInv
    PROVE  TN!ResultIsRead
  <1>1. In("unblock") => Top.tmp # None
    <2> SUFFICES ASSUME In("unblock") PROVE Top.tmp # None
      OBVIOUS
    <2>1. Len(frames) \in 1..Len(frames)
      BY DEF In, DiskInv
    <2>2. Top.tmp \in Buffers
      BY <2>1 DEF TInv, In, Top, ToUnblockPcs
    <2> QED BY <2>2, DiskAssumption
  <1> QED BY <1>1, TReadDisk DEF TInv, Has, TN!ResultIsRead, TN!Top, Top
-----------------------------------------------------------------------------
(* aRead.c. *)

LEMMA AReadDisk ==
    /\ A!DiskInit <=> DiskInit
    /\ \A b, n : A!Schedule(b, n) <=> Schedule(b, n)
    /\ A!ThreadRuns <=> ThreadRuns
    /\ \A l : A!In(l) <=> In(l)
    /\ \A l, v : A!Goto(l, v) <=> Goto(l, v)
    /\ A!Alarm => Alarm
    /\ A!TimePasses <=> TimePasses
    /\ A!Handler <=> Handler
  <1>1. A!DiskInit <=> DiskInit
    BY DEF A!DiskInit, DiskInit
  <1>2. \A b, n : A!Schedule(b, n) <=> Schedule(b, n)
    BY DEF A!Schedule, Schedule, A!ThreadRuns, ThreadRuns
  <1>3. A!ThreadRuns <=> ThreadRuns
    BY DEF A!ThreadRuns, ThreadRuns
  <1>4. \A l : A!In(l) <=> In(l)
    BY DEF A!In, In, A!Top, Top
  <1>5. \A l, v : A!Goto(l, v) <=> Goto(l, v)
    BY DEF A!Goto, Goto
  <1>6. A!Alarm => Alarm
    BY DiskAssumption DEF A!Alarm, Alarm
  <1>7. A!TimePasses <=> TimePasses
    BY DEF A!TimePasses, TimePasses
  <1>8. A!Transfer <=> Transfer
    BY <1>4, <1>5 DEF A!Transfer, Transfer, A!Due, Due, A!Top, Top,
       A!MaskedByUnlock, MaskedByUnlock
  <1>9. A!Return <=> Return
    BY <1>4 DEF A!Return, Return, A!Due, Due, A!Top, Top, A!Front, Front
  <1>10. A!SetInterrupt <=> SetInterrupt
    BY <1>4, <1>5 DEF A!SetInterrupt, SetInterrupt
  <1>11. A!ClearInterrupt <=> ClearInterrupt
    BY <1>4, <1>5 DEF A!ClearInterrupt, ClearInterrupt
  <1> QED BY <1>1, <1>2, <1>3, <1>4, <1>5, <1>6, <1>7, <1>8, <1>9, <1>10, <1>11
          DEF A!Handler, Handler

LEMMA AReadQueue ==
    /\ A!QueueInit <=> QueueInit
    /\ \A e : A!QueueEnqueue(e) <=> QueueEnqueue(e)
    /\ \A l : A!QueueLock(l) <=> QueueLock(l)
    /\ \A l : A!QueueDequeue(l) <=> QueueDequeue(l)
    /\ A!QueueTimePasses <=> QueueTimePasses
  <1>1. A!QueueInit <=> QueueInit
    BY DEF A!QueueInit, QueueInit
  <1>2. \A e : A!QueueEnqueue(e) <=> QueueEnqueue(e)
    BY AReadDisk DEF A!QueueEnqueue, QueueEnqueue, A!diskVars, diskVars
  <1>3. \A l : A!QueueLock(l) <=> QueueLock(l)
    BY AReadDisk DEF A!QueueLock, QueueLock, A!MaskedByLock, MaskedByLock
  <1>4. \A l : A!QueueDequeue(l) <=> QueueDequeue(l)
    BY AReadDisk DEF A!QueueDequeue, QueueDequeue, A!MaskedByUnlock, MaskedByUnlock
  <1>5. A!QueueTimePasses <=> QueueTimePasses
    BY AReadDisk DEF A!QueueTimePasses, QueueTimePasses, A!queueVars, queueVars
  <1> QED BY <1>1, <1>2, <1>3, <1>4, <1>5

APcs == {"request", "enqueue", "poll", "done"}
AVals == {None, "handle_read"} \cup Nat \cup Seq(Nat)

\* What the routine has still to do for the last read that was transferred:
\* count it, take its entry, add its block.
CountingPcs == {"set", "isr", "count"}
CallingPcs == {"set", "isr", "count", "counted", "dequeue"}
AddingPcs == {"set", "isr", "count", "counted", "dequeue", "callback", "add"}
Uncounted == IF frames # <<>> /\ Top.pc \in CountingPcs THEN 1 ELSE 0
Uncalled == IF frames # <<>> /\ Top.pc \in CallingPcs THEN 1 ELSE 0
Unadded == IF frames # <<>> /\ Top.pc \in AddingPcs THEN 1 ELSE 0

Requested == IF pc = "enqueue" THEN 1 ELSE 0

\* The reads are transferred in the order of the blocks, and the routine of one
\* is done before the next is transferred: the variable holds its block.
AInv ==
    /\ Len(frames) <= 1
    /\ pc \in APcs
    /\ blockno \in 0..NumBlocks
    /\ enqueued = blockno
    /\ pc = "enqueue" => blockno < NumBlocks
    /\ pc = "done" => completed = NumBlocks /\ Unadded = 0
    /\ completed + Len(prq) = blockno + Requested
    /\ elapsed <= blockno
    /\ \A i \in 1..Len(prq) :
         prq[i].buf = A!result /\ prq[i].blockNo = completed + i - 1
    /\ queue \in Seq({"handle_read"})
    /\ Len(queue) + completed = blockno + Uncalled
    /\ is_read_pending \in Nat
    /\ is_read_pending + Uncounted = completed
    /\ sum \in Seq(Nat)
    /\ Len(sum) + Unadded = completed
    /\ \A i \in 1..Len(sum) : sum[i] = i - 1
    /\ Unadded = 1 => mem[A!result] = completed - 1
    /\ In("count") => Top.tmp = is_read_pending
    /\ In("callback") => Top.tmp = "handle_read"
    /\ In("add") => Top.tmp = Append(sum, mem[A!result])

LEMMA AReadResult == A!result \in Buffers
  BY DiskAssumption DEF A!result

LEMMA AReadInit == A!Init => DiskInv(AVals) /\ AInv
  <1> SUFFICES ASSUME A!Init PROVE DiskInv(AVals) /\ AInv
    OBVIOUS
  <1>1. DiskInit /\ QueueInit /\ pc = "request" /\ blockno = 0 /\ is_read_pending = 0
        /\ sum = <<>>
    BY AReadDisk, AReadQueue DEF A!Init
  <1>2. /\ frames = <<>> /\ prq = <<>> /\ queue = <<>> /\ enqueued = 0
        /\ completed = 0 /\ elapsed = 0
    BY <1>1 DEF DiskInit, QueueInit
  <1>3. /\ Len(frames) = 0 /\ Len(prq) = 0 /\ Len(queue) = 0 /\ Len(sum) = 0
        /\ queue \in Seq({"handle_read"}) /\ sum \in Seq(Nat)
    BY <1>1, <1>2
  <1>4. Uncounted = 0 /\ Uncalled = 0 /\ Unadded = 0 /\ Requested = 0
    BY <1>1, <1>2 DEF Uncounted, Uncalled, Unadded, Requested
  <1>5. ~In("count") /\ ~In("callback") /\ ~In("add")
    BY <1>2 DEF In
  <1>6. AInv
    BY <1>1, <1>2, <1>3, <1>4, <1>5, DiskAssumption DEF AInv, APcs
  <1> QED BY <1>1, <1>6, DiskInitInv

\* Thread code runs: the routine has nothing left to do.
LEMMA AReadThreadRuns ==
    frames = <<>> => /\ Uncounted = 0 /\ Uncalled = 0 /\ Unadded = 0
                     /\ ~In("count") /\ ~In("callback") /\ ~In("add")
  BY DEF Uncounted, Uncalled, Unadded, In

LEMMA AReadGoto ==
    ASSUME DiskInv(AVals), frames # <<>>, NEW l, Top.pc = l,
           NEW k \in Pcs, NEW v \in AVals, Goto(k, v)
    PROVE  /\ Len(frames') = Len(frames) /\ Top'.tmp = v
           /\ Uncounted = (IF l \in CountingPcs THEN 1 ELSE 0)
           /\ Uncalled = (IF l \in CallingPcs THEN 1 ELSE 0)
           /\ Unadded = (IF l \in AddingPcs THEN 1 ELSE 0)
           /\ Uncounted' = (IF k \in CountingPcs THEN 1 ELSE 0)
           /\ Uncalled' = (IF k \in CallingPcs THEN 1 ELSE 0)
           /\ Unadded' = (IF k \in AddingPcs THEN 1 ELSE 0)
           /\ In("count")' <=> k = "count"
           /\ In("callback")' <=> k = "callback"
           /\ In("add")' <=> k = "add"
  <1>1. frames \in Seq(FrameOf(AVals))
    BY DEF DiskInv
  <1>2. Len(frames') = Len(frames) /\ Top'.pc = k /\ Top'.tmp = v /\ frames' # <<>>
    BY <1>1, GotoFrames
  <1> QED BY <1>2 DEF Uncounted, Uncalled, Unadded, In

LEMMA AReadMainKeeps ==
    ASSUME DiskInv(AVals), AInv, A!Main
    PROVE  DiskInv(AVals)' /\ AInv'
  <1>1. CASE A!Request
    <2>1. /\ pc = "request" /\ blockno < NumBlocks /\ Schedule(A!result, blockno)
          /\ pc' = "enqueue" /\ UNCHANGED <<queue, enqueued, blockno, is_read_pending, sum>>
      BY <1>1, AReadDisk DEF A!Request, A!queueVars
    <2>2. /\ frames = <<>> /\ UNCHANGED <<mem, completed, elapsed, frames>>
          /\ prq' = Append(prq, [buf |-> A!result, blockNo |-> blockno])
      BY <2>1 DEF Schedule, ThreadRuns
    <2>3. blockno \in Blocks
      BY <2>1, DiskAssumption DEF AInv, Blocks
    <2>4. prq \in Seq(Requests) /\ Len(prq) \in Nat
          /\ [buf |-> A!result, blockNo |-> blockno] \in Requests
      BY <2>3, AReadResult DEF DiskInv, Requests
    <2>5. /\ Len(prq') = Len(prq) + 1 /\ \A i \in 1..Len(prq) : prq'[i] = prq[i]
          /\ prq'[Len(prq) + 1] = [buf |-> A!result, blockNo |-> blockno]
      BY <2>2, <2>4, AppendProperties
    <2>6. Requested = 0 /\ Requested' = 1
      BY <2>1 DEF Requested
    <2>7. completed \in Nat /\ blockno \in Nat /\ completed + Len(prq) = blockno
      BY <2>1, <2>4, <2>6 DEF AInv, DiskInv, Times
    <2>8. \A i \in 1..Len(prq') : prq'[i].buf = A!result /\ prq'[i].blockNo = completed + i - 1
      <3> SUFFICES ASSUME NEW i \in 1..Len(prq')
                   PROVE  prq'[i].buf = A!result /\ prq'[i].blockNo = completed + i - 1
        OBVIOUS
      <3>1. CASE i \in 1..Len(prq)
        BY <2>5, <3>1 DEF AInv
      <3>2. CASE i = Len(prq) + 1
        BY <2>4, <2>5, <2>7, <3>2
      <3> QED BY <2>4, <2>5, <3>1, <3>2
    <2>9. completed' + Len(prq') = blockno' + Requested'
      BY <2>1, <2>2, <2>4, <2>5, <2>6, <2>7
    <2>10. UNCHANGED <<Uncounted, Uncalled, Unadded>>
           /\ ~In("count")' /\ ~In("callback")' /\ ~In("add")'
      BY <2>2 DEF Uncounted, Uncalled, Unadded, Top, In
    <2>11. AInv'
      BY <2>1, <2>2, <2>8, <2>9, <2>10 DEF AInv, APcs
    <2> QED BY <2>1, <2>3, <2>11, AReadResult, ScheduleKeeps
  <1>2. CASE A!Enqueue
    <2>1. /\ pc = "enqueue" /\ frames = <<>> /\ queue' = Append(queue, "handle_read")
          /\ enqueued' = enqueued + 1 /\ blockno' = blockno + 1
          /\ pc' = (IF blockno' = NumBlocks THEN "poll" ELSE "request")
          /\ UNCHANGED <<diskVars, is_read_pending, sum>>
      BY <1>2, AReadQueue DEF A!Enqueue, QueueEnqueue, ThreadRuns
    <2>2. UNCHANGED <<prq, mem, completed, elapsed, frames>>
      BY <2>1 DEF diskVars
    <2>3. queue' \in Seq({"handle_read"}) /\ Len(queue') = Len(queue) + 1 /\ Len(queue) \in Nat
      BY <2>1, AppendProperties DEF AInv
    <2>4. UNCHANGED <<Uncounted, Uncalled, Unadded>> /\ Uncalled = 0
          /\ ~In("count")' /\ ~In("callback")' /\ ~In("add")'
      BY <2>1, <2>2 DEF Uncounted, Uncalled, Unadded, Top, In
    <2>5. Requested = 1 /\ Requested' = 0
      BY <2>1 DEF Requested
    <2>6. blockno \in Nat /\ blockno < NumBlocks /\ completed \in Nat /\ Len(prq) \in Nat
          /\ elapsed \in Nat
      BY <2>1 DEF AInv, DiskInv, Times
    <2>7. /\ completed' + Len(prq') = blockno' + Requested'
          /\ Len(queue') + completed' = blockno' + Uncalled'
          /\ blockno' \in 0..NumBlocks /\ elapsed' <= blockno'
      <3>1. /\ completed + Len(prq) = blockno + Requested /\ elapsed <= blockno
            /\ Len(queue) + completed = blockno + Uncalled
        BY DEF AInv
      <3> QED BY <2>1, <2>2, <2>3, <2>4, <2>5, <2>6, <3>1, DiskAssumption
    <2>8. pc' \in APcs /\ pc' # "enqueue" /\ pc' # "done"
      BY <2>1 DEF APcs
    <2>9. AInv'
      BY <2>1, <2>2, <2>3, <2>4, <2>7, <2>8 DEF AInv
    <2> QED BY <2>1, <2>9, DiskInvUnchanged
  <1>3. CASE A!Poll
    <2>1. /\ frames = <<>> /\ pc = "poll" /\ is_read_pending = NumBlocks /\ pc' = "done"
          /\ UNCHANGED <<diskVars, queue, enqueued, blockno, is_read_pending, sum>>
      BY <1>3, AReadDisk DEF A!Poll, A!diskVars, diskVars, A!queueVars, ThreadRuns
    <2>2. UNCHANGED <<prq, mem, completed, elapsed, frames>>
      BY <2>1 DEF diskVars
    <2>3. UNCHANGED <<Uncounted, Uncalled, Unadded>> /\ Uncounted = 0 /\ Unadded = 0
          /\ ~In("count")' /\ ~In("callback")' /\ ~In("add")'
      BY <2>1, <2>2 DEF Uncounted, Uncalled, Unadded, Top, In
    <2>4. completed = NumBlocks /\ UNCHANGED Requested
      BY <2>1, <2>3 DEF AInv, Requested
    <2>5. AInv'
      BY <2>1, <2>2, <2>3, <2>4 DEF AInv, APcs
    <2> QED BY <2>1, <2>5, DiskInvUnchanged
  <1> QED BY <1>1, <1>2, <1>3 DEF A!Main

LEMMA AReadTransferKeeps ==
    ASSUME DiskInv(AVals), AInv, Transfer,
           UNCHANGED <<queue, enqueued, pc, blockno, is_read_pending, sum>>
    PROVE  AInv'
  <1>1. /\ frames # <<>> /\ prq # <<>> /\ completed < Top.now /\ Top.pc = "lock"
        /\ mem' = [mem EXCEPT ![Head(prq).buf] = Head(prq).blockNo]
        /\ completed' = completed + 1 /\ prq' = Tail(prq) /\ Goto("set", None)
        /\ UNCHANGED elapsed
    BY DEF Transfer, Due, In
  <1>2. "set" \in Pcs /\ None \in AVals
    BY DEF Pcs, AVals
  <1>3. /\ Len(frames') = Len(frames)
        /\ Uncounted = 0 /\ Uncalled = 0 /\ Unadded = 0
        /\ Uncounted' = 1 /\ Uncalled' = 1 /\ Unadded' = 1
        /\ ~In("count")' /\ ~In("callback")' /\ ~In("add")'
    BY <1>1, <1>2, AReadGoto DEF CountingPcs, CallingPcs, AddingPcs
  <1>4. /\ prq \in Seq(Requests) /\ Len(prq) \in Nat \ {0}
        /\ Len(prq') = Len(prq) - 1 /\ \A i \in 1..Len(prq') : prq'[i] = prq[i + 1]
        /\ Head(prq) = prq[1]
    BY <1>1 DEF DiskInv
  <1>5. completed \in Nat /\ blockno \in Nat /\ Requested \in Nat /\ Requested' = Requested
        /\ Len(queue) \in Nat /\ Len(sum) \in Nat
    BY DEF AInv, DiskInv, Times, Requested
  <1>6. prq[1].buf = A!result /\ prq[1].blockNo = completed
    BY <1>4, <1>5 DEF AInv
  <1>7. mem'[A!result] = completed' - 1
    BY <1>1, <1>4, <1>5, <1>6, AReadResult DEF DiskInv
  <1>8. \A i \in 1..Len(prq') : prq'[i].buf = A!result /\ prq'[i].blockNo = completed' + i - 1
    <2> SUFFICES ASSUME NEW i \in 1..Len(prq')
                 PROVE  prq'[i].buf = A!result /\ prq'[i].blockNo = completed' + i - 1
      OBVIOUS
    <2>1. i + 1 \in 1..Len(prq) /\ prq'[i] = prq[i + 1]
      BY <1>4
    <2>2. prq[i + 1].buf = A!result /\ prq[i + 1].blockNo = completed + (i + 1) - 1
      BY <2>1 DEF AInv
    <2> QED BY <1>1, <1>5, <2>1, <2>2
  <1>9. completed + Len(prq) = blockno + Requested /\ Len(queue) + completed = blockno
        /\ is_read_pending = completed /\ Len(sum) = completed
    BY <1>3, <1>5 DEF AInv
  <1>10. /\ completed' + Len(prq') = blockno' + Requested'
         /\ Len(queue') + completed' = blockno' + Uncalled'
         /\ is_read_pending' + Uncounted' = completed'
         /\ Len(sum') + Unadded' = completed'
    BY <1>1, <1>3, <1>4, <1>5, <1>9
  <1>11. pc # "done"
    <2> SUFFICES ASSUME pc = "done" PROVE FALSE
      OBVIOUS
    <2>1. completed = NumBlocks /\ Requested = 0 /\ blockno <= NumBlocks
      BY DEF AInv, Requested
    <2> QED BY <1>4, <1>5, <1>9, <2>1, DiskAssumption
  <1>12. UNCHANGED <<queue, enqueued, pc, blockno, is_read_pending, sum, elapsed>>
    BY <1>1
  <1> QED BY <1>3, <1>7, <1>8, <1>10, <1>11, <1>12 DEF AInv

\* A step of the routine that leaves the disk and the program alone.
LEMMA AReadMoveKeeps ==
    ASSUME DiskInv(AVals), AInv, frames # <<>>, NEW l, Top.pc = l,
           NEW k \in Pcs, NEW v \in AVals, Goto(k, v),
           l \in CountingPcs <=> k \in CountingPcs,
           l \in CallingPcs <=> k \in CallingPcs,
           l \in AddingPcs <=> k \in AddingPcs,
           k = "count" => v = is_read_pending,
           k # "callback",
           k = "add" => v = Append(sum, mem[A!result]),
           UNCHANGED <<prq, mem, completed, elapsed, queue, enqueued, pc, blockno,
                       is_read_pending, sum>>
    PROVE  AInv'
  <1>1. /\ Len(frames') = Len(frames) /\ Top'.tmp = v
        /\ UNCHANGED <<Uncounted, Uncalled, Unadded>>
        /\ In("count")' <=> k = "count"
        /\ In("callback")' <=> k = "callback"
        /\ In("add")' <=> k = "add"
    BY AReadGoto
  <1>2. Requested' = Requested
    BY DEF Requested
  <1> QED BY <1>1, <1>2 DEF AInv

LEMMA AReadStoreCountKeeps ==
    ASSUME DiskInv(AVals), AInv, A!StoreCount
    PROVE  DiskInv(AVals)' /\ AInv'
  <1>1. /\ frames # <<>> /\ Top.pc = "count" /\ Goto("counted", None)
        /\ is_read_pending' = Top.tmp + 1
        /\ UNCHANGED <<prq, mem, completed, elapsed, masked, isInterrupt>>
        /\ UNCHANGED <<queue, enqueued, pc, blockno, sum>>
    BY AReadDisk DEF A!StoreCount, A!IsrStep, A!queueVars, A!Top, Top, In
  <1>2. "counted" \in Pcs /\ None \in AVals /\ masked \in BOOLEAN /\ isInterrupt \in BOOLEAN
    BY DEF Pcs, AVals, DiskInv, Masks
  <1>3. /\ Len(frames') = Len(frames)
        /\ Uncounted = 1 /\ Uncalled = 1 /\ Unadded = 1
        /\ Uncounted' = 0 /\ Uncalled' = 1 /\ Unadded' = 1
        /\ ~In("count")' /\ ~In("callback")' /\ ~In("add")'
    BY <1>1, <1>2, AReadGoto DEF CountingPcs, CallingPcs, AddingPcs
  <1>4. is_read_pending' = is_read_pending + 1 /\ is_read_pending \in Nat /\ Requested' = Requested
    BY <1>1 DEF AInv, In, Requested
  <1>5. is_read_pending' + Uncounted' = completed'
    BY <1>1, <1>3, <1>4 DEF AInv
  <1>6. AInv'
    BY <1>1, <1>3, <1>4, <1>5 DEF AInv
  <1> QED BY <1>1, <1>2, <1>6, MoveKeeps

LEMMA AReadDequeueKeeps ==
    ASSUME DiskInv(AVals), AInv, A!Dequeue
    PROVE  DiskInv(AVals)' /\ AInv'
  <1>1. QueueDequeue("callback") /\ UNCHANGED <<pc, blockno, is_read_pending, sum>>
    BY AReadQueue DEF A!Dequeue, A!progVars
  <1>2. /\ frames # <<>> /\ Top.pc = "dequeue" /\ masked' = MaskedByUnlock
        /\ UNCHANGED <<prq, mem, completed, elapsed, isInterrupt, enqueued>>
    BY <1>1 DEF QueueDequeue, In
  <1>3. "callback" \in Pcs /\ "handle_read" \in AVals
        /\ masked' \in BOOLEAN /\ isInterrupt' \in BOOLEAN
    BY <1>2 DEF Pcs, AVals, DiskInv, Masks, MaskedByUnlock
  <1>4. /\ Uncalled = 1 /\ Len(queue) \in Nat /\ queue \in Seq({"handle_read"})
        /\ blockno \in Nat /\ completed \in Nat /\ completed <= blockno
    BY <1>2 DEF AInv, DiskInv, Times, Uncalled, CallingPcs
  <1>5. Len(queue) + completed = blockno + 1
    BY <1>4 DEF AInv
  <1>6. queue # <<>> /\ Head(queue) = "handle_read" /\ queue' = Tail(queue)
        /\ Goto("callback", "handle_read")
    <2>1. queue # <<>>
      BY <1>4, <1>5
    <2>2. Head(queue) = "handle_read"
      BY <1>4, <2>1
    <2> QED BY <1>1, <2>1, <2>2 DEF QueueDequeue
  <1>7. queue' \in Seq({"handle_read"}) /\ Len(queue') = Len(queue) - 1
    BY <1>4, <1>6
  <1>8. /\ Len(frames') = Len(frames) /\ Top'.tmp = "handle_read"
        /\ Uncounted = 0 /\ Unadded = 1
        /\ Uncounted' = 0 /\ Uncalled' = 0 /\ Unadded' = 1
        /\ ~In("count")' /\ ~In("add")'
    BY <1>2, <1>3, <1>6, AReadGoto DEF CountingPcs, CallingPcs, AddingPcs
  <1>9. Len(queue') + completed' = blockno' + Uncalled' /\ Requested' = Requested
    BY <1>1, <1>2, <1>4, <1>5, <1>7, <1>8 DEF Requested
  <1>10. UNCHANGED <<prq, mem, completed, elapsed, enqueued, pc, blockno, is_read_pending, sum>>
    BY <1>1, <1>2
  <1>11. AInv'
    BY <1>7, <1>8, <1>9, <1>10 DEF AInv
  <1> QED BY <1>2, <1>3, <1>6, <1>11, MoveKeeps

LEMMA AReadLoadSumKeeps ==
    ASSUME DiskInv(AVals), AInv, A!LoadSum
    PROVE  DiskInv(AVals)' /\ AInv'
  <1> DEFINE v == Append(sum, mem[A!result])
  <1>1. /\ frames # <<>> /\ Top.pc = "callback" /\ Goto("add", v)
        /\ UNCHANGED <<prq, mem, completed, elapsed, masked, isInterrupt>>
        /\ UNCHANGED <<queue, enqueued, pc, blockno, is_read_pending, sum>>
    BY AReadDisk DEF A!LoadSum, A!IsrStep, A!queueVars, In
  <1>2. Unadded = 1 /\ Len(sum) \in Nat /\ completed \in Nat /\ sum \in Seq(Nat)
    BY <1>1 DEF AInv, DiskInv, Times, Unadded, AddingPcs
  <1>3. mem[A!result] = completed - 1 /\ completed - 1 \in Nat
    BY <1>2 DEF AInv
  <1>4. v \in Seq(Nat)
    BY <1>2, <1>3, AppendProperties
  <1>5. v \in AVals /\ "add" \in Pcs /\ masked \in BOOLEAN /\ isInterrupt \in BOOLEAN
    <2> HIDE DEF v
    <2> QED BY <1>4 DEF AVals, Pcs, DiskInv, Masks
  <1>6. AInv'
    BY <1>1, <1>5, AReadMoveKeeps DEF CountingPcs, CallingPcs, AddingPcs
  <1> HIDE DEF v
  <1> QED BY <1>1, <1>5, <1>6, MoveKeeps

LEMMA AReadStoreSumKeeps ==
    ASSUME DiskInv(AVals), AInv, A!StoreSum
    PROVE  DiskInv(AVals)' /\ AInv'
  <1>1. /\ frames # <<>> /\ Top.pc = "add" /\ Goto("clear", None)
        /\ sum' = Top.tmp
        /\ UNCHANGED <<prq, mem, completed, elapsed, masked, isInterrupt>>
        /\ UNCHANGED <<queue, enqueued, pc, blockno, is_read_pending>>
    BY AReadDisk DEF A!StoreSum, A!IsrStep, A!queueVars, A!Top, Top, In
  <1>2. "clear" \in Pcs /\ None \in AVals /\ masked \in BOOLEAN /\ isInterrupt \in BOOLEAN
    BY DEF Pcs, AVals, DiskInv, Masks
  <1>3. /\ Len(frames') = Len(frames)
        /\ Uncounted = 0 /\ Uncalled = 0 /\ Unadded = 1
        /\ Uncounted' = 0 /\ Uncalled' = 0 /\ Unadded' = 0
        /\ ~In("count")' /\ ~In("callback")' /\ ~In("add")'
    BY <1>1, <1>2, AReadGoto DEF CountingPcs, CallingPcs, AddingPcs
  <1>4. /\ sum' = Append(sum, mem[A!result]) /\ mem[A!result] = completed - 1
        /\ sum \in Seq(Nat) /\ Len(sum) + 1 = completed /\ Len(sum) \in Nat
    BY <1>1, <1>3 DEF AInv, In
  <1>5. sum' = Append(sum, Len(sum))
    BY <1>4
  <1>6. /\ sum' \in Seq(Nat) /\ Len(sum') = Len(sum) + 1
        /\ \A i \in 1..Len(sum) : sum'[i] = sum[i]
        /\ sum'[Len(sum) + 1] = Len(sum)
    BY <1>4, <1>5, AppendProperties
  <1>7. \A i \in 1..Len(sum') : sum'[i] = i - 1
    <2> SUFFICES ASSUME NEW i \in 1..Len(sum') PROVE sum'[i] = i - 1
      OBVIOUS
    <2>1. CASE i \in 1..Len(sum)
      BY <1>6, <2>1 DEF AInv
    <2> QED BY <1>4, <1>6, <2>1
  <1>8. Len(sum') + Unadded' = completed' /\ Requested' = Requested
    BY <1>1, <1>3, <1>4, <1>6 DEF Requested
  <1>9. AInv'
    BY <1>1, <1>3, <1>6, <1>7, <1>8 DEF AInv
  <1> QED BY <1>1, <1>2, <1>9, MoveKeeps

LEMMA AReadHandlerKeeps ==
    ASSUME DiskInv(AVals), AInv, Handler,
           UNCHANGED <<queue, enqueued, pc, blockno, is_read_pending, sum>>
    PROVE  AInv'
  <1>1. "isr" \in Pcs /\ "lock" \in Pcs /\ None \in AVals
    BY DEF Pcs, AVals
  <1>2. CASE Transfer
    BY <1>2, AReadTransferKeeps
  <1>3. CASE Return
    <2>1. /\ frames # <<>> /\ Top.pc = "lock" /\ frames' = Front(frames)
          /\ UNCHANGED <<prq, mem, completed, elapsed>>
      BY <1>3 DEF Return, In
    <2>2. frames \in Seq(FrameOf(AVals)) /\ Len(frames) = 1
      <3>1. frames \in Seq(FrameOf(AVals)) /\ Len(frames) <= 1
        BY DEF DiskInv, AInv
      <3>2. frames # <<>>
        BY <2>1
      <3>3. Len(frames) \in Nat \ {0}
        BY <3>1, <3>2
      <3>4. \A n \in Nat \ {0} : n <= 1 => n = 1
        OBVIOUS
      <3> QED BY <3>1, <3>3, <3>4
    <2>3. Len(frames') = 0 /\ frames' \in Seq(FrameOf(AVals))
      BY <2>1, <2>2, ReturnFrames
    <2>4. frames' = <<>>
      BY <2>3
    <2>5. /\ Uncounted = 0 /\ Uncalled = 0 /\ Unadded = 0
      BY <2>1 DEF Uncounted, Uncalled, Unadded, CountingPcs, CallingPcs, AddingPcs
    <2>6. /\ Uncounted' = 0 /\ Uncalled' = 0 /\ Unadded' = 0
          /\ ~In("count")' /\ ~In("callback")' /\ ~In("add")'
      BY <2>4 DEF Uncounted, Uncalled, Unadded, In
    <2>7. Requested' = Requested
      BY DEF Requested
    <2> QED BY <2>1, <2>3, <2>5, <2>6, <2>7 DEF AInv
  <1>4. CASE SetInterrupt
    <2>1. /\ frames # <<>> /\ Top.pc = "set" /\ Goto("isr", None)
          /\ UNCHANGED <<prq, mem, completed, elapsed>>
      BY <1>4 DEF SetInterrupt, In
    <2> QED BY <1>1, <2>1, AReadMoveKeeps DEF CountingPcs, CallingPcs, AddingPcs
  <1>5. CASE ClearInterrupt
    <2>1. /\ frames # <<>> /\ Top.pc = "clear" /\ Goto("lock", None)
          /\ UNCHANGED <<prq, mem, completed, elapsed>>
      BY <1>5 DEF ClearInterrupt, In
    <2> QED BY <1>1, <2>1, AReadMoveKeeps DEF CountingPcs, CallingPcs, AddingPcs
  <1> QED BY <1>2, <1>3, <1>4, <1>5 DEF Handler

LEMMA AReadKeeps ==
    ASSUME Prompt, DiskInv(AVals), AInv, A!Next
    PROVE  DiskInv(AVals)' /\ AInv'
  <1>1. /\ None \in AVals /\ "count" \in Pcs /\ "dequeue" \in Pcs
        /\ masked \in BOOLEAN /\ isInterrupt \in BOOLEAN /\ MaskedByLock \in BOOLEAN
    BY DEF AVals, Pcs, DiskInv, Masks, MaskedByLock
  <1>2. CASE Handler /\ UNCHANGED <<queue, enqueued, pc, blockno, is_read_pending, sum>>
    BY <1>1, <1>2, HandlerKeeps, AReadHandlerKeeps
  <1>3. CASE A!LoadCount
    <2>1. /\ frames # <<>> /\ Top.pc = "isr" /\ Goto("count", is_read_pending)
          /\ UNCHANGED <<prq, mem, completed, elapsed, masked, isInterrupt>>
          /\ UNCHANGED <<queue, enqueued, pc, blockno, is_read_pending, sum>>
      BY <1>3, AReadDisk DEF A!LoadCount, A!IsrStep, A!queueVars, In
    <2>2. is_read_pending \in AVals
      BY DEF AInv, AVals
    <2>3. AInv'
      BY <1>1, <2>1, <2>2, AReadMoveKeeps DEF CountingPcs, CallingPcs, AddingPcs
    <2> QED BY <1>1, <2>1, <2>2, <2>3, MoveKeeps
  <1>4. CASE A!Lock
    <2>1. /\ frames # <<>> /\ Top.pc = "counted" /\ Goto("dequeue", None)
          /\ masked' = MaskedByLock
          /\ UNCHANGED <<prq, mem, completed, elapsed, isInterrupt>>
          /\ UNCHANGED <<queue, enqueued, pc, blockno, is_read_pending, sum>>
      BY <1>4, AReadQueue DEF A!Lock, QueueLock, In, A!progVars
    <2>2. AInv'
      BY <1>1, <2>1, AReadMoveKeeps DEF CountingPcs, CallingPcs, AddingPcs
    <2> QED BY <1>1, <2>1, <2>2, MoveKeeps
  <1>5. CASE Alarm /\ Len(frames) < 1
             /\ UNCHANGED <<queue, enqueued, pc, blockno, is_read_pending, sum>>
    <2>1. frames \in Seq(FrameOf(AVals)) /\ frames = <<>> /\ elapsed \in Nat
          /\ UNCHANGED <<prq, mem, completed, elapsed>>
      BY <1>5 DEF DiskInv, Times, Alarm
    <2>2. Len(frames') = Len(frames) + 1 /\ Top'.pc = "lock" /\ frames' # <<>> /\ Len(frames) = 0
      BY <1>1, <1>5, <2>1, AlarmFrames
    <2>3. Uncounted = 0 /\ Uncalled = 0 /\ Unadded = 0
      BY <2>1, AReadThreadRuns
    <2>4. /\ Uncounted' = 0 /\ Uncalled' = 0 /\ Unadded' = 0
          /\ ~In("count")' /\ ~In("callback")' /\ ~In("add")'
      BY <2>2 DEF Uncounted, Uncalled, Unadded, In, CountingPcs, CallingPcs, AddingPcs
    <2>5. Requested' = Requested
      BY <1>5 DEF Requested
    <2>6. AInv'
      BY <1>5, <2>1, <2>2, <2>3, <2>4, <2>5 DEF AInv
    <2> QED BY <1>1, <1>5, <2>6, AlarmKeeps
  <1>6. CASE A!Passes
    <2>1. TimePasses /\ elapsed < enqueued
          /\ UNCHANGED <<queue, enqueued, pc, blockno, is_read_pending, sum>>
      BY <1>6, AReadQueue DEF A!Passes, A!progVars, QueueTimePasses, queueVars
    <2>2. elapsed' = elapsed + 1 /\ UNCHANGED <<prq, mem, completed, frames>>
      BY <2>1 DEF TimePasses
    <2>3. elapsed' <= blockno'
      BY <2>1, <2>2 DEF AInv, DiskInv, Times
    <2>4. /\ UNCHANGED <<Uncounted, Uncalled, Unadded, Requested>>
          /\ In("count")' <=> In("count")
          /\ In("callback")' <=> In("callback")
          /\ In("add")' <=> In("add")
          /\ Top' = Top
      BY <2>1, <2>2 DEF Uncounted, Uncalled, Unadded, Requested, In, Top
    <2>5. AInv'
      BY <2>1, <2>2, <2>3, <2>4 DEF AInv
    <2> QED BY <2>1, <2>5, TimePassesKeeps
  <1>7. A!Alarm => Alarm /\ Len(frames) < 1
    BY AReadDisk DEF A!Alarm
  <1>8. CASE A!Fires
    BY <1>5, <1>7, <1>8 DEF A!Fires, A!queueVars, A!progVars
  <1>9. CASE A!Interrupt
    BY <1>2, <1>3, <1>4, <1>9, AReadDisk, AReadStoreCountKeeps, AReadDequeueKeeps,
       AReadLoadSumKeeps, AReadStoreSumKeeps DEF A!Interrupt, A!queueVars, A!progVars
  <1> QED BY <1>6, <1>8, <1>9, AReadMainKeeps DEF A!Next

LEMMA AReadSound ==
    ASSUME DiskInv(AVals), AInv
    PROVE  A!NoNullCallback /\ A!SumFollowsReads
  <1>1. A!NoNullCallback
    BY AReadDisk, ProgramAssumption DEF AInv, A!NoNullCallback, A!NullCallback, A!Top, Top
  <1>2. sum = [i \in 1..Len(sum) |-> i - 1]
    BY DEF AInv
  <1>3. Uncounted \in Nat /\ Unadded \in Nat /\ Len(sum) \in Nat
    BY DEF Uncounted, Unadded, AInv
  <1>4. ThreadRuns => Len(sum) = completed /\ is_read_pending = completed
    BY <1>3, AReadThreadRuns DEF AInv, ThreadRuns
  <1>5. pc = "done" => Len(sum) = NumBlocks
    BY <1>3 DEF AInv
  <1> QED BY <1>1, <1>2, <1>4, <1>5, AReadDisk DEF A!SumFollowsReads
-----------------------------------------------------------------------------
(* The interrupt side alone, whether or not the programs keep up with time. *)

SPrograms == {"sRead", "sReadNested"}
TPrograms == {"tRead", "tReadNested"}
Programs == {"sRead", "sReadNested", "aRead", "tRead", "tReadNested", "clock"}

\* The activations keep some values in their local variables.
HandlerInv == \E V : None \in V /\ DiskInv(V)

LEMMA DiskInvWider ==
    ASSUME NEW V, NEW W, V \subseteq W, DiskInv(V)
    PROVE  DiskInv(W)
  <1>1. FrameOf(V) \subseteq FrameOf(W)
    BY DEF FrameOf
  <1>2. Seq(FrameOf(V)) \subseteq Seq(FrameOf(W))
    BY <1>1
  <1> QED BY <1>2 DEF DiskInv

\* The innermost activation moves, whatever its local variable becomes.
LEMMA AnyMoveKeeps ==
    ASSUME HandlerInv, frames # <<>>,
           NEW k \in Pcs, k # "lock", NEW v, Goto(k, v),
           masked' \in BOOLEAN, isInterrupt' \in BOOLEAN,
           UNCHANGED <<prq, mem, completed, elapsed>>
    PROVE  HandlerInv'
  <1>1. PICK V : None \in V /\ DiskInv(V)
    BY DEF HandlerInv
  <1> DEFINE W == V \cup {v}
  <1>2. DiskInv(W) /\ v \in W /\ None \in W
    BY <1>1, DiskInvWider
  <1> HIDE DEF W
  <1>3. DiskInv(W)'
    BY <1>2, MoveKeeps
  <1> QED BY <1>2, <1>3 DEF HandlerInv

LEMMA InvBooleans ==
    ASSUME HandlerInv
    PROVE  /\ masked \in BOOLEAN /\ isInterrupt \in BOOLEAN
           /\ MaskedByLock \in BOOLEAN /\ MaskedByUnlock \in BOOLEAN
  BY DEF HandlerInv, DiskInv, Masks, MaskedByLock, MaskedByUnlock

LEMMA HandlerStepKeeps ==
    ASSUME HandlerInv, Handler \/ Alarm \/ TimePasses
    PROVE  HandlerInv'
  <1>1. PICK V : None \in V /\ DiskInv(V)
    BY DEF HandlerInv
  <1>2. DiskInv(V)'
    BY <1>1, HandlerKeeps, AlarmKeeps, TimePassesKeeps
  <1> QED BY <1>1, <1>2 DEF HandlerInv

LEMMA ThreadStepKeeps ==
    ASSUME HandlerInv,
           \/ UNCHANGED diskVars
           \/ \E b \in Buffers, n \in Blocks : Schedule(b, n)
    PROVE  HandlerInv'
  <1>1. PICK V : None \in V /\ DiskInv(V)
    BY DEF HandlerInv
  <1>2. DiskInv(V)'
    BY <1>1, DiskInvUnchanged, ScheduleKeeps
  <1> QED BY <1>1, <1>2 DEF HandlerInv

LEMMA QueueStepKeeps ==
    ASSUME HandlerInv, NEW l \in Pcs, l # "lock",
           QueueLock(l) \/ QueueDequeue(l)
    PROVE  HandlerInv'
  <1>1. CASE QueueLock(l)
    <2>1. /\ frames # <<>> /\ Goto("dequeue", None) /\ masked' = MaskedByLock
          /\ "dequeue" \in Pcs /\ UNCHANGED <<prq, mem, completed, elapsed, isInterrupt>>
      BY <1>1 DEF QueueLock, In, Pcs
    <2> QED BY <2>1, InvBooleans, AnyMoveKeeps
  <1>2. CASE QueueDequeue(l)
    <2>1. /\ frames # <<>> /\ \E v : Goto(l, v) /\ masked' = MaskedByUnlock
          /\ UNCHANGED <<prq, mem, completed, elapsed, isInterrupt>>
      BY <1>2 DEF QueueDequeue, In
    <2> QED BY <2>1, InvBooleans, AnyMoveKeeps
  <1> QED BY <1>1, <1>2

LEMMA TReadKeepsHandler ==
    ASSUME HandlerInv, TN!Next
    PROVE  HandlerInv'
  <1>1. ASSUME NEW t \in Buffers, TN!Thread(t) PROVE HandlerInv'
    <2>1. CASE TN!Request(t)
      <3>1. Schedule(t, TN!BlockOf[t]) /\ TN!BlockOf[t] \in Blocks
        BY <2>1, TReadDisk, BlockOfType DEF TN!Request
      <3> QED BY <3>1, ThreadStepKeeps
    <2>2. CASE TN!Enqueue(t)
      <3>1. UNCHANGED diskVars
        BY <2>2, TReadQueue DEF TN!Enqueue, QueueEnqueue
      <3> QED BY <3>1, ThreadStepKeeps
    <2>3. CASE ~TN!Request(t) /\ ~TN!Enqueue(t)
      <3>1. UNCHANGED diskVars
        BY <1>1, <2>3 DEF TN!Thread, TN!Start, TN!Block, TN!Resume, TN!Add, TN!diskVars, diskVars
      <3> QED BY <3>1, ThreadStepKeeps
    <2> QED BY <2>1, <2>2, <2>3
  <1>2. CASE TN!Lock \/ TN!Dequeue
    <2>1. "isr" \in Pcs /\ "unblock" \in Pcs
      BY DEF Pcs
    <2>2. QueueLock("isr") \/ QueueDequeue("unblock")
      BY <1>2, TReadQueue DEF TN!Lock, TN!Dequeue
    <2> QED BY <2>1, <2>2, QueueStepKeeps
  <1>3. CASE TN!ReadyLock \/ TN!ReadyEnqueue
    <2>1. /\ frames # <<>> /\ UNCHANGED <<prq, mem, completed, elapsed, isInterrupt>>
          /\ masked' \in {MaskedByLock, MaskedByUnlock}
          /\ \E k \in Pcs : k # "lock" /\ \E v : Goto(k, v)
      BY <1>3, TReadDisk DEF TN!ReadyLock, TN!ReadyEnqueue, In, Pcs, TN!MaskedByLock,
         MaskedByLock, TN!MaskedByUnlock, MaskedByUnlock
    <2> QED BY <2>1, InvBooleans, AnyMoveKeeps
  <1>4. CASE TN!Fires \/ TN!Passes
    <2>1. Alarm \/ TimePasses
      BY <1>4, TReadDisk, TReadQueue DEF TN!Fires, TN!Passes, QueueTimePasses
    <2> QED BY <2>1, HandlerStepKeeps
  <1> QED BY <1>1, <1>2, <1>3, <1>4, TReadDisk, HandlerStepKeeps DEF TN!Next, TN!Interrupt

LEMMA AReadKeepsHandler ==
    ASSUME HandlerInv, blockno \in Nat, A!Next
    PROVE  HandlerInv' /\ blockno' \in Nat
  <1>1. CASE A!Main
    <2>1. CASE A!Request
      <3>1. Schedule(A!result, blockno) /\ blockno \in Blocks /\ blockno' = blockno
        BY <2>1, AReadDisk, DiskAssumption DEF A!Request, Blocks
      <3> QED BY <3>1, AReadResult, ThreadStepKeeps
    <2>2. CASE A!Enqueue
      <3>1. UNCHANGED diskVars /\ blockno' = blockno + 1
        BY <2>2, AReadQueue DEF A!Enqueue, QueueEnqueue
      <3> QED BY <3>1, ThreadStepKeeps
    <2>3. CASE A!Poll
      <3>1. UNCHANGED diskVars /\ blockno' = blockno
        BY <2>3 DEF A!Poll, A!diskVars, diskVars
      <3> QED BY <3>1, ThreadStepKeeps
    <2> QED BY <1>1, <2>1, <2>2, <2>3 DEF A!Main
  <1>2. CASE A!LoadCount \/ A!StoreCount \/ A!LoadSum \/ A!StoreSum
    <2>1. /\ frames # <<>> /\ blockno' = blockno
          /\ UNCHANGED <<prq, mem, completed, elapsed, masked, isInterrupt>>
          /\ \E k \in Pcs : k # "lock" /\ \E v : Goto(k, v)
      BY <1>2, AReadDisk
         DEF A!LoadCount, A!StoreCount, A!LoadSum, A!StoreSum, A!IsrStep, In, Pcs
    <2> QED BY <2>1, InvBooleans, AnyMoveKeeps
  <1>3. CASE A!Lock \/ A!Dequeue
    <2>1. "counted" \in Pcs /\ "callback" \in Pcs
      BY DEF Pcs
    <2>2. (QueueLock("counted") \/ QueueDequeue("callback")) /\ blockno' = blockno
      BY <1>3, AReadQueue DEF A!Lock, A!Dequeue, A!progVars
    <2> QED BY <2>1, <2>2, QueueStepKeeps
  <1>4. CASE (Handler \/ Alarm \/ TimePasses) /\ blockno' = blockno
    BY <1>4, HandlerStepKeeps
  <1> QED BY <1>1, <1>2, <1>3, <1>4, AReadDisk, AReadQueue
          DEF A!Next, A!Interrupt, A!Fires, A!Passes, QueueTimePasses, A!progVars
-----------------------------------------------------------------------------
(* All programs. *)

DisksInv ==
    /\ HandlerInv
    /\ program \in Programs
    /\ program \in SPrograms => DiskInv({None}) /\ SInv
    /\ program \in TPrograms /\ Prompt => DiskInv(TVals) /\ TInv
    /\ program = "aRead" => blockno \in Nat
    /\ program = "aRead" /\ Prompt => DiskInv(AVals) /\ AInv

LEMMA DisksInit == Init => DisksInv
  <1> SUFFICES ASSUME Init PROVE DisksInv
    OBVIOUS
  <1>1. HandlerInv
    <2>1. DiskInit
      BY SReadDisk, TReadDisk, AReadDisk DEF Init, SN!Init, TN!Init, A!Init
    <2>2. DiskInv({None})
      BY <2>1, DiskInitInv
    <2> QED BY <2>2 DEF HandlerInv
  <1>2. CASE program \in SPrograms
    BY <1>1, <1>2, SReadInit DEF Init, DisksInv, Programs, SPrograms, TPrograms
  <1>3. CASE program \in TPrograms
    BY <1>1, <1>3, TReadInit DEF Init, DisksInv, Programs, SPrograms, TPrograms
  <1>4. CASE program = "aRead"
    <2>1. DiskInv(AVals) /\ AInv /\ blockno = 0
      BY <1>4, AReadInit DEF Init, A!Init
    <2> QED BY <1>1, <1>4, <2>1 DEF DisksInv, Programs, SPrograms, TPrograms
  <1>5. CASE program = "clock"
    BY <1>1, <1>5 DEF DisksInv, Programs, SPrograms, TPrograms
  <1> QED BY <1>2, <1>3, <1>4, <1>5 DEF Init, SPrograms, TPrograms

LEMMA DisksUnchanged ==
    ASSUME DisksInv, UNCHANGED vars
    PROVE  DisksInv'
  <1>1. /\ UNCHANGED diskVars
        /\ UNCHANGED <<prq, mem, completed, elapsed, frames, queue, enqueued>>
        /\ UNCHANGED <<program, pc, blockno, is_read_pending, sum, cpu, tokens>>
    BY DEF vars, diskVars, queueVars, progVars, countVars, threadVars
  <1>2. HandlerInv'
    BY <1>1, ThreadStepKeeps DEF DisksInv
  <1>3. /\ DiskInv({None}) => DiskInv({None})'
        /\ DiskInv(TVals) => DiskInv(TVals)'
        /\ DiskInv(AVals) => DiskInv(AVals)'
    BY <1>1, DiskInvUnchanged
  <1>4. SInv => SInv'
    BY <1>1 DEF SInv
  <1>5. TInv => TInv'
    BY <1>1 DEF TInv, Owed, Owing, Ahead, Has
  <1>6. AInv => AInv'
    BY <1>1 DEF AInv, Uncounted, Uncalled, Unadded, Requested, In, Top
  <1> QED BY <1>1, <1>2, <1>3, <1>4, <1>5, <1>6 DEF DisksInv

LEMMA DisksKeep ==
    ASSUME DisksInv, Next
    PROVE  DisksInv'
  <1>1. CASE program \in SPrograms
    <2>1. SN!Next /\ program' = program
      BY <1>1, SReadOnceStep DEF Next, Runs, SPrograms
    <2>2. DiskInv({None})' /\ SInv'
      BY <1>1, <2>1, SReadKeeps DEF DisksInv
    <2>3. HandlerInv'
      BY <2>2 DEF HandlerInv
    <2> QED BY <1>1, <2>1, <2>2, <2>3 DEF DisksInv, SPrograms, TPrograms
  <1>2. CASE program \in TPrograms
    <2>1. TN!Next /\ program' = program
      BY <1>2, TReadOnceStep DEF Next, Runs, TPrograms
    <2>2. HandlerInv'
      BY <2>1, TReadKeepsHandler DEF DisksInv
    <2>3. Prompt => DiskInv(TVals)' /\ TInv'
      BY <1>2, <2>1, TReadKeeps DEF DisksInv
    <2> QED BY <1>2, <2>1, <2>2, <2>3 DEF DisksInv, SPrograms, TPrograms
  <1>3. CASE program = "aRead"
    <2>1. A!Next /\ program' = program
      BY <1>3 DEF Next, Runs
    <2>2. HandlerInv' /\ blockno' \in Nat
      BY <1>3, <2>1, AReadKeepsHandler DEF DisksInv
    <2>3. Prompt => DiskInv(AVals)' /\ AInv'
      BY <1>3, <2>1, AReadKeeps DEF DisksInv
    <2> QED BY <1>3, <2>1, <2>2, <2>3 DEF DisksInv, SPrograms, TPrograms
  <1>4. CASE program = "clock"
    <2>1. UNCHANGED diskVars /\ program' = program
      BY <1>4 DEF Next, Runs
    <2>2. HandlerInv'
      BY <2>1, ThreadStepKeeps DEF DisksInv
    <2> QED BY <1>4, <2>1, <2>2 DEF DisksInv, SPrograms, TPrograms
  <1> QED BY <1>1, <1>2, <1>3, <1>4 DEF DisksInv, Programs, SPrograms, TPrograms

LEMMA DisksInvariant == Spec => []DisksInv
  <1>1. DisksInv /\ [Next]_vars => DisksInv'
    BY DisksUnchanged, DisksKeep
  <1> QED BY <1>1, DisksInit, PTL DEF Spec

LEMMA InvMeansSections == HandlerInv => DiskTypeOK /\ SectionsAreMasked
  <1> SUFFICES ASSUME HandlerInv PROVE DiskTypeOK /\ SectionsAreMasked
    OBVIOUS
  <1>1. PICK V : DiskInv(V)
    BY DEF HandlerInv
  <1>2. Len(prq) \in Nat /\ elapsed \in completed..(completed + Len(prq))
    BY <1>1 DEF DiskInv, Times
  <1>3. DiskTypeOK
    BY <1>1, <1>2 DEF DiskInv, Times, Masks, DiskTypeOK, Requests
  <1>4. SectionsAreMasked
    BY <1>1 DEF DiskInv, Masks, SectionsAreMasked, MaskedByLock
  <1> QED BY <1>3, <1>4

\* The disk keeps its types, no more requests are due than were made, and the
\* handler nests no deeper than the timer allows.
THEOREM TypeCorrect == Spec => []DiskTypeOK
  <1>1. DisksInv => DiskTypeOK
    BY InvMeansSections DEF DisksInv
  <1> QED BY <1>1, DisksInvariant, PTL

\* However deep the timer handler nests, no activation takes prq_mutex with the
\* signal open, and thread code finds the signal open and isInterrupt clear.
THEOREM SectionsAreMaskedCorrect == Spec => []SectionsAreMasked
  <1>1. DisksInv => SectionsAreMasked
    BY InvMeansSections DEF DisksInv
  <1> QED BY <1>1, DisksInvariant, PTL

\* sRead.c adds the blocks it asked for, each once and in order, however long
\* the disk takes and however deep the handler nests.
THEOREM SReadAddsWhatItReads ==
    Spec => [](program \in {"sRead", "sReadNested"} => SN!AddsWhatItRead)
  <1>1. DisksInv => (program \in {"sRead", "sReadNested"} => SN!AddsWhatItRead)
    BY SReadSound DEF DisksInv, SPrograms
  <1> QED BY <1>1, DisksInvariant, PTL

\* If no read completes before its entry is made, the threads of tRead.c find
\* their blocks however deep the handler nests, and the routine of aRead.c adds
\* every block in order if the handler returns within a timer period.
THEOREM SumsAreOfReadsCorrect == ASSUME Prompt PROVE Spec => []SumsAreOfReads
  <1>1. DisksInv => SumsAreOfReads
    BY SReadSound, TReadSound, AReadSound DEF DisksInv, SumsAreOfReads, SPrograms, TPrograms
  <1> QED BY <1>1, DisksInvariant, PTL
-----------------------------------------------------------------------------
(* The arithmetic of completion times. *)

\* An earlier second is at least a second away.
LEMMA EarlierSecond ==
    ASSUME NEW m \in Int, NEW n \in Int, m < n
    PROVE  Second * m + Second <= Second * n
  <1>1. \A k \in Nat : Second * k >= 0
    BY ClockAssumption
  <1>2. n - m - 1 \in Nat /\ Second * (n - m - 1) = Second * n - Second * m - Second
    BY ClockAssumption
  <1> QED BY <1>1, <1>2, ClockAssumption

\* tm_compare orders by the seconds, then by the microseconds.
LEMMA CompareMeans ==
    ASSUME NEW a, NEW b, a.sec \in Int, a.usec \in Int, b.sec \in Int, b.usec \in Int
    PROVE  TmCompare(a, b) <= 0
           <=> a.sec < b.sec \/ (a.sec = b.sec /\ a.usec <= b.usec)
  BY DEF TmCompare

\* The stamp of a request says when it is due.
LEMMA StampIsDue ==
    ASSUME NEW tc \in TimeVal, NEW b \in TimeVal
    PROVE  TmCompare(TmAdd(tc, Latency), b) <= 0 <=> Micros(b) >= Micros(tc) + Latency
  <1> DEFINE cs == tc.sec  cu == tc.usec  c == Micros(tc)
             ds == b.sec  du == b.usec  d == Micros(b)
  <1>1. /\ cs \in Nat /\ cu \in 0..(Second - 1) /\ c = Second * cs + cu
        /\ ds \in Nat /\ du \in 0..(Second - 1) /\ d = Second * ds + du
    BY DEF TimeVal, Micros
  <1>2. /\ Second \in Nat \ {0} /\ Latency \in 0..Second
        /\ Second * cs \in Int /\ Second * ds \in Int
        /\ Second * (cs + 1) = Second * cs + Second
        /\ cs < ds => Second * cs + Second <= Second * ds
        /\ ds < cs => Second * ds + Second <= Second * cs
        /\ cs + 1 < ds => Second * cs + 2 * Second <= Second * ds
    BY <1>1, EarlierSecond, ClockAssumption
  <1> DEFINE a == TmAdd(tc, Latency)
  <1>4. CASE cu + Latency > Second
    <2>1. a.sec = cs + 1 /\ a.usec = cu + Latency - Second
      BY <1>1, <1>2, <1>4 DEF TmAdd, TimeVal
    <2>2. TmCompare(a, b) <= 0 <=> cs + 1 < ds \/ (cs + 1 = ds /\ cu + Latency - Second <= du)
      <3> HIDE DEF a
      <3>1. a.sec \in Int /\ a.usec \in Int /\ b.sec \in Int /\ b.usec \in Int
        BY <1>1, <1>2, <2>1
      <3> QED BY <2>1, <3>1, CompareMeans
    <2> HIDE DEF cs, cu, ds, du, a, c, d
    <2>3. d >= c + Latency <=> cs + 1 < ds \/ (cs + 1 = ds /\ cu + Latency - Second <= du)
      <3>1. CASE cs + 1 < ds
        BY <1>1, <1>2, <1>4, <3>1
      <3>2. CASE cs + 1 = ds
        BY <1>1, <1>2, <1>4, <3>2
      <3>3. CASE cs + 1 > ds
        <4>1. Second * ds <= Second * cs
          BY <1>1, <1>2, <3>3
        <4> QED BY <1>1, <1>2, <1>4, <3>3, <4>1
      <3> QED BY <1>1, <3>1, <3>2, <3>3
    <2> QED BY <2>2, <2>3 DEF a, c, d
  <1>5. CASE ~(cu + Latency > Second)
    <2>1. a.sec = cs /\ a.usec = cu + Latency
      BY <1>1, <1>2, <1>5 DEF TmAdd, TimeVal
    <2>2. TmCompare(a, b) <= 0 <=> cs < ds \/ (cs = ds /\ cu + Latency <= du)
      <3> HIDE DEF a
      <3>1. a.sec \in Int /\ a.usec \in Int /\ b.sec \in Int /\ b.usec \in Int
        BY <1>1, <1>2, <2>1
      <3> QED BY <2>1, <3>1, CompareMeans
    <2> HIDE DEF cs, cu, ds, du, a, c, d
    <2>3. d >= c + Latency <=> cs < ds \/ (cs = ds /\ cu + Latency <= du)
      <3>1. CASE cs < ds
        BY <1>1, <1>2, <1>5, <3>1
      <3>2. CASE cs = ds
        BY <1>1, <1>2, <1>5, <3>2
      <3>3. CASE cs > ds
        BY <1>1, <1>2, <1>5, <3>3
      <3> QED BY <1>1, <3>1, <3>2, <3>3
    <2> QED BY <2>2, <2>3 DEF a, c, d
  <1> QED BY <1>4, <1>5

ClockInv ==
    /\ clock \in TimeVal
    /\ asked \in TimeVal
    /\ stamp = TmAdd(asked, Latency)

\* Whatever the length of a second and the latency, a request is due exactly
\* when the latency has passed.
THEOREM DueInTimeCorrect == ClockSpec => []DueInTime
  <1>1. ClockInit => ClockInv
    BY ClockAssumption DEF ClockInit, ClockInv, TimeVal
  <1>2. ClockInv /\ [ClockNext]_clockVars => ClockInv'
    BY ClockAssumption DEF ClockInv, ClockNext, StampRequest, Tick, clockVars, TimeVal
  <1>3. ClockInv => DueInTime
    BY StampIsDue DEF ClockInv, DueInTime, IsDue
  <1> QED BY <1>1, <1>2, <1>3, PTL DEF ClockSpec
=============================================================================
