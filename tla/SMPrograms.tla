------------------------------ MODULE SMPrograms ----------------------------
(***************************************************************************)
(* The programs of SMCode on the simulators of SimpleMachine, and what     *)
(* each of them is to compute: the C that it translates, or its comments.  *)
(***************************************************************************)
EXTENDS SimpleMachine, SMCode, TLC

(* S5-loop.c, S6-if.c, q1.c. *)

Total(a) == FoldFunction(Plus, 0, a)

Greater(a, b) == IF a > b THEN a ELSE b

\* q1: v0..v3, of the arrays a->x, a->b.y and a->b.a->x.
q1(x, y, bx, i) == <<x[i + 1], y[i + 1], bx[i + 1], y[i + 1]>>

(* SB-switch.c, three times the same function of i. *)

foo(i) == CASE i = 20 -> 10 [] i = 21 -> 11 [] i = 23 -> 13 [] OTHER -> 14

foo_using_if(i) ==
    IF i = 20 THEN 10
    ELSE IF i = 21 THEN 11
    ELSE IF i = 22 THEN 14
    ELSE IF i = 23 THEN 13
    ELSE 14

foo_using_jumptable(i) ==
    LET jumpTable == <<10, 11, 14, 13>>
    IN  IF i < 20 \/ i > 23 THEN 14 ELSE jumpTable[i - 20 + 1]

(* q2.c, through its labels. *)

Truth(condition) == IF condition THEN 1 ELSE 0

\* At L354 the C compares arr2 with itself.
q2(arr0, arr1, arr2) ==
    LET jumpTable == <<"L330", "L384", "L334", "L384", "L33c", "L384",
                       "L354", "L384", "L36c">>
        label == IF arr0 < 10 \/ arr0 > 18 THEN "L6" ELSE jumpTable[arr0 - 10 + 1]
    IN  CASE label = "L330" -> Plus(arr2, arr1)
          [] label = "L334" -> arr1 - arr2
          [] label = "L33c" -> Truth(arr1 > arr2)
          [] label = "L354" -> Truth(arr2 > arr2)
          [] label = "L36c" -> Truth(arr1 = arr2)
          [] label \in {"L384", "L6"} -> 0

(* q4a.c and q4b.c. *)

\* data after add(3, 4) and add(1, 2).
bar == [k \in 0..9 |-> CASE k = 4 -> 3 [] k = 2 -> 1 [] OTHER -> 0]

\* The loop of f: how many bits i has.
f[i \in Int] ==
    IF i = 0 THEN 0
    ELSE Truth(And(i, MinInt) # 0) + f[ShiftLeft(i, 1)]

(* SA-dynamic-call.c: the tables of the classes, and the calls that foo and *)
(* bar make through them.                                                  *)

Classes ==
    [A |-> [super |-> "none", ping |-> "A_ping", pong |-> "A_pong"],
     B |-> [super |-> "A", ping |-> "B_ping", pong |-> "A_pong"],
     C |-> [super |-> "B", ping |-> "C_ping", pong |-> "A_pong"]]

Ping(c) ==
    IF Classes[c].ping = "C_ping"
    THEN <<"C_ping", Classes[Classes[c].super].ping>>
    ELSE <<Classes[c].ping>>

CallsOfFoo(c) == Ping(c) \o <<Classes[c].pong>>

CallsOfBar == CallsOfFoo("A") \o CallsOfFoo("B") \o CallsOfFoo("C")

\* Where SA-dynamic-call.s has the methods.
Methods ==
    (8192 :> "A_ping") @@ (8194 :> "A_pong") @@ (8196 :> "B_ping")
    @@ (8198 :> "B_wiff") @@ (8200 :> "C_ping")

(* a2-test.s: where each test starts, and what its comments promise of the *)
(* registers.  (The last one says 0xacf0000 and means 0xacf00000.)         *)

Promised ==
    (4096 :> {<<4, 1>>, <<5, 2>>}) @@ (4352 :> {}) @@ (4608 :> {<<2, 1>>})
    @@ (4864 :> {<<2, 3>>}) @@ (5120 :> {<<2, 2>>}) @@ (5376 :> {<<1, 2>>})
    @@ (5632 :> {<<1, 5>>}) @@ (5888 :> {<<1, 1>>}) @@ (6144 :> {<<1, 1>>})
    @@ (6400 :> {<<1, 65535>>}) @@ (6656 :> {<<1, -1393557504>>})
-----------------------------------------------------------------------------
CONSTANTS SwitchArgs,      \* the values of i in SB-switch
          Q2Cases, Q2Args  \* those of arr0, and of arr1 and arr2, in q2

VARIABLES
    task,    \* the program, and its arguments
    calls    \* history: the methods that were called

programVars == <<task, calls, machineVars>>

\* What is loaded for each task, with -p where the program is not the first.
Loaded(t) ==
    CASE t.program = "test" -> Load(TestLines, t.args[1])
      [] t.program = "max" -> Load(MaxLines, -1)
      [] t.program = "loop" -> Load(LoopLines, -1)
      [] t.program = "unrolled" -> Load(UnrolledLines, -1)
      [] t.program = "if" -> Load(IfLines(t.args[1], t.args[2]), -1)
      [] t.program = "switch" -> Load(SwitchLines(t.args[1]), -1)
      [] t.program = "q1" -> Load(Q1Lines(t.args[1]), -1)
      [] t.program = "q2" -> Load(Q2Lines(t.args[1], t.args[2], t.args[3]), -1)
      [] t.program = "q4a" -> Load(Q4aLines, -1)
      [] t.program = "q4b" -> Load(Q4bLines, -1)
      [] t.program = "median" -> Load(MedianLines, -1)
      [] t.program = "dynamic" -> Load(DynamicLines, -1)

Task(program, argLists) == {[program |-> program, args |-> a] : a \in argLists}

Tasks ==
    (UNION {Task(p, {<<>>}) : p \in {"max", "loop", "unrolled", "q4a", "q4b",
                                     "median", "dynamic"}})
    \cup Task("test", {<<start>> : start \in DOMAIN Promised})
    \cup Task("switch", {<<i>> : i \in SwitchArgs})
    \cup Task("q1", {<<i>> : i \in 0..3})
    \cup Task("if", Q2Args \X Q2Args)
    \cup Task("q2", Q2Cases \X Q2Args \X Q2Args)

SMInit ==
    /\ task \in Tasks
    /\ calls = <<>>
    /\ machine = Loaded(task)
    /\ tables = machine /\ cpu = machine

SMNext ==
    /\ compute
    /\ calls' = IF task.program = "dynamic" /\ machine'.pc \in DOMAIN Methods
                THEN Append(calls, Methods[machine'.pc]) ELSE calls
    /\ UNCHANGED task

SMSpec == SMInit /\ [][SMNext]_programVars
-----------------------------------------------------------------------------
Mem(addr) == Word(machine.mem, addr)
Array(mem, addr, n) == [k \in 0..n - 1 |-> Word(mem, addr + 4 * k)]

\* The students of q3.s: student k, with the average behind the grades.
Student(mem, k) == Array(mem, 8204 + 24 * k, 5)
Average(k) == Mem(8204 + 24 * k + 20)

\* They are sorted by their averages, none is lost, and m is the middle one.
MedianFound ==
    /\ \A k \in 0..6 :
         Average(k) = (Mem(8208 + 24 * k) + Mem(8212 + 24 * k)
                       + Mem(8216 + 24 * k) + Mem(8220 + 24 * k)) \div 4
    /\ \A k \in 0..5 : Average(k) <= Average(k + 1)
    /\ {Student(machine.mem, k) : k \in 0..6}
         = {Student(Loaded(task).mem, k) : k \in 0..6}
    /\ Mem(8196) = Mem(8204 + 24 * (7 \div 2))

\* What a program leaves when it has halted.
Result ==
    LET args == task.args IN
    CASE task.program = "test" ->
           /\ \A p \in Promised[args[1]] : machine.reg[p[1]] = p[2]
           /\ args[1] = 4352 => Mem(8192) = 3 /\ Mem(8196) = 1
      [] task.program = "max" ->
           LET a == {Mem(8200 + 4 * k) : k \in 0..9}
           IN  Mem(8192) \in a /\ (\A v \in a : v <= Mem(8192)) /\ Mem(8196) = 10
      [] task.program = "loop" ->
           Mem(4096) = Total(Array(machine.mem, 4104, 10)) /\ Mem(4100) = 10
      [] task.program = "unrolled" ->
           Mem(4096) = Total(Array(machine.mem, 4104, 10))
      [] task.program = "if" -> Mem(12288) = Greater(args[1], args[2])
      [] task.program = "switch" ->
           Mem(4100) \in {foo(args[1])} \cap {foo_using_if(args[1])}
                         \cap {foo_using_jumptable(args[1])}
      [] task.program = "q1" ->
           <<Mem(8196), Mem(8200), Mem(8204), Mem(8208)>>
             = q1(<<10, 11, 12, 13>>, <<20, 21, 22, 23>>, <<30, 31, 32, 33>>,
                  args[1])
      [] task.program = "q2" ->
           Mem(524) = IF args[1] = 16 THEN Truth(args[3] > args[2])
                      ELSE q2(args[1], args[2], args[3])
      [] task.program = "q4a" -> Array(machine.mem, 4096, 10) = bar
      [] task.program = "q4b" -> \A k \in 0..7 : Mem(8224 + 4 * k) = f[Mem(8192 + 4 * k)]
      [] task.program = "median" -> MedianFound
      [] task.program = "dynamic" -> calls = CallsOfBar

\* Every program ends where it should: no step of it leaves the memory it
\* loaded or the registers, and when it halts the memory and the registers
\* hold what the C, or the comments, say.  (Case 16 of q2.s compares arr2 with
\* arr1, as its comment says, where the C has arr2 > arr2.)
ProgramsRight ==
    IF machine.cont THEN Defined(machine) /\ Legal(Fetch(machine)) ELSE Result

\* No program jumps with an offset of 0x80 or more, which sm.c takes for a
\* negative one: it widens the char with its sign before the cast to unsigned.
OffsetsFit ==
    Defined(machine) /\ Fetch(machine).code = 12 => Fetch(machine).imm \in 0..127
=============================================================================
