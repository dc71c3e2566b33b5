---------------------------- MODULE SimpleMachine ---------------------------
(***************************************************************************)
(* The simulators of the SM213: sm.c, which chooses what an instruction    *)
(* does by a switch, sm-jt.c, which jumps through tables to the same code, *)
(* and the processor in Java that they imitate, CPU.java of a6-soln.       *)
(*                                                                         *)
(* A word is an int of 32 bits.  The memory is known at the addresses that *)
(* the program loads; sm.c has 40000 bytes, which start as zero.  Left     *)
(* out: the system calls (code 0xf with 1), and what is printed.           *)
(***************************************************************************)
EXTENDS Words

\* mem[addr] << 24 | mem[addr+1] << 16 | mem[addr+2] << 8 | mem[addr+3]
Word(mem, addr) == WordOf([k \in 1..4 |-> mem[addr + k - 1]])

Stored(mem, addr, word) ==
    [a \in DOMAIN mem |-> IF a \in addr..addr + 3 THEN Byte(word, 3 - (a - addr))
                          ELSE mem[a]]
-----------------------------------------------------------------------------
(* Fetching: the fields of the instruction at pc, and the pc after it. *)

Fetch(m) ==
    LET first == m.mem[m.pc]
        second == m.mem[m.pc + 1]
        code == first \div 16
        extended == code \in {0, 11}
    IN  [code |-> code, op0 |-> first % 16,
         op1 |-> second \div 16, op2 |-> second % 16, imm |-> Signed(second),
         ext |-> IF extended THEN Word(m.mem, m.pc + 2) ELSE 0,
         pc |-> m.pc + (IF extended THEN 6 ELSE 2)]

-----------------------------------------------------------------------------
(* What the instructions do to the machine m, whose pc has been advanced. *)

SetReg(m, r, word) == [m EXCEPT !.reg[r] = word]

LoadImmediate(m, i) == SetReg(m, i.op0, i.ext)

\* The addresses of the load and store instructions.
OffsetAddress(m, offset, r) == Plus(4 * offset, m.reg[r])
IndexedAddress(m, base, index) == Plus(m.reg[base], ShiftLeft(m.reg[index], 2))

LoadOffset(m, i) == SetReg(m, i.op2, Word(m.mem, OffsetAddress(m, i.op0, i.op1)))
LoadIndexed(m, i) == SetReg(m, i.op2, Word(m.mem, IndexedAddress(m, i.op0, i.op1)))
StoreOffset(m, i) ==
    [m EXCEPT !.mem = Stored(@, OffsetAddress(m, i.op1, i.op2), m.reg[i.op0])]
StoreIndexed(m, i) ==
    [m EXCEPT !.mem = Stored(@, IndexedAddress(m, i.op1, i.op2), m.reg[i.op0])]

Move(m, i) == SetReg(m, i.op2, m.reg[i.op1])
Add(m, i) == SetReg(m, i.op2, Plus(m.reg[i.op1], m.reg[i.op2]))
BitAnd(m, i) == SetReg(m, i.op2, And(m.reg[i.op1], m.reg[i.op2]))
Increment(m, i, by) == SetReg(m, i.op2, Plus(m.reg[i.op2], by))
BitNot(m, i) == SetReg(m, i.op2, -1 - m.reg[i.op2])
GetPc(m, i) == SetReg(m, i.op2, m.pc + 2 * i.op1)

Shift(m, i) ==
    SetReg(m, i.op0, IF i.imm > 0 THEN ShiftLeft(m.reg[i.op0], i.imm)
                                  ELSE ShiftRight(m.reg[i.op0], -i.imm))

BranchIf(m, i, condition) ==
    IF condition THEN [m EXCEPT !.pc = Plus(@, 2 * i.imm)] ELSE m

Jump(m, i) == [m EXCEPT !.pc = i.ext]

\* ((unsigned short) insOpImm) << 1: the char is widened with its sign first.
JumpOffset(imm) == 2 * (imm % 65536)

JumpIndirect(m, i) == [m EXCEPT !.pc = Plus(JumpOffset(i.imm), m.reg[i.op0])]

Halt(m, i) == IF i.op0 = 0 THEN [m EXCEPT !.cont = FALSE] ELSE m
-----------------------------------------------------------------------------
(* exec of sm.c: the switches.  An illegal instruction is only reported. *)

Alu(m, i) ==
    CASE i.op0 = 0 -> Move(m, i)
      [] i.op0 = 1 -> Add(m, i)
      [] i.op0 = 2 -> BitAnd(m, i)
      [] i.op0 = 3 -> Increment(m, i, 1)
      [] i.op0 = 4 -> Increment(m, i, 4)
      [] i.op0 = 5 -> Increment(m, i, -1)
      [] i.op0 = 6 -> Increment(m, i, -4)
      [] i.op0 = 7 -> BitNot(m, i)
      [] i.op0 = 15 -> GetPc(m, i)
      [] OTHER -> m

Exec(m, i) ==
    CASE i.code = 0 -> LoadImmediate(m, i)
      [] i.code = 1 -> LoadOffset(m, i)
      [] i.code = 2 -> LoadIndexed(m, i)
      [] i.code = 3 -> StoreOffset(m, i)
      [] i.code = 4 -> StoreIndexed(m, i)
      [] i.code = 6 -> Alu(m, i)
      [] i.code = 7 -> Shift(m, i)
      [] i.code = 8 -> BranchIf(m, i, TRUE)
      [] i.code = 9 -> BranchIf(m, i, m.reg[i.op0] = 0)
      [] i.code = 10 -> BranchIf(m, i, m.reg[i.op0] > 0)
      [] i.code = 11 -> Jump(m, i)
      [] i.code = 12 -> JumpIndirect(m, i)
      [] i.code = 15 -> Halt(m, i)
      [] OTHER -> m
-----------------------------------------------------------------------------
(* exec of sm-jt.c: the entries of the tables are labels. *)

\* Mutant: the entry of the hole at code 5 was forgotten.
jt_NoHole ==
    <<"L0", "L1", "L2", "L3", "L4", "L6", "L7", "L8",
      "L9", "LA", "LB", "LC", "DEFAULT", "DEFAULT", "LF", "LF">>

jt == <<"L0", "L1", "L2", "L3", "L4", "DEFAULT", "L6", "L7",
        "L8", "L9", "LA", "LB", "LC", "DEFAULT", "DEFAULT", "LF">>

jt_L6 == <<"L6_0", "L6_1", "L6_2", "L6_3", "L6_4", "L6_5", "L6_6", "L6_7",
           "DEFAULT_L6", "DEFAULT_L6", "DEFAULT_L6", "DEFAULT_L6",
           "DEFAULT_L6", "DEFAULT_L6", "DEFAULT_L6", "L6_F">>

\* From each label of the inner table to RETURN_L6.
AtAlu(label, m, i) ==
    CASE label = "L6_0" -> Move(m, i)
      [] label = "L6_1" -> Add(m, i)
      [] label = "L6_2" -> BitAnd(m, i)
      [] label = "L6_3" -> Increment(m, i, 1)
      [] label = "L6_4" -> Increment(m, i, 4)
      [] label = "L6_5" -> Increment(m, i, -1)
      [] label = "L6_6" -> Increment(m, i, -4)
      [] label = "L6_7" -> BitNot(m, i)
      [] label = "L6_F" -> GetPc(m, i)
      [] label = "DEFAULT_L6" -> m

\* From each label of the outer table to RETURN.
At(label, m, i) ==
    CASE label = "L0" -> LoadImmediate(m, i)
      [] label = "L1" -> LoadOffset(m, i)
      [] label = "L2" -> LoadIndexed(m, i)
      [] label = "L3" -> StoreOffset(m, i)
      [] label = "L4" -> StoreIndexed(m, i)
      [] label = "L6" -> AtAlu(jt_L6[i.op0 + 1], m, i)
      [] label = "L7" -> Shift(m, i)
      [] label = "L8" -> BranchIf(m, i, TRUE)
      [] label = "L9" -> BranchIf(m, i, m.reg[i.op0] = 0)
      [] label = "LA" -> BranchIf(m, i, m.reg[i.op0] > 0)
      [] label = "LB" -> Jump(m, i)
      [] label = "LC" -> JumpIndirect(m, i)
      [] label = "LF" -> Halt(m, i)
      [] label = "DEFAULT" -> m

ExecTables(m, i) == At(jt[i.code + 1], m, i)
-----------------------------------------------------------------------------
(* execute of CPU.java.  It throws where sm.c reports an illegal           *)
(* instruction, and adds the offset of an indirect jump without a sign.    *)

Legal(i) ==
    /\ i.code \notin {5, 13, 14}
    /\ i.code = 6 => i.op0 \in 0..7 \cup {15}

CpuJumpIndirect(m, i) ==
    [m EXCEPT !.pc = Plus(2 * (i.imm % 256), m.reg[i.op0])]

CpuExec(m, i) == IF i.code = 12 THEN CpuJumpIndirect(m, i) ELSE Exec(m, i)
-----------------------------------------------------------------------------
(* The three of them, on the same program. *)

VARIABLES machine, tables, cpu

machineVars == <<machine, tables, cpu>>

\* loadFile: a line is an address and the bytes from there on; -p gives the
\* first pc, which is the address of the first line where it is negative.
Load(lines, p) ==
    LET addresses(k) == lines[k][1]..lines[k][1] + Len(lines[k][2]) - 1
        LineOf(a) == CHOOSE k \in DOMAIN lines : a \in addresses(k)
    IN  [pc |-> IF p < 0 THEN lines[1][1] ELSE p,
         reg |-> [r \in 0..7 |-> 0],
         mem |-> [a \in UNION {addresses(k) : k \in DOMAIN lines} |->
                    lines[LineOf(a)][2][a - lines[LineOf(a)][1] + 1]],
         cont |-> TRUE]

\* The instruction stays inside the arrays reg and mem, as far as the program
\* has loaded it, and the width of int.
Known(m, addr) == addr..addr + 3 \subseteq DOMAIN m.mem

Defined(m) ==
    /\ {m.pc, m.pc + 1} \subseteq DOMAIN m.mem
    /\ m.mem[m.pc] \div 16 \in {0, 11} => Known(m, m.pc + 2)
    /\ LET i == Fetch(m) IN
       CASE i.code \in {0, 9, 10, 12} -> i.op0 < 8
         [] i.code = 1 -> i.op1 < 8 /\ i.op2 < 8
                          /\ Known(m, OffsetAddress(m, i.op0, i.op1))
         [] i.code = 2 -> i.op0 < 8 /\ i.op1 < 8 /\ i.op2 < 8
                          /\ Known(m, IndexedAddress(m, i.op0, i.op1))
         [] i.code = 3 -> i.op0 < 8 /\ i.op2 < 8
                          /\ Known(m, OffsetAddress(m, i.op1, i.op2))
         [] i.code = 4 -> i.op0 < 8 /\ i.op1 < 8 /\ i.op2 < 8
                          /\ Known(m, IndexedAddress(m, i.op1, i.op2))
         [] i.code = 6 -> i.op2 < 8 /\ (i.op0 \in 0..2 => i.op1 < 8)
         [] i.code = 7 -> i.op0 < 8 /\ i.imm \in -31..31
         [] i.code = 15 -> i.op0 # 1
         [] OTHER -> TRUE

Fetched(m) == [m EXCEPT !.pc = Fetch(m).pc]

\* One turn of the loop in compute, of each.
compute ==
    /\ machine.cont /\ Defined(machine) /\ Defined(tables) /\ Defined(cpu)
    /\ Legal(Fetch(cpu))
    /\ machine' = Exec(Fetched(machine), Fetch(machine))
    /\ tables' = ExecTables(Fetched(tables), Fetch(tables))
    /\ cpu' = CpuExec(Fetched(cpu), Fetch(cpu))
-----------------------------------------------------------------------------
\* The tables of sm-jt.c send every instruction where the switches of sm.c do,
\* and both simulators do what the processor does: they have the same
\* registers, memory and pc after every step of the programs.
SwitchIsTable == machine = tables
SimulatorsAgree == SwitchIsTable /\ machine = cpu
=============================================================================
