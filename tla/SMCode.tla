-------------------------------- MODULE SMCode -------------------------------
(***************************************************************************)
(* Programs of the SM213 as lines of the file that sm.c loads: an address  *)
(* and the bytes from there on.  They are the assembler sources of the     *)
(* repository, an operator for each instruction; what a program works on   *)
(* is a parameter where the source has it in a .long.                      *)
(***************************************************************************)
EXTENDS Words

-----------------------------------------------------------------------------
(* The assembler: the bytes of each instruction, by the formats that the   *)
(* comments of sm.c give.                                                  *)

\* .long, one after the other.
words(s) == [k \in 1..4 * Len(s) |-> Byte(s[(k - 1) \div 4 + 1], 3 - ((k - 1) % 4))]
zeros(n) == [k \in 1..4 * n |-> 0]

ld(value, d) == <<d, 0>> \o words(<<value>>)
ldo(offset, s, d) == <<16 + offset \div 4, 16 * s + d>>
ldx(s, index, d) == <<32 + s, 16 * index + d>>
sto(s, offset, d) == <<48 + s, 4 * offset + d>>
stx(s, d, index) == <<64 + s, 16 * d + index>>
alu(op, s, d) == <<96 + op, 16 * s + d>>
mov(s, d) == alu(0, s, d)
add(s, d) == alu(1, s, d)
and(s, d) == alu(2, s, d)
inc(r) == alu(3, 0, r)
inca(r) == alu(4, 0, r)
dec(r) == alu(5, 0, r)
deca(r) == alu(6, 0, r)
not(r) == alu(7, 0, r)
gpc(offset, r) == alu(15, offset \div 2, r)
shl(n, r) == <<112 + r, n>>
shr(n, r) == <<112 + r, (-n) % 256>>
br(offset) == <<128, (offset \div 2) % 256>>
beq(r, offset) == <<144 + r, (offset \div 2) % 256>>
bgt(r, offset) == <<160 + r, (offset \div 2) % 256>>
j(target) == <<176, 0>> \o words(<<target>>)
jo(offset, r) == <<192 + r, (offset \div 2) % 256>>
halt == <<240, 0>>
-----------------------------------------------------------------------------
(* The programs. *)

\* max.s: the greatest of ten numbers.
MaxLines ==
    <<<<4096, ld(0, 0) \o ld(-10, 1) \o ld(8192, 2) \o ldo(0, 2, 3)
         \o ld(8200, 4) \o mov(0, 5) \o add(1, 5) \o beq(5, 18)
         \o ldx(4, 0, 5) \o mov(5, 7) \o not(7) \o inc(7)
         \o add(3, 7) \o bgt(7, 2) \o mov(5, 3) \o inc(0) \o br(-24)
         \o sto(3, 0, 2) \o ld(8196, 1) \o sto(0, 0, 1) \o halt>>,
      <<8192, words(<<-1, 0, 2, 40, 6, 80, 10, 120, 14, 16, 18, 20>>)>>>>

\* a2-test.s: eleven tests of an instruction each.
TestLines ==
    <<<<4096, ld(8192, 1) \o ld(0, 2) \o ld(1, 3) \o ldx(1, 2, 4)
         \o ldx(1, 3, 5) \o halt>>,
      <<4352, ld(8192, 1) \o ld(0, 2) \o ld(3, 3) \o ld(1, 4)
         \o stx(3, 1, 2) \o stx(4, 1, 4) \o halt>>,
      <<4608, ld(1, 1) \o mov(1, 2) \o halt>>,
      <<4864, ld(1, 1) \o ld(2, 2) \o add(1, 2) \o halt>>,
      <<5120, ld(10, 1) \o ld(6, 2) \o and(1, 2) \o halt>>,
      <<5376, ld(1, 1) \o inc(1) \o halt>>,
      <<5632, ld(1, 1) \o inca(1) \o halt>>,
      <<5888, ld(2, 1) \o dec(1) \o halt>>,
      <<6144, ld(5, 1) \o deca(1) \o halt>>,
      <<6400, ld(-65536, 1) \o not(1) \o halt>>,
      <<6656, ld(305419896, 1) \o shl(17, 1) \o halt>>,
      <<8192, words(<<1, 2>>)>>>>

\* S5-loop.s and S5a-loop-unrolled.s: the sum of ten numbers.
LoopLines ==
    <<<<256, ld(0, 0) \o ld(4104, 1) \o ld(0, 2) \o ld(-10, 4)
         \o mov(0, 5) \o add(4, 5) \o beq(5, 8) \o ldx(1, 0, 3)
         \o add(3, 2) \o inc(0) \o br(-14) \o ld(4096, 1)
         \o sto(2, 0, 1) \o sto(0, 4, 1) \o halt>>,
      <<4096, words(<<0, 0, 2, 4, 6, 8, 10, 12, 14, 16, 18, 20>>)>>>>

UnrolledLines ==
    <<<<256, ld(0, 0) \o ld(4104, 1) \o ld(0, 2) \o ldx(1, 0, 3)
         \o add(3, 2) \o inc(0) \o ldx(1, 0, 3) \o add(3, 2)
         \o inc(0) \o ldx(1, 0, 3) \o add(3, 2) \o inc(0)
         \o ldx(1, 0, 3) \o add(3, 2) \o inc(0) \o ldx(1, 0, 3)
         \o add(3, 2) \o inc(0) \o ldx(1, 0, 3) \o add(3, 2)
         \o inc(0) \o ldx(1, 0, 3) \o add(3, 2) \o inc(0)
         \o ldx(1, 0, 3) \o add(3, 2) \o inc(0) \o ldx(1, 0, 3)
         \o add(3, 2) \o inc(0) \o ldx(1, 0, 3) \o add(3, 2)
         \o inc(0) \o ld(4096, 0) \o sto(2, 0, 0) \o halt>>,
      <<4096, words(<<0>>)>>,
      <<4104, words(<<2, 4, 6, 8, 10, 12, 14, 16, 18, 20>>)>>>>

\* S6-if.s: the greater of a and b.
IfLines(a, b) ==
    <<<<256, ld(4096, 0) \o ldo(0, 0, 0) \o ld(8192, 1) \o ldo(0, 1, 1)
         \o mov(1, 2) \o not(2) \o inc(2) \o add(0, 2) \o bgt(2, 4)
         \o mov(1, 3) \o br(2) \o mov(0, 3) \o ld(12288, 0)
         \o sto(3, 0, 0) \o halt>>,
      <<4096, words(<<a>>)>>,
      <<8192, words(<<b>>)>>,
      <<12288, words(<<0>>)>>>>

\* SB-switch.s: foo, a switch over i.
SwitchLines(i) ==
    <<<<256, ld(4096, 0) \o ldo(0, 0, 0) \o ld(-19, 1) \o add(0, 1)
         \o bgt(1, 2) \o br(68) \o ld(-23, 1) \o add(0, 1)
         \o bgt(1, 58) \o ld(-20, 1) \o add(1, 0) \o ld(2048, 1)
         \o ldx(1, 0, 1) \o jo(0, 1) \o halt>>,
      <<320, ld(10, 1) \o br(24) \o ld(11, 1) \o br(16) \o ld(13, 1)
         \o br(8) \o ld(14, 1) \o br(0) \o ld(4100, 0)
         \o sto(1, 0, 0) \o j(304)>>,
      <<2048, words(<<320, 328, 344, 336>>)>>,
      <<4096, words(<<i, 0>>)>>>>

\* q2.s: a switch over arr0.
Q2Lines(arr0, arr1, arr2) ==
    <<<<0, ld(4136, 5) \o ld(-12, 0) \o add(0, 5) \o ld(512, 0)
         \o ldo(0, 0, 0) \o sto(0, 0, 5) \o ld(516, 0)
         \o ldo(0, 0, 0) \o sto(0, 4, 5) \o ld(520, 0)
         \o ldo(0, 0, 0) \o sto(0, 8, 5) \o gpc(6, 6) \o j(768)
         \o ld(524, 1) \o sto(0, 0, 1) \o halt>>,
      <<512, words(<<arr0, arr1, arr2, 0>>)>>,
      <<768, ldo(0, 5, 0) \o ldo(4, 5, 1) \o ldo(8, 5, 2) \o ld(-10, 3)
         \o add(3, 0) \o mov(0, 3) \o not(3) \o inc(3) \o bgt(3, 110)
         \o mov(0, 3) \o ld(-8, 4) \o add(4, 3) \o bgt(3, 98)
         \o ld(1024, 3) \o ldx(3, 0, 3) \o jo(0, 3)>>,
      <<816, add(1, 2) \o br(88) \o not(2) \o inc(2) \o add(1, 2)
         \o br(80) \o not(2) \o inc(2) \o add(1, 2) \o bgt(2, 8)
         \o ld(0, 2) \o br(6) \o ld(1, 2) \o br(56) \o not(1)
         \o inc(1) \o add(2, 1) \o bgt(1, 8) \o ld(0, 2) \o br(6)
         \o ld(1, 2) \o br(32) \o not(2) \o inc(2) \o add(1, 2)
         \o beq(2, 8) \o ld(0, 2) \o br(6) \o ld(1, 2) \o br(8)
         \o ld(0, 2) \o br(0) \o mov(2, 0) \o jo(0, 6)>>,
      <<1024, words(<<816, 900, 820, 900, 828, 900, 852, 900, 876>>)>>,
      <<4096, zeros(10)>>>>

\* q1.s: five statements on structures that hold pointers.
Q1Lines(i) ==
    <<<<4096, ld(8192, 0) \o ldo(0, 0, 0) \o ld(8212, 1) \o ldo(0, 1, 1)
         \o ldo(0, 1, 1) \o ldx(1, 0, 2) \o ld(8196, 3)
         \o sto(2, 0, 3) \o ld(8192, 0) \o ldo(0, 0, 0)
         \o ld(8212, 1) \o ldo(0, 1, 1) \o inca(1) \o ldx(1, 0, 2)
         \o ld(8200, 3) \o sto(2, 0, 3) \o ld(8192, 0)
         \o ldo(0, 0, 0) \o ld(8212, 1) \o ldo(0, 1, 1)
         \o ldo(20, 1, 1) \o ldo(0, 1, 1) \o ldx(1, 0, 2)
         \o ld(8204, 3) \o sto(2, 0, 3) \o ld(8212, 1)
         \o ldo(0, 1, 1) \o sto(1, 20, 1) \o ld(8192, 0)
         \o ldo(0, 0, 0) \o ld(8212, 1) \o ldo(0, 1, 1)
         \o ldo(20, 1, 1) \o inca(1) \o ldx(1, 0, 2) \o ld(8208, 3)
         \o sto(2, 0, 3) \o halt>>,
      <<8192, words(<<i, 0, 0, 0, 0, 12288>>)>>,
      <<12288, words(<<12336, 20, 21, 22, 23, 12312, 12352, 40, 41, 42, 43, 0,
              10, 11, 12, 13, 30, 31, 32, 33>>)>>>>

\* q4a.s: bar, which calls add twice through the stack.
Q4aLines ==
    <<<<0, ld(32860, 5) \o inca(5) \o gpc(6, 6) \o j(768) \o halt>>,
      <<256, words(<<4096>>)>>,
      <<512, ldo(0, 5, 0) \o ldo(4, 5, 1) \o ld(256, 2) \o ldo(0, 2, 2)
         \o ldx(2, 1, 3) \o add(3, 0) \o stx(0, 2, 1) \o jo(0, 6)>>,
      <<768, ld(-12, 0) \o add(0, 5) \o sto(6, 8, 5) \o ld(1, 0)
         \o sto(0, 0, 5) \o ld(2, 0) \o sto(0, 4, 5) \o ld(-8, 0)
         \o add(0, 5) \o ld(3, 0) \o sto(0, 0, 5) \o ld(4, 0)
         \o sto(0, 4, 5) \o gpc(6, 6) \o j(512) \o ld(8, 0)
         \o add(0, 5) \o ldo(0, 5, 1) \o ldo(4, 5, 2) \o ld(-8, 0)
         \o add(0, 5) \o sto(1, 0, 5) \o sto(2, 4, 5) \o gpc(6, 6)
         \o j(512) \o ld(8, 0) \o add(0, 5) \o ldo(8, 5, 6)
         \o ld(12, 0) \o add(0, 5) \o jo(0, 6)>>,
      <<4096, zeros(10)>>,
      <<32768, zeros(24)>>>>

\* q4b.s: main, which calls f for every x[i].
Q4bLines ==
    <<<<256, ld(32860, 5) \o inca(5) \o gpc(6, 6) \o j(308) \o halt
         \o deca(5) \o ld(0, 0) \o ldo(4, 5, 1) \o ld(MinInt, 2)
         \o beq(1, 12) \o mov(1, 3) \o and(2, 3) \o beq(3, 2)
         \o inc(0) \o shl(1, 1) \o br(-14) \o inca(5) \o jo(0, 6)
         \o deca(5) \o deca(5) \o sto(6, 4, 5) \o ld(8, 4)
         \o beq(4, 34) \o dec(4) \o ld(8192, 0) \o ldx(0, 4, 0)
         \o deca(5) \o sto(0, 0, 5) \o gpc(6, 6) \o j(274) \o inca(5)
         \o ld(8224, 1) \o stx(0, 1, 4) \o br(-36) \o ldo(4, 5, 6)
         \o inca(5) \o inca(5) \o jo(0, 6)>>,
      <<8192, words(<<1, 2, 3, -1, -2, 0, 184, 340057058, 0, 0, 0, 0, 0, 0,
              0, 0>>)>>,
      <<32768, zeros(24)>>>>

\* q3.s: sorts the students by their average and takes the middle one.
MedianLines ==
    <<<<4096, ld(8192, 0) \o ldo(0, 0, 0) \o ld(8200, 1) \o ldo(0, 1, 1)
         \o ld(24, 2) \o beq(0, 24) \o ldo(4, 1, 3) \o ldo(8, 1, 4)
         \o add(4, 3) \o ldo(12, 1, 4) \o add(4, 3) \o ldo(16, 1, 4)
         \o add(4, 3) \o shr(2, 3) \o sto(3, 20, 1) \o add(2, 1)
         \o dec(0) \o br(-26) \o ld(8192, 0) \o ldo(0, 0, 0)
         \o ld(8200, 7) \o ldo(0, 7, 7) \o dec(0) \o beq(0, 84)
         \o ld(1, 1) \o mov(0, 3) \o not(3) \o inc(3) \o add(1, 3)
         \o bgt(3, 64) \o mov(1, 2) \o mov(1, 3) \o shl(4, 2)
         \o shl(3, 3) \o add(3, 2) \o add(7, 2) \o mov(2, 3)
         \o ld(-24, 4) \o add(4, 2) \o ldo(20, 2, 4) \o ldo(20, 3, 5)
         \o not(4) \o inc(4) \o add(5, 4) \o bgt(4, 26) \o beq(4, 24)
         \o ld(6, 4) \o beq(4, 16) \o ldo(0, 2, 5) \o ldo(0, 3, 6)
         \o sto(6, 0, 2) \o sto(5, 0, 3) \o inca(2) \o inca(3)
         \o dec(4) \o br(-18) \o inc(1) \o br(-74) \o dec(0)
         \o br(-86) \o ld(8192, 0) \o ldo(0, 0, 0) \o shr(1, 0)
         \o mov(0, 1) \o shl(4, 0) \o shl(3, 1) \o add(1, 0)
         \o ld(8200, 1) \o ldo(0, 1, 1) \o add(1, 0) \o ldo(0, 0, 0)
         \o ld(8196, 1) \o sto(0, 0, 1) \o halt>>,
      <<8192, words(<<7, 0, 8204, 1, 80, 60, 78, 90, 0, 2, 20, 18, 12, 20, 0,
              3, 90, 50, 30, 10, 0, 4, 10, 20, 80, 90, 0, 5, 60, 61, 62,
              63, 0, 6, 50, 10, 70, 10, 0, 7, 21, 22, 23, 24, 0>>)>>>>

\* SA-dynamic-call.s: calls through the tables of three classes.
DynamicLines ==
    <<<<256, ld(20512, 5) \o inca(5) \o gpc(6, 6) \o j(512) \o halt>>,
      <<512, deca(5) \o deca(5) \o sto(6, 4, 5) \o deca(5) \o ld(10, 0)
         \o sto(0, 0, 5) \o gpc(6, 6) \o j(1024) \o inca(5)
         \o deca(5) \o sto(0, 0, 5) \o gpc(6, 6) \o j(768) \o inca(5)
         \o deca(5) \o ld(20, 0) \o sto(0, 0, 5) \o gpc(6, 6)
         \o j(1280) \o inca(5) \o deca(5) \o sto(0, 0, 5)
         \o gpc(6, 6) \o j(768) \o inca(5) \o deca(5) \o deca(5)
         \o ld(30, 0) \o sto(0, 0, 5) \o ld(100, 0) \o sto(0, 4, 5)
         \o gpc(6, 6) \o j(1536) \o inca(5) \o inca(5) \o deca(5)
         \o sto(0, 0, 5) \o gpc(6, 6) \o j(768) \o inca(5)
         \o ldo(4, 5, 6) \o inca(5) \o inca(5) \o jo(0, 6)>>,
      <<768, deca(5) \o sto(6, 0, 5) \o ldo(4, 5, 0) \o ldo(0, 0, 1)
         \o deca(5) \o sto(0, 0, 5) \o ldo(4, 1, 1) \o gpc(2, 6)
         \o jo(0, 1) \o inca(5) \o ldo(4, 5, 0) \o ldo(0, 0, 1)
         \o deca(5) \o sto(0, 0, 5) \o ldo(8, 1, 1) \o gpc(2, 6)
         \o jo(0, 1) \o inca(5) \o ldo(0, 5, 6) \o inca(5)
         \o jo(0, 6)>>,
      <<1024, deca(5) \o sto(6, 0, 5) \o ld(4, 0) \o gpc(6, 6) \o j(1792)
         \o ld(8704, 1) \o sto(1, 0, 0) \o ldo(4, 5, 7)
         \o sto(7, 4, 0) \o ldo(0, 5, 6) \o inca(5) \o jo(0, 6)>>,
      <<1280, deca(5) \o sto(6, 0, 5) \o ld(4, 0) \o gpc(6, 6) \o j(1792)
         \o ld(8716, 1) \o sto(1, 0, 0) \o ldo(4, 5, 7)
         \o sto(7, 4, 0) \o ldo(0, 5, 6) \o inca(5) \o jo(0, 6)>>,
      <<1536, deca(5) \o sto(6, 0, 5) \o ld(8, 0) \o gpc(6, 6) \o j(1792)
         \o ld(8732, 1) \o sto(1, 0, 0) \o ldo(4, 5, 7)
         \o sto(7, 4, 0) \o ldo(8, 5, 7) \o sto(7, 8, 0)
         \o ldo(0, 5, 6) \o inca(5) \o jo(0, 6)>>,
      <<1792, mov(0, 2) \o ld(12288, 1) \o ldo(0, 1, 0) \o add(0, 2)
         \o sto(2, 0, 1) \o jo(0, 6)>>,
      <<8192, jo(0, 6) \o jo(0, 6) \o jo(0, 6) \o jo(0, 6) \o deca(5)
         \o sto(6, 0, 5) \o ldo(4, 5, 0) \o ldo(0, 0, 1)
         \o ldo(0, 1, 1) \o deca(5) \o sto(0, 0, 5) \o ldo(4, 1, 1)
         \o gpc(2, 6) \o jo(0, 1) \o inca(5) \o ldo(0, 5, 6)
         \o inca(5) \o jo(0, 6)>>,
      <<8704, words(<<0, 8192, 8194, 8704, 8196, 8194, 8198, 8716, 8200,
              8194, 8198>>)>>,
      <<12288, words(<<16384>>)>>,
      <<16384, zeros(9)>>,
      <<20480, zeros(9)>>>>
=============================================================================
