-------------------------------- MODULE Words -------------------------------
(***************************************************************************)
(* Words of 32 bits and their bytes, as int and unsigned char have them    *)
(* and as the programs compute with them: sums wrap around, a right shift  *)
(* keeps the sign, the first of the four bytes of a word is the highest.   *)
(***************************************************************************)
EXTENDS Integers, Sequences, Functions

\* Integers of TLC have the width of int: no sum below leaves it on its way.
MaxInt == 2147483647
MinInt == -MaxInt - 1

Plus(a, b) ==
    IF a > 0 /\ b > MaxInt - a THEN (a + MinInt) + (b + MinInt)
    ELSE IF a < 0 /\ b < MinInt - a THEN (a - MinInt) + (b - MinInt)
    ELSE a + b

\* An unsigned char as a char.
Signed(byte) == IF byte >= 128 THEN byte - 256 ELSE byte

\* val >> 8 * k & 0xff
Byte(word, k) == (word \div 256 ^ k) % 256

WordOf(b) == Signed(b[1]) * 16777216 + b[2] * 65536 + b[3] * 256 + b[4]

AndBytes(x, y) ==
    LET BothHave(k) == (x \div 2 ^ k) % 2 = 1 /\ (y \div 2 ^ k) % 2 = 1
    IN  FoldFunction(+, 0, [k \in 0..7 |-> IF BothHave(k) THEN 2 ^ k ELSE 0])

And(v, w) == WordOf([k \in 1..4 |-> AndBytes(Byte(v, 4 - k), Byte(w, 4 - k))])

ShiftLeft(word, n) ==
    LET shifted[k \in 0..n] ==
          IF k = 0 THEN word ELSE Plus(shifted[k - 1], shifted[k - 1])
    IN  shifted[n]

ShiftRight(word, n) ==
    LET shifted[k \in 0..n] == IF k = 0 THEN word ELSE shifted[k - 1] \div 2
    IN  shifted[n]
=============================================================================
