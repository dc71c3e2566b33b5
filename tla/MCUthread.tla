----------------------------- MODULE MCUthread -----------------------------
(***************************************************************************)
(* Small instances of Uthread and of UthreadSpin: the main thread, its     *)
(* creator pthread, and a few user threads on two pthreads.                *)
(***************************************************************************)
EXTENDS UthreadInv, UthreadSpin

CONSTANTS p1, p2, main, base1, base2, a, b

MCPthreads2 == {p1, p2}
MCBase2     == [p \in {p1, p2} |-> IF p = p1 THEN base1 ELSE base2]
MCThreads2  == {main, base1, base2, a, b}
MCThreadsSpin == {main, base1, base2, a}

MCSymmetry == Permutations({a, b})
=============================================================================
