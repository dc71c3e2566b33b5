------------------------------ MODULE DiskClock ----------------------------
(***************************************************************************)
(* The completion times of CS213/code-9/disk.c: struct timeval arithmetic  *)
(* in tm_add and tm_compare, against the clock it stands for.  It is what  *)
(* lets Disk speak of the requests that are due instead of their times.    *)
(***************************************************************************)
EXTENDS Integers

CONSTANTS
    Second,    \* microseconds in a second: 1000*1000
    Latency,   \* READ_LATENCY_USEC
    MaxSecond  \* bound: seconds of the run

ASSUME ClockAssumption ==
    /\ Second \in Nat \ {0}
    /\ Latency \in 0..Second
    /\ MaxSecond \in Nat

VARIABLES
    clock,     \* what gettimeofday returns: [sec, usec]
    asked,     \* the time of the last request
    stamp      \* its completeTime

clockVars == <<clock, asked, stamp>>

\* A struct timeval as gettimeofday returns it, and the microseconds it is.
TimeVal == [sec : Nat, usec : 0..(Second - 1)]
Micros(tm) == Second * tm.sec + tm.usec

\* Mutant: the seconds are not carried.
TmAdd_NoCarry(tm, usec) == [tm EXCEPT !.usec = (@ + usec) % Second]

\* tm_add.  A sum of exactly one second stays in the microseconds.
TmAdd(tm, usec) ==
    LET sum == tm.usec + usec IN
    CASE sum > Second -> [sec |-> tm.sec + 1, usec |-> sum - Second]
      [] sum < 0      -> [sec |-> tm.sec - 1, usec |-> sum + Second]
      [] OTHER        -> [tm EXCEPT !.usec = sum]

TmCompare(a, b) ==
    CASE a.sec < b.sec -> -1
      [] a.sec > b.sec -> 1
      [] OTHER -> IF a.usec < b.usec THEN -1 ELSE IF a.usec > b.usec THEN 1 ELSE 0

\* prq_enqueue stamps a request.
StampRequest ==
    /\ asked' = clock
    /\ stamp' = TmAdd(clock, Latency)
    /\ UNCHANGED clock

Tick ==
    /\ clock.sec < MaxSecond
    /\ clock' = IF clock.usec + 1 = Second
                THEN [sec |-> clock.sec + 1, usec |-> 0]
                ELSE [clock EXCEPT !.usec = @ + 1]
    /\ UNCHANGED <<asked, stamp>>

ClockInit ==
    /\ clock = [sec |-> 0, usec |-> 0]
    /\ asked = clock
    /\ stamp = TmAdd(clock, Latency)

ClockNext == StampRequest \/ Tick

ClockSpec == ClockInit /\ [][ClockNext]_clockVars

\* The test of handleTimerInterrupt.
IsDue == TmCompare(stamp, clock) <= 0
-----------------------------------------------------------------------------
\* A request is due exactly when READ_LATENCY_USEC have passed since it was
\* made, across second boundaries and although tm_add leaves a sum of exactly
\* one second uncarried.
DueInTime == IsDue <=> Micros(clock) >= Micros(asked) + Latency
=============================================================================
