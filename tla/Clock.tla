--------------------------------- MODULE Clock ---------------------------------
(***************************************************************************)
(* The arithmetic on times: the time of a reset, as the average of the     *)
(* times before and after it, and the approximate time of a trigger, from  *)
(* the time of the reset and the board's count of clock ticks since then.  *)
(***************************************************************************)
EXTENDS Integers

CONSTANTS
    NS,     \* nanoseconds of a second, 1e9
    HZ,     \* BOARD_CLOCK_HZ
    RES,    \* steps to a second of a double that counts seconds since 1970: 2^22
    U32     \* 2^32: the sum of the seconds is a uint32_t

ASSUME ClockAssumption == /\ NS \in Nat \ {0} /\ NS % 2 = 0
                          /\ HZ \in Nat \ {0} /\ RES \in Nat \ {0}
                          /\ U32 \in Nat \ {0} /\ U32 % 2 = 0

Time     == [sec : Nat, nsec : 0 .. NS - 1]
Total(t) == t.sec * NS + t.nsec

\* More than a second of nanoseconds is carried; exactly one second is not.
Carried(sec, nsec) == IF nsec > NS THEN [sec |-> sec + 1, nsec |-> nsec - NS]
                      ELSE [sec |-> sec, nsec |-> nsec]

\* A fault for the checks to find: the odd second is dropped.
AvgTimeNoHalf(A, B) == Carried(((A.sec + B.sec) % U32) \div 2, (A.nsec + B.nsec) \div 2)

\* avg_time
AvgTime(A, B) ==
    LET sum  == (A.sec + B.sec) % U32
        half == IF sum % 2 = 1 THEN NS \div 2 ELSE 0
    IN  Carried(sum \div 2, ((A.nsec + B.nsec) \div 2) + half)

\* d->start_time.tv_sec + elapsed, in steps of a double; elapsed is ticks / BOARD_CLOCK_HZ.
\* (The code's HZ and RES leave no ties; a tie goes up here.)
DoubleSum(start, ticks) == start.sec * RES + ((2 * ticks * RES + HZ) \div (2 * HZ))

\* approx_trigger_time of a header: the seconds are cut from the rounded sum, the
\* nanoseconds from elapsed itself.
ApproxTriggerTime(start, ticks) ==
    Carried(DoubleSum(start, ticks) \div RES, start.nsec + (((ticks % HZ) * NS) \div HZ))

\* The last few ticks of a second, for which the sum is the next whole second.
RoundsUp(ticks) == 2 * RES * (HZ - (ticks % HZ)) <= HZ
=============================================================================
