---------------------------- MODULE WrappingClock ----------------------------
(***************************************************************************)
(* The millisecond clock both timed components read: a uint32_t that wraps *)
(* and the unsigned subtraction the code measures elapsed time with.       *)
(***************************************************************************)
EXTENDS Integers

CONSTANT M  \* number of timestamp values: 2^32 in the build, a few in a TLC run

ASSUME ClockAssumption == M \in Nat \ {0}

Timestamp == 0 .. (M - 1)

\* Mutant: a signed subtraction.
WrapSub_Signed(a, b) == a - b

WrapAdd(a, b) == IF a + b < M THEN a + b ELSE a + b - M
WrapSub(a, b) == IF a >= b THEN a - b ELSE a - b + M
=============================================================================
