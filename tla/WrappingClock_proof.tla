------------------------- MODULE WrappingClock_proof -------------------------
(* The arithmetic of elapsed times, for every width of the clock.           *)
EXTENDS WrappingClock, TLAPS

\* A difference of two timestamps is a timestamp, and that of a timestamp to itself is 0.
LEMMA WrapSubType ==
  ASSUME NEW a \in Timestamp, NEW b \in Timestamp
  PROVE  /\ WrapSub(a, b) \in Timestamp
         /\ WrapSub(a, a) = 0
BY ClockAssumption DEF Timestamp, WrapSub

\* Advancing the clock by less than a full turn keeps it a timestamp.
LEMMA WrapAddType ==
  ASSUME NEW a \in Timestamp, NEW d \in Nat, d < M
  PROVE  WrapAdd(a, d) \in Timestamp
BY ClockAssumption DEF Timestamp, WrapAdd

\* An elapsed time grows by exactly the time that passes, wrapped clock or not, as long
\* as the result is shorter than a full turn of the clock.
LEMMA WrapSubAdvance ==
  ASSUME NEW a \in Timestamp, NEW b \in Timestamp, NEW d \in Nat, WrapSub(a, b) + d < M
  PROVE  WrapSub(WrapAdd(a, d), b) = WrapSub(a, b) + d
BY ClockAssumption DEF Timestamp, WrapAdd, WrapSub

\* Two elapsed times in a row add up as long as the sum is shorter than a full turn.
LEMMA WrapSubChain ==
  ASSUME NEW a \in Timestamp, NEW b \in Timestamp, NEW c \in Timestamp,
         WrapSub(a, b) + WrapSub(b, c) < M
  PROVE  WrapSub(a, c) = WrapSub(a, b) + WrapSub(b, c)
BY ClockAssumption DEF Timestamp, WrapSub
=============================================================================
