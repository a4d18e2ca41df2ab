---------------------- MODULE RearRiskEvaluation_proof ----------------------
(***************************************************************************)
(* F-07 for every clock width, every pair of durations and every set of    *)
(* samples: its types, the soundness of its two timestamps across clock    *)
(* wraps, and that it implements RiskHysteresis.                           *)
(***************************************************************************)
EXTENDS RearRiskEvaluation, WrappingClock_proof, TLAPS

-----------------------------------------------------------------------------
(* Types.                                                                  *)

LEMMA ReadyType ==
  ASSUME NEW c \in F07_Context
  PROVE  Ready(c) \in F07_Context /\ Ready(c).isInitialized
BY ConstantsAssumption, ClockAssumption DEF F07_Context, Ready, InitContext, Timestamp

\* F07_RearRiskEvaluation_Run and its neighbours keep every field of context and output
\* in its C type, from any contents of a context that was never initialised.
THEOREM TypeCorrect == Spec => []TypeOK
<1>1. Init => TypeOK
  BY ConstantsAssumption, ClockAssumption DEF Init, TypeOK, RearRiskOutput
<1>2. TypeOK /\ [Next]_vars => TypeOK'
  <2> SUFFICES ASSUME TypeOK, [Next]_vars PROVE TypeOK'
    OBVIOUS
  <2> USE DEF TypeOK
  <2>1. ASSUME NEW in \in Inputs, RunFault(in) PROVE TypeOK'
    BY <2>1, ReadyType DEF RunFault, RearRiskOutput
  <2>2. ASSUME NEW in \in Inputs, RunValid(in) PROVE TypeOK'
    <3> DEFINE c == Ready(ctx)
    <3>1. c \in F07_Context
      BY ReadyType
    <3> HIDE DEF c
    <3>2. ThreatUpdate(c) \in F07_Context
      BY <3>1, WrapSubType DEF ThreatUpdate, F07_Context
    <3>3. SafeUpdate(c) \in F07_Context
      BY <3>1, WrapSubType DEF SafeUpdate, F07_Context
    <3>4. ctx' \in F07_Context
      BY <2>2, <3>2, <3>3 DEF RunValid, c
    <3>5. output' \in RearRiskOutput
      BY <2>2, <3>4 DEF RunValid, RearRiskOutput, F07_Context, ClassifyRiskLevel
    <3> QED
      BY <2>2, <3>4, <3>5, ConstantsAssumption, ClockAssumption DEF RunValid
  <2>3. ASSUME NEW d \in 1 .. MaxGap, Tick(d) PROVE TypeOK'
    BY <2>3, WrapAddType, ConstantsAssumption, ClockAssumption DEF Tick
  <2>4. CASE Reset
    BY <2>4, ConstantsAssumption, ClockAssumption DEF Reset, InitContext, F07_Context, Timestamp
  <2>5. CASE UNCHANGED vars
    BY <2>5 DEF vars
  <2> QED
    BY <2>1, <2>2, <2>3, <2>4, <2>5 DEF Next, Run
<1> QED
  BY <1>1, <1>2, PTL DEF Spec

-----------------------------------------------------------------------------
(* The timestamps.                                                         *)

LEMMA TimersStep == TypeOK /\ TimersSound /\ [Next]_vars => TimersSound'
<1> SUFFICES ASSUME TypeOK, TimersSound, [Next]_vars PROVE TimersSound'
  OBVIOUS
<1> USE DEF TypeOK, TimersSound, Rising, High, Falling, RisingAge, FallingAge
<1>1. ASSUME NEW in \in Inputs, RunFault(in) PROVE TimersSound'
  BY <1>1 DEF RunFault, Ready, InitContext
<1>2. ASSUME NEW in \in Inputs, RunValid(in) PROVE TimersSound'
  <2> DEFINE c == Ready(ctx)
  <2>1. c \in F07_Context
    BY ReadyType
  <2>2. WrapSub(now, now) = 0 /\ WrapSub(now, c.riskOnsetTimestampMs) \in Timestamp
    BY <2>1, WrapSubType DEF F07_Context
  <2> HIDE DEF c
  <2>3. CASE ctx' = ThreatUpdate(c)
    <3>1. /\ ctx'.riskClearTimestampMs = now
          /\ ctx'.isThreatOngoing
          /\ ~ctx'.isRiskHighActive => WrapSub(now, ctx'.riskOnsetTimestampMs) < CONFIRM
      <4>1. WrapSub(now, ctx'.riskOnsetTimestampMs) >= CONFIRM => ctx'.isRiskHighActive
        BY <2>1, <2>3 DEF ThreatUpdate, F07_Context
      <4>2. ctx'.riskOnsetTimestampMs \in Timestamp
        BY <2>1, <2>3 DEF ThreatUpdate, F07_Context
      <4>3. WrapSub(now, ctx'.riskOnsetTimestampMs) \in Int
        BY <4>2, WrapSubType DEF Timestamp
      <4>4. ctx'.riskClearTimestampMs = now /\ ctx'.isThreatOngoing
        BY <2>1, <2>3 DEF ThreatUpdate, F07_Context
      <4> QED
        BY <4>1, <4>3, <4>4, ConstantsAssumption, ClockAssumption
    <3> QED
      BY <1>2, <2>2, <3>1 DEF RunValid
  <2>4. CASE ctx' = SafeUpdate(c)
    BY <1>2, <2>1, <2>2, <2>4 DEF RunValid, SafeUpdate, F07_Context
  <2> QED
    BY <1>2, <2>3, <2>4 DEF RunValid, c
<1>3. ASSUME NEW d \in 1 .. MaxGap, Tick(d) PROVE TimersSound'
  <2>1. sinceSample + d < M
    BY <1>3, ConstantsAssumption, ClockAssumption DEF Tick
  <2>2. ASSUME NEW b \in Timestamp, WrapSub(now, b) = sinceSample
        PROVE  WrapSub(now', b) = sinceSample'
    BY <1>3, <2>1, <2>2, WrapSubAdvance DEF Tick
  <2> QED
    BY <1>3, <2>2 DEF Tick, F07_Context
<1>4. CASE Reset
  BY <1>4 DEF Reset, InitContext
<1>5. CASE UNCHANGED vars
  BY <1>5 DEF vars
<1> QED
  BY <1>1, <1>2, <1>3, <1>4, <1>5 DEF Next, Run

\* For every clock width and durations, the timestamps of updateHysteresis measure true time
\* and no confirmation or clearing is overdue.
THEOREM TimersCorrect == Spec => []TimersSound
<1>1. Init => TimersSound
  BY DEF Init, TimersSound, Rising, High, Falling
<1> QED
  BY <1>1, TypeCorrect, TimersStep, PTL DEF Spec

-----------------------------------------------------------------------------
(* The refinement.                                                         *)

\* What the abstract phase and its age are in each state of the two flags.
LEMMA Mapping ==
  /\ Rising  => PhaseOf = "rising"  /\ HeldOf = RisingAge
  /\ High    => PhaseOf = "high"    /\ HeldOf = 0
  /\ Falling => PhaseOf = "falling" /\ HeldOf = FallingAge
  /\ (~Rising /\ ~High /\ ~Falling) => PhaseOf = "calm" /\ HeldOf = 0
BY DEF PhaseOf, HeldOf, Rising, High, Falling

\* The verdict a valid sample produces.
LEMMA VerdictValid ==
  ASSUME NEW in \in Inputs, RunValid(in)
  PROVE  VerdictOf' = IF ctx'.isRiskHighActive THEN "high" ELSE "clear"
BY DEF RunValid, VerdictOf

LEMMA ThreatRefines ==
  ASSUME TypeOK, TypeOK', TimersSound, TimersSound',
         NEW in \in Inputs, RunValid(in), ctx' = ThreatUpdate(Ready(ctx))
  PROVE  RH!RHThreat
<1> USE DEF RH!RHThreat, RH!Enter
<1>1. sinceSample' = 0
  BY DEF RunValid
<1>2. CASE ~Rising /\ ~High /\ ~Falling
  <2>1. ~Ready(ctx).isThreatOngoing /\ ~Ready(ctx).isRiskHighActive
    BY <1>2 DEF Rising, High, Falling, Ready, InitContext
  <2>2. ctx'.riskOnsetTimestampMs = now /\ ctx'.riskClearTimestampMs = now
        /\ ctx'.isThreatOngoing /\ ctx'.isInitialized
    BY <2>1, ReadyType DEF TypeOK, ThreatUpdate, F07_Context
  <2>3. ~ctx'.isRiskHighActive
    <3>1. ~(WrapSub(now, now) >= CONFIRM)
      BY WrapSubType, ConstantsAssumption, ClockAssumption DEF TypeOK
    <3> QED
      BY <2>1, <3>1, ReadyType DEF TypeOK, ThreatUpdate, F07_Context
  <2>4. Rising' /\ RisingAge' = 0
    BY <2>2, <2>3, WrapSubType DEF Rising, RisingAge, TypeOK
  <2>5. PhaseOf = "calm" /\ PhaseOf' = "rising" /\ HeldOf' = 0
    <3>1. PhaseOf = "calm"
      BY <1>2 DEF PhaseOf
    <3>2. ~High' /\ ~Falling'
      BY <2>4 DEF Rising, High, Falling
    <3>3. PhaseOf' = "rising" /\ HeldOf' = 0
      BY <2>4, <3>2 DEF PhaseOf, HeldOf
    <3> QED
      BY <3>1, <3>3
  <2>6. VerdictOf' = "clear"
    BY <2>3, VerdictValid
  <2> QED
    BY <1>1, <2>5, <2>6
<1>3. CASE Rising
  <2>1. /\ ctx.isInitialized /\ ctx.isThreatOngoing /\ ~ctx.isRiskHighActive
        /\ Ready(ctx) = ctx
    BY <1>3 DEF Rising, Ready
  <2>2. WrapSub(now, ctx.riskOnsetTimestampMs) = HeldOf + sinceSample
    <3>1. /\ RisingAge < CONFIRM /\ RisingAge \in Timestamp
          /\ WrapSub(now, ctx.riskClearTimestampMs) = sinceSample
      BY <1>3, WrapSubType DEF TimersSound, RisingAge, TypeOK, F07_Context
    <3>2. sinceSample + RisingAge < M
      BY <3>1, ConstantsAssumption, ClockAssumption DEF TypeOK, Timestamp
    <3> QED
      BY <1>3, <3>1, <3>2, WrapSubChain, Mapping DEF TypeOK, F07_Context, RisingAge, Timestamp
  <2>3. /\ ctx'.isInitialized /\ ctx'.isThreatOngoing
        /\ ctx'.riskOnsetTimestampMs = ctx.riskOnsetTimestampMs
        /\ ctx'.riskClearTimestampMs = now
    BY <2>1 DEF TypeOK, ThreatUpdate, F07_Context
  <2>4. ctx'.isRiskHighActive <=> HeldOf + sinceSample >= CONFIRM
    BY <2>1, <2>2 DEF TypeOK, ThreatUpdate, F07_Context
  <2>5. CASE HeldOf + sinceSample >= CONFIRM
    <3>1. High'
      BY <2>3, <2>4, <2>5 DEF High
    <3>2. PhaseOf' = "high" /\ HeldOf' = 0
      BY <3>1 DEF High, Rising, Falling, PhaseOf, HeldOf
    <3> QED
      BY <1>1, <1>3, <2>4, <2>5, <3>2, Mapping, VerdictValid
  <2>6. CASE ~(HeldOf + sinceSample >= CONFIRM)
    <3>1. Rising' /\ RisingAge' = HeldOf + sinceSample
      BY <2>2, <2>3, <2>4, <2>6 DEF Rising, RisingAge
    <3>2. PhaseOf' = "rising" /\ HeldOf' = HeldOf + sinceSample
      BY <3>1 DEF Rising, PhaseOf, HeldOf, High, Falling
    <3> QED
      BY <1>1, <1>3, <2>4, <2>6, <3>2, Mapping, VerdictValid
  <2> QED
    BY <2>5, <2>6
<1>4. CASE High \/ Falling
  <2>1. High' /\ ctx'.isRiskHighActive
    BY <1>4 DEF High, Falling, Ready, TypeOK, ThreatUpdate, F07_Context
  <2>2. PhaseOf' = "high" /\ HeldOf' = 0
    BY <2>1 DEF High, Rising, Falling, PhaseOf, HeldOf
  <2> QED
    BY <1>1, <1>4, <2>1, <2>2, Mapping, VerdictValid
<1> QED
  BY <1>2, <1>3, <1>4

LEMMA SafeRefines ==
  ASSUME TypeOK, TypeOK', TimersSound, TimersSound',
         NEW in \in Inputs, RunValid(in), ctx' = SafeUpdate(Ready(ctx))
  PROVE  RH!RHSafe
<1> USE DEF RH!RHSafe, RH!Enter
<1>1. sinceSample' = 0
  BY DEF RunValid
<1>2. ctx'.isInitialized /\ ~ctx'.isThreatOngoing /\ ctx'.riskOnsetTimestampMs = now
  BY ReadyType DEF TypeOK, SafeUpdate, F07_Context
<1>3. CASE ~High /\ ~Falling
  <2>1. ~ctx'.isRiskHighActive
    BY <1>3, ReadyType DEF High, Falling, Ready, InitContext, TypeOK, SafeUpdate, F07_Context
  <2>2. PhaseOf' = "calm" /\ HeldOf' = 0
    BY <1>2, <2>1 DEF PhaseOf, HeldOf, Rising, High, Falling
  <2> QED
    BY <1>1, <1>3, <2>1, <2>2, Mapping, VerdictValid
<1>4. CASE High \/ Falling
  <2>1. ctx.isInitialized /\ ctx.isRiskHighActive /\ Ready(ctx) = ctx
    BY <1>4 DEF High, Falling, Ready
  <2>2. WrapSub(now, ctx.riskClearTimestampMs) = HeldOf + sinceSample
    <3>1. CASE High
      BY <3>1, Mapping DEF TimersSound, TypeOK
    <3>2. CASE Falling
      <4>1. /\ FallingAge < CLEAR /\ FallingAge \in Timestamp
            /\ WrapSub(now, ctx.riskOnsetTimestampMs) = sinceSample
        BY <3>2, WrapSubType DEF TimersSound, FallingAge, TypeOK, F07_Context
      <4>2. sinceSample + FallingAge < M
        BY <4>1, ConstantsAssumption, ClockAssumption DEF TypeOK, Timestamp
      <4> QED
        BY <3>2, <4>1, <4>2, WrapSubChain, Mapping DEF TypeOK, F07_Context, FallingAge, Timestamp
    <3> QED
      BY <1>4, <3>1, <3>2
  <2>3. ctx'.riskClearTimestampMs = ctx.riskClearTimestampMs
    BY <2>1 DEF TypeOK, SafeUpdate, F07_Context
  <2>4. ctx'.isRiskHighActive <=> HeldOf + sinceSample < CLEAR
    BY <2>1, <2>2 DEF TypeOK, SafeUpdate, F07_Context
  <2>5. HeldOf \in Int /\ sinceSample \in Int
    <3>1. FallingAge \in Timestamp
      BY WrapSubType DEF TypeOK, F07_Context, FallingAge
    <3> QED
      BY <1>4, <3>1, Mapping DEF TypeOK, Timestamp
  <2>6. CASE HeldOf + sinceSample >= CLEAR
    <3>1. ~ctx'.isRiskHighActive
      BY <2>4, <2>5, <2>6, ConstantsAssumption, ClockAssumption
    <3>2. PhaseOf' = "calm" /\ HeldOf' = 0
      BY <1>2, <3>1 DEF PhaseOf, HeldOf, Rising, High, Falling
    <3> QED
      BY <1>1, <1>4, <2>6, <3>1, <3>2, Mapping, VerdictValid
  <2>7. CASE ~(HeldOf + sinceSample >= CLEAR)
    <3>1. ctx'.isRiskHighActive
      BY <2>4, <2>5, <2>7, ConstantsAssumption, ClockAssumption
    <3>2. Falling' /\ FallingAge' = HeldOf + sinceSample
      BY <1>2, <2>2, <2>3, <3>1 DEF Falling, FallingAge
    <3>3. PhaseOf' = "falling" /\ HeldOf' = HeldOf + sinceSample
      BY <3>2 DEF Falling, High, Rising, PhaseOf, HeldOf
    <3> QED
      BY <1>1, <1>4, <2>7, <3>1, <3>3, Mapping, VerdictValid
  <2> QED
    BY <2>6, <2>7
<1> QED
  BY <1>3, <1>4

\* A rejected sample and the passing of time leave phase and age alone.
LEMMA FaultRefines ==
  ASSUME NEW in \in Inputs, RunFault(in)
  PROVE  RH!RHFault
<1>1. PhaseOf' = PhaseOf /\ HeldOf' = HeldOf
  BY DEF RunFault, Ready, InitContext, PhaseOf, HeldOf, Rising, High, Falling,
         RisingAge, FallingAge
<1>2. VerdictOf' = "fault" /\ sinceSample' = sinceSample
  BY DEF RunFault, VerdictOf
<1> QED
  BY <1>1, <1>2 DEF RH!RHFault

LEMMA TickKeepsPhase ==
  ASSUME NEW d \in 1 .. MaxGap, Tick(d)
  PROVE  PhaseOf' = PhaseOf /\ HeldOf' = HeldOf /\ VerdictOf' = VerdictOf
BY DEF Tick, PhaseOf, HeldOf, VerdictOf, Rising, High, Falling, RisingAge, FallingAge

LEMMA StepRefines ==
  TypeOK /\ TypeOK' /\ TimersSound /\ TimersSound' /\ [Next]_vars
    => [RH!RHNext]_<<PhaseOf, HeldOf, sinceSample, VerdictOf>>
<1> SUFFICES ASSUME TypeOK, TypeOK', TimersSound, TimersSound', [Next]_vars
             PROVE  [RH!RHNext]_<<PhaseOf, HeldOf, sinceSample, VerdictOf>>
  OBVIOUS
<1>1. ASSUME NEW in \in Inputs, RunFault(in) PROVE RH!RHFault
  BY <1>1, FaultRefines
<1>2. ASSUME NEW in \in Inputs, RunValid(in) PROVE RH!RHThreat \/ RH!RHSafe
  BY <1>2, ThreatRefines, SafeRefines DEF RunValid
<1>3. ASSUME NEW d \in 1 .. MaxGap, Tick(d) PROVE RH!RHPass
  <2>1. PhaseOf' = PhaseOf /\ HeldOf' = HeldOf /\ VerdictOf' = VerdictOf
    BY <1>3, TickKeepsPhase
  <2>2. sinceSample' \in Nat /\ sinceSample' >= sinceSample
    BY <1>3, ConstantsAssumption, ClockAssumption DEF Tick, TypeOK
  <2> QED
    BY <2>1, <2>2 DEF RH!RHPass
<1>4. ASSUME Reset PROVE RH!RHReset
  <2>1. PhaseOf' = "calm" /\ HeldOf' = 0
    BY <1>4 DEF Reset, InitContext, PhaseOf, HeldOf, Rising, High, Falling
  <2> QED
    BY <1>4, <2>1 DEF Reset, RH!RHReset, VerdictOf
<1>5. CASE UNCHANGED vars
  BY <1>5 DEF vars, PhaseOf, HeldOf, VerdictOf, Rising, High, Falling, RisingAge, FallingAge
<1> QED
  BY <1>1, <1>2, <1>3, <1>4, <1>5 DEF Next, Run, RH!RHNext

\* F-07 implements RiskHysteresis for every clock width, every pair of durations and every set
\* of samples, provided no gap between valid samples reaches a full turn of the clock.
THEOREM HysteresisImplemented == Spec => ImplementsHysteresis
<1>1. Init => RH!RHInit
  BY DEF Init, RH!RHInit, PhaseOf, HeldOf, VerdictOf, Rising, High, Falling
<1>2. TypeOK /\ TypeOK' /\ TimersSound /\ TimersSound' /\ [Next]_vars
        => [RH!RHNext]_(RH!rhVars)
  BY StepRefines DEF RH!rhVars
<1> QED
  BY <1>1, <1>2, TypeCorrect, TimersCorrect, PTL DEF Spec, ImplementsHysteresis, RH!RHSpec
=============================================================================
