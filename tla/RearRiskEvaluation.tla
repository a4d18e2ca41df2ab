------------------------- MODULE RearRiskEvaluation -------------------------
(***************************************************************************)
(* F-07 RearRiskEvaluation: one call of F07_RearRiskEvaluation_Run per     *)
(* sensor sample, on a context the caller keeps between calls.             *)
(*                                                                         *)
(* Timestamps are those of WrappingClock.  The float fields of a sample    *)
(* are abstracted to the ranges the code distinguishes, plus NaN, for      *)
(* which every comparison in C is false.                                   *)
(***************************************************************************)
EXTENDS WrappingClock

CONSTANTS
  CONFIRM,  \* REAR_RISK_CONFIRM_DURATION_MS
  CLEAR,    \* REAR_RISK_CLEAR_DURATION_MS
  MaxGap,   \* longest time, in ms, the caller leaves between two valid samples
  Inputs    \* the samples the sensor adapter may hand over

RearRiskInput ==
  [ sensorHealth     : BOOLEAN,
    sensorConfidence : {"low", "ok", "NaN"},
    distanceM        : {"negative", "near", "mid", "far", "beyond", "NaN"},
    relSpeedMps      : {"negative", "slow", "fast", "excess", "NaN"} ]

\* Timers longer than the clock, or a gap that wraps it, cannot be measured.
ASSUME ConstantsAssumption ==
  /\ CONFIRM \in Nat \ {0} /\ CLEAR \in Nat \ {0} /\ MaxGap \in Nat
  /\ MaxGap + CONFIRM <= M
  /\ MaxGap + CLEAR <= M
  /\ Inputs \subseteq RearRiskInput

F07_Context ==
  [ riskOnsetTimestampMs : Timestamp,
    riskClearTimestampMs : Timestamp,
    isRiskHighActive     : BOOLEAN,
    isThreatOngoing      : BOOLEAN,
    isInitialized        : BOOLEAN ]

RearRiskOutput ==
  [ riskHigh  : BOOLEAN,
    riskLevel : {"NONE", "LOW", "MEDIUM", "HIGH"},
    riskValid : BOOLEAN,
    faultFlag : {"NONE", "REAR_SENSOR"} ]

VARIABLES
  ctx,         \* the F07_Context_t of the caller
  output,      \* the RearRiskOutput_t of the last call
  now,         \* the system timestamp, as handed over in input->timestampMs
  sinceSample  \* true ms since the last valid sample; no code reads it

vars == <<ctx, output, now, sinceSample>>

-----------------------------------------------------------------------------
(* The code's helpers.                                                     *)

IsInputValid(in) ==
  /\ in.sensorHealth
  /\ in.sensorConfidence # "low"
  /\ in.distanceM \notin {"negative", "beyond"}
  /\ in.relSpeedMps \notin {"negative", "excess"}

IsClose(in) == in.distanceM = "near"
IsFast(in)  == in.relSpeedMps = "fast"

IsRawThreatActive(in) == IsClose(in) /\ IsFast(in)

ClassifyRiskLevel(in) ==
  CASE IsClose(in) /\ IsFast(in) -> "HIGH"
    [] IsClose(in) # IsFast(in)  -> "MEDIUM"
    [] ~IsClose(in) /\ ~IsFast(in) /\ in.distanceM = "mid" -> "LOW"
    [] OTHER -> "NONE"

InitContext ==
  [ riskOnsetTimestampMs |-> 0, riskClearTimestampMs |-> 0,
    isRiskHighActive |-> FALSE, isThreatOngoing |-> FALSE, isInitialized |-> TRUE ]

\* A context that was never initialised is initialised by the first Run.
Ready(c) == IF c.isInitialized THEN c ELSE InitContext

\* Mutant: the context keeps the deadline, in a wider integer, in place of the onset.
ThreatUpdate_Deadline(c) ==
  LET deadline == IF c.isThreatOngoing THEN c.riskOnsetTimestampMs ELSE now + CONFIRM
  IN  [c EXCEPT !.riskClearTimestampMs = now, !.isThreatOngoing = TRUE,
                !.riskOnsetTimestampMs = deadline, !.isRiskHighActive = @ \/ now >= deadline]

\* Mutant: every threat sample restarts the confirmation.
ThreatUpdate_Restarts(c) ==
  [c EXCEPT !.riskClearTimestampMs = now, !.isThreatOngoing = TRUE, !.riskOnsetTimestampMs = now,
            !.isRiskHighActive = @ \/ WrapSub(now, now) >= CONFIRM]

ThreatUpdate(c) ==
  LET onset == IF c.isThreatOngoing THEN c.riskOnsetTimestampMs ELSE now
  IN  [c EXCEPT !.riskClearTimestampMs = now,
                !.isThreatOngoing      = TRUE,
                !.riskOnsetTimestampMs = onset,
                !.isRiskHighActive     = @ \/ WrapSub(now, onset) >= CONFIRM]

\* Mutant: a safe sample does not renew the onset.
SafeUpdate_StaleOnset(c) ==
  [c EXCEPT !.isThreatOngoing  = FALSE,
            !.isRiskHighActive = @ /\ WrapSub(now, c.riskClearTimestampMs) < CLEAR]

SafeUpdate(c) ==
  [c EXCEPT !.riskOnsetTimestampMs = now,
            !.isThreatOngoing      = FALSE,
            !.isRiskHighActive     = @ /\ WrapSub(now, c.riskClearTimestampMs) < CLEAR]

-----------------------------------------------------------------------------
(* The calls.                                                              *)

Init ==
  /\ ctx \in {c \in F07_Context : ~c.isInitialized}
  /\ output = [riskHigh |-> FALSE, riskLevel |-> "NONE",
               riskValid |-> FALSE, faultFlag |-> "NONE"]
  /\ now \in Timestamp
  /\ sinceSample = 0

\* Mutant: a rejected sample starts the evaluation anew.
RunFault_Reinitialises(in) ==
  /\ ~IsInputValid(in)
  /\ ctx' = InitContext
  /\ output' = [riskHigh |-> FALSE, riskLevel |-> "NONE",
                riskValid |-> FALSE, faultFlag |-> "REAR_SENSOR"]
  /\ UNCHANGED <<now, sinceSample>>

RunFault(in) ==
  /\ ~IsInputValid(in)
  /\ ctx' = Ready(ctx)
  /\ output' = [riskHigh |-> FALSE, riskLevel |-> "NONE",
                riskValid |-> FALSE, faultFlag |-> "REAR_SENSOR"]
  /\ UNCHANGED <<now, sinceSample>>

RunValid(in) ==
  /\ IsInputValid(in)
  /\ ctx' = IF IsRawThreatActive(in) THEN ThreatUpdate(Ready(ctx)) ELSE SafeUpdate(Ready(ctx))
  /\ output' = [riskHigh |-> ctx'.isRiskHighActive, riskLevel |-> ClassifyRiskLevel(in),
                riskValid |-> TRUE, faultFlag |-> "NONE"]
  /\ sinceSample' = 0
  /\ UNCHANGED now

Run(in) == RunFault(in) \/ RunValid(in)

\* F07_RearRiskEvaluation_Init, and F07_RearRiskEvaluation_Reset, which calls it.
Reset ==
  /\ ctx' = InitContext
  /\ sinceSample' = 0
  /\ UNCHANGED <<output, now>>

\* Time passes between two calls.  The caller never starves F-07 of valid samples
\* for longer than MaxGap ms: with the real constants that is about 49 days.
Tick(d) ==
  /\ sinceSample + d <= MaxGap
  /\ now' = WrapAdd(now, d)
  /\ sinceSample' = sinceSample + d
  /\ UNCHANGED <<ctx, output>>

Next == \/ \E in \in Inputs : Run(in)
        \/ \E d \in 1 .. MaxGap : Tick(d)
        \/ Reset

Spec == Init /\ [][Next]_vars

-----------------------------------------------------------------------------
(* Properties.                                                             *)

\* Every field keeps its C type: in particular both timestamps stay uint32.
TypeOK ==
  /\ ctx \in F07_Context
  /\ output \in RearRiskOutput
  /\ now \in Timestamp
  /\ sinceSample \in 0 .. MaxGap

Rising  == ctx.isInitialized /\ ctx.isThreatOngoing /\ ~ctx.isRiskHighActive
High    == ctx.isInitialized /\ ctx.isThreatOngoing /\ ctx.isRiskHighActive
Falling == ctx.isInitialized /\ ~ctx.isThreatOngoing /\ ctx.isRiskHighActive

RisingAge  == WrapSub(ctx.riskClearTimestampMs, ctx.riskOnsetTimestampMs)
FallingAge == WrapSub(ctx.riskOnsetTimestampMs, ctx.riskClearTimestampMs)

\* updateHysteresis keeps one timestamp at the last valid sample and the other at the
\* start of the running phase.  Across every wrap of the clock the first one still tells
\* the true time since that sample, and the distance between the two is an age that has
\* not yet reached its deadline: no confirmation and no clearing is ever overdue.
TimersSound ==
  /\ Rising => /\ RisingAge < CONFIRM
               /\ WrapSub(now, ctx.riskClearTimestampMs) = sinceSample
  /\ High => WrapSub(now, ctx.riskClearTimestampMs) = sinceSample
  /\ Falling => /\ FallingAge < CLEAR
                /\ WrapSub(now, ctx.riskOnsetTimestampMs) = sinceSample

\* The refinement mapping: the phase and its age read off the context.
PhaseOf == CASE Rising -> "rising" [] High -> "high" [] Falling -> "falling" [] OTHER -> "calm"
HeldOf  == CASE Rising -> RisingAge [] Falling -> FallingAge [] OTHER -> 0
VerdictOf == IF output.riskValid THEN IF output.riskHigh THEN "high" ELSE "clear"
             ELSE IF output.faultFlag = "REAR_SENSOR" THEN "fault" ELSE "none"

RH == INSTANCE RiskHysteresis
        WITH phase <- PhaseOf, held <- HeldOf, gap <- sinceSample, verdict <- VerdictOf

\* F-07 implements the abstract hysteresis: whatever the clock value at power-on and
\* however often it wraps, HIGH is declared and withdrawn at exactly the same samples as by
\* a monitor that measures true time, and a sensor fault loses no measured time.
ImplementsHysteresis == RH!RHSpec
=============================================================================
