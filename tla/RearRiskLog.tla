----------------------------- MODULE RearRiskLog -----------------------------
(***************************************************************************)
(* RearRiskEvaluation with a record of every sample it was given since the *)
(* last reset, at true time: the reference the two timestamps and two      *)
(* flags of the context are compared with.                                 *)
(***************************************************************************)
EXTENDS RearRiskEvaluation, Sequences

CONSTANTS MaxTime,    \* true ms the log covers
          MaxSamples  \* samples the log covers

VARIABLES clock,  \* true ms since the start
          log     \* samples since the last reset: true time, kind, confidence

logVars == <<ctx, output, now, sinceSample, clock, log>>

\* The context is a zeroed static object; RearRiskEvaluation starts from any contents.
LogInit == /\ Init
           /\ ctx = [InitContext EXCEPT !.isInitialized = FALSE]
           /\ clock = 0
           /\ log = <<>>

Kind(in) == IF ~IsInputValid(in) THEN "fault"
            ELSE IF IsRawThreatActive(in) THEN "threat" ELSE "safe"

LogRun(in) ==
  /\ Len(log) < MaxSamples
  /\ Run(in)
  /\ log' = Append(log, [at |-> clock, kind |-> Kind(in), confidence |-> in.sensorConfidence])
  /\ UNCHANGED clock

LogTick(d) ==
  /\ clock + d <= MaxTime
  /\ Tick(d)
  /\ clock' = clock + d
  /\ UNCHANGED log

LogReset == Reset /\ log' = <<>> /\ UNCHANGED clock

LogNext == \/ \E in \in Inputs : LogRun(in)
           \/ \E d \in 1 .. MaxGap : LogTick(d)
           \/ LogReset

LogSpec == LogInit /\ [][LogNext]_logVars

-----------------------------------------------------------------------------
(* The reference: what the samples, read as a whole, say.                   *)

Threat(i) == log[i].kind = "threat"
Safe(i)   == log[i].kind = "safe"

\* Samples i .. j contain no safe one and start and end with a threat CONFIRM ms apart.
Confirms(i, j) ==
  /\ i <= j /\ Threat(i) /\ Threat(j)
  /\ \A k \in i .. j : ~Safe(k)
  /\ log[j].at - log[i].at >= CONFIRM

\* Sample k is safe and the last threat before it is at least CLEAR ms old.
Clears(k) ==
  /\ Safe(k)
  /\ \E j \in 1 .. (k - 1) :
       /\ Threat(j)
       /\ \A l \in (j + 1) .. (k - 1) : ~Threat(l)
       /\ log[k].at - log[j].at >= CLEAR

RiskConfirmed ==
  \E i, j \in 1 .. Len(log) :
    /\ Confirms(i, j)
    /\ \A k \in (j + 1) .. Len(log) : ~Clears(k)

\* F-07 holds and reports a HIGH risk exactly when some uninterrupted run of threats lasted
\* CONFIRM ms and no safe sample since then came CLEAR ms after the last threat.  Rejected
\* samples, in any number and place, and wraps of the clock make no difference: a fault
\* hides a confirmed risk from F-08 for as long as it lasts and never loses it.
HighIffConfirmedByLog ==
  /\ ctx.isInitialized => (ctx.isRiskHighActive <=> RiskConfirmed)
  /\ (log # <<>> /\ output.riskValid) => (output.riskHigh <=> RiskConfirmed)

-----------------------------------------------------------------------------
(* What the constants' comments say.                                        *)

\* childlock_types.h:67 and F07_RearRiskEvaluation.c:13: HIGH is withdrawn only after the safe
\* condition has itself persisted for CLEAR ms, i.e. been seen at both ends of that time.
SafePeriodObserved ==
  LET end == Len(log')
  IN  \E i \in 1 .. end : /\ log'[end].at - log'[i].at >= CLEAR
                          /\ \A k \in i .. end : log'[k].kind = "safe"
ClearedOnlyAfterSafePeriod ==
  [][(log' # <<>> /\ ctx.isInitialized /\ ctx.isRiskHighActive /\ ~ctx'.isRiskHighActive)
       => SafePeriodObserved]_logVars

\* F07_RearRiskEvaluation.c:6-9: a HIGH risk rests on threat samples whose confidence is at
\* least REAR_RISK_SENSOR_CONFIDENCE_MIN.
HighOnlyWithConfidence ==
  (log # <<>> /\ output.riskValid /\ output.riskHigh) =>
     \E i \in 1 .. Len(log) : Threat(i) /\ log[i].confidence = "ok"
=============================================================================
