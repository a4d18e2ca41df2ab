---------------------------- MODULE MCRearRiskLog ----------------------------
(* A small instance of RearRiskLog: one sample of each kind, and a threat  *)
(* whose confidence is NaN.                                                *)
EXTENDS RearRiskLog

ThreatSample == [sensorHealth |-> TRUE, sensorConfidence |-> "ok",
                 distanceM |-> "near", relSpeedMps |-> "fast"]

MCInputs == { ThreatSample,
              [ThreatSample EXCEPT !.sensorConfidence = "NaN"],
              [ThreatSample EXCEPT !.relSpeedMps = "slow"],
              [ThreatSample EXCEPT !.sensorHealth = FALSE] }

\* One sample of each kind is enough where confidence is not observed.
PlainInputs == {in \in MCInputs : in.sensorConfidence = "ok"}
=============================================================================
