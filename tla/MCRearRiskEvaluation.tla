------------------------ MODULE MCRearRiskEvaluation ------------------------
(* A small instance of RearRiskEvaluation: a clock that wraps often, every  *)
(* combination of the accepted distance and speed ranges, and every sample  *)
(* that differs from an accepted one in one field.                          *)
EXTENDS RearRiskEvaluation

Good == [sensorHealth |-> TRUE, sensorConfidence |-> "ok",
         distanceM |-> "near", relSpeedMps |-> "fast"]

MCInputs ==
  {[Good EXCEPT !.distanceM = d, !.relSpeedMps = v] :
     d \in {"near", "mid", "far", "NaN"}, v \in {"slow", "fast", "NaN"}}
  \cup {[Good EXCEPT !.sensorHealth = FALSE]}
  \cup {[Good EXCEPT !.sensorConfidence = c] : c \in {"low", "NaN"}}
  \cup {[Good EXCEPT !.distanceM = d] : d \in {"negative", "beyond"}}
  \cup {[Good EXCEPT !.relSpeedMps = v] : v \in {"negative", "excess"}}
=============================================================================
