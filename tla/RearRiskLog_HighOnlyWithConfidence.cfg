CONSTANTS
  M = 6
  CONFIRM = 2
  CLEAR = 3
  MaxGap = 3
  MaxTime = 7
  MaxSamples = 5
  Inputs <- MCInputs
SPECIFICATION LogSpec
INVARIANT HighOnlyWithConfidence
