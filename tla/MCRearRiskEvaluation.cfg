CONSTANTS
  M = 10
  CONFIRM = 3
  CLEAR = 4
  MaxGap = 6
  Inputs <- MCInputs
SPECIFICATION Spec
INVARIANTS TypeOK TimersSound
PROPERTY ImplementsHysteresis
