CONSTANTS
  M = 2
  TIMEOUT = 1
  MAX_ECU_RETRY = 3
  MaxSilence = 1
  MaxSkew = 0
SPECIFICATION FairAssistSpec
PROPERTY RiskLocksDoor
