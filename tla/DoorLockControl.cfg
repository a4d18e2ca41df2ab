CONSTANTS
  M = 3
  TIMEOUT = 2
  MAX_ECU_RETRY = 3
  MaxSilence = 2
  MaxSkew = 1
SPECIFICATION FairSpec
INVARIANTS TypeOK SpeedAgeSound DisagreementReported
PROPERTIES UnlockAuthorised CrashNeverLocks ImplementsLossyLock BlockReportTrue CrashReleases SpeedLossLocks
