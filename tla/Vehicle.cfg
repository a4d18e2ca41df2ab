CONSTANT MAX_ECU_RETRY = 3
SPECIFICATION VehicleSpec
INVARIANT VehicleTypeOK
PROPERTIES ImplementsPowerCycle ImplementsLossyLock VehicleUnlockAuthorised RestartKeepsDoor SummaryTrue
