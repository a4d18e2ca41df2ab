CONSTANT MAX_ECU_RETRY = 3
SPECIFICATION VehicleSpec
PROPERTY ReleaseSurvivesReset
