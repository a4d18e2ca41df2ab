SPECIFICATION Spec
INVARIANTS TypeOK RestoredWasPersisted SummaryAtMostOnce
PROPERTY RestartUnlocksOnlyPersisted
