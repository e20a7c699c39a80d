SPECIFICATION Spec
CONSTANTS
  Configs <- MCConfigs
  MaxUpdates = 4
  MaxOffers = 2
INVARIANTS HonestWorkIsAdmitted ConflictsAreSharedCells TrainingIsDelivered ExpertsRotate
CONSTRAINT ShortRuns
CHECK_DEADLOCK FALSE
