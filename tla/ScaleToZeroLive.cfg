SPECIFICATION FairQueueSpec
CONSTANTS
  Primaries = {0, 1}
  Ephemeral = FALSE
  SkipIfSuperseded = TRUE
  DeletePVC = FALSE
  AppliedStatuses = {"Ready"}
  Reports = {}
  LastDeletable = 0
  RBACKinds = 1
  MaxGeneration = 4
  RedkeyLag = 1
  ConfigLag = 0
  MaxFaults = 0
INVARIANT ObservedGenerationHasConfig
PROPERTIES RobinOutlivesWork Converges ScaleToZeroCompletes
