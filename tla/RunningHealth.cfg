SPECIFICATION FairQueueSpec
CONSTANTS
  Primaries = {1}
  Ephemeral = FALSE
  SkipIfSuperseded = TRUE
  DeletePVC = FALSE
  AppliedStatuses = {"Ready", "Error"}
  Reports = {"True", "False"}
  LastDeletable = 1
  RBACKinds = 1
  MaxGeneration = 2
  RedkeyLag = 1
  ConfigLag = 0
  MaxFaults = 1
INVARIANTS ObservedGenerationHasConfig SettledWhenIdle
PROPERTIES PhaseFollowsHealth HealthFollowsReports Converges
