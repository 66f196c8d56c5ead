SPECIFICATION PipelineSpec
CONSTANTS
  Primaries = {1, 2}
  Ephemeral = FALSE
  SkipIfSuperseded = FALSE
  DeletePVC = FALSE
  AppliedStatuses = {"Ready"}
  Reports = {}
  LastDeletable = 1
  RBACKinds = 2
  MaxGeneration = 3
  RedkeyLag = 2
  ConfigLag = 2
  MaxFaults = 1
INVARIANTS TypeOK SequencesFollowGenerations ReadyHasBaseline
PROPERTIES ImplementsPipeline ObservedNeverGoesBack CleanupDeletesOnlyDone CleanupKeepsBaseline LastAppliedFollowsApplied
