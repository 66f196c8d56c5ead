SPECIFICATION PipelineSpec
CONSTANTS
  Primaries = {0, 1}
  Ephemeral = FALSE
  SkipIfSuperseded = TRUE
  DeletePVC = TRUE
  AppliedStatuses = {"Ready"}
  Reports = {"True"}
  LastDeletable = 0
  RBACKinds = 1
  MaxGeneration = 4
  RedkeyLag = 0
  ConfigLag = 0
  MaxFaults = 1
INVARIANTS SequencesFollowGenerations ObservedGenerationHasConfig
PROPERTIES RobinOutlivesWork ImplementsPipeline
