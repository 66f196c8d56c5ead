SPECIFICATION FairMetricsSpec
CONSTANTS
  Primaries = {0, 1}
  Ephemeral = FALSE
  SkipIfSuperseded = TRUE
  DeletePVC = FALSE
  AppliedStatuses = {"Ready"}
  Reports = {}
  LastDeletable = 2
  RBACKinds = 1
  MaxGeneration = 2
  RedkeyLag = 0
  ConfigLag = 0
  MaxFaults = 1
INVARIANTS CountedOnce SampledOnTransitions SeriesTrueWhenIdle SettledWhenIdle
PROPERTIES SeriesFollowStatus GoneLeavesNothing
