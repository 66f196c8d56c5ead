SPECIFICATION FairForegroundSpec
CONSTANTS
  Primaries = {1}
  Ephemeral = FALSE
  SkipIfSuperseded = FALSE
  DeletePVC = FALSE
  AppliedStatuses = {"Ready"}
  Reports = {}
  LastDeletable = 0
  RBACKinds = 1
  MaxGeneration = 1
  RedkeyLag = 0
  ConfigLag = 0
  MaxFaults = 0
PROPERTY ForegroundDeletionEnds
