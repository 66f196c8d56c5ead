SPECIFICATION Spec
CONSTANTS
  Primaries = {0, 1}
  Ephemeral = FALSE
  SkipIfSuperseded = FALSE
  DeletePVC = FALSE
  AppliedStatuses = {"Ready"}
  Reports = {}
  LastDeletable = 0
  RBACKinds = 3
  MaxGeneration = 4
  RedkeyLag = 1
  ConfigLag = 1
  MaxFaults = 0
PROPERTY RobinOutlivesWork
