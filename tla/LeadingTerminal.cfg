SPECIFICATION Spec
CONSTANTS
  Primaries = {1, 2}
  Ephemeral = FALSE
  SkipIfSuperseded = FALSE
  DeletePVC = FALSE
  AppliedStatuses = {"Ready"}
  Reports = {}
  LastDeletable = 0
  RBACKinds = 3
  MaxGeneration = 2
  RedkeyLag = 0
  ConfigLag = 0
  MaxFaults = 0
INVARIANT LeadingTerminalDeleted
