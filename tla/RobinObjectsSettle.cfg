SPECIFICATION FairSpec
CONSTANTS
  Specs <- MCSpecs
  MaxEdits = 1
  MaxDrifts = 1
  MaxFaults = 1
INVARIANT TypeOK
PROPERTIES RevisionKept RepairsWhatItSees Settles StopsWriting
