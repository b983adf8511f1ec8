CONSTANTS
  Inputs <- MCInputs
  Options <- MCOptions
  MaxParallel = 3
  NotFinite = NotFinite
  None = None
SPECIFICATION FairSpec
INVARIANT TypeOK
INVARIANT ClaimedOnce
INVARIANT ResultsInPlace
PROPERTY BatchEnds
