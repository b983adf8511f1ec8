CONSTANTS
  Requests = {r1, r2, r3}
  None = None
  Events <- MCEvents
  Incomplete <- MCIncomplete
  Batches <- MCBatches
  MaxBatch = 3
  Capacity = 2
  Window = 2
  MaxTime = 4
SPECIFICATION FairSpec
INVARIANT TypeOK
INVARIANT AdmissionsAreSpaced
INVARIANT StoreHoldsTheNewest
INVARIANT BatchesStayWhole
INVARIANT AnswersAreTruthful
PROPERTY ImplementsBatchStore
PROPERTY EveryRequestIsAnswered
