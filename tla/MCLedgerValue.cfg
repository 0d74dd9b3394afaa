CONSTANTS
  Hash = {"g", "s1", "f1", "o1", "x1", "c1", "e1", "s2", "r2"}
  Account = {"A", "B"}
  Zero = "0"
  EpochOf <- MCEpochOf
  Block <- LatticeBlock
  GenesisHash = "g"
  Supply = 2
  Processor = {"p"}
  Forced = {"f1"}
  Elected = {"r2"}
  Backlog = FALSE
  MaxBatch = 2
  MaxCement = 2
  MinWeight = 1
  LoadThreads = 1
SPECIFICATION Spec
INVARIANTS  PendingExact SupplyConserved RepWeightsExact 
INVARIANTS RepIsNewest CountersExact RollbackExact RollbackFailsOnlyIfConfirmed NoPanic
PROPERTIES CementsOneByOne
