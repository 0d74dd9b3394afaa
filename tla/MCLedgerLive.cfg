CONSTANTS
  Hash = {"g", "s1", "f1", "o1", "s2"}
  Account = {"A", "B"}
  Zero = "0"
  EpochOf <- MCEpochOf
  Block <- RingBlock
  GenesisHash = "g"
  Supply = 2
  Processor = {"p"}
  Forced = {"f1"}
  Elected = {"f1", "s2"}
  Backlog = FALSE
  MaxBatch = 1
  MaxCement = 1
  MinWeight = 1
  LoadThreads = 1
SPECIFICATION FairSpec
PROPERTIES CementingEnds RollbackEnds BatchEnds
