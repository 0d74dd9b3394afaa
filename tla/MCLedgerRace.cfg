CONSTANTS
  Hash = {"g", "s1", "f1", "o1", "s2"}
  Account = {"A", "B"}
  Zero = "0"
  EpochOf <- MCEpochOf
  Block <- RingBlock
  GenesisHash = "g"
  Supply = 2
  Processor = {"p", "q"}
  Forced = {"f1"}
  Elected = {"o1"}
  Backlog = TRUE
  MaxBatch = 1
  MaxCement = 2
  MinWeight = 1
  LoadThreads = 1
SPECIFICATION Spec
INVARIANTS TypeOK ChainIntegrity FrontiersExist ConfirmedClosed
PROPERTIES CementedStays
CHECK_DEADLOCK FALSE
