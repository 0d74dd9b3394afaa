SPECIFICATION Spec
CONSTANTS
    a1 = a1
    a2 = a2
    b = b
    a3 = a3
    c = c
    Block = {a1, a2, a3, b}
    Saved = {a1, a2, b}
    RootOf <- MCRootOf
    Time <- MCTime
    Balance <- MCBalance
    PrioBuckets = 2
    MaxElections = 2
    MaxCandidates = 2
    MaxRecent = 1
    Reserved = 1
    MaxQueued = 1
    MaxWaiting = 1
    MaxOptimistic = 1
    MaxHinted = 1
    Priority = {a1, b}
    Manual = {b}
    Optimistic = {a1}
    Hinted = {a2}
    Reason = {"ConfirmingSetFull"}
    MaxEvents = 1
INVARIANTS IndexesAgree ConfirmedRootsRest
PROPERTIES EvictedForHigher BucketWithinReserve
