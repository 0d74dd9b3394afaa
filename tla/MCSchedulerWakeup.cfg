SPECIFICATION FairSpec
CONSTANTS
    a1 = a1
    a2 = a2
    a3 = a3
    b = b
    c = c
    Block = {a1}
    Saved = {a1}
    RootOf <- MCRootOf
    Time <- MCTime
    Balance <- MCBalance
    PrioBuckets = 1
    MaxElections = 1
    MaxCandidates = 1
    MaxRecent = 1
    Reserved = 1
    MaxQueued = 1
    MaxWaiting = 1
    MaxOptimistic = 1
    MaxHinted = 1
    Priority = {a1}
    Manual = {}
    Optimistic = {}
    Hinted = {}
    Reason = {}
    MaxEvents = 1
PROPERTIES ActivatedTimely
