SPECIFICATION Spec
CONSTANTS
    n1 = n1
    n2 = n2
    Node = {n1}
    Block = {1, 2, 3}
    Weight <- LeaderWeight
    Delta = 2
    FinalTime = 3
    Parent <- TreeParent
    Chain <- TreeChain
    MaxFaults = 3
    MaxQueued = 2
INVARIANTS FinalVoteUnique CementedHasQuorum
