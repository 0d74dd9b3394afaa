SPECIFICATION Spec
CONSTANTS
    n1 = n1
    n2 = n2
    Node = {n1, n2}
    Block = {1, 2}
    Weight <- EqualWeight
    Delta = 2
    FinalTime = 2
    Parent <- TreeParent
    Chain <- TreeChain
    MaxFaults = 2
    MaxQueued = 1
SYMMETRY Symmetry
INVARIANTS TypeOK Agreement
