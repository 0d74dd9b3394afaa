SPECIFICATION FairSpec
CONSTANTS
    send = send
    receive = receive
    Block <- MCBlock
    Winner = {receive}
    Chain <- MCChain
    BatchSize = 1
    MaxBlocks = 1
    MaxDeferred = 1
    MaxRecent = 2
    SoftLimit = 1
    MaxEvents = 2
PROPERTIES WinnerGetsCemented CementedIsAnnounced
