SPECIFICATION Spec
CONSTANTS
    send = send
    receive = receive
    Block <- MCBlock
    Winner = {send, receive}
    Chain <- MCChain
    BatchSize = 2
    MaxBlocks = 1
    MaxDeferred = 1
    MaxRecent = 2
    SoftLimit = 1
    MaxEvents = 1
INVARIANTS TypeOK DeferredIsRetried RecentIsCared CooldownEnds
 
