SPECIFICATION FairSpec
CONSTANTS
    genesis = genesis
    other = other
    open = open
    send = send
    receive = receive
    change = change
    None = None
    Chain <- MCChain
    Source <- MCSource
    Destination <- MCDestination
    Genesis = genesis
    Peers <- MCPeers
    Live = {send, change}
    PullCount = 2
    MaxRequests = 1
    Threshold = 1
    ProcessorMax = 1
    MaxPending = 1
    MaxResults = 2
    PrioritiesMax = 2
    BlockingMax = 1
    MaxFails = 1
    MaxAccounts = 2
INVARIANT NothingIsStuck
PROPERTY CatchesUp
