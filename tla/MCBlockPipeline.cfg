SPECIFICATION FairSpec
CONSTANTS
    send = send
    receive = receive
    None = None
    Origins <- MCOrigins
    MaxSize <- MCMaxSize
    Priority <- MCPriority
    Blocks <- MCBlocks
    Previous <- MCPrevious
    Source <- MCSource
    Peer = {"peer"}
    FromPeer = {receive}
    Local = {send}
    Thread = {"t1", "t2"}
    BatchSize = 1
    MaxUnchecked = 1
    SearchSize = 1
INVARIANT TypeOK
PROPERTIES  WaitingIsFound BlockingPushReturns
