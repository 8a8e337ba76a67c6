SPECIFICATION Spec
CONSTANTS
    p1 = p1
    p2 = p2
    Peers <- MCPeers
    BootstrapNodes <- MCBootstrapNodes
    Domains <- MCDomains
    MaxRestarts = 2
INVARIANT TypeOK
PROPERTY BootstrapIsBestEffort
PROPERTY ShutdownStopsService
PROPERTY IdentityFileIsKept
CHECK_DEADLOCK FALSE
