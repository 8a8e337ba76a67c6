SPECIFICATION Spec
CONSTANTS
    Nil = Nil
    MethodArgs <- MCMethodArgs
    Lower <- MCLower
    Ports <- MCPorts
    BatchLens <- MCBatchLens
    CorsArgs <- MCCorsArgs
INVARIANTS
    TypeOK
    AdminIsNoWiderThanAsked
    CorsIsAllOrTheParts
    BatchLimitIsThePolicy
CHECK_DEADLOCK FALSE
