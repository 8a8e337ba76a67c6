SPECIFICATION Spec
CONSTANTS
    BLOCK_PAST_LIMIT = 1
    U64_MAX = 5
    MaxBlocks = 4
    SinkCapacity = 2
    ChannelCapacity = 2
    BlockIds <- AllBlockIds
INVARIANT TypeOK
PROPERTY ImplementsHeadStream
PROPERTY StartWithinPastLimit
PROPERTY ClosedSinkEndsHandler
PROPERTY CatchUpDeliversStored
CHECK_DEADLOCK FALSE
