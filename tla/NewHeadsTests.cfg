SPECIFICATION TestSpec
CONSTANTS
    BLOCK_PAST_LIMIT = 2
    U64_MAX = 5
    MaxBlocks = 4
    SinkCapacity = 2
    ChannelCapacity = 2
    BlockIds <- TestBlockIds
    Tests <- AllTests
INVARIANT TestsPass
PROPERTY TestsFinish
CHECK_DEADLOCK FALSE
