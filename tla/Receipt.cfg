SPECIFICATION Spec
CONSTANTS
    Nil = Nil
    Felts <- MCFelts
    ETH_ADDRESS_MAX <- MCEthAddressMax
    U64_MAX <- MCU64Max
    FELT_MAX <- MCFeltMax
    Keccak <- MCKeccak
    Counts <- MCCounts
    Builtins <- MCBuiltins
    MaxNodes <- MCMaxNodes
INVARIANT TypeOK
INVARIANT DownstreamNodesAgree
INVARIANT ExactlyPortableReceiptsSurvive
CHECK_DEADLOCK FALSE
