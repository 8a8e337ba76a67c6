SPECIFICATION Spec
CONSTANTS
    Panic = Panic
    n1 = n1
    n2 = n2
    Digits <- MCDigits
    MaxDigits <- MCMaxDigits
    U64_MAX <- MCU64Max
    FELT_MAX <- MCFeltMax
    U256_MAX <- MCU256Max
    I256_MIN <- MCI256Min
    I256_MAX <- MCI256Max
    Names <- MCNames
INVARIANTS
    TypeOK
    FormatAddressIsCanonical
    TrimHashShowsBothEnds
    ConvertedUpdateIsEventLow64
