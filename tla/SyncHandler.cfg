SPECIFICATION Spec
CONSTANTS
    r1 = r1
    r2 = r2
    Requests <- MCRequests
    MaxHeight <- MCMaxHeight
    InitialHeights <- MCInitialHeights
    ChannelCapacity <- MCChannelCapacity
INVARIANTS
    TypeOK
    StreamIsTheRange
    BackpressureBoundsReads
    DropStopsTheScan
PROPERTY
    EachRequestEnds
    ImplementsRangeStream
CHECK_DEADLOCK FALSE
