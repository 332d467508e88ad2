SPECIFICATION StreamSpec
CONSTANTS
    HeaderBits = 1
    ByteBits = 3
    IdBits = 4
    DataBits = 4
    KindBits = 3
    FlagBits = 3
    RecordHeader <- MCRecordHeader
    ImageHeader <- MCImageHeader
    Precision = 4
    Quantum = 4
    Scales = 7
    IntLimit = 11
    External <- MCExternal
    Streams <- MCStreams
    Items <- MCItems
    MaxItems = 2
INVARIANT CanonicalInput
INVARIANT FailedReadKeepsCursor
INVARIANT ReadsBackWhatWasWritten
INVARIANT ComputesAsSpecified
CHECK_DEADLOCK FALSE
