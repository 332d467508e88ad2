SPECIFICATION Spec
CONSTANTS
    HeaderBits = 1
    ByteBits = 3
    IdBits = 4
    DataBits = 4
    KindBits = 3
    FlagBits = 3
    RecordHeader <- MCRecordHeader
    ImageHeader <- MCImageHeader
    Images <- MCImages
    ProcedureFiles <- MCFiles
    NoFile = NoFile
    BodyHandle = BodyHandle
    ResolverRefs <- MCResolverRefs
INVARIANT FailsForAReason
INVARIANT StaticReferencesLand
INVARIANT MachineReady
CHECK_DEADLOCK FALSE
