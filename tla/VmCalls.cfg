SPECIFICATION Spec
CONSTANTS
    MaxId = 10
    BodyHandle = BodyHandle
    Null = Null
    Data = Data
    Code = Code
    RefSize = 1
    NodeSize = 2
    ActSize = 3
    MaxDepth = 3
    Length = 2
    HostRegisters <- MCHostRegisters
    HostFrames <- RootFrame
    NodeRefs <- OneNode
    Targets = {}
    Sizes = {1}
    Disciplined = TRUE
INVARIANTS
    TypeOK
    SnapshotStored
    OwnershipPartition
    PositionsInRange
    PrefixTargetsExist
PROPERTIES
    SuspendedActivationsStable
    PrefixConsumedOnce
    ImplementsCallStack
CHECK_DEADLOCK FALSE
