SPECIFICATION Spec
CONSTANTS
    MaxId = 8
    BodyHandle = BodyHandle
    Null = Null
    Data = Data
    Code = Code
    RefSize = 1
    NodeSize = 2
    ActSize = 3
    MaxDepth = 2
    Length = 2
    HostRegisters <- MCHostRegisters
    HostFrames <- RootWithResolver
    NodeRefs <- OneNode
    Targets = {0, 2, 3, 4, 5, 8}
    Sizes = {2, 3}
    Disciplined = TRUE
INVARIANTS
    SnapshotStored
    ActiveReferencesLive
    ActiveNodesInBounds
    NextIdFresh
PROPERTIES
    ProceduresKept
CHECK_DEADLOCK FALSE
