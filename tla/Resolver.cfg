SPECIFICATION ResolverSpec
CONSTANTS
    MaxId = 18
    BodyHandle = BodyHandle
    Null = Null
    Data = Data
    Code = Code
    RefSize = 1
    NodeSize = 2
    ActSize = 3
    MaxDepth = 2
    Length = 2
    HostRegisters <- MCHostRegisters
    HostFrames <- TwoFramesWithResolver
    NodeRefs <- OneNode
    Targets = {}
    Sizes = {1}
    Disciplined = TRUE
    MaxSteps = 4
    MaxLevels = 2
    MaxCalls = 2
INVARIANTS
    ResolverTypeOK
    AskerProtected
    AskerContext
PROPERTIES
    QueryEnds
