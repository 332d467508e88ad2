SPECIFICATION Spec
CONSTANTS
    MaxId = 9
    BodyHandle = BodyHandle
    Null = Null
    Data = Data
    Code = Code
    RefSize = 1
    NodeSize = 2
    ActSize = 3
    MaxDepth = 3
    Length = 2
    HostRegisters <- MCHostRegisters
    HostFrames <- TwoFrames
    NodeRefs <- NetworkAndResult
    Targets = {5}
    Sizes = {2}
    Disciplined = TRUE
INVARIANTS
    ActiveReferencesLive
    ActiveNodesInBounds
CHECK_DEADLOCK FALSE
