SPECIFICATION ReuseSpec
CONSTANTS
    MaxId = 9
    BodyHandle = BodyHandle
    Null = Null
    Data = Data
    Code = Code
    RefSize = 1
    NodeSize = 2
    ActSize = 3
    MaxDepth = 2
    Length = 2
    HostRegisters <- MCHostRegisters
    HostFrames <- RootFrame
    NodeRefs <- OneNode
    Targets = {5}
    Sizes = {2}
    Disciplined = TRUE
INVARIANT
    IdNotReused
CHECK_DEADLOCK FALSE
