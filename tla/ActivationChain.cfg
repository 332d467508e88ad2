SPECIFICATION ChainSpec
CONSTANTS
    MaxId = 9
    BodyHandle = BodyHandle
    Null = Null
    Data = Data
    Code = Code
    RefSize = 1
    NodeSize = 2
    ActSize = 3
    MaxDepth = 3
    Length = 2
    HostRegisters <- MCHostRegisters
    HostFrames <- RootFrame
    NodeRefs <- OneNode
    Targets = {2, 4, 6, 8}
    Sizes = {}
    Disciplined = FALSE
INVARIANTS
    ReloadFindsChain
    EachRecordOnce
PROPERTIES
    ReturnsKeepHostRegisters
CHECK_DEADLOCK FALSE
