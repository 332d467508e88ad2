SPECIFICATION Spec
CONSTANTS
    Sizes <- MCSizes
    ReadOnly <- MCReadOnly
    Base <- MCBase
    LocalNames <- MCLocalNames
    MaxOffset = 3
    MaxDepth = 2
    MaxCommands = 2
    Operands <- MCOperands
    Memories <- MCMemories
INVARIANT ResolvesInOwnContext
PROPERTY CommandEnds
PROPERTY WritesValueAndZeros
CHECK_DEADLOCK FALSE
