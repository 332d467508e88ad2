SPECIFICATION BankSpec
CONSTANTS
    MaxId = 1
    MaxSize = 2
    BodyHandle = BodyHandle
INVARIANTS
    TypeOK
    IdsBelowNext
PROPERTIES
    ImmutableKept
    ProtectedKept
