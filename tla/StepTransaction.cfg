SPECIFICATION Spec
CONSTANTS
    Values <- MCValues
    Coherent <- MCCoherent
    CountOf <- MCCountOf
    Null = 0
    Limits = {1, 2}
    Budgets = {0, 2}
    MaxWork = 5
PROPERTY ImplementsAtomicStep
PROPERTY RunReturns
