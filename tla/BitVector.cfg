SPECIFICATION Spec
CONSTANTS
    MaxBits = 9
    Sources <- MCSources
    Files <- MCFiles
INVARIANT BytesCanonical
PROPERTY ImplementsBitString
