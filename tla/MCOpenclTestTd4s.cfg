SPECIFICATION PartSpec
CONSTANTS
    NumRuns = 3
    Items = 3
    Groups <- MCGroups
    LocalSize = 5
    TableSize = 5
    Nr = 4
    Variants <- Decrypts
    KeyPieces = 1
INVARIANT
    BlockCorrect
CHECK_DEADLOCK FALSE
