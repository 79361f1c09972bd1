SPECIFICATION PartSpec
CONSTANTS
    NumRuns = 3
    Items = 3
    Groups <- MCGroups
    LocalSize = 5
    TableSize = 5
    Nr = 4
    Variants <- AllKernels
    KeyPieces = 1
INVARIANTS
    ComparedIsNewest
    FailMeansNeverRan
    FailedMeansFailure
    NothingOutlives
    EncryptIsCpu
    LoadedFirst
    WalkInside
PROPERTIES
    ProgramCompletes
    KernelFinishes
\* The program ends, and so does a kernel.
CHECK_DEADLOCK FALSE
