SPECIFICATION MainSpec
CONSTANTS
    NumRuns = 3
    Items = 3
INVARIANT
    PassMeansComputed
CHECK_DEADLOCK FALSE
