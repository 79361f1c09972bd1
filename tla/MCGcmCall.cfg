SPECIFICATION FairSpec
CONSTANTS
    k1 = k1
    kShort = kShort
    Keys <- MCKeys
    KeyLen <- MCKeyLen
    Ivs <- MCIvs
    Messages <- MCMessages
    Aads <- MCAads
    W = 5
    GhashLow <- MCGhashLow
    MaxCalls = 2
CONSTRAINT
    SecondOpens
INVARIANTS
    KeystreamFresh
    GctrCorrect
    ContextBalanced
PROPERTY
    Returns
\* After MaxCalls calls nobody calls again.
CHECK_DEADLOCK FALSE
