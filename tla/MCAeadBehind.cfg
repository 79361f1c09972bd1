SPECIFICATION AnySpec
CONSTANTS
    k1 = k1
    k2 = k2
    kShort = kShort
    Keys <- CallKeys
    KeyLen <- MCKeyLen
    Nonces <- CallNonces
    Messages <- CallMessages
    Aads <- CallAads
    TagLens <- CallTagLens
    W = 40
    MaxCalls = 1
INVARIANT
    CcmOutputInside
CHECK_DEADLOCK FALSE
