SPECIFICATION EachSpec
CONSTANTS
    HashSubkeys <- MCSubkeys
    DataSequences <- MCData
    Vectors <- MCVectors
    OmacSubkeys <- MCOmacSubkeys
    Nonces <- MCNonces
    Messages <- MCMessages
    CounterVals = 3
    Datas <- MCDatas
    Ivs = {0, 6}
    Permuted <- Permute
    Restored <- Restore
    SecretKeys <- MCSecretKeys
    Half <- MCHalf
    ByteVals = 16
    EncryptHalves <- ThreeRounds
    DecryptHalves <- ThreeRounds
    Base = 2
    MemLen = 2
    DumpBytes = {"a", "nul"}
    Printable = {"a"}
    Levels = {0, 2}
    MaxLen = 1
    LineLen = 2
    SmallTables = TRUE
    CipherKeys <- MCKeys
    PlainBlocks <- MCBlocks
    TableKinds = {"local", "small", "large"}
INVARIANT
    WrapIsStandardAlways
CHECK_DEADLOCK FALSE
