------------------------------ MODULE Library -------------------------------
(***************************************************************************)
(* The parts of the library that are used by the modes, or stand by        *)
(* themselves: GHASH, OMAC, counter mode, CBC, key wrapping, the byte      *)
(* order helpers and the debug dumps.  A behaviour is one part at work,    *)
(* the variables of the others stay 0.                                     *)
(***************************************************************************)
CONSTANTS
    HashSubkeys, DataSequences,         \* GHASH
    Vectors, OmacSubkeys,               \* OMAC
    Nonces, Messages, CounterVals,      \* counter mode
    Datas, Ivs, Permuted, Restored,     \* CBC, and its block cipher
    SecretKeys, Half, ByteVals,         \* key wrapping, and its block cipher
    EncryptHalves(_, _), DecryptHalves(_, _),
    Base, MemLen,                       \* byte order
    DumpBytes, Printable, Levels, MaxLen, LineLen

VARIABLES
    part,       \* the part at work
    \* GHASH
    gPc, gH, gCalls, gCall, gY, gXpos, gBit, gMx, gZ, gV, gHashed,
    \* OMAC
    oPc, oVec, oCtx, oE, oPos, oLeft, oI, oChain, oCbc, oSubkey, oPad, oMac, oRet,
    \* counter mode
    cPc, cNonce, cGiven, cCtx, cData, cLeft, cCounter, cI, cRet,
    \* CBC
    bPc, bOp, bIv, bGiven, bData, bCtx, bCbc, bI, bRet,
    \* key wrapping
    wPc, wKey, wCipher, wPlain, wA, wJ, wI, wCtx, wRet, wWrapped,
    \* byte order
    mMem, mLast,
    \* debug dumps
    aes_debug_level, aes_debug_show_keys, aes_debug_timestamp, dPc, dCall, dPos, dLen, dOut

Ghash == INSTANCE Ghash WITH
    Subkeys <- HashSubkeys, pc <- gPc, h <- gH, calls <- gCalls, call <- gCall, y <- gY,
    xpos <- gXpos, bit <- gBit, mx <- gMx, z <- gZ, v <- gV, hashed <- gHashed
Omac == INSTANCE Omac WITH
    Subkeys <- OmacSubkeys, pc <- oPc, vec <- oVec, ctx <- oCtx, e <- oE, pos <- oPos,
    left <- oLeft, i <- oI, chain <- oChain, cbc <- oCbc, subkey <- oSubkey, pad <- oPad,
    mac <- oMac, ret <- oRet
Ctr == INSTANCE Ctr WITH
    ByteVals <- CounterVals, pc <- cPc, nonce <- cNonce, given <- cGiven, ctx <- cCtx,
    data <- cData, left <- cLeft, counter <- cCounter, i <- cI, ret <- cRet
Cbc == INSTANCE Cbc WITH
    Encrypt <- Permuted, Decrypt <- Restored, pc <- bPc, op <- bOp, iv <- bIv,
    given <- bGiven, data <- bData, ctx <- bCtx, cbc <- bCbc, i <- bI, ret <- bRet
Wrap == INSTANCE KeyWrap WITH
    Encrypt <- EncryptHalves, Decrypt <- DecryptHalves, pc <- wPc, key <- wKey,
    cipher <- wCipher, plain <- wPlain, a <- wA, j <- wJ, i <- wI, ctx <- wCtx,
    ret <- wRet, wrapped <- wWrapped
Order == INSTANCE ByteOrder WITH mem <- mMem, last <- mLast
Dump == INSTANCE DebugDump WITH
    Bytes <- DumpBytes, pc <- dPc, call <- dCall, pos <- dPos, len <- dLen, out <- dOut

\* What the modes ask of their inputs, and of a block cipher they take.
ASSUME PartsAssumption ==
    /\ Ghash!Inputs /\ Omac!Inputs /\ Ctr!Inputs /\ Cbc!Inputs
    /\ Wrap!Inputs /\ Order!Inputs /\ Dump!Inputs

-----------------------------------------------------------------------------
ghashVars ==
    <<gPc, gH, gCalls, gCall, gY, gXpos, gBit, gMx, gZ, gV, gHashed>>
omacVars ==
    <<oPc, oVec, oCtx, oE, oPos, oLeft, oI, oChain, oCbc, oSubkey, oPad, oMac, oRet>>
ctrVars ==
    <<cPc, cNonce, cGiven, cCtx, cData, cLeft, cCounter, cI, cRet>>
cbcVars ==
    <<bPc, bOp, bIv, bGiven, bData, bCtx, bCbc, bI, bRet>>
wrapVars ==
    <<wPc, wKey, wCipher, wPlain, wA, wJ, wI, wCtx, wRet, wWrapped>>
bytesVars == <<mMem, mLast>>
dumpVars ==
    <<aes_debug_level, aes_debug_show_keys, aes_debug_timestamp, dPc, dCall, dPos, dLen, dOut>>

GhashIdle ==
    /\ gPc = 0 /\ gH = 0 /\ gCalls = 0 /\ gCall = 0 /\ gY = 0 /\ gXpos = 0 /\ gBit = 0
    /\ gMx = 0 /\ gZ = 0 /\ gV = 0 /\ gHashed = 0
OmacIdle ==
    /\ oPc = 0 /\ oVec = 0 /\ oCtx = 0 /\ oE = 0 /\ oPos = 0 /\ oLeft = 0 /\ oI = 0
    /\ oChain = 0 /\ oCbc = 0 /\ oSubkey = 0 /\ oPad = 0 /\ oMac = 0 /\ oRet = 0
CtrIdle ==
    /\ cPc = 0 /\ cNonce = 0 /\ cGiven = 0 /\ cCtx = 0 /\ cData = 0 /\ cLeft = 0
    /\ cCounter = 0 /\ cI = 0 /\ cRet = 0
CbcIdle ==
    /\ bPc = 0 /\ bOp = 0 /\ bIv = 0 /\ bGiven = 0 /\ bData = 0 /\ bCtx = 0 /\ bCbc = 0
    /\ bI = 0 /\ bRet = 0
WrapIdle ==
    /\ wPc = 0 /\ wKey = 0 /\ wCipher = 0 /\ wPlain = 0 /\ wA = 0 /\ wJ = 0 /\ wI = 0
    /\ wCtx = 0 /\ wRet = 0 /\ wWrapped = 0
BytesIdle == mMem = 0 /\ mLast = 0
DumpIdle ==
    /\ aes_debug_level = 0 /\ aes_debug_show_keys = 0 /\ aes_debug_timestamp = 0
    /\ dPc = 0 /\ dCall = 0 /\ dPos = 0 /\ dLen = 0 /\ dOut = 0

AnyInit ==
    \/ /\ part = "ghash" /\ Ghash!Init
       /\ OmacIdle /\ CtrIdle /\ CbcIdle /\ WrapIdle /\ BytesIdle /\ DumpIdle
    \/ /\ part = "omac" /\ Omac!Init
       /\ GhashIdle /\ CtrIdle /\ CbcIdle /\ WrapIdle /\ BytesIdle /\ DumpIdle
    \/ /\ part = "ctr" /\ Ctr!Init
       /\ GhashIdle /\ OmacIdle /\ CbcIdle /\ WrapIdle /\ BytesIdle /\ DumpIdle
    \/ /\ part = "cbc" /\ Cbc!Init
       /\ GhashIdle /\ OmacIdle /\ CtrIdle /\ WrapIdle /\ BytesIdle /\ DumpIdle
    \/ /\ part = "wrap" /\ Wrap!Init
       /\ GhashIdle /\ OmacIdle /\ CtrIdle /\ CbcIdle /\ BytesIdle /\ DumpIdle
    \/ /\ part = "bytes" /\ Order!Init
       /\ GhashIdle /\ OmacIdle /\ CtrIdle /\ CbcIdle /\ WrapIdle /\ DumpIdle
    \/ /\ part = "dump" /\ Dump!Init
       /\ GhashIdle /\ OmacIdle /\ CtrIdle /\ CbcIdle /\ WrapIdle /\ BytesIdle

AnyNext ==
    /\ UNCHANGED part
    /\ \/ /\ part = "ghash" /\ Ghash!Next
          /\ UNCHANGED <<omacVars, ctrVars, cbcVars, wrapVars, bytesVars, dumpVars>>
       \/ /\ part = "omac" /\ Omac!Next
          /\ UNCHANGED <<ghashVars, ctrVars, cbcVars, wrapVars, bytesVars, dumpVars>>
       \/ /\ part = "ctr" /\ Ctr!Next
          /\ UNCHANGED <<ghashVars, omacVars, cbcVars, wrapVars, bytesVars, dumpVars>>
       \/ /\ part = "cbc" /\ Cbc!Next
          /\ UNCHANGED <<ghashVars, omacVars, ctrVars, wrapVars, bytesVars, dumpVars>>
       \/ /\ part = "wrap" /\ Wrap!Next
          /\ UNCHANGED <<ghashVars, omacVars, ctrVars, cbcVars, bytesVars, dumpVars>>
       \/ /\ part = "bytes" /\ Order!Next
          /\ UNCHANGED <<ghashVars, omacVars, ctrVars, cbcVars, wrapVars, dumpVars>>
       \/ /\ part = "dump" /\ Dump!Next
          /\ UNCHANGED <<ghashVars, omacVars, ctrVars, cbcVars, wrapVars, bytesVars>>

anyVars == <<part, ghashVars, omacVars, ctrVars, cbcVars, wrapVars, bytesVars, dumpVars>>

AnySpec == AnyInit /\ [][AnyNext]_anyVars

-----------------------------------------------------------------------------
\* Every part's variables have their types: positions and counters stay inside
\* their buffers and blocks, and contexts are live exactly while they are used.
TypesOK ==
    /\ part = "ghash" => Ghash!TypeOK
    /\ part = "omac" => Omac!TypeOK
    /\ part = "ctr" => Ctr!TypeOK
    /\ part = "cbc" => Cbc!TypeOK
    /\ part = "wrap" => Wrap!TypeOK
    /\ part = "bytes" => Order!TypeOK
    /\ part = "dump" => Dump!TypeOK

\* Multiplication goes bit by bit as that of polynomials does, GHASH is the
\* polynomial in H of the blocks hashed, and these are the data of each call
\* filled up with zeros on its own (gf_mult, ghash).
GhashIsStandard ==
    part = "ghash" => Ghash!ProductSoFar /\ Ghash!GhashIsPolynomial /\ Ghash!PaddedApart

\* However the data is cut into elements, its MAC is OMAC1 of it
\* (omac1_aes_128_vector).
MacIsOmac == part = "omac" => Omac!MacIsOmac

\* Counter mode encrypts all of the data with successive counters or touches
\* none of it (aes_128_ctr_encrypt).
CtrAllOrNothing == part = "ctr" => Ctr!AllOrNothing

\* CBC in place, as far as it has got (aes_128_cbc_encrypt, aes_128_cbc_decrypt).
CbcSoFar == part = "cbc" => Cbc!CbcSoFar

\* A wrapped key is the one the definition gives, where its counter fits into a
\* byte (aes_wrap).
WrapIsStandard == part = "wrap" => Wrap!WrapIsStandard

\* aes_unwrap answers 0 for what aes_wrap makes, and for nothing else, and gives
\* back the key.
UnwrapAccepts == part = "wrap" => Wrap!AcceptsWrapped /\ Wrap!RoundTrip

\* The byte order helpers agree with each other: what is put is what is read, one
\* order mirrors the other, and hosts of either order store the same bytes
\* (AES_GET_*, AES_PUT_*, bswap_*, host_to_*).
HelpersAgree ==
    part = "bytes" => Order!PutThenGet /\ Order!OrdersMirror /\ Order!HostsAgree

\* A dump shows every byte once and in its column, or, of a key that is to be
\* hidden, none (_aes_hexdump_ascii, aes_hexdump_key, aes_hexdump_ascii_key).
DumpIsWhole == part = "dump" => Dump!DumpIsWhole /\ Dump!KeysHidden

\* "A = MSB(64, B) ^ t where t = (n*j)+i" for keys of any length (aes_wrap).
WrapIsStandardAlways == part = "wrap" => Wrap!WrapIsStandardAlways

\* "One-Key CBC MAC (OMAC1) hash with AES-128", also of data vectors with empty
\* elements before the data (omac1_aes_128_vector).
MacIsOmacAlways == part = "omac" => Omac!MacIsOmacAlways
=============================================================================
