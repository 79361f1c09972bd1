---------------------------- MODULE AeadProofs -----------------------------
(***************************************************************************)
(* The theorems of CCM, GCM and EAX, carried over to the service that      *)
(* MCAead makes of them, one mode at a time.                               *)
(***************************************************************************)
EXTENDS MCAead, CcmProofs

TwoP == INSTANCE CcmProofs WITH
    Keys <- {k1}, Messages <- TwoMessages, Aads <- TwoAads, TagLens <- {4, 6},
    MaxCalls <- 2

GcmP == INSTANCE GcmProofs WITH
    Keys <- {k1, k2}, Ivs <- GcmIvs, Messages <- GcmMessages, Aads <- GcmAads,
    W <- 5, GhashLow <- MCGhashLow, MaxCalls <- 2

EaxP == INSTANCE EaxProofs WITH
    Keys <- {k1}, Nonces <- {<<>>, ShortAad}, Headers <- {<<>>, ShortAad},
    Messages <- EaxMessages, MaxCalls <- 3

-----------------------------------------------------------------------------
\* An instance of the proofs is about the specification MCAead runs.
LEMMA SameTwo ==
    /\ CcmTwo!Next <=> TwoP!Next
    /\ Init <=> TwoP!Init
    /\ TwoP!OutputCorrect <=> OutputCorrect
    /\ TwoP!ContextBalanced <=> ContextBalanced
    /\ TwoP!A!Next <=> A!Next
<1>1. CcmTwo!Next <=> TwoP!Next
  BY DEF CcmTwo!Next, TwoP!Next, CcmTwo!A!Record, TwoP!A!Record, CcmTwo!NoTag, TwoP!NoTag,
         CcmTwo!Be16, TwoP!Be16, CcmTwo!L, TwoP!L, CcmTwo!Flags, TwoP!Flags, CcmTwo!B0,
         TwoP!B0, CcmTwo!Ai, TwoP!Ai, CcmTwo!AadBlocks, TwoP!AadBlocks, CcmTwo!Enter,
         TwoP!Enter, CcmTwo!CallAe, TwoP!CallAe, CcmTwo!CtrByte, TwoP!CtrByte, CcmTwo!CtrOf,
         TwoP!CtrOf, CcmTwo!CallAd, TwoP!CallAd, CcmTwo!Return, TwoP!Return, CcmTwo!TooLong,
         TwoP!TooLong, CcmTwo!InitFails, TwoP!InitFails, CcmTwo!InitSucceeds,
         TwoP!InitSucceeds, CcmTwo!Authenticate, TwoP!Authenticate, CcmTwo!Counter,
         TwoP!Counter, CcmTwo!Encrypt, TwoP!Encrypt, CcmTwo!EncryptBlock, TwoP!EncryptBlock,
         CcmTwo!EncryptLast, TwoP!EncryptLast, CcmTwo!TagOf, TwoP!TagOf, CcmTwo!FinishAe,
         TwoP!FinishAe, CcmTwo!FinishAd, TwoP!FinishAd, CcmTwo!Zero, TwoP!Zero, CcmTwo!Xor,
         TwoP!Xor, CcmTwo!Block, TwoP!Block, CcmTwo!PaddedBlocks, TwoP!PaddedBlocks,
         CcmTwo!Keystream, TwoP!Keystream, CcmTwo!SupportedKeyLens, TwoP!SupportedKeyLens,
         CcmTwo!Untouched, TwoP!Untouched
<1>2. Init <=> TwoP!Init
  BY DEF Init, TwoP!Init, NoCall, TwoP!NoCall, NoTag, TwoP!NoTag, A!NoAnswer, TwoP!A!NoAnswer
<1>3. /\ TwoP!OutputCorrect <=> OutputCorrect
      /\ TwoP!ContextBalanced <=> ContextBalanced
  BY DEF OutputCorrect, TwoP!OutputCorrect, ContextBalanced, TwoP!ContextBalanced, CtrByte,
         TwoP!CtrByte, Ai, TwoP!Ai, L, TwoP!L, Keystream, TwoP!Keystream, Xor, TwoP!Xor,
         Block, TwoP!Block, Untouched, TwoP!Untouched
<1>4. TwoP!A!Next <=> A!Next
  BY DEF A!Next, TwoP!A!Next, A!Seal, TwoP!A!Seal, A!Open, TwoP!A!Open, A!Refuse,
         TwoP!A!Refuse, A!SameInputs, TwoP!A!SameInputs, A!Record, TwoP!A!Record
<1> QED BY <1>1, <1>2, <1>3, <1>4

LEMMA SameGcm ==
    /\ Gcm!Next <=> GcmP!Next
    /\ Gcm!Init <=> GcmP!Init
    /\ GcmP!A!Next <=> A!Next
<1>1. Gcm!Next <=> GcmP!Next
  BY DEF Gcm!Next, GcmP!Next, Gcm!A!Record, GcmP!A!Record, Gcm!Be64, GcmP!Be64,
         Gcm!Polynomial, GcmP!Polynomial, Gcm!ghash_start, GcmP!ghash_start, Gcm!ghash,
         GcmP!ghash, Gcm!inc32, GcmP!inc32, Gcm!ZeroCounterBlock, GcmP!ZeroCounterBlock,
         Gcm!HashedIv, GcmP!HashedIv, Gcm!aes_gcm_prepare_j0, GcmP!aes_gcm_prepare_j0,
         Gcm!aes_gcm_ghash, GcmP!aes_gcm_ghash, Gcm!CtrAt, GcmP!CtrAt, Gcm!BlockAt,
         GcmP!BlockAt, Gcm!GctrByte, GcmP!GctrByte, Gcm!Gctr, GcmP!Gctr, Gcm!Enter,
         GcmP!Enter, Gcm!CallAe, GcmP!CallAe, Gcm!CallGmac, GcmP!CallGmac, Gcm!Crypts,
         GcmP!Crypts, Gcm!CallAd, GcmP!CallAd, Gcm!Return, GcmP!Return, Gcm!InitFails,
         GcmP!InitFails, Gcm!InitHashSubkey, GcmP!InitHashSubkey, Gcm!PrepareJ0,
         GcmP!PrepareJ0, Gcm!GctrStart, GcmP!GctrStart, Gcm!XorKeystream, GcmP!XorKeystream,
         Gcm!GctrBlock, GcmP!GctrBlock, Gcm!GctrLast, GcmP!GctrLast, Gcm!Ghash, GcmP!Ghash,
         Gcm!Tag, GcmP!Tag, Gcm!FinishAe, GcmP!FinishAe, Gcm!FinishAd, GcmP!FinishAd,
         Gcm!Step, GcmP!Step, Gcm!NoBlock, GcmP!NoBlock, Gcm!Zero, GcmP!Zero, Gcm!Xor,
         GcmP!Xor, Gcm!Block, GcmP!Block,
         Gcm!PaddedBlocks, GcmP!PaddedBlocks, Gcm!Keystream, GcmP!Keystream,
         Gcm!SupportedKeyLens, GcmP!SupportedKeyLens, Gcm!Untouched, GcmP!Untouched,
         Gcm!ZeroBlock, GcmP!ZeroBlock
<1>2. Gcm!Init <=> GcmP!Init
  BY DEF Gcm!Init, GcmP!Init, Gcm!NoCall, GcmP!NoCall, Gcm!NoBlock, GcmP!NoBlock,
         Gcm!A!NoAnswer, GcmP!A!NoAnswer, Gcm!ghash_start, GcmP!ghash_start
<1>3. GcmP!A!Next <=> A!Next
  BY DEF A!Next, GcmP!A!Next, A!Seal, GcmP!A!Seal, A!Open, GcmP!A!Open, A!Refuse,
         GcmP!A!Refuse, A!SameInputs, GcmP!A!SameInputs, A!Record, GcmP!A!Record
<1> QED BY <1>1, <1>2, <1>3

LEMMA SameEax ==
    /\ Eax!Next <=> EaxP!Next
    /\ Eax!Init <=> EaxP!Init
    /\ Eax!Outcome = EaxP!Outcome
    /\ Eax!BufferAsAnswered <=> EaxP!BufferAsAnswered
    /\ Eax!BufferFreed <=> EaxP!BufferFreed
<1>1. Eax!Next <=> EaxP!Next
  BY DEF Eax!Next, EaxP!Next, Eax!A!Record, EaxP!A!Record, Eax!NoMac, EaxP!NoMac, Eax!NoTag,
         EaxP!NoTag, Eax!NoMacs, EaxP!NoMacs, Eax!Steps, EaxP!Steps, Eax!At, EaxP!At,
         Eax!Last, EaxP!Last, Eax!Goes, EaxP!Goes, Eax!Omac, EaxP!Omac, Eax!CtrOf, EaxP!CtrOf,
         Eax!Enter, EaxP!Enter, Eax!Encrypt, EaxP!Encrypt, Eax!EncryptAgain,
         EaxP!EncryptAgain, Eax!Presented, EaxP!Presented, Eax!Decrypt, EaxP!Decrypt,
         Eax!Answer, EaxP!Answer, Eax!Fails, EaxP!Fails, Eax!Malloc, EaxP!Malloc,
         Eax!Authenticate, EaxP!Authenticate, Eax!FullTag, EaxP!FullTag, Eax!Ctr, EaxP!Ctr,
         Eax!MakeTag, EaxP!MakeTag, Eax!Compare, EaxP!Compare, Eax!Zero, EaxP!Zero, Eax!Xor,
         EaxP!Xor, Eax!Block, EaxP!Block, Eax!PaddedBlocks, EaxP!PaddedBlocks, Eax!Keystream,
         EaxP!Keystream, Eax!SupportedKeyLens, EaxP!SupportedKeyLens, Eax!Untouched,
         EaxP!Untouched
<1>2. Eax!Init <=> EaxP!Init
  BY DEF Eax!Init, EaxP!Init, Eax!NoCall, EaxP!NoCall, Eax!NoTag, EaxP!NoTag, Eax!NoMacs,
         EaxP!NoMacs, Eax!NoMac, EaxP!NoMac, Eax!A!NoAnswer, EaxP!A!NoAnswer
<1>3. Eax!Outcome = EaxP!Outcome
  BY DEF Eax!Outcome, EaxP!Outcome
<1>4. /\ Eax!BufferAsAnswered <=> EaxP!BufferAsAnswered
      /\ Eax!BufferFreed <=> EaxP!BufferFreed
  BY DEF Eax!BufferAsAnswered, EaxP!BufferAsAnswered, Eax!BufferFreed, EaxP!BufferFreed,
         Eax!At, EaxP!At, Eax!Steps, EaxP!Steps, Eax!CtrOf, EaxP!CtrOf, Eax!Omac, EaxP!Omac,
         Eax!NoMac, EaxP!NoMac, Eax!Xor, EaxP!Xor
<1> QED BY <1>1, <1>2, <1>3, <1>4

-----------------------------------------------------------------------------
\* What the proofs of CCM and GCM assume of their constants.
LEMMA TwoAssumptions ==
    /\ TwoP!TagLenAssumption /\ TwoP!LengthAssumption /\ TwoP!BoundAssumption
    /\ TwoP!WAssumption /\ TwoP!ByteAssumption
<1>1. ASSUME NEW n \in Nat
      PROVE  IsSeq(Zeros(n)) /\ Len(Zeros(n)) = n /\ TwoP!IsSeq(Zeros(n))
  BY FunctionIsSeq DEF Zeros, IsSeq, TwoP!IsSeq
<1>2. TwoP!TagLenAssumption
  BY DEF TwoP!TagLenAssumption
<1>3. TwoP!LengthAssumption
  <2>1. ASSUME NEW n \in {0, 1, 2, 17} PROVE Len(Zeros(n)) < W
    BY <1>1, WAssumption
  <2> QED BY <2>1 DEF TwoP!LengthAssumption, TwoMessages
<1>4. TwoP!ByteAssumption
  BY <1>1 DEF TwoP!ByteAssumption, TwoMessages, TwoAads
<1>5. TwoP!BoundAssumption /\ TwoP!WAssumption
  BY WAssumption DEF TwoP!BoundAssumption, TwoP!WAssumption
<1> QED BY <1>2, <1>3, <1>4, <1>5

LEMMA GcmAssumptions ==
    /\ GcmP!WAssumption /\ GcmP!BoundAssumption /\ GcmP!KeyAssumption
    /\ GcmP!ByteAssumption /\ GcmP!LengthAssumption /\ GcmP!GhashLowAssumption
<1>1. \A z : GcmP!IsSeq(z) <=> IsSeq(z)
  BY DEF GcmP!IsSeq, IsSeq
<1>2. /\ IsSeq(<<>>) /\ Len(<<>>) = 0
      /\ IsSeq(<<byte("iv")>>) /\ IsSeq(<<byte("iv"), Zero>>)
  BY DEF IsSeq
<1>3. IsSeq(ShortAad) /\ IsSeq(ShortAad \o <<Zero>>)
  <2>1. IsSeq(ShortAad) /\ IsSeq(<<Zero>>)
    BY DEF IsSeq, ShortAad
  <2> QED BY <2>1, ConcatIsSeq
<1>4. /\ IsSeq([p \in 1..12 |-> byte("iv")])
      /\ IsSeq(Bytes("m", 17)) /\ Len(Bytes("m", 17)) = 17
      /\ IsSeq([p \in 1..32 |-> IF p = 1 THEN byte("a")
                               ELSE IF p = 24 THEN {<<"num", 8>>} ELSE Zero])
  BY FunctionIsSeq DEF Bytes
<1>5. GcmP!ByteAssumption
  BY <1>1, <1>2, <1>3, <1>4 DEF GcmP!ByteAssumption, GcmIvs, GcmMessages, GcmAads
<1>6. GcmP!LengthAssumption
  <2>1. GcmP!Block * (5 - 2) = 48
    BY DEF GcmP!Block
  <2>2. ASSUME NEW m \in GcmMessages PROVE Len(m) <= 48
    <3>1. Len(m) = 0 \/ Len(m) = 17
      BY <1>2, <1>4 DEF GcmMessages
    <3>2. 0 <= 48 /\ 17 <= 48
      OBVIOUS
    <3> QED BY <3>1, <3>2
  <2> QED BY <2>1, <2>2 DEF GcmP!LengthAssumption
<1>7. GcmP!GhashLowAssumption
  <2>1. ASSUME NEW k, NEW s PROVE MCGhashLow(k, s) \in 0..(5 - 1)
    <3>1. PICK n : n = Len(s)
      OBVIOUS
    <3>2. (IF n \in 1..4 THEN 5 - n ELSE 0) \in 0..(5 - 1)
      OBVIOUS
    <3> QED BY <3>1, <3>2 DEF MCGhashLow
  <2> QED BY <2>1 DEF GcmP!GhashLowAssumption
<1>8. GcmP!WAssumption /\ GcmP!BoundAssumption /\ GcmP!KeyAssumption
  BY KeyAssumption DEF GcmP!WAssumption, GcmP!BoundAssumption, GcmP!KeyAssumption
<1> QED BY <1>5, <1>6, <1>7, <1>8

LEMMA EaxAssumption == EaxP!ByteMessages
<1>1. /\ IsSeq(<<>>) /\ IsSeq(ShortAad) /\ IsSeq(ShortAad \o ShortAad)
  BY DEF IsSeq, ShortAad
<1> QED BY <1>1 DEF EaxP!ByteMessages, EaxP!IsSeq, IsSeq, EaxMessages

-----------------------------------------------------------------------------
\* The invariant of whichever mode it is.
AnyInv ==
    /\ service \in {"CCM", "CCM call", "GCM", "EAX"}
    /\ service = "CCM call" => AeadInv
    /\ service = "CCM" => TwoP!AeadInv
    /\ service = "GCM" => GcmP!AeadInv
    /\ service = "EAX" => EaxP!Inv

LEMMA InitAny == AnyInit => AnyInv /\ Service!Init
<1> SUFFICES ASSUME AnyInit PROVE AnyInv /\ Service!Init
  OBVIOUS
<1>1. ASSUME service \in {"CCM", "CCM call"}, Init
      PROVE  AnyInv /\ Service!Init
  <2>1. AeadInv
    BY <1>1, InitAead
  <2>2. TwoP!AeadInv
    BY <1>1, SameTwo, TwoAssumptions, TwoP!InitAead
  <2>3. ServiceAnswer = answer
    BY <1>1 DEF ServiceAnswer
  <2>4. Service!Init
    BY <1>1, <2>3 DEF Init, Service!Init, A!NoAnswer, Service!NoAnswer
  <2> QED BY <1>1, <2>1, <2>2, <2>4 DEF AnyInv
<1>2. ASSUME service = "GCM", Gcm!Init
      PROVE  AnyInv /\ Service!Init
  <2>1. GcmP!AeadInv
    BY <1>2, SameGcm, GcmAssumptions, GcmP!InitAead
  <2>2. ServiceAnswer = answer
    BY <1>2 DEF ServiceAnswer
  <2>3. Service!Init
    BY <1>2, <2>2 DEF Gcm!Init, Service!Init, Gcm!A!NoAnswer, Service!NoAnswer
  <2> QED BY <1>2, <2>1, <2>3 DEF AnyInv
<1>3. ASSUME service = "EAX", Eax!Init
      PROVE  AnyInv /\ Service!Init
  <2>1. EaxP!Inv
    BY <1>3, SameEax, EaxAssumption, EaxP!InitInv
  <2>2. ServiceAnswer = Eax!Outcome
    BY <1>3 DEF ServiceAnswer
  <2>3. Eax!Outcome = Service!NoAnswer
    <3>1. answer = Service!NoAnswer /\ Service!NoAnswer.ret = 0
      BY <1>3 DEF Eax!Init, Eax!A!NoAnswer, Service!NoAnswer
    <3>2. Eax!Outcome = [Service!NoAnswer EXCEPT !.ret = 0]
      BY <3>1 DEF Eax!Outcome
    <3> QED BY <3>2, EaxP!AnswerWithRet DEF Service!NoAnswer
  <2>4. Service!Init
    BY <1>3, <2>2, <2>3 DEF Eax!Init, Service!Init
  <2> QED BY <1>3, <2>1, <2>4 DEF AnyInv
<1> QED BY <1>1, <1>2, <1>3 DEF AnyInit

\* A step of the service of one mode is a step of the service.
LEMMA StepOfService ==
    ASSUME UNCHANGED service, service # "EAX", [A!Next]_<<sealed, answer>>
    PROVE  [Service!Next]_<<sealed, ServiceAnswer>>
<1>1. ServiceAnswer = answer /\ ServiceAnswer' = answer'
  BY DEF ServiceAnswer
<1>2. A!Seal => Service!Seal
  BY <1>1 DEF A!Seal, Service!Seal, A!SameInputs, Service!SameInputs, A!Record, Service!Record
<1>3. A!Open => Service!Open
  BY <1>1 DEF A!Open, Service!Open, A!SameInputs, Service!SameInputs
<1>4. A!Refuse => Service!Refuse
  BY <1>1 DEF A!Refuse, Service!Refuse
<1> QED BY <1>1, <1>2, <1>3, <1>4 DEF A!Next, Service!Next

LEMMA StepOfEax ==
    ASSUME UNCHANGED service, service = "EAX", [EaxP!A!Next]_<<sealed, EaxP!Outcome>>
    PROVE  [Service!Next]_<<sealed, ServiceAnswer>>
<1>1. ServiceAnswer = EaxP!Outcome /\ ServiceAnswer' = EaxP!Outcome'
  BY SameEax DEF ServiceAnswer, EaxP!Outcome, Eax!Outcome
<1>2. EaxP!A!Seal => Service!Seal
  BY <1>1 DEF EaxP!A!Seal, Service!Seal, EaxP!A!SameInputs, Service!SameInputs,
       EaxP!A!Record, Service!Record
<1>3. EaxP!A!Open => Service!Open
  BY <1>1 DEF EaxP!A!Open, Service!Open, EaxP!A!SameInputs, Service!SameInputs
<1>4. EaxP!A!Refuse => Service!Refuse
  BY <1>1 DEF EaxP!A!Refuse, Service!Refuse
<1> QED BY <1>1, <1>2, <1>3, <1>4 DEF EaxP!A!Next, Service!Next

LEMMA NextAny ==
    ASSUME AnyInv, [AnyNext]_anyVars
    PROVE  AnyInv' /\ [Service!Next]_<<sealed, ServiceAnswer>>
<1>1. UNCHANGED service
  BY DEF AnyNext, anyVars
<1>2. CASE service = "CCM call"
  <2>1. [Next]_vars
    BY <1>2 DEF AnyNext, anyVars
  <2> QED BY <1>1, <1>2, <2>1, NextAead, StepOfService DEF AnyInv
<1>3. CASE service = "CCM"
  <2>1. [CcmTwo!Next]_vars
    BY <1>3 DEF AnyNext, anyVars
  <2>2. [TwoP!Next]_TwoP!vars
    BY <2>1, SameTwo DEF vars, TwoP!vars
  <2>3. TwoP!AeadInv' /\ [TwoP!A!Next]_<<sealed, answer>>
    BY <1>3, <2>2, TwoP!NextAead, TwoAssumptions DEF AnyInv
  <2> QED BY <1>1, <1>3, <2>3, SameTwo, StepOfService DEF AnyInv
<1>4. CASE service = "GCM"
  <2>1. [GcmP!Next]_GcmP!vars
    BY <1>4, SameGcm DEF AnyNext, anyVars, vars, gcmOnly, GcmP!vars
  <2>2. GcmP!AeadInv' /\ [GcmP!A!Next]_<<sealed, answer>>
    BY <1>4, <2>1, GcmP!NextAead, GcmAssumptions DEF AnyInv
  <2> QED BY <1>1, <1>4, <2>2, SameGcm, StepOfService DEF AnyInv
<1>5. CASE service = "EAX"
  <2>1. [EaxP!Next]_EaxP!vars
    BY <1>5, SameEax DEF AnyNext, anyVars, vars, eaxOnly, EaxP!vars
  <2>2. EaxP!Inv' /\ [EaxP!A!Next]_<<sealed, EaxP!Outcome>>
    BY <1>5, <2>1, EaxP!NextInv DEF AnyInv
  <2> QED BY <1>1, <1>5, <2>2, StepOfEax DEF AnyInv
<1> QED BY <1>2, <1>3, <1>4, <1>5 DEF AnyInv

-----------------------------------------------------------------------------
\* One call of CCM, for every set of keys, nonces, messages, aads and tag lengths,
\* never gives the cipher the same block twice (aes_ccm_auth_start, aes_ccm_encr).
THEOREM CcmFresh == AnySpec => []CcmKeystreamFresh
<1>1. AnyInv => CcmKeystreamFresh
  BY FreshFromInv DEF AnyInv, AeadInv, CcmKeystreamFresh
<1>2. AnyInit => AnyInv
  BY InitAny
<1>3. AnyInv /\ [AnyNext]_anyVars => AnyInv'
  BY NextAny
<1> QED BY <1>1, <1>2, <1>3, PTL DEF AnySpec

\* The output of CCM is the input under the right blocks, as far as it has got, and
\* a context is live exactly while it is made (aes_ccm_ae, aes_ccm_ad).
THEOREM CcmCorrect == AnySpec => []CcmOutputCorrect
<1>1. AnyInv => CcmOutputCorrect
  BY SameTwo DEF AnyInv, AeadInv, Inv, TwoP!AeadInv, TwoP!Inv, CcmOutputCorrect
<1>2. AnyInit => AnyInv
  BY InitAny
<1>3. AnyInv /\ [AnyNext]_anyVars => AnyInv'
  BY NextAny
<1> QED BY <1>1, <1>2, <1>3, PTL DEF AnySpec

\* Wherever a call of EAX runs out of memory, the caller's buffer holds what the
\* answer says and the temporary one is freed (aes_128_eax_encrypt,
\* aes_128_eax_decrypt).
THEOREM EaxCorrect == AnySpec => []EaxBuffers
<1>1. AnyInv => EaxBuffers
  BY SameEax, EaxP!BufferFromInv DEF AnyInv, EaxBuffers
<1>2. AnyInit => AnyInv
  BY InitAny
<1>3. AnyInv /\ [AnyNext]_anyVars => AnyInv'
  BY NextAny
<1> QED BY <1>1, <1>2, <1>3, PTL DEF AnySpec

\* GCM, CCM and EAX implement one abstract service of authenticated encryption.
THEOREM ServiceImplemented == AnySpec => AllImplementAead
<1>1. AnyInit => AnyInv /\ Service!Init
  BY InitAny
<1>2. AnyInv /\ [AnyNext]_anyVars => AnyInv' /\ [Service!Next]_<<sealed, ServiceAnswer>>
  BY NextAny
<1> QED BY <1>1, <1>2, PTL DEF AnySpec, AllImplementAead, Service!Spec, Service!vars
=============================================================================
