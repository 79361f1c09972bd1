------------------------------- MODULE MCAead -------------------------------
(***************************************************************************)
(* The three modes of authenticated encryption, one of them at a time, as  *)
(* one abstract service.  Sessions of two calls (three for EAX, any of     *)
(* which may fail and be tried again) have inputs that resemble each       *)
(* other: zero bytes and trailing zeros, an aad that holds the padded      *)
(* blocks GHASH would see for a shorter one, nonces, headers and messages  *)
(* that are equal.  CCM besides makes one call with messages, aads, tags   *)
(* and keys of every length that matters; Gcm has a run of its own.        *)
(***************************************************************************)
EXTENDS Ccm

CONSTANTS k1, k2, kShort

VARIABLES
    service,                    \* the mode, "CCM call" for the one call
    J0, cb, xpos, S, T,         \* what Gcm has besides
    step, data, tag, buf, macs  \* what Eax has besides

ccmOnly == <<done, x, auth>>
gcmOnly == <<J0, cb, xpos, S, T>>
eaxOnly == <<step, data, tag, buf, macs>>

Bytes(name, n) == [p \in 1..n |-> {<<name, p>>}]
Zeros(n) == [p \in 1..n |-> Zero]
byte(name) == {<<name, 1>>}
ShortAad == <<byte("a")>>

MCKeyLen == [k \in {k1, k2, kShort} |-> IF k = kShort THEN 20 ELSE 16]

\* CCM, one call and two.
CallKeys == {k1, kShort}
CallNonces == {Bytes("n", 13), Zeros(13)}
CallMessages == {Bytes("m", n) : n \in {0, 1, 2, 3, 15, 16, 17, 32, 33}}
CallAads == {Bytes("a", n) : n \in {0, 1, 14, 15, 30, 31}}
CallTagLens == {4, 8, 16, 18}

TwoMessages == {Zeros(n) : n \in {0, 1, 2, 17}}
TwoAads == {Zeros(n) : n \in {0, 1, 2, 14, 15}}

CcmTwo == INSTANCE Ccm WITH
    Keys <- {k1}, Messages <- TwoMessages, Aads <- TwoAads, TagLens <- {4, 6},
    MaxCalls <- 2

\* GCM, with ivs that are hashed and one that is not.
GcmIvs == {[p \in 1..12 |-> byte("iv")], <<byte("iv")>>, <<byte("iv"), Zero>>}
GcmMessages == {<<>>, Bytes("m", 17)}
\* The last one is the first's padded block and the block of its length.
GcmAads == {<<>>, ShortAad, ShortAad \o <<Zero>>,
            [p \in 1..32 |-> IF p = 1 THEN byte("a")
                             ELSE IF p = 24 THEN {<<"num", 8>>} ELSE Zero]}
MCGhashLow(k, s) == IF Len(s) \in 1..4 THEN 5 - Len(s) ELSE 0

\* The lengths of the keys are those the callers pass.
ASSUME KeyAssumption == \A k \in {k1, k2, kShort} : KeyLen[k] \in Nat

Gcm == INSTANCE Gcm WITH
    Keys <- {k1, k2}, Ivs <- GcmIvs, Messages <- GcmMessages, Aads <- GcmAads,
    W <- 5, GhashLow <- MCGhashLow, MaxCalls <- 2

\* EAX.
EaxMessages == {<<>>, ShortAad, ShortAad \o ShortAad}

Eax == INSTANCE Eax WITH
    Keys <- {k1}, Nonces <- {<<>>, ShortAad}, Headers <- {<<>>, ShortAad},
    Messages <- EaxMessages, MaxCalls <- 3

CcmIdle == done = 0 /\ x = 0 /\ auth = 0
GcmIdle == J0 = 0 /\ cb = 0 /\ xpos = 0 /\ S = 0 /\ T = 0
EaxIdle == step = 0 /\ data = 0 /\ tag = 0 /\ buf = 0 /\ macs = 0

AnyInit ==
    \/ service \in {"CCM", "CCM call"} /\ Init /\ GcmIdle /\ EaxIdle
    \/ service = "GCM" /\ Gcm!Init /\ CcmIdle /\ EaxIdle
    \/ service = "EAX" /\ Eax!Init /\ CcmIdle /\ GcmIdle
       /\ pc = "idle" /\ ctx = 0 /\ out = 0 /\ ecb = <<>>

AnyNext ==
    \/ service = "CCM call" /\ Next /\ UNCHANGED <<service, gcmOnly, eaxOnly>>
    \/ service = "CCM" /\ CcmTwo!Next /\ UNCHANGED <<service, gcmOnly, eaxOnly>>
    \/ service = "GCM" /\ Gcm!Next /\ UNCHANGED <<service, ccmOnly, eaxOnly>>
    \/ service = "EAX" /\ Eax!Next
       /\ UNCHANGED <<service, ccmOnly, gcmOnly, pc, ctx, out, ecb>>

anyVars == <<service, vars, gcmOnly, eaxOnly>>

AnySpec == AnyInit /\ [][AnyNext]_anyVars

-----------------------------------------------------------------------------
ServiceAnswer == IF service = "EAX" THEN Eax!Outcome ELSE answer
Service == INSTANCE Aead WITH answer <- ServiceAnswer

\* All three keep the promise of authenticated encryption: a tag opens what it
\* was made for, whichever of the inputs have the same bytes, and nothing else
\* (aes_gcm_ae, aes_ccm_ae, aes_128_eax_encrypt and their counterparts).
AllImplementAead == Service!Spec

\* One call of CCM never gives the cipher the same block twice: the counter
\* blocks differ from each other, from A_0, which masks the tag, and by the flags
\* from B_0 (aes_ccm_auth_start, aes_ccm_encr).
CcmKeystreamFresh == service = "CCM call" => KeystreamFresh

\* The output of CCM is the input under the blocks A_1, A_2, ..., as far as it
\* has got, and a context is live while it is made (aes_ccm_ae, aes_ccm_ad).
CcmOutputCorrect == service \in {"CCM", "CCM call"} => OutputCorrect /\ ContextBalanced

\* Behind every call of EAX the caller's buffer holds what the answer says, and
\* the temporary buffer is freed.
EaxBuffers == service = "EAX" => Eax!BufferAsAnswered /\ Eax!BufferFreed

\* "crypt = msg XOR (S_1 | S_2 | ... | S_n)" and nothing else: no byte behind the
\* output of CCM is written (aes_ccm_encr).  The code writes whole blocks.
CcmOutputInside == service = "CCM call" => OutputInside
=============================================================================
