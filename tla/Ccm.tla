-------------------------------- MODULE Ccm ---------------------------------
(***************************************************************************)
(* aes_ccm_ae and aes_ccm_ad (src/aes-ccm.c).                              *)
(*                                                                         *)
(* Data.  The blocks B_0 and A_i that the code builds from flags, nonce    *)
(* and a 16-bit number are records, the bytes are those of Blocks.  The    *)
(* CBC-MAC x is kept as the blocks that went into it; a tag is named by    *)
(* what it is made of: its length M, the block that masks it and x.        *)
(***************************************************************************)
EXTENDS Blocks

CONSTANTS
    Keys, KeyLen,               \* the keys callers use, and their lengths
    Nonces, Messages, Aads,     \* byte sequences callers use
    TagLens,                    \* the tag lengths M they ask for
    W,                          \* number of values of a 16-bit number
    MaxCalls                    \* bound: calls made in a behaviour

\* The lengths of the CCM definition, which the code leaves to its callers: an
\* M it accepts is 4, 6, .. 16, and a message is shorter than 2^16 bytes.
ASSUME TagLenAssumption ==
    \A M \in TagLens : M \in Nat /\ (M <= Block => M \in {4, 6, 8, 10, 12, 14, 16})
ASSUME LengthAssumption == \A m \in Messages : Len(m) < W
ASSUME BoundAssumption == MaxCalls \in Nat
\* W is 2^16 in the code, which takes an aad of at most 30 bytes.
ASSUME WAssumption == W \in Nat /\ W > 30
ASSUME ByteAssumption == \A m \in Messages \cup Aads : IsSeq(m)

VARIABLES
    pc,         \* where the call in progress is
    call,       \* its arguments
    ctx,        \* live cipher contexts
    done,       \* bytes of the input encrypted or decrypted
    out,        \* the output buffer and the Block bytes behind it
    x,          \* the CBC-MAC
    auth,       \* the tag the caller passes, or gets
    calls,      \* calls made
    ecb,        \* history: the blocks B_0 and A_i encrypted by this call
    sealed,     \* history: what calls of aes_ccm_ae returned
    answer      \* history: what the last call that returned has answered

vars == <<pc, call, ctx, done, out, x, auth, calls, ecb, sealed, answer>>

A == INSTANCE Aead WITH sealed <- sealed, answer <- answer

L == 2
NoTag == <<>>
NoCall == [op |-> "none", key |-> <<>>, nonce |-> <<>>, M |-> 0, in |-> <<>>, aad |-> <<>>]

\* AES_PUT_BE16, with a byte that tells the number apart from others.
Be16(n) == <<Zero, {<<"num", n % W>>}>>

\* Mutant: the flags of B_0 leave M out.
Flags_nolength(M, aad) == (IF aad = <<>> THEN 0 ELSE 64) + L - 1

Flags(M, aad) == (IF aad = <<>> THEN 0 ELSE 64) + 8 * ((M - 2) \div 2) + L - 1

B0(c) == [flags |-> Flags(c.M, c.aad), nonce |-> c.nonce, n |-> Len(c.in) % W]
Ai(c, i) == [flags |-> L - 1, nonce |-> c.nonce, n |-> i % W]

\* Mutant: the aad without its length.
AadBlocks_nolength(aad) == PaddedBlocks(aad)

\* The aad behind its length fills one block, or two.
AadBlocks(aad) == IF aad = <<>> THEN <<>> ELSE PaddedBlocks(Be16(Len(aad)) \o aad)

Init ==
    /\ pc = "idle" /\ call = NoCall
    /\ ctx = 0 /\ done = 0
    /\ out = <<>> /\ x = <<>> /\ auth = NoTag
    /\ calls = 0 /\ ecb = <<>>
    /\ sealed = {} /\ answer = A!NoAnswer

Enter(c, t) ==
    /\ pc = "idle" /\ calls < MaxCalls
    /\ pc' = "init"
    /\ call' = c
    /\ done' = 0 /\ x' = <<>> /\ ecb' = <<>>
    /\ out' = [p \in 1..(Len(c.in) + Block) |-> Untouched(p)]
    /\ auth' = t
    /\ calls' = calls + 1
    /\ UNCHANGED <<ctx, sealed, answer>>

CallAe(k, n, M, a) ==
    \E m \in Messages :
        Enter([op |-> "ae", key |-> k, nonce |-> n, M |-> M, in |-> m, aad |-> a], NoTag)

CtrByte(c, in, p) ==
    Xor(Keystream(c.key, Ai(c, 1 + (p - 1) \div Block), 1 + ((p - 1) % Block)), in[p])
CtrOf(c, in) == [p \in 1..Len(in) |-> CtrByte(c, in, p)]

\* A peer presents a tag of length M that was issued, and a ciphertext that was
\* or that some message has under the nonce.
CallAd(k, n, M, a) ==
    \E r \in sealed, m \in Messages :
        LET c == [op |-> "ad", key |-> k, nonce |-> n, M |-> M, in |-> m, aad |-> a]
        IN  /\ r.iv[2] = M
            /\ \/ Enter([c EXCEPT !.in = r.crypt], r.tag)
               \/ Enter([c EXCEPT !.in = CtrOf(c, m)], r.tag)

Return(ready, ret) ==
    /\ pc' = "idle"
    /\ answer' =
         LET result == SubSeq(out, 1, Len(call.in))
         IN  [op |-> call.op, key |-> call.key, iv |-> <<call.nonce, call.M>>,
              aad |-> call.aad,
              plain |-> IF call.op = "ae" THEN call.in ELSE result,
              crypt |-> IF call.op = "ae" THEN result ELSE call.in,
              tag |-> auth', ready |-> ready, ret |-> ret]

TooLong == Len(call.aad) > 30 \/ call.M > Block

\* The arguments are refused, or aes_encrypt_init fails.
InitFails ==
    /\ pc = "init"
    /\ UNCHANGED <<call, ctx, done, out, x, auth, calls, ecb, sealed>>
    /\ Return(FALSE, -1)

\* To open, the tag is unmasked first (aes_ccm_decr_auth).
InitSucceeds ==
    /\ pc = "init" /\ ~TooLong
    /\ KeyLen[call.key] \in SupportedKeyLens
    /\ ctx' = ctx + 1
    /\ IF call.op = "ae" THEN pc' = "auth" /\ UNCHANGED ecb
       ELSE pc' = "encr" /\ ecb' = Append(ecb, Ai(call, 0))
    /\ UNCHANGED <<call, done, out, x, auth, calls, sealed, answer>>

\* aes_ccm_auth_start and aes_ccm_auth of the plaintext.
Authenticate ==
    /\ pc = "auth"
    /\ pc' = IF call.op = "ae" THEN "encr" ELSE "tag"
    /\ x' = <<B0(call)>> \o AadBlocks(call.aad)
            \o PaddedBlocks(IF call.op = "ae" THEN call.in ELSE SubSeq(out, 1, Len(call.in)))
    /\ ecb' = Append(ecb, B0(call))
    /\ UNCHANGED <<call, ctx, done, out, auth, calls, sealed, answer>>

\* Mutant: blocks are counted from 0.
Counter_zero == done \div Block

\* The number of the next block.
Counter == 1 + done \div Block

\* S_i is put into the next Block bytes of the output, and len bytes of the input
\* are added to it.
Encrypt(len) ==
    LET a == Ai(call, Counter)
        S(p) == Keystream(call.key, a, p - done)
    IN  /\ ecb' = Append(ecb, a)
        /\ out' = [p \in DOMAIN out |->
                     IF p \in (done + 1)..(done + len) THEN Xor(S(p), call.in[p])
                     ELSE IF p \in (done + 1)..(done + Block) THEN S(p)
                     ELSE out[p]]
        /\ done' = done + len

EncryptBlock ==
    /\ pc = "encr"
    /\ done + Block <= Len(call.in)
    /\ Encrypt(Block)
    /\ UNCHANGED <<pc, call, ctx, x, auth, calls, sealed, answer>>

\* The last, partial block, when there is one, and what comes behind the data.
EncryptLast ==
    /\ pc = "encr"
    /\ done + Block > Len(call.in)
    /\ IF done < Len(call.in) THEN Encrypt(Len(call.in) - done)
       ELSE UNCHANGED <<done, out, ecb>>
    /\ pc' = IF call.op = "ae" THEN "tag" ELSE "auth"
    /\ UNCHANGED <<call, ctx, x, auth, calls, sealed, answer>>

\* The first M bytes of x XOR S_0.
TagOf == <<call.M, call.key, Ai(call, 0), x>>

\* aes_ccm_encr_auth and the end of aes_ccm_ae.
FinishAe ==
    /\ pc = "tag" /\ call.op = "ae"
    /\ auth' = TagOf
    /\ ecb' = Append(ecb, Ai(call, 0))
    /\ ctx' = ctx - 1
    /\ UNCHANGED <<call, done, out, x, calls>>
    /\ Return(TRUE, 0)
    /\ sealed' = sealed \cup {A!Record(answer')}

\* The end of aes_ccm_ad.  auth XOR S_0 equals x in its first M bytes when auth is
\* the tag.
FinishAd ==
    /\ pc = "tag" /\ call.op = "ad"
    /\ ctx' = ctx - 1
    /\ UNCHANGED <<call, done, out, x, auth, calls, ecb, sealed>>
    /\ Return(TRUE, IF auth = TagOf THEN 0 ELSE -1)

Next ==
    \/ \E k \in Keys, n \in Nonces, M \in TagLens, a \in Aads :
         CallAe(k, n, M, a) \/ CallAd(k, n, M, a)
    \/ InitFails
    \/ InitSucceeds
    \/ Authenticate
    \/ EncryptBlock
    \/ EncryptLast
    \/ FinishAe
    \/ FinishAd

Spec == Init /\ [][Next]_vars

-----------------------------------------------------------------------------
\* A call never gives the cipher the same block twice: the counter blocks differ
\* from each other, from A_0, which masks the tag, and by the flags from B_0, on
\* whatever tag length and aad (aes_ccm_auth_start, aes_ccm_encr).
KeystreamFresh == \A i, k \in 1..Len(ecb) : ecb[i] = ecb[k] => i = k

\* The output is the input under the blocks A_1, A_2, ..., as far as it has got
\* (aes_ccm_encr).
OutputCorrect ==
    \A p \in 1..Len(call.in) :
        p <= Len(out) => out[p] = IF p <= done THEN CtrByte(call, call.in, p)
                                  ELSE Untouched(p)

\* "crypt = msg XOR (S_1 | S_2 | ... | S_n)" and nothing else: no byte behind the
\* output is written (aes_ccm_encr).  The code writes whole blocks.
OutputInside == \A p \in DOMAIN out : p > Len(call.in) => out[p] = Untouched(p)

\* The context is live while a call encrypts with it, and every way out of a call
\* leaves none behind.
ContextBalanced == ctx = IF pc \in {"idle", "init"} THEN 0 ELSE 1

\* The calls keep the promise of authenticated encryption, with the tag length as
\* a part of the nonce (aes_ccm_ae, aes_ccm_ad).
ImplementsAead == A!Spec
=============================================================================
