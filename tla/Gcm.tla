-------------------------------- MODULE Gcm ---------------------------------
(***************************************************************************)
(* aes_gcm_ae, aes_gcm_ad and aes_gmac (src/aes-gcm.c), one action per     *)
(* step of the functions they call.                                        *)
(*                                                                         *)
(* Data.  Bytes and the block cipher are those of Blocks.  A GHASH value   *)
(* is the polynomial in the hash subkey H that the code evaluates, kept as *)
(* its coefficients with the highest power first:                          *)
(* (y XOR block) * H appends a coefficient, and leading zero coefficients  *)
(* do not count.  Values that differ as polynomials are taken to differ.   *)
(* A counter block is a 96-bit base and a counter modulo W, 2^32 in the    *)
(* code.                                                                   *)
(***************************************************************************)
EXTENDS Blocks

CONSTANTS
    Keys,               \* the keys callers use
    KeyLen,             \* the key_len given with each of them
    Ivs, Messages, Aads,\* byte sequences callers use
    W,                  \* number of values of the 32-bit counter
    GhashLow(_, _),     \* the last 32 bits of a hashed IV, for a key and a hash
    MaxCalls            \* bound: calls made in a behaviour

\* A number as AES_PUT_BE64 stores it: eight bytes, one of which tells the
\* number apart from the others.
Be64(n) == [j \in 1..8 |-> IF j = 8 /\ n # 0 THEN {<<"num", n>>} ELSE Zero]

\* A polynomial without its leading zero coefficients.
Polynomial(c) ==
    LET nonzero == {i \in DOMAIN c : c[i] # ZeroBlock}
    IN  IF nonzero = {} THEN <<>>
        ELSE SubSeq(c, CHOOSE i \in nonzero : \A k \in nonzero : i <= k, Len(c))

ghash_start == <<>>
ghash(x, y) == Polynomial(y \o PaddedBlocks(x))

\* The counter of a block; its other 96 bits never change.
inc32(b) == [base |-> b.base, ctr |-> IF b.ctr = W - 1 THEN 0 ELSE b.ctr + 1]

\* The block 0^128, whose encryption is the hash subkey.
ZeroCounterBlock == [base |-> <<"iv", [j \in 1..12 |-> Zero]>>, ctr |-> 0]

\* Mutant: GHASH of a long IV without the block of its length.
HashedIv_nolength(iv) == ghash(iv, ghash_start)

HashedIv(iv) == ghash(Be64(0) \o Be64(8 * Len(iv)), ghash(iv, ghash_start))

\* A polynomial that is zero has the value 0^128 for every H.
aes_gcm_prepare_j0(key, iv) ==
    IF Len(iv) = 12
    THEN [base |-> <<"iv", iv>>, ctr |-> 1]
    ELSE IF HashedIv(iv) = <<>> THEN ZeroCounterBlock
    ELSE [base |-> <<"ghash", HashedIv(iv)>>, ctr |-> GhashLow(key, HashedIv(iv))]

aes_gcm_ghash(aad, crypt) ==
    ghash(Be64(8 * Len(aad)) \o Be64(8 * Len(crypt)),
          ghash(crypt, ghash(aad, ghash_start)))

-----------------------------------------------------------------------------
\* The counter and the counter block k increments after j0.
CtrAt(c, k) == IF c + k < W THEN c + k ELSE c + k - W
BlockAt(j0, k) == [base |-> j0.base, ctr |-> CtrAt(j0.ctr, k)]

\* Byte p of GCTR_key(inc32(j0), in), and the whole of it.
GctrByte(key, j0, in, p) ==
    Xor(Keystream(key, BlockAt(j0, 1 + (p - 1) \div Block), 1 + ((p - 1) % Block)), in[p])
Gctr(key, j0, in) == [p \in 1..Len(in) |-> GctrByte(key, j0, in, p)]

ASSUME WAssumption == W \in Nat /\ W > 2
ASSUME BoundAssumption == MaxCalls \in Nat
ASSUME KeyAssumption == \A k \in Keys : KeyLen[k] \in Nat
ASSUME ByteAssumption == \A x \in Ivs \cup Messages \cup Aads : IsSeq(x)
\* The limit of the GCM definition, 2^39 - 256 bits.  The code does not
\* check it: it is an obligation of the callers.
ASSUME LengthAssumption == \A m \in Messages : Len(m) <= Block * (W - 2)
ASSUME GhashLowAssumption ==
    \A k \in Keys, iv \in Ivs : GhashLow(k, HashedIv(iv)) \in 0..(W - 1)

-----------------------------------------------------------------------------
VARIABLES
    pc,         \* where the call in progress is
    call,       \* its arguments
    ctx,        \* live cipher contexts (aes_encrypt_init, aes_encrypt_deinit)
    J0, cb,     \* the first and the current counter block
    xpos,       \* bytes of the input that GCTR has consumed
    out,        \* the output buffer and the Block bytes behind it
    S,          \* the GHASH value
    T,          \* the tag computed
    calls,      \* calls made
    ecb,        \* history: the blocks encrypted by this call, in order
    sealed,     \* history: what calls of aes_gcm_ae returned
    answer      \* history: what the last call that returned has answered

vars == <<pc, call, ctx, J0, cb, xpos, out, S, T, calls, ecb, sealed, answer>>

\* The records sealed and the last answer are the state of the service.
A == INSTANCE Aead WITH sealed <- sealed, answer <- answer

NoBlock == [base |-> <<>>, ctr |-> 0]
NoCall == [op |-> "none", key |-> <<>>, iv |-> <<>>, in |-> <<>>, aad |-> <<>>, tag |-> <<>>]

Init ==
    /\ pc = "idle" /\ call = NoCall
    /\ ctx = 0
    /\ J0 = NoBlock /\ cb = NoBlock
    /\ xpos = 0
    /\ out = <<>>
    /\ S = <<>> /\ T = <<>>
    /\ calls = 0
    /\ ecb = <<>>
    /\ sealed = {}
    /\ answer = A!NoAnswer

\* A caller hands over its arguments and an output buffer of len(in) bytes.
Enter(c) ==
    /\ pc = "idle"
    /\ calls < MaxCalls
    /\ pc' = "init"
    /\ call' = c
    /\ J0' = NoBlock /\ cb' = NoBlock
    /\ xpos' = 0
    /\ out' = [p \in 1..(Len(c.in) + Block) |-> Untouched(p)]
    /\ S' = <<>> /\ T' = <<>>
    /\ calls' = calls + 1
    /\ ecb' = <<>>
    /\ UNCHANGED <<ctx, sealed, answer>>

CallAe(k, iv, m, a) ==
    Enter([op |-> "ae", key |-> k, iv |-> iv, in |-> m, aad |-> a, tag |-> <<>>])

\* aes_gmac is aes_gcm_ae of the empty message.
CallGmac(k, iv, a) ==
    Enter([op |-> "ae", key |-> k, iv |-> iv, in |-> <<>>, aad |-> a, tag |-> <<>>])

\* The ciphertexts a peer may present: those that were sealed and those of
\* any message under the key and iv of the call.
Crypts(k, iv) ==
    {r.crypt : r \in sealed}
    \cup {Gctr(k, aes_gcm_prepare_j0(k, iv), m) : m \in Messages}

\* Tags are those that were issued, with whatever else they arrive.
CallAd(k, iv, a) ==
    \E r \in sealed, c \in Crypts(k, iv) :
        Enter([op |-> "ad", key |-> k, iv |-> iv, in |-> c, aad |-> a, tag |-> r.tag])

\* What the caller can see when the call returns.
Return(ready, ret) ==
    /\ pc' = "idle"
    /\ answer' =
         LET result == SubSeq(out, 1, Len(call.in))
         IN  [op |-> call.op, key |-> call.key, iv |-> call.iv, aad |-> call.aad,
              plain |-> IF call.op = "ae" THEN call.in ELSE result,
              crypt |-> IF call.op = "ae" THEN result ELSE call.in,
              tag |-> IF call.op = "ae" THEN T ELSE call.tag,
              ready |-> ready, ret |-> ret]

\* aes_encrypt_init: no memory, or the key length is not supported.
InitFails ==
    /\ pc = "init"
    /\ Return(FALSE, -1)
    /\ UNCHANGED <<call, ctx, J0, cb, xpos, out, S, T, calls, ecb, sealed>>

\* aes_encrypt_init succeeds and H = AES_K(0^128).
InitHashSubkey ==
    /\ pc = "init"
    /\ KeyLen[call.key] \in SupportedKeyLens
    /\ pc' = "j0"
    /\ ctx' = ctx + 1
    /\ ecb' = Append(ecb, ZeroCounterBlock)
    /\ UNCHANGED <<call, J0, cb, xpos, out, S, T, calls, sealed, answer>>

PrepareJ0 ==
    /\ pc = "j0"
    /\ pc' = "gctr"
    /\ J0' = aes_gcm_prepare_j0(call.key, call.iv)
    /\ UNCHANGED <<call, ctx, cb, xpos, out, S, T, calls, ecb, sealed, answer>>

\* Mutant: GCTR of the message starts at J0.
GctrStart_noinc ==
    /\ pc = "gctr"
    /\ IF Len(call.in) = 0
       THEN pc' = "ghash" /\ UNCHANGED cb
       ELSE pc' = "blocks" /\ cb' = J0
    /\ UNCHANGED <<call, ctx, J0, xpos, out, S, T, calls, ecb, sealed, answer>>

\* aes_gcm_gctr: nothing for an empty input, otherwise GCTR from inc32(J0).
GctrStart ==
    /\ pc = "gctr"
    /\ IF Len(call.in) = 0
       THEN pc' = "ghash" /\ UNCHANGED cb
       ELSE pc' = "blocks" /\ cb' = inc32(J0)
    /\ UNCHANGED <<call, ctx, J0, xpos, out, S, T, calls, ecb, sealed, answer>>

\* The output bytes first..last become AES_K(cb) XOR input.
XorKeystream(first, last) ==
    out' = [p \in DOMAIN out |->
              IF p \in first..last
              THEN Xor(Keystream(call.key, cb, p - first + 1), call.in[p])
              ELSE out[p]]

GctrBlock ==
    /\ pc = "blocks"
    /\ xpos + Block <= Len(call.in)
    /\ XorKeystream(xpos + 1, xpos + Block)
    /\ ecb' = Append(ecb, cb)
    /\ xpos' = xpos + Block
    /\ cb' = inc32(cb)
    /\ UNCHANGED <<pc, call, ctx, J0, S, T, calls, sealed, answer>>

\* Mutant: the loop is left only through a partial block.
GctrLast_partialonly ==
    /\ pc = "blocks"
    /\ xpos + Block > Len(call.in)
    /\ xpos < Len(call.in)
    /\ XorKeystream(xpos + 1, Len(call.in))
    /\ ecb' = Append(ecb, cb)
    /\ xpos' = Len(call.in)
    /\ pc' = "ghash"
    /\ UNCHANGED <<call, ctx, J0, cb, S, T, calls, sealed, answer>>

\* The last, partial block, when there is one.
GctrLast ==
    /\ pc = "blocks"
    /\ xpos + Block > Len(call.in)
    /\ IF xpos < Len(call.in)
       THEN /\ XorKeystream(xpos + 1, Len(call.in))
            /\ ecb' = Append(ecb, cb)
       ELSE UNCHANGED <<out, ecb>>
    /\ xpos' = Len(call.in)
    /\ pc' = "ghash"
    /\ UNCHANGED <<call, ctx, J0, cb, S, T, calls, sealed, answer>>

Ghash ==
    /\ pc = "ghash"
    /\ pc' = "tag"
    /\ S' = aes_gcm_ghash(call.aad,
                          IF call.op = "ae" THEN SubSeq(out, 1, Len(call.in)) ELSE call.in)
    /\ UNCHANGED <<call, ctx, J0, cb, xpos, out, T, calls, ecb, sealed, answer>>

\* Mutant: the tag is masked with the block GCTR has arrived at.
Tag_running ==
    /\ pc = "tag"
    /\ pc' = "finish"
    /\ T' = <<call.key, cb, S>>
    /\ ecb' = Append(ecb, cb)
    /\ UNCHANGED <<call, ctx, J0, cb, xpos, out, S, calls, sealed, answer>>

\* aes_gctr(aes, J0, S, 16, tag): one block, S XOR AES_K(J0).
Tag ==
    /\ pc = "tag"
    /\ pc' = "finish"
    /\ T' = <<call.key, J0, S>>
    /\ ecb' = Append(ecb, J0)
    /\ UNCHANGED <<call, ctx, J0, cb, xpos, out, S, calls, sealed, answer>>

\* Mutant: the context is not freed.
FinishAe_leak ==
    /\ pc = "finish"
    /\ call.op = "ae"
    /\ Return(TRUE, 0)
    /\ sealed' = sealed \cup {A!Record(answer')}
    /\ UNCHANGED <<call, ctx, J0, cb, xpos, out, S, T, calls, ecb>>

\* The end of aes_gcm_ae.
FinishAe ==
    /\ pc = "finish"
    /\ call.op = "ae"
    /\ Return(TRUE, 0)
    /\ ctx' = ctx - 1
    /\ sealed' = sealed \cup {A!Record(answer')}
    /\ UNCHANGED <<call, J0, cb, xpos, out, S, T, calls, ecb>>

\* The end of aes_gcm_ad: the context is freed, then the tags are compared.
FinishAd ==
    /\ pc = "finish"
    /\ call.op = "ad"
    /\ Return(TRUE, IF call.tag = T THEN 0 ELSE -1)
    /\ ctx' = ctx - 1
    /\ UNCHANGED <<call, J0, cb, xpos, out, S, T, calls, ecb, sealed>>

Step ==
    \/ InitFails
    \/ InitHashSubkey
    \/ PrepareJ0
    \/ GctrStart
    \/ GctrBlock
    \/ GctrLast
    \/ Ghash
    \/ Tag
    \/ FinishAe
    \/ FinishAd

Next ==
    \/ \E k \in Keys, iv \in Ivs, a \in Aads :
         \/ \E m \in Messages : CallAe(k, iv, m, a)
         \/ CallGmac(k, iv, a)
         \/ CallAd(k, iv, a)
    \/ Step

Spec == Init /\ [][Next]_vars

\* A function that is running keeps running; nobody has to call one.
FairSpec == Spec /\ WF_vars(Step)

-----------------------------------------------------------------------------
Working == {"j0", "gctr", "blocks", "ghash", "tag", "finish"}

\* Every variable has its type; the output buffer keeps its size, and the
\* position in the input stays inside it.
TypeOK ==
    /\ pc \in {"idle", "init"} \cup Working
    /\ call.op \in {"none", "ae", "ad"}
    /\ IsSeq(call.in)
    /\ ctx \in Nat
    /\ calls \in 0..MaxCalls
    /\ J0 = [base |-> J0.base, ctr |-> J0.ctr] /\ J0.ctr \in 0..(W - 1)
    /\ cb = [base |-> cb.base, ctr |-> cb.ctr] /\ cb.ctr \in 0..(W - 1)
    /\ xpos \in 0..Len(call.in)
    /\ pc # "idle" => Len(out) = Len(call.in) + Block
    /\ IsSeq(out) /\ IsSeq(ecb)

\* The first block of a call and the one that masks the tag.
MasksWithSubkey(i, k) == {i, k} = {1, Len(ecb)} /\ ecb[i] = ZeroCounterBlock

\* No block is encrypted twice by one call: the blocks of the keystream, the
\* block J0 that masks the tag and the zero block that makes the hash subkey
\* are all different, also when the 32-bit counter wraps, if the iv has a byte,
\* as the GCM definition demands and the code does not check.  With an empty
\* iv the zero block comes back as J0, for the tag, and no other block does
\* (aes_gctr, inc32, aes_gcm_init_hash_subkey, aes_gcm_prepare_j0).
KeystreamFresh ==
    \A i, k \in 1..Len(ecb) :
        ecb[i] = ecb[k] => i = k \/ (call.iv = <<>> /\ MasksWithSubkey(i, k))

\* The bytes GCTR has produced are the input under the keystream of inc32(J0)
\* onwards, and it has not touched a byte behind them, in or after the
\* caller's buffer; a call that ends early has touched none (aes_gctr,
\* aes_gcm_gctr, and the order of the steps in aes_gcm_ae and aes_gcm_ad).
GctrCorrect ==
    \A p \in DOMAIN out :
        out[p] = IF p <= xpos THEN GctrByte(call.key, J0, call.in, p) ELSE Untouched(p)

\* The context is live wherever the code encrypts with it, and every way out
\* of a call leaves none behind (aes_encrypt_init, aes_encrypt_deinit).
ContextBalanced == ctx = IF pc \in Working THEN 1 ELSE 0

\* The calls keep the promise of authenticated encryption: a tag belongs to
\* one key, iv, aad and ciphertext, and opening succeeds exactly for what was
\* sealed (aes_gcm_ae, aes_gcm_ad).
ImplementsAead == A!Spec

\* Every call returns.
Returns == (pc # "idle") ~> (pc = "idle")
=============================================================================
