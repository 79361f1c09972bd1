------------------------------ MODULE KeyWrap -------------------------------
(***************************************************************************)
(* aes_wrap (src/aes-wrap.c) and aes_unwrap (src/aes-unwrap.c), one action *)
(* per step of the 6 * n, and a peer that may change what was wrapped.     *)
(*                                                                         *)
(* Data.  A block is a pair of numbers, its 64-bit halves; the least byte  *)
(* of a half has ByteVals values, 256 in the code, and a half has more.    *)
(* The block cipher is any permutation of blocks.                          *)
(***************************************************************************)
EXTENDS Words, Sequences

CONSTANTS
    SecretKeys,     \* the keys that are wrapped: sequences of n halves
    Half,           \* the values of a half: 0..255 here, 64 bits in the code
    ByteVals,       \* number of values of the least byte of a half
    Encrypt(_, _), Decrypt(_, _)    \* the halves of a block to a block

\* What is asked of the cipher: the two functions undo each other.
IsCipher ==
    \A x, y \in Half :
        /\ Encrypt(x, y) \in Half \X Half /\ Decrypt(x, y) \in Half \X Half
        /\ Decrypt(Encrypt(x, y)[1], Encrypt(x, y)[2]) = <<x, y>>
        /\ Encrypt(Decrypt(x, y)[1], Decrypt(x, y)[2]) = <<x, y>>

Iv == 166

\* And of the callers: what is added to a half gives a half, and there is a key.
Inputs ==
    /\ IsCipher
    /\ ByteVals \in 2..256 /\ Half \subseteq Byte /\ Iv \in Half
    /\ \A x \in Half, t \in 0..(ByteVals - 1) : XorByte(x, t) \in Half
    /\ \A k \in SecretKeys : k \in Seq(Half) /\ k # <<>>

VARIABLES
    pc,         \* where the call in progress is
    key,        \* the key to be wrapped
    cipher,     \* the buffer for the wrapped key: A and R[1] .. R[n]
    plain,      \* the buffer for the unwrapped key
    a,          \* A in aes_unwrap, which keeps it in a variable
    j, i,       \* the loop counters
    ctx,        \* live cipher contexts
    ret,        \* what the last call returned
    wrapped     \* history: what the last successful aes_wrap has returned

vars == <<pc, key, cipher, plain, a, j, i, ctx, ret, wrapped>>

n == Len(key)
Nothing == <<>>

\* Mutant: the steps are counted from zero.
StepByte_zero == (n * j + i - 1) % ByteVals

\* n * j + i as it is added to one byte of A.
StepByte == (n * j + i) % ByteVals

Init ==
    /\ pc = "idle"
    /\ key \in SecretKeys
    /\ cipher = Nothing /\ plain = Nothing /\ wrapped = Nothing
    /\ a = Iv /\ j = 0 /\ i = 0 /\ ctx = 0 /\ ret = 0

\* The key is copied before anything can fail.
Wrap ==
    /\ pc = "idle" /\ wrapped = Nothing
    /\ pc' = "wrap_init"
    /\ cipher' = <<Iv>> \o key
    /\ UNCHANGED <<key, plain, a, j, i, ctx, ret, wrapped>>

\* The peer gets what was wrapped, or something that differs in one half.
Unwrap ==
    /\ pc \in {"idle", "unwrapped"} /\ wrapped # Nothing
    /\ pc' = "unwrap_init"
    /\ \/ cipher' = wrapped
       \/ \E p \in DOMAIN wrapped : cipher' = [wrapped EXCEPT ![p] = XorByte(@, 1)]
    /\ a' = cipher'[1]
    /\ plain' = Tail(cipher')
    /\ UNCHANGED <<key, j, i, ctx, ret, wrapped>>

InitFails ==
    /\ pc \in {"wrap_init", "unwrap_init"}
    /\ pc' = "idle" /\ ret' = -1
    /\ UNCHANGED <<key, cipher, plain, a, j, i, ctx, wrapped>>

WrapInit ==
    /\ pc = "wrap_init"
    /\ pc' = "wrap" /\ j' = 0 /\ i' = 1
    /\ ctx' = ctx + 1
    /\ UNCHANGED <<key, cipher, plain, a, ret, wrapped>>

WrapStep ==
    /\ pc = "wrap" /\ j <= 5
    /\ LET B == Encrypt(cipher[1], cipher[i + 1])
       IN  cipher' = [cipher EXCEPT ![1] = XorByte(B[1], StepByte), ![i + 1] = B[2]]
    /\ IF i < n THEN i' = i + 1 /\ UNCHANGED j ELSE i' = 1 /\ j' = j + 1
    /\ UNCHANGED <<pc, key, plain, a, ctx, ret, wrapped>>

WrapReturn ==
    /\ pc = "wrap" /\ j > 5
    /\ pc' = "idle" /\ ret' = 0
    /\ ctx' = ctx - 1
    /\ wrapped' = cipher
    /\ UNCHANGED <<key, cipher, plain, a, j, i>>

UnwrapInit ==
    /\ pc = "unwrap_init"
    /\ pc' = "unwrap" /\ j' = 5 /\ i' = n
    /\ ctx' = ctx + 1
    /\ UNCHANGED <<key, cipher, plain, a, ret, wrapped>>

\* Mutant: the halves are taken in the order they were wrapped in.
Place_forward == n + 1 - i

Place == i

UnwrapStep ==
    /\ pc = "unwrap" /\ j >= 0
    /\ LET B == Decrypt(XorByte(a, StepByte), plain[Place])
       IN  a' = B[1] /\ plain' = [plain EXCEPT ![Place] = B[2]]
    /\ IF i > 1 THEN i' = i - 1 /\ UNCHANGED j ELSE i' = n /\ j' = j - 1
    /\ UNCHANGED <<pc, key, cipher, ctx, ret, wrapped>>

Verified == a = Iv

UnwrapReturn ==
    /\ pc = "unwrap" /\ j < 0
    /\ pc' = "unwrapped"
    /\ ret' = IF Verified THEN 0 ELSE -1
    /\ ctx' = ctx - 1
    /\ UNCHANGED <<key, cipher, plain, a, j, i, wrapped>>

Next ==
    \/ Wrap \/ Unwrap
    \/ InitFails
    \/ WrapInit \/ WrapStep \/ WrapReturn
    \/ UnwrapInit \/ UnwrapStep \/ UnwrapReturn

Spec == Init /\ [][Next]_vars

-----------------------------------------------------------------------------
\* Every variable has its type, the loops stay inside the buffers, and a context
\* is live exactly while a call works with it.
TypeOK ==
    /\ pc \in {"idle", "wrap_init", "wrap", "unwrap_init", "unwrap", "unwrapped"}
    /\ cipher = Nothing \/ cipher \in [1..(n + 1) -> Half]
    /\ plain = Nothing \/ plain \in [1..n -> Half]
    /\ a \in Half
    /\ ctx = IF pc \in {"wrap", "unwrap"} THEN 1 ELSE 0
    /\ j \in -1..6 /\ i \in 0..n

\* Key wrapping as the comment in aes_wrap and RFC 3394 define it, for a counter
\* t = 1 .. 6 * n that is added to A modulo limit: step t, and all of them.
WrapT(k, limit, c, t) ==
    LET p == 2 + ((t - 1) % Len(k))
        B == Encrypt(c[1], c[p])
    IN  [c EXCEPT ![1] = XorByte(B[1], t % limit), ![p] = B[2]]

Wrapping(k, limit) ==
    LET after[t \in 0..(6 * Len(k))] ==
            IF t = 0 THEN <<Iv>> \o k ELSE WrapT(k, limit, after[t - 1], t)
    IN  after[6 * Len(k)]

\* A wrapped key is the one the definition gives, wherever the counter fits into
\* a byte (aes_wrap).
WrapIsStandard ==
    wrapped # Nothing /\ 6 * n < ByteVals => wrapped = Wrapping(key, 256)

\* "A = MSB(64, B) ^ t where t = (n*j)+i" for keys of any length (aes_wrap).  The
\* code adds t to one byte.
WrapIsStandardAlways == wrapped # Nothing => wrapped = Wrapping(key, 256)

\* aes_unwrap that answers 0 has found the key whose wrapping it was given, be it
\* the one that was wrapped or not; and what aes_wrap made is accepted whatever
\* the length of the key.
AcceptsWrapped ==
    pc = "unwrapped" =>
        (ret = 0 <=> Wrapping(plain, ByteVals) = cipher)

\* aes_unwrap gives back the key that aes_wrap was given.
RoundTrip ==
    pc = "unwrapped" /\ cipher = wrapped =>
        plain = key /\ ret = 0
=============================================================================
