-------------------------------- MODULE Cbc ---------------------------------
(***************************************************************************)
(* aes_128_cbc_encrypt and aes_128_cbc_decrypt (src/aes-cbc.c), in place,  *)
(* and aes_128_encrypt_block (src/aes-encblock.c), which encrypts one      *)
(* block.  A block is a number and the block cipher any permutation.       *)
(***************************************************************************)
EXTENDS Words

CONSTANTS
    Datas,      \* data callers hand over: sequences of whole blocks
    Ivs,        \* initialisation vectors
    Encrypt,    \* the cipher, a function on blocks
    Decrypt     \* and its inverse

\* What is asked of the cipher: the two functions undo each other.
IsCipher ==
    /\ {Encrypt, Decrypt} \subseteq [DOMAIN Encrypt -> DOMAIN Encrypt]
    /\ \A b \in DOMAIN Encrypt : Decrypt[Encrypt[b]] = b /\ Encrypt[Decrypt[b]] = b

\* And of the callers: blocks can be added, and what is handed over is made of them.
Inputs ==
    /\ IsCipher
    /\ DOMAIN Encrypt \subseteq Byte
    /\ \A x, y \in DOMAIN Encrypt : XorByte(x, y) \in DOMAIN Encrypt
    /\ Ivs \subseteq DOMAIN Encrypt /\ \A d \in Datas : d \in Seq(DOMAIN Encrypt)

VARIABLES
    pc,         \* "idle", "init" or the function that runs
    op,         \* the function called last
    iv,         \* its iv
    given,      \* history: the data as it was handed over
    data,       \* the caller's buffer
    ctx,        \* live cipher contexts
    cbc,        \* the block the next one is chained to
    i,          \* blocks finished
    ret         \* what the last call returned

vars == <<pc, op, iv, given, data, ctx, cbc, i, ret>>

Init ==
    /\ pc = "idle" /\ op = "none"
    /\ iv \in Ivs
    /\ data \in Datas /\ given = data
    /\ ctx = 0 /\ cbc = iv /\ i = 0 /\ ret = 0

\* The caller's buffer is encrypted, decrypted, or its first block encrypted by
\* itself, whatever has been done to it before.
Call(f) ==
    /\ pc = "idle"
    /\ pc' = "init" /\ op' = f
    /\ given' = data
    /\ i' = 0
    /\ UNCHANGED <<iv, data, ctx, cbc, ret>>

InitFails ==
    /\ pc = "init"
    /\ pc' = "idle" /\ ret' = -1
    /\ UNCHANGED <<op, iv, given, data, ctx, cbc, i>>

InitSucceeds ==
    /\ pc = "init"
    /\ pc' = op
    /\ ctx' = ctx + 1 /\ cbc' = iv
    /\ UNCHANGED <<op, iv, given, data, i, ret>>

EncryptBlock ==
    /\ pc = "encrypt" /\ i < Len(data)
    /\ cbc' = Encrypt[XorByte(cbc, data[i + 1])]
    /\ data' = [data EXCEPT ![i + 1] = cbc']
    /\ i' = i + 1
    /\ UNCHANGED <<pc, op, iv, given, ctx, ret>>

\* Mutant: the ciphertext is put aside when it has been overwritten.
Chained_late == data'[i + 1]

\* The ciphertext, put aside before it is decrypted in place.
Chained == data[i + 1]

DecryptBlock ==
    /\ pc = "decrypt" /\ i < Len(data)
    /\ data' = [data EXCEPT ![i + 1] = XorByte(Decrypt[@], cbc)]
    /\ cbc' = Chained
    /\ i' = i + 1
    /\ UNCHANGED <<pc, op, iv, given, ctx, ret>>

SingleBlock ==
    /\ pc = "single" /\ i = 0 /\ data # <<>>
    /\ data' = [data EXCEPT ![1] = Encrypt[@]]
    /\ i' = 1
    /\ UNCHANGED <<pc, op, iv, given, ctx, cbc, ret>>

Return ==
    /\ pc \in {"encrypt", "decrypt", "single"}
    /\ i = IF pc = "single" /\ data # <<>> THEN 1 ELSE Len(data)
    /\ pc' = "idle" /\ ret' = 0
    /\ ctx' = ctx - 1
    /\ UNCHANGED <<op, iv, given, data, cbc, i>>

Next ==
    \/ \E f \in {"encrypt", "decrypt"} : Call(f)
    \/ data # <<>> /\ Call("single")
    \/ InitFails
    \/ InitSucceeds
    \/ EncryptBlock
    \/ DecryptBlock
    \/ SingleBlock
    \/ Return

Spec == Init /\ [][Next]_vars

-----------------------------------------------------------------------------
\* Every variable has its type, and a context is live exactly while blocks are
\* processed with it.
TypeOK ==
    /\ pc \in {"idle", "init", "encrypt", "decrypt", "single"}
    /\ Len(data) = Len(given) /\ i \in 0..Len(data)
    /\ \A p \in DOMAIN data : data[p] \in DOMAIN Encrypt
    /\ ctx = IF pc \in {"idle", "init"} THEN 0 ELSE 1

\* Block p of a text, the iv before the first.
Before(text, p) == IF p = 1 THEN iv ELSE text[p - 1]

\* As far as a call has got, and after it, the buffer holds CBC of what was handed
\* over, in either direction, and behind that what was handed over; so a call
\* that fails has changed nothing and decrypting gives back what was encrypted
\* (aes_128_cbc_encrypt, aes_128_cbc_decrypt).
CbcSoFar ==
    \A p \in DOMAIN data :
        IF p > i THEN data[p] = given[p]
        ELSE CASE op = "encrypt" -> Decrypt[data[p]] = XorByte(given[p], Before(data, p))
               [] op = "decrypt" -> given[p] = Encrypt[XorByte(data[p], Before(given, p))]
               [] op = "single" -> Decrypt[data[p]] = given[p]
=============================================================================
