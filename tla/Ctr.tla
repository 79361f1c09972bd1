-------------------------------- MODULE Ctr ---------------------------------
(***************************************************************************)
(* aes_128_ctr_encrypt (src/aes-ctr.c): counter mode in place, with a      *)
(* counter of 16 bytes that is incremented byte by byte, the last byte     *)
(* first.  A byte of the counter has ByteVals values, 256 in the code.     *)
(***************************************************************************)
EXTENDS Blocks

CONSTANTS
    Nonces,     \* counters to start from, sequences of Block bytes
    Messages,   \* data callers encrypt
    ByteVals    \* number of values of a byte of the counter

\* What is asked of the caller: nonces of sixteen bytes, and data.
Inputs ==
    /\ ByteVals \in Nat \ {0}
    /\ Nonces \subseteq [1..Block -> 0..(ByteVals - 1)]
    /\ \A m \in Messages : IsSeq(m)

VARIABLES
    pc,         \* where the call in progress is
    nonce,      \* its nonce
    given,      \* history: the data as it was handed over
    ctx,        \* live cipher contexts
    data,       \* the caller's buffer
    left,       \* bytes not yet encrypted
    counter, i, \* the counter, and the byte of it that is incremented next
    ret         \* what the last call returned; 1 before the first

vars == <<pc, nonce, given, ctx, data, left, counter, i, ret>>

Key == "key"

Init ==
    /\ pc = "idle" /\ ctx = 0
    /\ nonce \in Nonces
    /\ data \in Messages /\ given = data
    /\ left = 0 /\ counter = nonce /\ i = Block
    /\ ret = 1

\* The caller passes its buffer, as it is, again with the same nonce.
Call ==
    /\ pc = "idle"
    /\ pc' = "init"
    /\ given' = data
    /\ UNCHANGED <<nonce, ctx, data, left, counter, i, ret>>

InitFails ==
    /\ pc = "init"
    /\ pc' = "idle" /\ ret' = -1
    /\ UNCHANGED <<nonce, given, ctx, data, left, counter, i>>

InitSucceeds ==
    /\ pc = "init"
    /\ pc' = "blocks"
    /\ ctx' = ctx + 1
    /\ left' = Len(data)
    /\ counter' = nonce
    /\ UNCHANGED <<nonce, given, data, i, ret>>

BlockLen == IF left < Block THEN left ELSE Block

\* The next bytes become themselves XOR AES_K(counter).
EncryptBlock ==
    /\ pc = "blocks" /\ left > 0
    /\ pc' = "carry" /\ i' = Block
    /\ data' = LET done == Len(data) - left
               IN  [p \in DOMAIN data |->
                      IF p \in (done + 1)..(done + BlockLen)
                      THEN Xor(data[p], Keystream(Key, counter, p - done))
                      ELSE data[p]]
    /\ left' = left - BlockLen
    /\ UNCHANGED <<nonce, given, ctx, counter, ret>>

\* Mutant: the carry is lost.
Carry_lost ==
    /\ pc = "carry"
    /\ counter' = [counter EXCEPT ![i] = (@ + 1) % ByteVals]
    /\ pc' = "blocks"
    /\ UNCHANGED <<nonce, given, ctx, data, left, i, ret>>

\* One byte of the counter is incremented; the byte before it is next when it
\* became zero.
Carry ==
    /\ pc = "carry"
    /\ counter' = [counter EXCEPT ![i] = (@ + 1) % ByteVals]
    /\ IF counter'[i] = 0 /\ i > 1
       THEN i' = i - 1 /\ UNCHANGED pc
       ELSE pc' = "blocks" /\ UNCHANGED i
    /\ UNCHANGED <<nonce, given, ctx, data, left, ret>>

Return ==
    /\ pc = "blocks" /\ left = 0
    /\ pc' = "idle" /\ ret' = 0
    /\ ctx' = ctx - 1
    /\ UNCHANGED <<nonce, given, data, left, counter, i>>

Next == Call \/ InitFails \/ InitSucceeds \/ EncryptBlock \/ Carry \/ Return

Spec == Init /\ [][Next]_vars

-----------------------------------------------------------------------------
\* The counter n blocks after c: the sixteen lowest digits of the sum, that is
\* addition modulo 2^128.
Number(c) ==
    LET sum[j \in 0..Block] == IF j = 0 THEN 0 ELSE ByteVals * sum[j - 1] + c[j]
    IN  sum[Block]
Digits(s) ==
    LET above[k \in 0..(Block - 1)] == IF k = 0 THEN s ELSE above[k - 1] \div ByteVals
    IN  [j \in 1..Block |-> above[Block - j] % ByteVals]
Plus(c, n) == Digits(Number(c) + n)

CtrOf(c, d) ==
    [p \in 1..Len(d) |->
        Xor(d[p], Keystream(Key, Plus(c, (p - 1) \div Block), 1 + ((p - 1) % Block)))]

\* Every variable has its type.
TypeOK ==
    /\ pc \in {"idle", "init", "blocks", "carry"}
    /\ ctx = IF pc \in {"idle", "init"} THEN 0 ELSE 1
    /\ left \in 0..Len(given)
    /\ Len(data) = Len(given)
    /\ \A j \in 1..Block : counter[j] \in 0..(ByteVals - 1)
    /\ i \in 1..Block

\* A call that answers 0 has encrypted all of the data, with the counters that
\* follow the nonce also where they carry or wrap, and one that answers -1 has
\* touched none of it (aes_128_ctr_encrypt).
AllOrNothing ==
    pc = "idle" => data = IF ret = 0 THEN CtrOf(nonce, given) ELSE given
=============================================================================
