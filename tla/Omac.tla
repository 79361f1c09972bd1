-------------------------------- MODULE Omac --------------------------------
(***************************************************************************)
(* omac1_aes_128_vector and omac1_aes_128 (src/aes-omac1.c): the MAC of    *)
(* data that lies in several places, read byte by byte through a pointer   *)
(* that moves on to the next element when one is used up.                  *)
(*                                                                         *)
(* Data.  What is left in the buffer cbc is kept in two parts: the blocks  *)
(* that have gone through the cipher, and what was added since.  The pad   *)
(* is made of real bytes, because gf_mulx computes with them.              *)
(***************************************************************************)
EXTENDS Blocks, Words

CONSTANTS
    Vectors,    \* the data vectors that callers pass: sequences of elements
    Subkeys     \* values of AES_K(0), blocks of numbers

VARIABLES
    pc,         \* where the call in progress is
    vec,        \* its data vector
    ctx,        \* live cipher contexts
    e, pos,     \* the element and the byte that the pointer is at
    left,       \* bytes not yet read
    i,          \* bytes of the current block read
    chain, cbc, \* the blocks encrypted, and what was added to the last result
    subkey, pad,\* AES_K(0) and the pad made from it
    mac, ret    \* what the caller gets

vars == <<pc, vec, ctx, e, pos, left, i, chain, cbc, subkey, pad, mac, ret>>
pointer == <<e, pos, i, cbc>>

NoBlock == <<>>

\* Elements are sequences of bytes, AES_K(0) is a block of numbers.
Inputs ==
    /\ \A v \in Vectors : IsSeq(v) /\ \A k \in 1..Len(v) : IsSeq(v[k])
    /\ Subkeys \subseteq [1..Block -> Byte]

\* The bytes of the first k elements, and of all.
Upto(v) == LET sum[k \in 0..Len(v)] == IF k = 0 THEN 0 ELSE sum[k - 1] + Len(v[k]) IN sum
TotalLen(v) == Upto(v)[Len(v)]

\* The pad is shifted to the left by one bit, and what falls out of it comes
\* back as 0x87.
gf_mulx(p) ==
    [j \in 1..Block |->
        IF j < Block THEN ((2 * p[j]) % 256) + (p[j + 1] \div 128)
        ELSE IF p[1] < 128 THEN (2 * p[j]) % 256
        ELSE XorByte((2 * p[j]) % 256, 135)]

\* The byte the pointer is at.  An element of length zero is not skipped: the
\* byte behind it is read.
ElementLen == IF e \in 1..Len(vec) THEN Len(vec[e]) ELSE 0
ByteAt == IF pos <= ElementLen THEN vec[e][pos] ELSE {<<"behind", e>>}

Init ==
    /\ pc = "idle" /\ vec = <<>>
    /\ ctx = 0
    /\ e = 1 /\ pos = 1 /\ left = 0 /\ i = 0
    /\ chain = <<>> /\ cbc = ZeroBlock
    /\ subkey = NoBlock /\ pad = NoBlock
    /\ mac = NoBlock /\ ret = 0

\* The local variables of the call, and nothing in the caller's buffer yet.  The
\* code sets those it reads when it has its context.
Call(v) ==
    /\ pc = "idle"
    /\ pc' = "init"
    /\ vec' = v
    /\ e' = 1 /\ pos' = 1 /\ left' = 0 /\ i' = 0
    /\ chain' = <<>> /\ cbc' = ZeroBlock
    /\ subkey' = NoBlock /\ pad' = NoBlock
    /\ mac' = NoBlock
    /\ UNCHANGED <<ctx, ret>>

InitFails ==
    /\ pc = "init"
    /\ pc' = "idle"
    /\ ret' = -1
    /\ UNCHANGED <<vec, ctx, e, pos, left, i, chain, cbc, subkey, pad, mac>>

InitSucceeds ==
    /\ pc = "init"
    /\ pc' = "blocks"
    /\ ctx' = ctx + 1
    /\ left' = TotalLen(vec)
    /\ UNCHANGED <<vec, pointer, chain, subkey, pad, mac, ret>>

\* Mutant: blocks are read as long as there is any data.
ToRead_any == IF left > 0 THEN Block ELSE 0

\* Bytes of the data that go into the current block.
ToRead == IF pc = "rest" THEN left ELSE IF left >= Block THEN Block ELSE 0

\* A byte is added to the block, and the pointer moves: past the last byte of an
\* element to the first one of the next element, whether there is one or not.
AddByte ==
    /\ pc \in {"blocks", "rest"}
    /\ i < ToRead
    /\ i' = i + 1
    /\ cbc' = [cbc EXCEPT ![i + 1] = Xor(@, ByteAt)]
    /\ IF pos >= ElementLen
       THEN e' = e + 1 /\ pos' = 1
       ELSE e' = e /\ pos' = pos + 1
    /\ UNCHANGED <<pc, vec, ctx, left, chain, subkey, pad, mac, ret>>

\* Mutant: the last block is encrypted like the others.
BlockDone_all ==
    /\ pc = "blocks"
    /\ i = Block
    /\ chain' = Append(chain, cbc)
    /\ cbc' = ZeroBlock
    /\ left' = left - Block
    /\ i' = 0
    /\ UNCHANGED <<pc, vec, ctx, e, pos, subkey, pad, mac, ret>>

\* A full block is encrypted unless it is the last of the data.
BlockDone ==
    /\ pc = "blocks"
    /\ i = Block
    /\ IF left > Block
       THEN chain' = Append(chain, cbc) /\ cbc' = ZeroBlock
       ELSE UNCHANGED <<chain, cbc>>
    /\ left' = left - Block
    /\ i' = 0
    /\ UNCHANGED <<pc, vec, ctx, e, pos, subkey, pad, mac, ret>>

\* pad = x * AES_K(0).
MakePad ==
    /\ pc = "blocks"
    /\ left < Block /\ i = 0
    /\ pc' = IF left > 0 \/ TotalLen(vec) = 0 THEN "rest" ELSE "finish"
    /\ \E L \in Subkeys : subkey' = L /\ pad' = gf_mulx(L)
    /\ UNCHANGED <<vec, ctx, pointer, left, chain, mac, ret>>

\* The mark behind the data, and the other pad.
RestDone ==
    /\ pc = "rest"
    /\ i = left
    /\ pc' = "finish"
    /\ cbc' = [cbc EXCEPT ![left + 1] = Xor(@, {<<"0x80">>})]
    /\ pad' = gf_mulx(pad)
    /\ UNCHANGED <<vec, ctx, e, pos, i, left, chain, subkey, mac, ret>>

\* mac = AES_K(pad XOR cbc).
Finish ==
    /\ pc = "finish"
    /\ pc' = "idle"
    /\ mac' = [chain |-> chain, last |-> cbc, pad |-> pad]
    /\ ret' = 0
    /\ ctx' = ctx - 1
    /\ UNCHANGED <<vec, pointer, left, chain, subkey, pad>>

Step ==
    \/ InitFails
    \/ InitSucceeds
    \/ AddByte
    \/ BlockDone
    \/ MakePad
    \/ RestDone
    \/ Finish

Next == Step \/ \E v \in Vectors : Call(v)

Spec == Init /\ [][Next]_vars

-----------------------------------------------------------------------------
\* OMAC1 as it is defined, of one message.  A number of 128 bits is the set of
\* its powers of two.
Bits(p) == {x \in 0..127 : Bit(p[Block - (x \div 8)], x % 8) = 1}
Times2(bits) ==
    LET up == {x + 1 : x \in bits}
    IN  IF 128 \in up THEN Xor(up, {128, 7, 2, 1, 0}) ELSE up

Marked(b, n) == [b EXCEPT ![n + 1] = {<<"0x80">>}]

OmacIs(m, L, r) ==
    LET whole == Len(m) > 0 /\ Len(m) % Block = 0
        blocks == IF Len(m) = 0 THEN <<ZeroBlock>> ELSE PaddedBlocks(m)
    IN  /\ r.chain = SubSeq(blocks, 1, Len(blocks) - 1)
        /\ r.last = IF whole THEN blocks[Len(blocks)]
                    ELSE Marked(blocks[Len(blocks)], Len(m) % Block)
        /\ Bits(r.pad) = IF whole THEN Times2(Bits(L)) ELSE Times2(Times2(Bits(L)))

\* The elements one after the other, and the element that byte n of them is in.
ElementOf(v, n) == CHOOSE k \in 1..Len(v) : n - Upto(v)[k - 1] \in 1..Len(v[k])
Whole(v) ==
    [n \in 1..TotalLen(v) |-> v[ElementOf(v, n)][n - Upto(v)[ElementOf(v, n) - 1]]]

\* No empty element comes before one with data in it.
EmptyLast(v) == \A k, n \in 1..Len(v) : k < n /\ Len(v[n]) > 0 => Len(v[k]) > 0

\* Every variable has its type; a block is never read beyond its end, and the
\* count of bytes left never goes below zero.
TypeOK ==
    /\ pc \in {"idle", "init", "blocks", "rest", "finish"}
    /\ ctx = IF pc \in {"idle", "init"} THEN 0 ELSE 1
    /\ left \in Nat
    /\ i \in 0..Block
    /\ e \in 1..(Len(vec) + 1)
    /\ pos \in Nat \ {0}
    /\ Len(cbc) = Block
    /\ ret \in {0, -1}

\* The MAC is OMAC1 of the elements one after the other, wherever the data is
\* cut into elements and wherever blocks end, as long as no element before
\* the last byte of the data is empty (omac1_aes_128_vector, gf_mulx).
MacIsOmac ==
    mac # NoBlock /\ EmptyLast(vec) => OmacIs(Whole(vec), subkey, mac)

\* "One-Key CBC MAC (OMAC1) hash with AES-128" of the data vector, says the comment
\* of omac1_aes_128_vector, wherever its elements are empty.
MacIsOmacAlways == mac # NoBlock => OmacIs(Whole(vec), subkey, mac)
=============================================================================
