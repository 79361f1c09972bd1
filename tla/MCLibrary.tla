------------------------------ MODULE MCLibrary ------------------------------
(***************************************************************************)
(* Small instances of the parts of the library, and of the block cipher    *)
(* next to its kernels (KernelCipher), whose variables do not change while *)
(* one of the others is at work.                                           *)
(***************************************************************************)
EXTENDS Library, KernelCipher, ByteFacts

VARIABLE build      \* "small" when AES_SMALL_TABLES is defined, or "large"

Large == INSTANCE KernelCipher WITH SmallTables <- FALSE

\* The cipher: keys of all three lengths, counting and irregular ones, one of another
\* length, and blocks that between them look up many entries; the processor with the
\* small tables, as the repository is built, or with the large ones, the kernels
\* compiled in every way.
Counting(n, first, step) == [p \in 1..n |-> (first + step * (p - 1)) % 256]

MCKeys ==
    {Counting(16, 0, 1), Counting(24, 0, 1), Counting(32, 0, 1),
     Counting(16, 43, 83), Counting(24, 142, 59), Counting(32, 96, 151),
     Counting(20, 7, 5)}
MCBlocks == {Counting(16, 0, 17), Counting(16, 50, 201)}

\* GHASH: a dense and a sparse subkey; data of the shape aes_gcm_ghash hashes
\* (aad, ciphertext, lengths) with and without partial blocks.
Subkey(first, step) == [w \in 1..4 |-> [p \in 1..4 |-> (first + step * (4 * w + p - 5)) % 256]]

MCSubkeys == {Subkey(102, 75), Subkey(129, 0)}

Lengths(aad, text) ==
    [p \in 1..16 |-> IF p = 8 THEN 8 * aad ELSE IF p = 16 THEN 8 * text ELSE 0]

MCData ==
    {<<Counting(20, 254, 237), Counting(17, 66, 131), Lengths(20, 17)>>,
     <<<<>>, Counting(16, 3, 136), Lengths(0, 16)>>,
     <<Counting(1, 128, 0), <<>>, Lengths(1, 0)>>}

\* OMAC: data of up to 33 bytes in up to three elements, cut before, at and behind
\* the ends of blocks, with empty elements in between, and subkeys with and
\* without the bits that gf_mulx carries.
Element(k, n) == [p \in 1..n |-> {<<k, p>>}]
Cuts == {0, 1, 15, 16, 17}
MCVectors ==
    {<<Element("1st", n)>> : n \in Cuts \cup {32, 33}}
    \cup {<<Element("1st", m), Element("2nd", n)>> : m, n \in Cuts}
    \cup {<<Element("1st", m), Element("2nd", n), Element("3rd", 1)>> : m, n \in {0, 1, 15}}
MCOmacSubkeys ==
    {[k \in 1..16 |-> IF k = 1 THEN first ELSE IF k = 16 THEN 199 ELSE 129] :
        first \in {64, 128, 192}}

\* Counter mode: none to three blocks, and counters whose last n bytes are full
\* but for a rest, so that they carry through one, two and all of their bytes.
Ternary(n, rest) == [k \in 1..16 |-> IF k = 16 THEN 2 - rest ELSE IF k > 16 - n THEN 2 ELSE 0]
MCNonces == {Ternary(n, rest) : n \in {1, 2, 16}, rest \in {0, 1}}
MCMessages == {Element("m", n) : n \in {0, 1, 15, 16, 17, 32, 33, 48}}

\* CBC: up to three blocks of eight values, encrypted and decrypted in any order.
Permute == [b \in 0..7 |-> (5 * b + 3) % 8]
Restore == [b \in 0..7 |-> CHOOSE x \in 0..7 : Permute[x] = b]
MCDatas == {<<>>, <<0>>, <<7>>, <<0, 0>>, <<6, 4>>, <<0, 5, 7>>}

\* Key wrapping: keys of one, two and three halves, so that the counter fits into
\* a byte of sixteen values for some of them, and a permutation of blocks in three
\* rounds, which is its own inverse.
Round(x) == (x * x + 7 * x + 1) % 256
ThreeRounds(left1, right1) ==
    LET left2 == XorByte(left1, Round(right1))
        right2 == XorByte(right1, Round(left2))
    IN  <<XorByte(left2, Round(right2)), right2>>

MCHalf == 0..255
MCSecretKeys ==
    {<<k1>> : k1 \in {0, 1, 165, 255}}
    \cup {<<k1, k2>> : k1, k2 \in {0, 1, 255}}
    \cup {<<k1, k2, k3>> : k1, k2, k3 \in {0, 166}}

\* The byte order helpers work on every value of bytes of one bit, the dumps on up to
\* five bytes in lines of two: see the .cfg.

-----------------------------------------------------------------------------
LibraryIdle ==
    GhashIdle /\ OmacIdle /\ CtrIdle /\ CbcIdle /\ WrapIdle /\ BytesIdle /\ DumpIdle

\* No call of the cipher has begun.
CipherIdle ==
    /\ pc = "idle" /\ decrypting = FALSE /\ live = 0 /\ crypt = NoBlock /\ trace = <<>>
    /\ key = 0 /\ plain = 0 /\ rk = 0 /\ base = 0 /\ Nr = 0 /\ i = 0 /\ j = 0
    /\ round = 0 /\ s = 0 /\ out = 0 /\ expanded = 0
    /\ kpc = "idle" /\ tables = 0 /\ rkbuf = 0 /\ NrArg = 0 /\ walk = 0 /\ r = 0
    /\ ks = 0 /\ kt = 0 /\ kout = 0 /\ build = 0

CipherInit == part = "cipher" /\ KInit /\ build \in {"small", "large"} /\ LibraryIdle

CipherNext ==
    /\ part = "cipher" /\ UNCHANGED <<build, anyVars>>
    /\ \/ build = "small" /\ KNext
       \/ build = "large" /\ Large!KNext

EachInit == CipherInit \/ (AnyInit /\ CipherIdle)
EachNext == CipherNext \/ (AnyNext /\ UNCHANGED <<vars, kvars, build>>)
EachSpec == EachInit /\ [][EachNext]_<<anyVars, vars, kvars, build>>
=============================================================================
