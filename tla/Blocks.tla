------------------------------- MODULE Blocks -------------------------------
(***************************************************************************)
(* The bytes that the modes of operation move about.  A byte is an element *)
(* of GF(2)^n written as a set of atoms, so that exclusive or is symmetric *)
(* difference and the zero byte is {}.  A call of the block cipher is      *)
(* ideal: each byte of its result is an atom of its own.                   *)
(***************************************************************************)
EXTENDS Integers, Sequences

\* A sequence, of whatever values.
IsSeq(x) == Len(x) \in Nat /\ x = [p \in 1..Len(x) |-> x[p]]

Zero == {}
Xor(a, b) == (a \ b) \cup (b \ a)

\* AES_BLOCK_SIZE.
Block == 16
ZeroBlock == [j \in 1..Block |-> Zero]

\* The blocks of x, the last one filled up with zeros.
PaddedBlocks(x) ==
    [i \in 1..((Len(x) + Block - 1) \div Block) |->
        [j \in 1..Block |-> LET p == Block * (i - 1) + j
                            IN  IF p <= Len(x) THEN x[p] ELSE Zero]]

\* Byte j of AES_key(cb).
Keystream(key, cb, j) == {<<"aes", key, cb, j>>}

SupportedKeyLens == {16, 24, 32}

\* Byte p of an output buffer before the call; the buffer is followed by
\* Block bytes that belong to somebody else.
Untouched(p) == {<<"old", p>>}
=============================================================================
