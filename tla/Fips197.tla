------------------------------ MODULE Fips197 -------------------------------
(***************************************************************************)
(* The definition of AES: substitution by inversion, rows, columns and the *)
(* key expansion.  It is the reference the code is compared with and uses  *)
(* none of its tables.  A state is a function from the numbers of the      *)
(* columns, 0..3, to words.                                                *)
(***************************************************************************)
EXTENDS Words

Columns == 0..3

\* The inverses of 0, 1, ..., 255, where 0 stands in for its own.
Inverses == <<0>> \o [x \in 1..255 |-> CHOOSE y \in Byte : Mul(x, y) = 1]

\* Bit k of the affine transformation of b; 99 is 01100011.
Affine(b) ==
    LET bit(k) == (Bit(b, k) + Bit(b, (k + 4) % 8) + Bit(b, (k + 5) % 8)
                   + Bit(b, (k + 6) % 8) + Bit(b, (k + 7) % 8) + Bit(99, k)) % 2
    IN  bit(0) + 2 * bit(1) + 4 * bit(2) + 8 * bit(3)
        + 16 * bit(4) + 32 * bit(5) + 64 * bit(6) + 128 * bit(7)

SBox == [x \in Byte |-> Affine(Inverses[x + 1])]

SubWord(w) == <<SBox[w[1]], SBox[w[2]], SBox[w[3]], SBox[w[4]]>>
RotWord(w) == <<w[2], w[3], w[4], w[1]>>
Rcon(n) == <<IF n = 1 THEN 1 ELSE IF n = 9 THEN 27 ELSE IF n = 10 THEN 54 ELSE 2^(n - 1), 0, 0, 0>>

SubBytes(st) == [c \in Columns |-> SubWord(st[c])]

\* Row r moves r columns to the left.
ShiftRows(st) ==
    [c \in Columns |-> <<st[c][1], st[(c + 1) % 4][2], st[(c + 2) % 4][3], st[(c + 3) % 4][4]>>]

MixColumn(w) ==
    LET row(a, b, c, d) == XorByte(XorByte(xtime(a), XorByte(xtime(b), b)), XorByte(c, d))
    IN  <<row(w[1], w[2], w[3], w[4]), row(w[2], w[3], w[4], w[1]),
          row(w[3], w[4], w[1], w[2]), row(w[4], w[1], w[2], w[3])>>
MixColumns(st) == [c \in Columns |-> MixColumn(st[c])]

\* Round key k of the schedule w.
AddRoundKey(st, w, k) == [c \in Columns |-> XorWord(st[c], w[4 * k + c])]

\* The words of a byte sequence.
WordAt(x, k) == <<x[4 * k + 1], x[4 * k + 2], x[4 * k + 3], x[4 * k + 4]>>

\* w is the expansion of a key of nk words for nr rounds.
IsExpansion(w, key, nk, nr) ==
    \A k \in 0..(4 * nr + 3) :
        w[k] = IF k < nk THEN WordAt(key, k)
               ELSE XorWord(w[k - nk],
                      IF k % nk = 0 THEN XorWord(SubWord(RotWord(w[k - 1])), Rcon(k \div nk))
                      ELSE IF nk > 6 /\ k % nk = 4 THEN SubWord(w[k - 1])
                      ELSE w[k - 1])
=============================================================================
