------------------------------- MODULE Words --------------------------------
(***************************************************************************)
(* Bytes, 32-bit words and multiplication in GF(2^8).  A word is the tuple *)
(* of its four bytes, the most significant first (GETU32 and PUTU32 of     *)
(* src/aes-internal.h), so that shifts and rotations by whole bytes move   *)
(* components.                                                             *)
(***************************************************************************)
EXTENDS Integers, Sequences

Byte == 0..255
Word == Byte \X Byte \X Byte \X Byte
ZeroWord == <<0, 0, 0, 0>>

Bit(a, k) == (a \div 2^k) % 2

\* Exclusive or of two numbers of four bits, a and b at 16 * a + b + 1.
XorNibble == <<
      0,  1,  2,  3,  4,  5,  6,  7,  8,  9, 10, 11, 12, 13, 14, 15,
      1,  0,  3,  2,  5,  4,  7,  6,  9,  8, 11, 10, 13, 12, 15, 14,
      2,  3,  0,  1,  6,  7,  4,  5, 10, 11,  8,  9, 14, 15, 12, 13,
      3,  2,  1,  0,  7,  6,  5,  4, 11, 10,  9,  8, 15, 14, 13, 12,
      4,  5,  6,  7,  0,  1,  2,  3, 12, 13, 14, 15,  8,  9, 10, 11,
      5,  4,  7,  6,  1,  0,  3,  2, 13, 12, 15, 14,  9,  8, 11, 10,
      6,  7,  4,  5,  2,  3,  0,  1, 14, 15, 12, 13, 10, 11,  8,  9,
      7,  6,  5,  4,  3,  2,  1,  0, 15, 14, 13, 12, 11, 10,  9,  8,
      8,  9, 10, 11, 12, 13, 14, 15,  0,  1,  2,  3,  4,  5,  6,  7,
      9,  8, 11, 10, 13, 12, 15, 14,  1,  0,  3,  2,  5,  4,  7,  6,
     10, 11,  8,  9, 14, 15, 12, 13,  2,  3,  0,  1,  6,  7,  4,  5,
     11, 10,  9,  8, 15, 14, 13, 12,  3,  2,  1,  0,  7,  6,  5,  4,
     12, 13, 14, 15,  8,  9, 10, 11,  4,  5,  6,  7,  0,  1,  2,  3,
     13, 12, 15, 14,  9,  8, 11, 10,  5,  4,  7,  6,  1,  0,  3,  2,
     14, 15, 12, 13, 10, 11,  8,  9,  6,  7,  4,  5,  2,  3,  0,  1,
     15, 14, 13, 12, 11, 10,  9,  8,  7,  6,  5,  4,  3,  2,  1,  0 >>

XorByte(a, b) ==
    16 * XorNibble[16 * (a \div 16) + b \div 16 + 1] + XorNibble[16 * (a % 16) + (b % 16) + 1]

XorWord(v, w) ==
    <<XorByte(v[1], w[1]), XorByte(v[2], w[2]), XorByte(v[3], w[3]), XorByte(v[4], w[4])>>

Xor4(u, v, w, x) == XorWord(XorWord(u, v), XorWord(w, x))

\* Multiplication in GF(2^8) modulo x^8 + x^4 + x^3 + x + 1: by x, by a number
\* of four bits, and by any number.
Doubled == [a \in Byte |-> IF a < 128 THEN 2 * a ELSE XorByte(2 * a - 256, 27)]
xtime(a) == Doubled[a]

MulNibble(a, n) ==
    LET a2 == xtime(a)  a4 == xtime(a2)  a8 == xtime(a4)
        term(k, p) == IF Bit(n, k) = 1 THEN p ELSE 0
    IN  XorByte(XorByte(term(0, a), term(1, a2)), XorByte(term(2, a4), term(3, a8)))

Mul(a, b) ==
    XorByte(MulNibble(a, b % 16), MulNibble(xtime(xtime(xtime(xtime(a)))), b \div 16))
=============================================================================
