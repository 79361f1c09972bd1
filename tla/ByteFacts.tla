----------------------------- MODULE ByteFacts ------------------------------
(***************************************************************************)
(* What the bytes of the cipher's tables are, for every byte there is.     *)
(* The formulas below have no variables and no parameters: TLC evaluates   *)
(* each of them for all values, and the proofs about the cipher cite them. *)
(***************************************************************************)
EXTENDS AesTables, Fips197

Nibble == 0..15
XorNib(a, b) == XorNibble[16 * a + b + 1]

\* Numbers of four bits are a group under exclusive or, each its own inverse.
ASSUME NibbleGroup ==
    /\ \A a, b \in Nibble : XorNib(a, b) \in Nibble /\ XorNib(a, b) = XorNib(b, a)
    /\ \A a \in Nibble : XorNib(a, 0) = a /\ XorNib(a, a) = 0
    /\ \A a, b, c \in Nibble : XorNib(XorNib(a, b), c) = XorNib(a, XorNib(b, c))

\* The bits of a byte: of a sum, and when it is shifted by one.
ASSUME BitsCorrect ==
    \A a \in Byte :
        /\ Bit(a, 7) = a \div 128
        /\ \A k \in 0..7 : Bit(a, k) \in {0, 1}
        /\ \A c \in {0, 1} : LET up == ((2 * a) % 256) + c
                            IN  Bit(up, 0) = c /\ \A k \in 1..7 : Bit(up, k) = Bit(a, k - 1)
        /\ Bit(a, 0) = a % 2
        /\ \A c \in {0, 1} : LET down == 128 * c + a \div 2
                            IN  Bit(down, 7) = c /\ \A k \in 0..6 : Bit(down, k) = Bit(a, k + 1)
        /\ \A b \in Byte : \A k \in 0..7 :
             Bit(XorByte(a, b), k) = IF Bit(a, k) = Bit(b, k) THEN 0 ELSE 1

\* 0x87 is 1 + x + x^2 + x^7, what x^128 is modulo the polynomial of OMAC1; 0xe1 is the same,
\* the other way about, as GHASH has it.
ASSUME PadBits ==
    \A k \in 0..7 : /\ Bit(135, k) = IF k \in {0, 1, 2, 7} THEN 1 ELSE 0
                    /\ Bit(225, 7 - k) = IF k \in {0, 1, 2, 7} THEN 1 ELSE 0

\* Doubling is linear.
ASSUME DoublingLinear ==
    \A a, b \in Byte : xtime(a) \in Byte /\ xtime(XorByte(a, b)) = XorByte(xtime(a), xtime(b))

\* Every entry of the two substitutions is right, not only those the runs read.
ASSUME SubstitutionsCorrect ==
    /\ S = SBox
    /\ \A b \in Byte : S[b] \in Byte /\ Si[b] \in Byte /\ Si[S[b]] = b

\* The factors in the tables, as sums of doublings.
Times4(a) == xtime(xtime(a))
Times8(a) == xtime(xtime(xtime(a)))
ASSUME FactorsCorrect ==
    \A a \in Byte :
        /\ MulNibble(a, 2) = xtime(a)
        /\ MulNibble(a, 3) = XorByte(xtime(a), a)
        /\ MulNibble(a, 9) = XorByte(Times8(a), a)
        /\ MulNibble(a, 11) = XorByte(XorByte(Times8(a), xtime(a)), a)
        /\ MulNibble(a, 13) = XorByte(XorByte(Times8(a), Times4(a)), a)
        /\ MulNibble(a, 14) = XorByte(XorByte(Times8(a), Times4(a)), xtime(a))

\* A row of MixColumn, whose factors are 2, 3, 1, 1, on a column of the inverse, and
\* the other way about.
MixRow(a, b, c, d) == XorByte(XorByte(xtime(a), XorByte(xtime(b), b)), XorByte(c, d))
InvRow(a, b, c, d) ==
    XorByte(XorByte(MulNibble(a, 14), MulNibble(b, 11)),
            XorByte(MulNibble(c, 13), MulNibble(d, 9)))
ASSUME MixInverse ==
    \A a \in Byte :
        LET m9 == MulNibble(a, 9)  m11 == MulNibble(a, 11)
            m13 == MulNibble(a, 13)  m14 == MulNibble(a, 14)
            a2 == xtime(a)  a3 == XorByte(xtime(a), a)
        IN  /\ MixRow(m14, m9, m13, m11) = a /\ MixRow(m11, m14, m9, m13) = 0
            /\ MixRow(m13, m11, m14, m9) = 0 /\ MixRow(m9, m13, m11, m14) = 0
            /\ InvRow(a2, a, a, a3) = a /\ InvRow(a3, a2, a, a) = 0
            /\ InvRow(a, a3, a2, a) = 0 /\ InvRow(a, a, a3, a2) = 0

\* The round constants.
ASSUME RconCorrect ==
    \A n \in 0..9 : RCON(n) = Rcon(n + 1) /\ RCON(n) \in Word
=============================================================================
