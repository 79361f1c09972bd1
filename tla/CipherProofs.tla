---------------------------- MODULE CipherProofs ----------------------------
(***************************************************************************)
(* What the block cipher of aes-internal.c computes, proved for every key, *)
(* every block and either way to compile its tables, and that the kernels  *)
(* of aes.cl compute the same.                                             *)
(*                                                                         *)
(* The first part is the arithmetic: bytes under exclusive or, columns as  *)
(* linear functions of their bytes, MixColumn and its inverse undoing each *)
(* other.  What it needs of single bytes ByteFacts assumes, in formulas    *)
(* without a parameter that TLC evaluates byte by byte.  The second is the *)
(* tables: whatever is looked up is SubBytes, and MixColumn or its inverse.*)
(* The third is the key setup, one step at a time; the fourth encryption   *)
(* and decryption; the fifth the kernel next to the processor.             *)
(***************************************************************************)
EXTENDS KernelCipher, ByteFacts, SequenceTheorems, WellFoundedInduction, TLAPS

-----------------------------------------------------------------------------
\* Exclusive or of bytes, by their halves.
LEMMA ByteHalves ==
    ASSUME NEW a \in Byte, NEW b \in Byte
    PROVE  /\ a \div 16 \in Nibble /\ a % 16 \in Nibble /\ a = 16 * (a \div 16) + (a % 16)
           /\ XorByte(a, b) = 16 * XorNib(a \div 16, b \div 16) + XorNib(a % 16, b % 16)
BY DEF Byte, Nibble, XorByte, XorNib

\* A byte put together of two halves has them.
LEMMA HalvesOf ==
    ASSUME NEW p \in Nibble, NEW q \in Nibble
    PROVE  16 * p + q \in Byte /\ (16 * p + q) \div 16 = p /\ (16 * p + q) % 16 = q
BY DEF Byte, Nibble

\* The sum of two bytes is a byte, and its halves are the sums of theirs.
LEMMA XorType ==
    ASSUME NEW a \in Byte, NEW b \in Byte
    PROVE  /\ XorByte(a, b) \in Byte
           /\ XorByte(a, b) \div 16 = XorNib(a \div 16, b \div 16)
           /\ XorByte(a, b) % 16 = XorNib(a % 16, b % 16)
<1>1. XorNib(a \div 16, b \div 16) \in Nibble /\ XorNib(a % 16, b % 16) \in Nibble
  BY ByteHalves, NibbleGroup
<1> QED BY <1>1, ByteHalves, HalvesOf

\* The order of two bytes does not matter,
LEMMA XorCommutes ==
    ASSUME NEW a \in Byte, NEW b \in Byte
    PROVE  XorByte(a, b) = XorByte(b, a)
BY ByteHalves, NibbleGroup

\* nor how three are put together;
LEMMA XorAssociates ==
    ASSUME NEW a \in Byte, NEW b \in Byte, NEW c \in Byte
    PROVE  XorByte(XorByte(a, b), c) = XorByte(a, XorByte(b, c))
<1>1. XorByte(a, b) \in Byte /\ XorByte(b, c) \in Byte
  BY XorType
<1>2. XorByte(XorByte(a, b), c) =
        16 * XorNib(XorNib(a \div 16, b \div 16), c \div 16)
          + XorNib(XorNib(a % 16, b % 16), c % 16)
  BY <1>1, ByteHalves, XorType
<1>3. XorByte(a, XorByte(b, c)) =
        16 * XorNib(a \div 16, XorNib(b \div 16, c \div 16))
          + XorNib(a % 16, XorNib(b % 16, c % 16))
  BY <1>1, ByteHalves, XorType
<1> QED BY <1>2, <1>3, ByteHalves, NibbleGroup

\* zero adds nothing, and a byte undoes itself.
LEMMA XorUnit ==
    ASSUME NEW a \in Byte
    PROVE  XorByte(a, 0) = a /\ XorByte(0, a) = a /\ XorByte(a, a) = 0
<1>1. 0 \in Byte /\ 0 \div 16 = 0 /\ 0 % 16 = 0
  BY DEF Byte
<1>2. XorByte(a, 0) = 16 * (a \div 16) + (a % 16) /\ XorByte(a, a) = 0
  BY <1>1, ByteHalves, NibbleGroup
<1> QED BY <1>1, <1>2, ByteHalves, XorCommutes

\* Four bytes, summed as rows of a matrix, pairwise.
X4(a, b, c, d) == XorByte(XorByte(a, b), XorByte(c, d))

\* The middle two may change places, which turns rows into columns.
LEMMA XorSwap ==
    ASSUME NEW a \in Byte, NEW b \in Byte, NEW c \in Byte, NEW d \in Byte
    PROVE  X4(a, b, c, d) = X4(a, c, b, d)
<1> DEFINE f(p, q) == XorByte(p, q)
<1>0. \A p, q \in Byte : f(p, q) \in Byte /\ f(p, q) = f(q, p)
  BY XorType, XorCommutes
<1>1. \A p, q, r1 \in Byte : f(f(p, q), r1) = f(p, f(q, r1))
  BY XorAssociates
<1>2. X4(a, b, c, d) = f(f(a, b), f(c, d)) /\ X4(a, c, b, d) = f(f(a, c), f(b, d))
  BY DEF X4
<1> HIDE DEF f
<1>3. f(f(a, b), f(c, d)) = f(a, f(b, f(c, d)))
  BY <1>0, <1>1
<1>4. f(b, f(c, d)) = f(c, f(b, d))
  BY <1>0, <1>1
<1>5. f(f(a, c), f(b, d)) = f(a, f(c, f(b, d)))
  BY <1>0, <1>1
<1> QED BY <1>2, <1>3, <1>4, <1>5

\* Sums of four bytes in any order, and sums of such sums.
LEMMA X4Type ==
    ASSUME NEW a \in Byte, NEW b \in Byte, NEW c \in Byte, NEW d \in Byte
    PROVE  X4(a, b, c, d) \in Byte
BY XorType DEF X4

\* A sum of four bytes may begin with any of them.
LEMMA X4Orders ==
    ASSUME NEW a \in Byte, NEW b \in Byte, NEW c \in Byte, NEW d \in Byte
    PROVE  /\ X4(a, b, c, d) = X4(b, c, d, a)
           /\ X4(a, b, c, d) = X4(c, d, a, b)
           /\ X4(a, b, c, d) = X4(d, a, b, c)
<1>1. \A p, q, u, v1 \in Byte : X4(p, q, u, v1) = X4(u, v1, p, q)
  BY XorType, XorCommutes DEF X4
<1>2. \A p, q, u, v1 \in Byte : X4(p, q, u, v1) = X4(q, p, u, v1)
  BY XorType, XorCommutes DEF X4
<1>3. \A p, q, u, v1 \in Byte : X4(p, q, u, v1) = X4(p, u, q, v1)
  BY XorSwap
<1>4. X4(a, b, c, d) = X4(b, c, d, a)
  <2>1. X4(a, b, c, d) = X4(c, d, a, b)
    BY <1>1
  <2>2. X4(c, d, a, b) = X4(c, a, d, b)
    BY <1>3
  <2>3. X4(c, a, d, b) = X4(a, c, d, b)
    BY <1>2
  <2>4. X4(a, c, d, b) = X4(d, b, a, c)
    BY <1>1
  <2>5. X4(d, b, a, c) = X4(b, d, a, c)
    BY <1>2
  <2>6. X4(b, d, a, c) = X4(a, c, b, d)
    BY <1>1
  <2>7. X4(a, c, b, d) = X4(c, a, b, d)
    BY <1>2
  <2>8. X4(c, a, b, d) = X4(c, b, a, d)
    BY <1>3
  <2>9. X4(c, b, a, d) = X4(b, c, a, d)
    BY <1>2
  <2>10. X4(b, c, a, d) = X4(a, d, b, c)
    BY <1>1
  <2>11. X4(a, d, b, c) = X4(d, a, b, c)
    BY <1>2
  <2>12. X4(d, a, b, c) = X4(b, c, d, a)
    BY <1>1
  <2> QED BY <2>1, <2>2, <2>3, <2>4, <2>5, <2>6, <2>7, <2>8, <2>9, <2>10, <2>11, <2>12
<1>5. X4(b, c, d, a) = X4(d, a, b, c)
  BY <1>1
<1> QED BY <1>1, <1>4, <1>5

\* Words.
LEMMA WordIs ==
    ASSUME NEW w \in Word
    PROVE  /\ w[1] \in Byte /\ w[2] \in Byte /\ w[3] \in Byte /\ w[4] \in Byte
           /\ w = <<w[1], w[2], w[3], w[4]>>
BY DEF Word

\* Four bytes are a word.
LEMMA WordOf ==
    ASSUME NEW a \in Byte, NEW b \in Byte, NEW c \in Byte, NEW d \in Byte
    PROVE  <<a, b, c, d>> \in Word
BY DEF Word

\* Words are added byte by byte, so what holds for the bytes holds for them.
LEMMA WordGroup ==
    ASSUME NEW u \in Word, NEW v1 \in Word, NEW w \in Word
    PROVE  /\ XorWord(u, v1) \in Word
           /\ XorWord(u, v1) = XorWord(v1, u)
           /\ XorWord(XorWord(u, v1), w) = XorWord(u, XorWord(v1, w))
           /\ XorWord(u, ZeroWord) = u /\ XorWord(u, u) = ZeroWord
<1>1. /\ u[1] \in Byte /\ u[2] \in Byte /\ u[3] \in Byte /\ u[4] \in Byte
      /\ v1[1] \in Byte /\ v1[2] \in Byte /\ v1[3] \in Byte /\ v1[4] \in Byte
      /\ w[1] \in Byte /\ w[2] \in Byte /\ w[3] \in Byte /\ w[4] \in Byte
      /\ u = <<u[1], u[2], u[3], u[4]>>
  BY WordIs
<1>2. XorWord(u, v1) \in Word
  BY <1>1, XorType, WordOf DEF XorWord
<1>3. XorWord(u, v1) = XorWord(v1, u)
  BY <1>1, XorCommutes DEF XorWord
<1>4. XorWord(XorWord(u, v1), w) = XorWord(u, XorWord(v1, w))
  BY <1>1, XorAssociates DEF XorWord
<1>5. XorWord(u, ZeroWord) = u
  BY <1>1, XorUnit DEF XorWord, ZeroWord
<1>6. XorWord(u, u) = ZeroWord
  BY <1>1, XorUnit DEF XorWord, ZeroWord
<1> QED BY <1>2, <1>3, <1>4, <1>5, <1>6
\* The sum of the bytes of a word.
Sum4(w) == X4(w[1], w[2], w[3], w[4])

\* It is linear.
LEMMA Sum4Linear ==
    ASSUME NEW v1 \in Word, NEW w \in Word
    PROVE  Sum4(XorWord(v1, w)) = XorByte(Sum4(v1), Sum4(w))
<1> DEFINE a == v1[1]  b == v1[2]  c == v1[3]  d == v1[4]
           p == w[1]  q == w[2]  u == w[3]  x == w[4]
<1>0. /\ a \in Byte /\ b \in Byte /\ c \in Byte /\ d \in Byte
      /\ p \in Byte /\ q \in Byte /\ u \in Byte /\ x \in Byte
  BY WordIs
<1>5. /\ Sum4(XorWord(v1, w)) = X4(XorByte(a, p), XorByte(b, q), XorByte(c, u), XorByte(d, x))
      /\ Sum4(v1) = X4(a, b, c, d) /\ Sum4(w) = X4(p, q, u, x)
  BY DEF Sum4, XorWord
<1> HIDE DEF a, b, c, d, p, q, u, x
<1>1. XorByte(XorByte(a, p), XorByte(b, q)) = XorByte(XorByte(a, b), XorByte(p, q))
  BY <1>0, XorSwap DEF X4
<1>2. XorByte(XorByte(c, u), XorByte(d, x)) = XorByte(XorByte(c, d), XorByte(u, x))
  BY <1>0, XorSwap DEF X4
<1>3. /\ XorByte(a, b) \in Byte /\ XorByte(p, q) \in Byte
      /\ XorByte(c, d) \in Byte /\ XorByte(u, x) \in Byte
  BY <1>0, XorType
<1>4. XorByte(XorByte(XorByte(a, b), XorByte(p, q)), XorByte(XorByte(c, d), XorByte(u, x)))
        = XorByte(XorByte(XorByte(a, b), XorByte(c, d)), XorByte(XorByte(p, q), XorByte(u, x)))
  BY <1>3, XorSwap DEF X4
<1> QED BY <1>1, <1>2, <1>4, <1>5 DEF X4

\* The columns: MixColumn and its inverse, and that both are linear.
InvColumn(w) ==
    <<InvRow(w[1], w[2], w[3], w[4]), InvRow(w[2], w[3], w[4], w[1]),
      InvRow(w[3], w[4], w[1], w[2]), InvRow(w[4], w[1], w[2], w[3])>>

\* The multiples of a byte that the columns are made of are bytes,
LEMMA FactorTypes ==
    ASSUME NEW a \in Byte
    PROVE  /\ xtime(a) \in Byte /\ Times4(a) \in Byte /\ Times8(a) \in Byte
           /\ MulNibble(a, 2) \in Byte /\ MulNibble(a, 3) \in Byte
           /\ MulNibble(a, 9) \in Byte /\ MulNibble(a, 11) \in Byte
           /\ MulNibble(a, 13) \in Byte /\ MulNibble(a, 14) \in Byte
<1>1. xtime(a) \in Byte /\ Times4(a) \in Byte /\ Times8(a) \in Byte
  BY DoublingLinear DEF Times4, Times8
<1> QED BY <1>1, FactorsCorrect, XorType

\* and the multiple of a sum is the sum of the multiples.
LEMMA FactorsLinear ==
    ASSUME NEW a \in Byte, NEW b \in Byte
    PROVE  /\ xtime(XorByte(a, b)) = XorByte(xtime(a), xtime(b))
           /\ \A k \in {9, 11, 13, 14} :
                MulNibble(XorByte(a, b), k) = XorByte(MulNibble(a, k), MulNibble(b, k))
<1>0. XorByte(a, b) \in Byte
  BY XorType
<1>1. xtime(XorByte(a, b)) = XorByte(xtime(a), xtime(b))
  BY DoublingLinear
<1>2. /\ xtime(a) \in Byte /\ Times4(a) \in Byte /\ Times8(a) \in Byte
      /\ xtime(b) \in Byte /\ Times4(b) \in Byte /\ Times8(b) \in Byte
  BY FactorTypes
<1>3. Times4(XorByte(a, b)) = XorByte(Times4(a), Times4(b))
  BY <1>1, <1>2, DoublingLinear DEF Times4
<1>4. Times8(XorByte(a, b)) = XorByte(Times8(a), Times8(b))
  <2>1. \A x : Times8(x) = xtime(Times4(x))
    BY DEF Times8, Times4
  <2> QED BY <1>2, <1>3, <2>1, DoublingLinear
<1>5. \A p, q, u, v1 \in Byte :
         XorByte(XorByte(p, q), XorByte(u, v1)) = XorByte(XorByte(p, u), XorByte(q, v1))
  BY XorSwap DEF X4
<1>6. MulNibble(XorByte(a, b), 9) = XorByte(MulNibble(a, 9), MulNibble(b, 9))
  BY <1>0, <1>2, <1>4, <1>5, FactorsCorrect
<1>7. MulNibble(XorByte(a, b), 11) = XorByte(MulNibble(a, 11), MulNibble(b, 11))
  <2> DEFINE n(x) == XorByte(Times8(x), xtime(x))
  <2>1. n(a) \in Byte /\ n(b) \in Byte /\ n(XorByte(a, b)) = XorByte(n(a), n(b))
    BY <1>1, <1>2, <1>4, <1>5, XorType
  <2>2. \A x \in Byte : MulNibble(x, 11) = XorByte(n(x), x)
    BY FactorsCorrect
  <2> HIDE DEF n
  <2> QED BY <1>0, <1>5, <2>1, <2>2
<1>8. /\ MulNibble(XorByte(a, b), 13) = XorByte(MulNibble(a, 13), MulNibble(b, 13))
      /\ MulNibble(XorByte(a, b), 14) = XorByte(MulNibble(a, 14), MulNibble(b, 14))
  <2> DEFINE n(x) == XorByte(Times8(x), Times4(x))
  <2>1. n(a) \in Byte /\ n(b) \in Byte /\ n(XorByte(a, b)) = XorByte(n(a), n(b))
    BY <1>2, <1>3, <1>4, <1>5, XorType
  <2>2. \A x \in Byte : /\ MulNibble(x, 13) = XorByte(n(x), x)
                        /\ MulNibble(x, 14) = XorByte(n(x), xtime(x))
    BY FactorsCorrect
  <2> HIDE DEF n
  <2>3. MulNibble(XorByte(a, b), 13) = XorByte(MulNibble(a, 13), MulNibble(b, 13))
    BY <1>0, <1>5, <2>1, <2>2
  <2>4. MulNibble(XorByte(a, b), 14) = XorByte(MulNibble(a, 14), MulNibble(b, 14))
    BY <1>0, <1>1, <1>2, <1>5, <2>1, <2>2
  <2> QED BY <2>3, <2>4
<1> QED BY <1>1, <1>6, <1>7, <1>8

\* A row of a product is a byte.
LEMMA RowTypes ==
    ASSUME NEW a \in Byte, NEW b \in Byte, NEW c \in Byte, NEW d \in Byte
    PROVE  MixRow(a, b, c, d) \in Byte /\ InvRow(a, b, c, d) \in Byte
BY FactorTypes, XorType DEF MixRow, InvRow

\* MixColumn by its rows.
LEMMA MixIs ==
    ASSUME NEW w
    PROVE  MixColumn(w) = <<MixRow(w[1], w[2], w[3], w[4]), MixRow(w[2], w[3], w[4], w[1]),
                            MixRow(w[3], w[4], w[1], w[2]), MixRow(w[4], w[1], w[2], w[3])>>
BY DEF MixColumn, MixRow

\* A row of a product with the factors of MixColumn or its inverse, and the rows of
\* the columns: those of the column turned.
RowOf(w) == MixRow(w[1], w[2], w[3], w[4])
InvRowOf(w) == InvRow(w[1], w[2], w[3], w[4])

\* Rows are linear.
LEMMA RowsLinear ==
    ASSUME NEW v1 \in Word, NEW w \in Word
    PROVE  /\ RowOf(XorWord(v1, w)) = XorByte(RowOf(v1), RowOf(w))
           /\ InvRowOf(XorWord(v1, w)) = XorByte(InvRowOf(v1), InvRowOf(w))
<1> DEFINE three(y) == XorByte(xtime(y), y)
           f(y) == <<xtime(y[1]), three(y[2]), y[3], y[4]>>
           g(y) == <<MulNibble(y[1], 14), MulNibble(y[2], 11), MulNibble(y[3], 13),
                     MulNibble(y[4], 9)>>
<1>1. /\ v1[1] \in Byte /\ v1[2] \in Byte /\ v1[3] \in Byte /\ v1[4] \in Byte
      /\ w[1] \in Byte /\ w[2] \in Byte /\ w[3] \in Byte /\ w[4] \in Byte
  BY WordIs
<1>2. f(v1) \in Word /\ f(w) \in Word /\ g(v1) \in Word /\ g(w) \in Word
  BY <1>1, FactorTypes, XorType, WordOf
<1>3. \A y : RowOf(y) = Sum4(f(y)) /\ InvRowOf(y) = Sum4(g(y))
  BY DEF RowOf, InvRowOf, MixRow, InvRow, Sum4, X4
<1>4. f(XorWord(v1, w)) = XorWord(f(v1), f(w))
  <2>1. xtime(XorByte(v1[1], w[1])) = XorByte(xtime(v1[1]), xtime(w[1]))
    BY <1>1, FactorsLinear
  <2>2. three(XorByte(v1[2], w[2])) = XorByte(three(v1[2]), three(w[2]))
    <3>1. xtime(XorByte(v1[2], w[2])) = XorByte(xtime(v1[2]), xtime(w[2]))
      BY <1>1, FactorsLinear
    <3>2. xtime(v1[2]) \in Byte /\ xtime(w[2]) \in Byte
      BY <1>1, FactorTypes
    <3>3. XorByte(XorByte(xtime(v1[2]), xtime(w[2])), XorByte(v1[2], w[2]))
            = XorByte(XorByte(xtime(v1[2]), v1[2]), XorByte(xtime(w[2]), w[2]))
      BY <1>1, <3>2, XorSwap DEF X4
    <3> QED BY <3>1, <3>3
  <2> HIDE DEF three
  <2> QED BY <2>1, <2>2 DEF XorWord
<1>5. g(XorWord(v1, w)) = XorWord(g(v1), g(w))
  BY <1>1, FactorsLinear DEF XorWord
<1> HIDE DEF f, g
<1>6. RowOf(XorWord(v1, w)) = XorByte(RowOf(v1), RowOf(w))
  BY <1>2, <1>3, <1>4, Sum4Linear
<1>7. InvRowOf(XorWord(v1, w)) = XorByte(InvRowOf(v1), InvRowOf(w))
  BY <1>2, <1>3, <1>5, Sum4Linear
<1> QED BY <1>6, <1>7

\* So is turning a word.
LEMMA RotLinear ==
    ASSUME NEW v1 \in Word, NEW w \in Word
    PROVE  RotWord(w) \in Word /\ RotWord(XorWord(v1, w)) = XorWord(RotWord(v1), RotWord(w))
BY WordIs, WordOf DEF RotWord, XorWord

\* A word turned twice, and three times.
Rot2(w) == RotWord(RotWord(w))
Rot3(w) == RotWord(RotWord(RotWord(w)))

\* The columns are the rows of the word and of its turns.
LEMMA ColumnsAre ==
    ASSUME NEW w \in Word
    PROVE  /\ RotWord(w) \in Word /\ Rot2(w) \in Word /\ Rot3(w) \in Word
           /\ MixColumn(w) = <<RowOf(w), RowOf(RotWord(w)), RowOf(Rot2(w)), RowOf(Rot3(w))>>
           /\ InvColumn(w) = <<InvRowOf(w), InvRowOf(RotWord(w)), InvRowOf(Rot2(w)),
                               InvRowOf(Rot3(w))>>
<1>1. RotWord(w) \in Word /\ Rot2(w) \in Word /\ Rot3(w) \in Word
  BY RotLinear DEF Rot2, Rot3
<1>2. MixColumn(w) = <<RowOf(w), RowOf(RotWord(w)), RowOf(Rot2(w)), RowOf(Rot3(w))>>
  BY DEF MixColumn, RowOf, MixRow, RotWord, Rot2, Rot3
<1>3. InvColumn(w) = <<InvRowOf(w), InvRowOf(RotWord(w)), InvRowOf(Rot2(w)), InvRowOf(Rot3(w))>>
  BY DEF InvColumn, InvRowOf, RotWord, Rot2, Rot3
<1> QED BY <1>1, <1>2, <1>3

\* They are words,
LEMMA ColumnTypes ==
    ASSUME NEW w \in Word
    PROVE  MixColumn(w) \in Word /\ InvColumn(w) \in Word
<1>1. \A y \in Word : RowOf(y) \in Byte /\ InvRowOf(y) \in Byte
  BY WordIs, RowTypes DEF RowOf, InvRowOf
<1> QED BY <1>1, ColumnsAre, WordOf

\* and linear.
LEMMA ColumnsLinear ==
    ASSUME NEW v1 \in Word, NEW w \in Word
    PROVE  /\ MixColumn(XorWord(v1, w)) = XorWord(MixColumn(v1), MixColumn(w))
           /\ InvColumn(XorWord(v1, w)) = XorWord(InvColumn(v1), InvColumn(w))
<1>0. /\ RotWord(w) \in Word /\ Rot2(w) \in Word /\ RotWord(v1) \in Word /\ Rot2(v1) \in Word
      /\ Rot3(w) \in Word /\ Rot3(v1) \in Word
  BY ColumnsAre
<1>1. /\ RotWord(XorWord(v1, w)) = XorWord(RotWord(v1), RotWord(w))
      /\ Rot2(XorWord(v1, w)) = XorWord(Rot2(v1), Rot2(w))
      /\ Rot3(XorWord(v1, w)) = XorWord(Rot3(v1), Rot3(w))
  BY <1>0, RotLinear DEF Rot2, Rot3
<1>2. XorWord(v1, w) \in Word
  BY WordGroup
<1>3. MixColumn(XorWord(v1, w)) = XorWord(MixColumn(v1), MixColumn(w))
  <2>1. MixColumn(XorWord(v1, w)) =
          <<XorByte(RowOf(v1), RowOf(w)), XorByte(RowOf(RotWord(v1)), RowOf(RotWord(w))),
            XorByte(RowOf(Rot2(v1)), RowOf(Rot2(w))), XorByte(RowOf(Rot3(v1)), RowOf(Rot3(w)))>>
    BY <1>0, <1>1, <1>2, ColumnsAre, RowsLinear
  <2> QED BY <2>1, ColumnsAre DEF XorWord
<1>4. InvColumn(XorWord(v1, w)) = XorWord(InvColumn(v1), InvColumn(w))
  <2>1. InvColumn(XorWord(v1, w)) =
          <<XorByte(InvRowOf(v1), InvRowOf(w)),
            XorByte(InvRowOf(RotWord(v1)), InvRowOf(RotWord(w))),
            XorByte(InvRowOf(Rot2(v1)), InvRowOf(Rot2(w))),
            XorByte(InvRowOf(Rot3(v1)), InvRowOf(Rot3(w)))>>
    BY <1>0, <1>1, <1>2, ColumnsAre, RowsLinear
  <2> QED BY <2>1, ColumnsAre DEF XorWord
<1> QED BY <1>3, <1>4

\* MixColumn and its inverse undo each other: checked for one byte in each place
\* of the column, and added up.
Only(w, k) == <<IF k = 1 THEN w[1] ELSE 0, IF k = 2 THEN w[2] ELSE 0,
                IF k = 3 THEN w[3] ELSE 0, IF k = 4 THEN w[4] ELSE 0>>

\* A word is the sum of the words that hold one of its bytes each.
LEMMA WordSplit ==
    ASSUME NEW w \in Word
    PROVE  /\ \A k \in 1..4 : Only(w, k) \in Word
           /\ w = Xor4(Only(w, 1), Only(w, 2), Only(w, 3), Only(w, 4))
<1>1. /\ w[1] \in Byte /\ w[2] \in Byte /\ w[3] \in Byte /\ w[4] \in Byte /\ 0 \in Byte
      /\ w = <<w[1], w[2], w[3], w[4]>>
  BY WordIs DEF Byte
<1>2. \A k \in 1..4 : Only(w, k) \in Word
  BY <1>1, WordOf DEF Only
<1>3. /\ Only(w, 1) = <<w[1], 0, 0, 0>> /\ Only(w, 2) = <<0, w[2], 0, 0>>
      /\ Only(w, 3) = <<0, 0, w[3], 0>> /\ Only(w, 4) = <<0, 0, 0, w[4]>>
  BY DEF Only
<1>4. XorByte(0, 0) = 0
  BY <1>1, XorUnit
<1>5. /\ XorWord(<<w[1], 0, 0, 0>>, <<0, w[2], 0, 0>>) = <<w[1], w[2], 0, 0>>
      /\ XorWord(<<0, 0, w[3], 0>>, <<0, 0, 0, w[4]>>) = <<0, 0, w[3], w[4]>>
      /\ XorWord(<<w[1], w[2], 0, 0>>, <<0, 0, w[3], w[4]>>) = <<w[1], w[2], w[3], w[4]>>
  BY <1>1, <1>4, XorUnit DEF XorWord
<1>6. w = Xor4(Only(w, 1), Only(w, 2), Only(w, 3), Only(w, 4))
  BY <1>1, <1>3, <1>5 DEF Xor4
<1> QED BY <1>2, <1>6

\* The columns of a sum of four words.
LEMMA Xor4Linear ==
    ASSUME NEW p \in Word, NEW q \in Word, NEW u \in Word, NEW x \in Word
    PROVE  /\ Xor4(p, q, u, x) \in Word
           /\ MixColumn(Xor4(p, q, u, x))
                = Xor4(MixColumn(p), MixColumn(q), MixColumn(u), MixColumn(x))
           /\ InvColumn(Xor4(p, q, u, x))
                = Xor4(InvColumn(p), InvColumn(q), InvColumn(u), InvColumn(x))
<1>1. XorWord(p, q) \in Word /\ XorWord(u, x) \in Word
  BY WordGroup
<1> QED BY <1>1, WordGroup, ColumnsLinear DEF Xor4

\* The multiples of zero are zero.
LEMMA ZeroFactors ==
    /\ 0 \in Byte /\ xtime(0) = 0
    /\ MulNibble(0, 9) = 0 /\ MulNibble(0, 11) = 0 /\ MulNibble(0, 13) = 0
    /\ MulNibble(0, 14) = 0
<1>1. 0 \in Byte /\ XorByte(0, 0) = 0
  BY XorUnit DEF Byte
<1>2. \A p \in Byte : p = XorByte(p, p) => p = 0
  BY XorUnit
<1>3. xtime(0) = XorByte(xtime(0), xtime(0)) /\ xtime(0) \in Byte
  BY <1>1, DoublingLinear
<1>4. \A k \in {9, 11, 13, 14} : MulNibble(0, k) = XorByte(MulNibble(0, k), MulNibble(0, k))
  BY <1>1, FactorsLinear
<1>5. \A k \in {9, 11, 13, 14} : MulNibble(0, k) \in Byte
  BY <1>1, FactorTypes
<1> QED BY <1>1, <1>2, <1>3, <1>4, <1>5

\* The rows of a word with one byte that is not zero.
LEMMA ZeroRows ==
    ASSUME NEW a \in Byte
    PROVE  /\ MixRow(a, 0, 0, 0) = xtime(a) /\ MixRow(0, 0, 0, a) = a
           /\ MixRow(0, 0, a, 0) = a /\ MixRow(0, a, 0, 0) = XorByte(xtime(a), a)
           /\ InvRow(a, 0, 0, 0) = MulNibble(a, 14) /\ InvRow(0, a, 0, 0) = MulNibble(a, 11)
           /\ InvRow(0, 0, a, 0) = MulNibble(a, 13) /\ InvRow(0, 0, 0, a) = MulNibble(a, 9)
<1>1. /\ xtime(a) \in Byte /\ XorByte(xtime(a), a) \in Byte
      /\ MulNibble(a, 14) \in Byte /\ MulNibble(a, 11) \in Byte
      /\ MulNibble(a, 13) \in Byte /\ MulNibble(a, 9) \in Byte
  BY FactorTypes, XorType
<1>2. \A x \in Byte : XorByte(x, 0) = x /\ XorByte(0, x) = x
  BY XorUnit
<1> QED BY <1>1, <1>2, ZeroFactors DEF MixRow, InvRow

\* MixColumn and its inverse undo each other for every word.
LEMMA MixOfInverse ==
    ASSUME NEW w \in Word
    PROVE  MixColumn(InvColumn(w)) = w /\ InvColumn(MixColumn(w)) = w
<1>1. ASSUME NEW k \in 1..4
      PROVE  /\ MixColumn(InvColumn(Only(w, k))) = Only(w, k)
             /\ InvColumn(MixColumn(Only(w, k))) = Only(w, k)
  <2> DEFINE a == w[k]
  <2>1. a \in Byte
    BY WordIs
  <2>2. Only(w, k) = <<IF k = 1 THEN a ELSE 0, IF k = 2 THEN a ELSE 0,
                       IF k = 3 THEN a ELSE 0, IF k = 4 THEN a ELSE 0>>
    BY DEF Only
  <2> HIDE DEF a
  <2>3. /\ MixRow(a, 0, 0, 0) = xtime(a) /\ MixRow(0, 0, 0, a) = a
        /\ MixRow(0, 0, a, 0) = a /\ MixRow(0, a, 0, 0) = XorByte(xtime(a), a)
        /\ InvRow(a, 0, 0, 0) = MulNibble(a, 14) /\ InvRow(0, a, 0, 0) = MulNibble(a, 11)
        /\ InvRow(0, 0, a, 0) = MulNibble(a, 13) /\ InvRow(0, 0, 0, a) = MulNibble(a, 9)
    BY <2>1, ZeroRows
  <2> DEFINE m9 == MulNibble(a, 9)  m11 == MulNibble(a, 11)
             m13 == MulNibble(a, 13)  m14 == MulNibble(a, 14)
             a2 == xtime(a)  a3 == XorByte(xtime(a), a)
  <2>4. /\ MixRow(m14, m9, m13, m11) = a /\ MixRow(m11, m14, m9, m13) = 0
        /\ MixRow(m13, m11, m14, m9) = 0 /\ MixRow(m9, m13, m11, m14) = 0
        /\ InvRow(a2, a, a, a3) = a /\ InvRow(a3, a2, a, a) = 0
        /\ InvRow(a, a3, a2, a) = 0 /\ InvRow(a, a, a3, a2) = 0
    BY <2>1, MixInverse
  <2> HIDE DEF m9, m11, m13, m14, a2, a3
  <2>5. /\ MixRow(a, 0, 0, 0) = a2 /\ MixRow(0, 0, 0, a) = a
        /\ MixRow(0, 0, a, 0) = a /\ MixRow(0, a, 0, 0) = a3
        /\ InvRow(a, 0, 0, 0) = m14 /\ InvRow(0, a, 0, 0) = m11
        /\ InvRow(0, 0, a, 0) = m13 /\ InvRow(0, 0, 0, a) = m9
    BY <2>3 DEF m9, m11, m13, m14, a2, a3
  <2>6. k = 1 \/ k = 2 \/ k = 3 \/ k = 4
    OBVIOUS
  <2>7. InvColumn(Only(w, k)) = IF k = 1 THEN <<m14, m9, m13, m11>>
                                ELSE IF k = 2 THEN <<m11, m14, m9, m13>>
                                ELSE IF k = 3 THEN <<m13, m11, m14, m9>>
                                ELSE <<m9, m13, m11, m14>>
    BY <2>2, <2>5, <2>6 DEF InvColumn
  <2>8. MixColumn(Only(w, k)) = IF k = 1 THEN <<a2, a, a, a3>>
                                ELSE IF k = 2 THEN <<a3, a2, a, a>>
                                ELSE IF k = 3 THEN <<a, a3, a2, a>>
                                ELSE <<a, a, a3, a2>>
    BY <2>2, <2>5, <2>6, MixIs
  <2>9. MixColumn(InvColumn(Only(w, k))) = Only(w, k)
    BY <2>2, <2>4, <2>6, <2>7, MixIs
  <2>10. InvColumn(MixColumn(Only(w, k))) = Only(w, k)
    BY <2>2, <2>4, <2>6, <2>8 DEF InvColumn
  <2> QED BY <2>9, <2>10
<1>2. /\ Only(w, 1) \in Word /\ Only(w, 2) \in Word /\ Only(w, 3) \in Word /\ Only(w, 4) \in Word
      /\ w = Xor4(Only(w, 1), Only(w, 2), Only(w, 3), Only(w, 4))
  BY WordSplit
<1>3. /\ MixColumn(Only(w, 1)) \in Word /\ MixColumn(Only(w, 2)) \in Word
      /\ MixColumn(Only(w, 3)) \in Word /\ MixColumn(Only(w, 4)) \in Word
      /\ InvColumn(Only(w, 1)) \in Word /\ InvColumn(Only(w, 2)) \in Word
      /\ InvColumn(Only(w, 3)) \in Word /\ InvColumn(Only(w, 4)) \in Word
  BY <1>2, ColumnTypes
<1>4. /\ InvColumn(w) = Xor4(InvColumn(Only(w, 1)), InvColumn(Only(w, 2)),
                             InvColumn(Only(w, 3)), InvColumn(Only(w, 4)))
      /\ MixColumn(w) = Xor4(MixColumn(Only(w, 1)), MixColumn(Only(w, 2)),
                             MixColumn(Only(w, 3)), MixColumn(Only(w, 4)))
  BY <1>2, Xor4Linear
<1>5. MixColumn(InvColumn(w)) = Xor4(Only(w, 1), Only(w, 2), Only(w, 3), Only(w, 4))
  BY <1>1, <1>3, <1>4, Xor4Linear
<1>6. InvColumn(MixColumn(w)) = Xor4(Only(w, 1), Only(w, 2), Only(w, 3), Only(w, 4))
  BY <1>1, <1>3, <1>4, Xor4Linear
<1> QED BY <1>2, <1>5, <1>6

-----------------------------------------------------------------------------
\* The tables.  What the small and the large ones give is the same.
LEMMA EntryTypes ==
    ASSUME NEW x \in Byte
    PROVE  /\ S[x] \in Byte /\ Si[x] \in Byte
           /\ Te0[x] = <<xtime(S[x]), S[x], S[x], XorByte(xtime(S[x]), S[x])>>
           /\ Te1[x] = <<XorByte(xtime(S[x]), S[x]), xtime(S[x]), S[x], S[x]>>
           /\ Te2[x] = <<S[x], XorByte(xtime(S[x]), S[x]), xtime(S[x]), S[x]>>
           /\ Te3[x] = <<S[x], S[x], XorByte(xtime(S[x]), S[x]), xtime(S[x])>>
           /\ Te4[x] = <<S[x], S[x], S[x], S[x]>>
<1>1. S[x] \in Byte /\ Si[x] \in Byte
  BY SubstitutionsCorrect
<1>2. MulNibble(S[x], 2) = xtime(S[x]) /\ MulNibble(S[x], 3) = XorByte(xtime(S[x]), S[x])
  BY <1>1, FactorsCorrect
<1> QED BY <1>1, <1>2 DEF Te0, Te1, Te2, Te3, Te4

\* The entries of the tables of the decryption.
LEMMA InverseEntries ==
    ASSUME NEW x \in Byte
    PROVE  LET m(k) == MulNibble(Si[x], k)
           IN  /\ Td0[x] = <<m(14), m(9), m(13), m(11)>>
               /\ Td1[x] = <<m(11), m(14), m(9), m(13)>>
               /\ Td2[x] = <<m(13), m(11), m(14), m(9)>>
               /\ Td3[x] = <<m(9), m(13), m(11), m(14)>>
               /\ Td4[x] = <<Si[x], Si[x], Si[x], Si[x]>>
BY DEF Td0, Td1, Td2, Td3, Td4

\* What turning a word to the right does to its bytes.
LEMMA Rotated4 ==
    ASSUME NEW w
    PROVE  /\ rotr(w, 1)[1] = w[4] /\ rotr(w, 1)[2] = w[1]
           /\ rotr(w, 1)[3] = w[2] /\ rotr(w, 1)[4] = w[3]
           /\ rotr(w, 2)[1] = w[3] /\ rotr(w, 2)[2] = w[4]
           /\ rotr(w, 2)[3] = w[1] /\ rotr(w, 2)[4] = w[2]
           /\ rotr(w, 3)[1] = w[2] /\ rotr(w, 3)[2] = w[3]
           /\ rotr(w, 3)[3] = w[4] /\ rotr(w, 3)[4] = w[1]
<1>1. \A n, k \in 1..4 : rotr(w, n)[k] = w[((k + 3 - n) % 4) + 1]
  BY DEF rotr
<1>2. /\ ((1 + 3 - 1) % 4) + 1 = 4 /\ ((2 + 3 - 1) % 4) + 1 = 1
      /\ ((3 + 3 - 1) % 4) + 1 = 2 /\ ((4 + 3 - 1) % 4) + 1 = 3
      /\ ((1 + 3 - 2) % 4) + 1 = 3 /\ ((2 + 3 - 2) % 4) + 1 = 4
      /\ ((3 + 3 - 2) % 4) + 1 = 1 /\ ((4 + 3 - 2) % 4) + 1 = 2
      /\ ((1 + 3 - 3) % 4) + 1 = 2 /\ ((2 + 3 - 3) % 4) + 1 = 3
      /\ ((3 + 3 - 3) % 4) + 1 = 4 /\ ((4 + 3 - 3) % 4) + 1 = 1
  OBVIOUS
<1> QED BY <1>1, <1>2

\* Two tuples that only their components tell apart add up to the same.
Alike(v1, w) == v1[1] = w[1] /\ v1[2] = w[2] /\ v1[3] = w[3] /\ v1[4] = w[4]

\* The first table turned is the other three, which is what the small tables rely on.
LEMMA LookupsAlike ==
    ASSUME NEW x \in Byte
    PROVE  /\ Alike(rotr(Te0[x], 1), Te1[x]) /\ Alike(rotr(Te0[x], 2), Te2[x])
           /\ Alike(rotr(Te0[x], 3), Te3[x])
           /\ Alike(rotr(Td0[x], 1), Td1[x]) /\ Alike(rotr(Td0[x], 2), Td2[x])
           /\ Alike(rotr(Td0[x], 3), Td3[x])
<1>1. Alike(rotr(Te0[x], 1), Te1[x]) /\ Alike(rotr(Te0[x], 2), Te2[x])
      /\ Alike(rotr(Te0[x], 3), Te3[x])
  BY EntryTypes, Rotated4 DEF Alike
<1>2. Alike(rotr(Td0[x], 1), Td1[x]) /\ Alike(rotr(Td0[x], 2), Td2[x])
      /\ Alike(rotr(Td0[x], 3), Td3[x])
  <2>1. /\ Td0[x] = <<MulNibble(Si[x], 14), MulNibble(Si[x], 9), MulNibble(Si[x], 13),
                      MulNibble(Si[x], 11)>>
        /\ Td1[x] = <<MulNibble(Si[x], 11), MulNibble(Si[x], 14), MulNibble(Si[x], 9),
                      MulNibble(Si[x], 13)>>
        /\ Td2[x] = <<MulNibble(Si[x], 13), MulNibble(Si[x], 11), MulNibble(Si[x], 14),
                      MulNibble(Si[x], 9)>>
        /\ Td3[x] = <<MulNibble(Si[x], 9), MulNibble(Si[x], 13), MulNibble(Si[x], 11),
                      MulNibble(Si[x], 14)>>
    BY InverseEntries
  <2> QED BY <2>1, Rotated4 DEF Alike
<1> QED BY <1>1, <1>2

\* Four lookups added up, in an encryption round: MixColumn of the substituted bytes.
LEMMA EncColumn ==
    ASSUME NEW p \in Word, NEW q \in Word, NEW u \in Word, NEW x \in Word
    PROVE  Xor4(TE0(p), TE1(q), TE2(u), TE3(x))
             = MixColumn(<<S[p[1]], S[q[2]], S[u[3]], S[x[4]]>>)
<1> DEFINE a == S[p[1]]  b == S[q[2]]  c == S[u[3]]  d == S[x[4]]
           three(y) == XorByte(xtime(y), y)
<1>0. p[1] \in Byte /\ q[2] \in Byte /\ u[3] \in Byte /\ x[4] \in Byte
  BY WordIs
<1>1. /\ a \in Byte /\ b \in Byte /\ c \in Byte /\ d \in Byte
      /\ \A y \in {a, b, c, d} : xtime(y) \in Byte /\ three(y) \in Byte
  BY <1>0, EntryTypes, FactorTypes, XorType
<1>2. /\ Alike(TE0(p), <<xtime(a), a, a, three(a)>>)
      /\ Alike(TE1(q), <<three(b), xtime(b), b, b>>)
      /\ Alike(TE2(u), <<c, three(c), xtime(c), c>>)
      /\ Alike(TE3(x), <<d, d, three(d), xtime(d)>>)
  <2>1. /\ Te0[p[1]] = <<xtime(a), a, a, three(a)>>
        /\ Te1[q[2]] = <<three(b), xtime(b), b, b>>
        /\ Te2[u[3]] = <<c, three(c), xtime(c), c>>
        /\ Te3[x[4]] = <<d, d, three(d), xtime(d)>>
    BY <1>0, EntryTypes
  <2>2. /\ Alike(rotr(Te0[q[2]], 1), Te1[q[2]]) /\ Alike(rotr(Te0[u[3]], 2), Te2[u[3]])
        /\ Alike(rotr(Te0[x[4]], 3), Te3[x[4]])
    BY <1>0, LookupsAlike
  <2> HIDE DEF a, b, c, d, three
  <2> QED BY <2>1, <2>2 DEF TE0, TE1, TE2, TE3, Alike
<1> HIDE DEF a, b, c, d
<1>3. \A v1, v2, v3, v4 : Xor4(v1, v2, v3, v4) =
        <<X4(v1[1], v2[1], v3[1], v4[1]), X4(v1[2], v2[2], v3[2], v4[2]),
          X4(v1[3], v2[3], v3[3], v4[3]), X4(v1[4], v2[4], v3[4], v4[4])>>
  BY DEF Xor4, XorWord, X4
<1>4. Xor4(TE0(p), TE1(q), TE2(u), TE3(x)) =
        <<X4(xtime(a), three(b), c, d), X4(a, xtime(b), three(c), d),
          X4(a, b, xtime(c), three(d)), X4(three(a), b, c, xtime(d))>>
  <2> HIDE DEF three
  <2> QED BY <1>2, <1>3 DEF Alike
<1>5. MixColumn(<<a, b, c, d>>) =
        <<X4(xtime(a), three(b), c, d), X4(xtime(b), three(c), d, a),
          X4(xtime(c), three(d), a, b), X4(xtime(d), three(a), b, c)>>
  BY MixIs DEF MixRow, X4
<1> HIDE DEF three
<1>6. /\ X4(a, xtime(b), three(c), d) = X4(xtime(b), three(c), d, a)
      /\ X4(a, b, xtime(c), three(d)) = X4(xtime(c), three(d), a, b)
      /\ X4(xtime(d), three(a), b, c) = X4(three(a), b, c, xtime(d))
  BY <1>1, X4Orders
<1> QED BY <1>4, <1>5, <1>6 DEF a, b, c, d

\* In a decryption round: the inverse of it.
LEMMA DecColumn ==
    ASSUME NEW p \in Word, NEW q \in Word, NEW u \in Word, NEW x \in Word
    PROVE  Xor4(TD0(p), TD1(q), TD2(u), TD3(x))
             = InvColumn(<<Si[p[1]], Si[q[2]], Si[u[3]], Si[x[4]]>>)
<1> DEFINE a == Si[p[1]]  b == Si[q[2]]  c == Si[u[3]]  d == Si[x[4]]
           m(y, k) == MulNibble(y, k)
<1>0. p[1] \in Byte /\ q[2] \in Byte /\ u[3] \in Byte /\ x[4] \in Byte
  BY WordIs
<1>1. /\ a \in Byte /\ b \in Byte /\ c \in Byte /\ d \in Byte
      /\ \A y \in {a, b, c, d} : /\ m(y, 9) \in Byte /\ m(y, 11) \in Byte
                                 /\ m(y, 13) \in Byte /\ m(y, 14) \in Byte
  BY <1>0, EntryTypes, FactorTypes
<1>2. /\ Alike(TD0(p), <<m(a, 14), m(a, 9), m(a, 13), m(a, 11)>>)
      /\ Alike(TD1(q), <<m(b, 11), m(b, 14), m(b, 9), m(b, 13)>>)
      /\ Alike(TD2(u), <<m(c, 13), m(c, 11), m(c, 14), m(c, 9)>>)
      /\ Alike(TD3(x), <<m(d, 9), m(d, 13), m(d, 11), m(d, 14)>>)
  <2>1. /\ Td0[p[1]] = <<m(a, 14), m(a, 9), m(a, 13), m(a, 11)>>
        /\ Td1[q[2]] = <<m(b, 11), m(b, 14), m(b, 9), m(b, 13)>>
        /\ Td2[u[3]] = <<m(c, 13), m(c, 11), m(c, 14), m(c, 9)>>
        /\ Td3[x[4]] = <<m(d, 9), m(d, 13), m(d, 11), m(d, 14)>>
    BY <1>0, InverseEntries
  <2>2. /\ Alike(rotr(Td0[q[2]], 1), Td1[q[2]]) /\ Alike(rotr(Td0[u[3]], 2), Td2[u[3]])
        /\ Alike(rotr(Td0[x[4]], 3), Td3[x[4]])
    BY <1>0, LookupsAlike
  <2> HIDE DEF a, b, c, d, m
  <2> QED BY <2>1, <2>2 DEF TD0, TD1, TD2, TD3, Alike
<1> HIDE DEF a, b, c, d
<1>3. \A v1, v2, v3, v4 : Xor4(v1, v2, v3, v4) =
        <<X4(v1[1], v2[1], v3[1], v4[1]), X4(v1[2], v2[2], v3[2], v4[2]),
          X4(v1[3], v2[3], v3[3], v4[3]), X4(v1[4], v2[4], v3[4], v4[4])>>
  BY DEF Xor4, XorWord, X4
<1>4. Xor4(TD0(p), TD1(q), TD2(u), TD3(x)) =
        <<X4(m(a, 14), m(b, 11), m(c, 13), m(d, 9)), X4(m(a, 9), m(b, 14), m(c, 11), m(d, 13)),
          X4(m(a, 13), m(b, 9), m(c, 14), m(d, 11)), X4(m(a, 11), m(b, 13), m(c, 9), m(d, 14))>>
  <2> HIDE DEF m
  <2> QED BY <1>2, <1>3 DEF Alike
<1>5. InvColumn(<<a, b, c, d>>) =
        <<X4(m(a, 14), m(b, 11), m(c, 13), m(d, 9)), X4(m(b, 14), m(c, 11), m(d, 13), m(a, 9)),
          X4(m(c, 14), m(d, 11), m(a, 13), m(b, 9)), X4(m(d, 14), m(a, 11), m(b, 13), m(c, 9))>>
  BY DEF InvColumn, InvRow, X4
<1> HIDE DEF m
<1>6. /\ X4(m(a, 9), m(b, 14), m(c, 11), m(d, 13)) = X4(m(b, 14), m(c, 11), m(d, 13), m(a, 9))
      /\ X4(m(a, 13), m(b, 9), m(c, 14), m(d, 11)) = X4(m(c, 14), m(d, 11), m(a, 13), m(b, 9))
      /\ X4(m(d, 14), m(a, 11), m(b, 13), m(c, 9)) = X4(m(a, 11), m(b, 13), m(c, 9), m(d, 14))
  BY SMTT(30), <1>1, X4Orders
<1> QED BY <1>4, <1>5, <1>6 DEF a, b, c, d

\* The lookups of one byte, with either tables.
LEMMA SubByteIs ==
    ASSUME NEW x \in Byte, NEW k \in 1..4
    PROVE  SubByte(x, k) = S[x]
<1>1. Te0[x][2] = S[x] /\ Te0[x][3] = S[x]
  BY EntryTypes
<1>2. k = 1 \/ k = 2 \/ k = 3 \/ k = 4
  OBVIOUS
<1>3. Te4[x] = <<S[x], S[x], S[x], S[x]>>
  BY EntryTypes
<1>4. Te4[x][k] = S[x]
  BY <1>2, <1>3
<1> QED BY <1>1, <1>2, <1>4 DEF SubByte

\* The lookups of the last rounds.
LEMMA LastLookups ==
    ASSUME NEW a \in Word, NEW b \in Word, NEW c \in Word, NEW d \in Word
    PROVE  /\ LastEnc(a, b, c, d) = <<S[a[1]], S[b[2]], S[c[3]], S[d[4]]>>
           /\ LastDec(a, b, c, d) = <<Si[a[1]], Si[b[2]], Si[c[3]], Si[d[4]]>>
<1>1. a[1] \in Byte /\ b[2] \in Byte /\ c[3] \in Byte /\ d[4] \in Byte
  BY WordIs
<1>2. LastEnc(a, b, c, d) = <<S[a[1]], S[b[2]], S[c[3]], S[d[4]]>>
  BY <1>1, SubByteIs DEF LastEnc
<1>3. LastDec(a, b, c, d) = <<Si[a[1]], Si[b[2]], Si[c[3]], Si[d[4]]>>
  BY <1>1, InverseEntries DEF LastDec
<1> QED BY <1>2, <1>3

\* What the key setup looks up: SubWord, SubWord of RotWord, and the inverse column.
LEMMA SubstitutesBytes ==
    ASSUME NEW a \in Word
    PROVE  /\ Sub(a) = SubWord(a) /\ Sub(a) \in Word
           /\ RotSub(a) = SubWord(RotWord(a)) /\ RotSub(a) \in Word
           /\ InvMix(a) = InvColumn(a) /\ InvMix(a) \in Word
<1>0. /\ a[1] \in Byte /\ a[2] \in Byte /\ a[3] \in Byte /\ a[4] \in Byte
      /\ a = <<a[1], a[2], a[3], a[4]>>
  BY WordIs
<1>1. \A x \in Byte, k \in 1..4 : SubByte(x, k) = S[x]
  BY SubByteIs
<1>4. \A x \in Byte : S[x] = SBox[x] /\ S[x] \in Byte /\ Si[S[x]] = x
  BY SubstitutionsCorrect
<1>5. Sub(a) = SubWord(a) /\ Sub(a) \in Word
  <2>1. Sub(a) = <<S[a[1]], S[a[2]], S[a[3]], S[a[4]]>>
    BY <1>0, <1>1 DEF LastEnc, Sub
  <2> QED BY <1>0, <1>4, <2>1, WordOf DEF SubWord
<1>6. RotSub(a) = SubWord(RotWord(a)) /\ RotSub(a) \in Word
  <2>1. RotSub(a) = <<S[a[2]], S[a[3]], S[a[4]], S[a[1]]>>
    BY <1>0, <1>1 DEF RotSub
  <2> QED BY <1>0, <1>4, <2>1, WordOf DEF SubWord, RotWord
<1>7. InvMix(a) = InvColumn(a)
  <2> DEFINE v1 == <<S[a[1]], S[a[2]], S[a[3]], S[a[4]]>>
  <2>1. InvMix(a) = Xor4(TD0(v1), TD1(v1), TD2(v1), TD3(v1))
    BY <1>0, <1>1 DEF InvMix, TE4
  <2>2. v1 \in Word
    BY <1>0, <1>4, WordOf
  <2>3. Xor4(TD0(v1), TD1(v1), TD2(v1), TD3(v1)) =
          InvColumn(<<Si[v1[1]], Si[v1[2]], Si[v1[3]], Si[v1[4]]>>)
    BY <2>2, DecColumn
  <2>4. <<Si[v1[1]], Si[v1[2]], Si[v1[3]], Si[v1[4]]>> = a
    BY <1>0, <1>4
  <2> QED BY <2>1, <2>3, <2>4
<1>8. InvMix(a) \in Word
  BY <1>7, ColumnTypes
<1> QED BY <1>5, <1>6, <1>7, <1>8

-----------------------------------------------------------------------------
\* Word k of an expansion of key x of n words, and the first m words of one.
ExpWord(w, x, n, k) ==
    IF k < n THEN WordAt(x, k)
    ELSE XorWord(w[k - n],
           IF k % n = 0 THEN XorWord(SubWord(RotWord(w[k - 1])), Rcon(k \div n))
           ELSE IF n > 6 /\ k % n = 4 THEN SubWord(w[k - 1])
           ELSE w[k - 1])

Expanded(w, x, n, m) ==
    \A k \in 0..(m - 1) : w[k] \in Word /\ w[k] = ExpWord(w, x, n, k)

\* Contexts: words and memory nobody has written.
Contexts == [Positions -> Word \cup {Unset}]
\* Two contexts have the first m words in common; nobody has written words m to last.
Agree(v1, w, m) == \A k \in 0..(m - 1) : v1[k] = w[k]
Empty(w, m, last) == \A p \in m..last : w[p] = Unset

\* Every nonempty set of numbers has a least one: the form of induction that
\* needs no predicate as a parameter.
LEMMA LeastElement ==
    ASSUME NEW U, U \subseteq Nat, U # {}
    PROVE  \E m \in U : \A k \in U : m <= k
<1> DEFINE R == OpToRel(<, Nat)
<1>1. IsWellFoundedOn(R, Nat)
  BY NatLessThanWellFounded
<1>2. ASSUME NEW p \in Nat, NEW q \in Nat, p < q
      PROVE  <<p, q>> \in R
  BY <1>2 DEF OpToRel
<1> HIDE DEF R
<1>3. PICK m \in U : \A k \in U : ~(<<k, m>> \in R)
  BY <1>1, WFMin
<1>4. ASSUME NEW k \in U PROVE m <= k
  <2>1. m \in Nat /\ k \in Nat
    OBVIOUS
  <2>2. ~(k < m)
    BY <1>2, <1>3, <2>1
  <2> QED BY <2>1, <2>2
<1> QED BY <1>4

\* A context that has the first m words of an expansion is an expansion as far as that.
LEMMA ExpansionAgrees ==
    ASSUME NEW w, NEW v1, NEW x, NEW n \in Nat \ {0}, NEW m \in Nat,
           Expanded(w, x, n, m), Agree(v1, w, m)
    PROVE  Expanded(v1, x, n, m)
<1> SUFFICES ASSUME NEW k \in 0..(m - 1) PROVE v1[k] \in Word /\ v1[k] = ExpWord(v1, x, n, k)
  BY DEF Expanded
<1>1. v1[k] = w[k] /\ w[k] \in Word /\ w[k] = ExpWord(w, x, n, k)
  BY DEF Expanded, Agree
<1>2. CASE k < n
  BY <1>1, <1>2 DEF ExpWord
<1>3. CASE ~(k < n)
  <2>1. k - n \in 0..(m - 1) /\ k - 1 \in 0..(m - 1)
    BY <1>3
  <2>2. v1[k - n] = w[k - n] /\ v1[k - 1] = w[k - 1]
    BY <2>1 DEF Agree
  <2> QED BY <1>1, <2>2 DEF ExpWord
<1> QED BY <1>2, <1>3

\* A key has one expansion.
LEMMA ExpansionUnique ==
    ASSUME NEW w, NEW v1, NEW x, NEW n \in Nat \ {0}, NEW m \in Nat,
           Expanded(w, x, n, m), Expanded(v1, x, n, m)
    PROVE  Agree(v1, w, m)
<1> DEFINE Bad == {k \in 0..(m - 1) : v1[k] # w[k]}
<1>1. SUFFICES ASSUME Bad # {} PROVE FALSE
  BY DEF Agree
<1>2. PICK k \in Bad : \A l \in Bad : k <= l
  <2>1. Bad \subseteq Nat
    OBVIOUS
  <2> HIDE DEF Bad
  <2> QED BY <1>1, <2>1, LeastElement
<1>3. \A l \in 0..(m - 1) : l < k => v1[l] = w[l]
  BY <1>2
<1>4. k \in 0..(m - 1) /\ v1[k] # w[k]
  BY <1>2
<1> HIDE DEF Bad
<1>5. v1[k] = ExpWord(v1, x, n, k) /\ w[k] = ExpWord(w, x, n, k)
  BY <1>4 DEF Expanded
<1>6. CASE k < n
  BY <1>4, <1>5, <1>6 DEF ExpWord
<1>7. CASE ~(k < n)
  <2>1. k - n \in 0..(m - 1) /\ k - 1 \in 0..(m - 1) /\ k - n < k /\ k - 1 < k
    BY <1>4, <1>7
  <2>2. v1[k - n] = w[k - n] /\ v1[k - 1] = w[k - 1]
    BY <1>3, <2>1
  <2> QED BY <1>4, <1>5, <2>2 DEF ExpWord
<1> QED BY <1>6, <1>7

-----------------------------------------------------------------------------
\* The invariant.  A state is four words, a block sixteen bytes.
States == [0..3 -> Word]
Blocks16 == [1..16 -> Byte]

\* The words of the key, the lengths of it that are supported, and the control states: the
\* schedule is there, and it is being put in reverse order.
Nk == Len(key) \div 4
Supported == Len(key) \in {16, 24, 32}
Scheduled == {"nr"} \cup Using
Reversing == {"invert", "mix"}

\* The types.
TypeInv ==
    /\ pc \in {"idle", "failed", "done"} \cup Preparing \cup Using
    /\ key \in Seq(Byte) /\ plain \in Blocks16
    /\ decrypting \in BOOLEAN
    /\ rk \in Contexts /\ expanded \in Contexts
    /\ s \in States
    /\ crypt \in Blocks16 \cup {NoBlock}
    /\ trace \in Seq(States)
    /\ base \in Nat /\ Nr \in Nat /\ i \in Nat /\ j \in Int /\ round \in Nat

\* Which keys come how far, and the number of rounds once it is known.
ControlInv ==
    /\ pc \in {"expand", "done"} \cup Reversing \cup Scheduled => Supported
    /\ decrypting => Supported
    /\ pc \in {"done"} \cup Reversing => decrypting
    /\ pc \in Reversing \cup Scheduled => Nr = Nk + 6
    /\ pc \in Using => rk[AES_PRIV_NR_POS] = <<0, 0, 0, Nr>>

\* Turn i of an expansion of n words a turn begins.
Turning(n, last) ==
    /\ i \in 0..last /\ base = n * i
    /\ Expanded(rk, key, n, base + n) /\ Empty(rk, base + n, AES_PRIV_NR_POS)

\* The whole schedule of the key.
FullSchedule(w) == Expanded(w, key, Nk, 4 * (Nk + 6) + 4)

\* Of the n + 1 round keys of w, the schedule v1, the first m and the last m have
\* changed places.
Swapped4(w, v1, n, m) ==
    \A k \in 0..n, c \in 0..3 :
        w[4 * k + c] = v1[IF k < m \/ k > n - m THEN 4 * (n - k) + c ELSE 4 * k + c]

\* They are in reverse order, and those before m, but the first, are mixed.
Mixed(w, v1, n, m) ==
    \A k \in 0..n, c \in 0..3 :
        w[4 * k + c] = IF k \in 1..(m - 1) THEN InvMix(v1[4 * (n - k) + c])
                       ELSE v1[4 * (n - k) + c]

\* What the context holds: during the expansion the words of the turns so far and none
\* beyond; while the order is inverted the schedule of the encryption with m round keys at
\* either end exchanged; while the round keys are mixed those before round i mixed; then
\* the whole, kept as it is until the context is released.
ScheduleInv ==
    /\ pc = "expand" => /\ Len(key) = 16 => Turning(4, 9)
                        /\ Len(key) = 24 => Turning(6, 7)
                        /\ Len(key) = 32 => Turning(8, 6)
    /\ pc = "invert" =>
         /\ base = 0
         /\ \E m \in 0..Nr : /\ i = 4 * m /\ j = 4 * (Nr - m) /\ 2 * m <= Nr
                             /\ Swapped4(rk, expanded, Nr, m)
    /\ pc = "mix" => i \in 1..Nr /\ base = 4 * (i - 1) /\ Mixed(rk, expanded, Nr, i)
    /\ pc \in Scheduled /\ ~decrypting =>
         FullSchedule(rk) /\ Empty(rk, 4 * Nr + 4, AES_PRIV_NR_POS - 1)
    /\ pc \in Using /\ ~decrypting => Agree(expanded, rk, AES_PRIV_NR_POS)
    /\ pc \in Scheduled /\ decrypting => Mixed(rk, expanded, Nr, Nr)
    /\ decrypting => FullSchedule(expanded)

\* The state a block is.
PlainState == [c \in 0..3 |-> GETU32(plain, c)]

\* What the encryption leaves behind: as many states as rounds, the first one the block
\* with the first round key, each the next after the one before.
TraceInv ==
    /\ ~decrypting /\ pc \notin {"rounds", "deinit"} => trace = <<>> /\ crypt = NoBlock
    /\ pc = "rounds" => round < Nr
    /\ pc = "rounds" /\ ~decrypting =>
         Len(trace) = round + 1 /\ trace[round + 1] = s /\ crypt = NoBlock
    /\ pc = "deinit" \/ decrypting => Len(trace) = Nk + 6 /\ crypt \in Blocks16
    /\ trace # <<>> => trace[1] = AddRoundKey(PlainState, expanded, 0)
    /\ EncryptionIsStandard

\* The decryption goes through the states of the encryption backwards, between SubBytes
\* and ShiftRows of one and the round key of the other.
InverseInv ==
    /\ pc = "rounds" /\ decrypting => s = ShiftRows(SubBytes(trace[Nr - round]))
    /\ pc \in {"deinit", "done"} /\ decrypting => out = plain

\* The inductive invariant.
CipherInv == TypeInv /\ ControlInv /\ ScheduleInv /\ TraceInv /\ InverseInv

-----------------------------------------------------------------------------
\* The key expansion.  What a chain of four words leaves.
LEMMA ChainIs ==
    ASSUME NEW w \in Contexts, NEW from \in Nat, NEW to \in Nat, from + 3 < to,
           to + 3 <= AES_PRIV_NR_POS, NEW first \in Word,
           w[from + 1] \in Word, w[from + 2] \in Word, w[from + 3] \in Word,
           NEW v1, v1 = Chain(w, from, to, first)
    PROVE  /\ v1 \in Contexts
           /\ \A k \in 0..3 : v1[to + k] \in Word
           /\ v1[to] = first
           /\ \A k \in 1..3 : v1[to + k] = XorWord(w[from + k], v1[to + k - 1])
           /\ \A p \in Positions : ~(p \in to..(to + 3)) => v1[p] = w[p]
<1> DEFINE w1 == XorWord(w[from + 1], first)
           w2 == XorWord(w[from + 2], w1)
           w3 == XorWord(w[from + 3], w2)
<1>1. w1 \in Word /\ w2 \in Word /\ w3 \in Word
  BY WordGroup
<1>2. v1 = [w EXCEPT ![to] = first, ![to + 1] = w1, ![to + 2] = w2, ![to + 3] = w3]
  BY DEF Chain
<1>3. to \in Positions /\ to + 1 \in Positions /\ to + 2 \in Positions /\ to + 3 \in Positions
  BY DEF Positions, AES_PRIV_NR_POS
<1>4. /\ v1[to] = first /\ v1[to + 1] = w1 /\ v1[to + 2] = w2 /\ v1[to + 3] = w3
      /\ \A p \in Positions : ~(p \in to..(to + 3)) => v1[p] = w[p]
      /\ v1 \in Contexts
  <2> HIDE DEF w1, w2, w3
  <2>1. /\ v1[to] = first /\ v1[to + 1] = w1 /\ v1[to + 2] = w2 /\ v1[to + 3] = w3
    BY <1>2, <1>3 DEF Contexts
  <2>2. \A p \in Positions : ~(p \in to..(to + 3)) => v1[p] = w[p]
    BY <1>2, <1>3 DEF Contexts
  <2>3. v1 \in Contexts
    BY <1>1, <1>2, <1>3 DEF Contexts
  <2> QED BY <2>1, <2>2, <2>3
<1>5. \A k \in 0..3 : v1[to + k] \in Word
  <2> HIDE DEF w1, w2, w3
  <2> TAKE k \in 0..3
  <2>1. k = 0 \/ k = 1 \/ k = 2 \/ k = 3
    OBVIOUS
  <2> QED BY <1>1, <1>4, <2>1
<1>6. \A k \in 1..3 : v1[to + k] = XorWord(w[from + k], v1[to + k - 1])
  <2> TAKE k \in 1..3
  <2>1. v1[to + 1] = XorWord(w[from + 1], v1[to]) /\ v1[to + 2] = XorWord(w[from + 2], v1[to + 1])
        /\ v1[to + 3] = XorWord(w[from + 3], v1[to + 2])
    BY <1>4
  <2>2. k = 1 \/ k = 2 \/ k = 3
    OBVIOUS
  <2>3. to + 1 - 1 = to /\ to + 2 - 1 = to + 1 /\ to + 3 - 1 = to + 2
    OBVIOUS
  <2> HIDE DEF w1, w2, w3
  <2> QED BY <2>1, <2>2, <2>3
<1> QED BY <1>4, <1>5, <1>6

\* A chain carries an expansion on by four words.
LEMMA ChainExpands ==
    ASSUME NEW w \in Contexts, NEW x, NEW n \in 4..8, NEW from \in Nat, NEW to \in Nat,
           to = from + n, to + 4 <= AES_PRIV_NR_POS,
           Expanded(w, x, n, to), Empty(w, to, AES_PRIV_NR_POS),
           NEW first \in Word, first = ExpWord(w, x, n, to),
           \A k \in 1..3 : (to + k) % n # 0 /\ ~(n > 6 /\ (to + k) % n = 4),
           NEW v1, v1 = Chain(w, from, to, first)
    PROVE  /\ v1 \in Contexts /\ Agree(v1, w, to)
           /\ Expanded(v1, x, n, to + 4) /\ Empty(v1, to + 4, AES_PRIV_NR_POS)
<1>1. from + 1 \in 0..(to - 1) /\ from + 2 \in 0..(to - 1) /\ from + 3 \in 0..(to - 1)
      /\ from + 3 < to /\ to + 3 <= AES_PRIV_NR_POS
  BY DEF AES_PRIV_NR_POS
<1>2. w[from + 1] \in Word /\ w[from + 2] \in Word /\ w[from + 3] \in Word
  BY <1>1 DEF Expanded
<1>3. /\ v1 \in Contexts
      /\ \A k \in 0..3 : v1[to + k] \in Word
      /\ v1[to] = first
      /\ \A k \in 1..3 : v1[to + k] = XorWord(w[from + k], v1[to + k - 1])
      /\ \A p \in Positions : ~(p \in to..(to + 3)) => v1[p] = w[p]
  BY <1>1, <1>2, ChainIs
<1>4. Agree(v1, w, to)
  <2> SUFFICES ASSUME NEW k \in 0..(to - 1) PROVE v1[k] = w[k]
    BY DEF Agree
  <2>1. k \in Positions /\ ~(k \in to..(to + 3))
    BY DEF Positions, AES_PRIV_NR_POS
  <2> QED BY <1>3, <2>1
<1>5. Empty(v1, to + 4, AES_PRIV_NR_POS)
  <2> SUFFICES ASSUME NEW p \in (to + 4)..AES_PRIV_NR_POS PROVE v1[p] = Unset
    BY DEF Empty
  <2>1. p \in Positions /\ ~(p \in to..(to + 3)) /\ p \in to..AES_PRIV_NR_POS
    BY DEF Positions, AES_PRIV_NR_POS
  <2>2. v1[p] = w[p]
    BY <1>3, <2>1
  <2> QED BY <2>1, <2>2 DEF Empty
<1>6. Expanded(v1, x, n, to)
  BY <1>4, ExpansionAgrees
<1>7. \A k \in 0..3 : v1[to + k] = ExpWord(v1, x, n, to + k)
  <2>1. v1[to] = ExpWord(v1, x, n, to)
    <3>1. to - n \in 0..(to - 1) /\ to - 1 \in 0..(to - 1) /\ ~(to < n)
      BY <1>1
    <3>2. v1[to - n] = w[to - n] /\ v1[to - 1] = w[to - 1]
      BY <1>4, <3>1 DEF Agree
    <3> QED BY <1>3, <3>1, <3>2 DEF ExpWord
  <2>2. \A k \in 1..3 : v1[to + k] = ExpWord(v1, x, n, to + k)
    <3> TAKE k \in 1..3
    <3>1. from + k \in 0..(to - 1) /\ to + k - n = from + k /\ ~(to + k < n)
      BY <1>1
    <3>2. v1[from + k] = w[from + k]
      BY <1>4, <3>1 DEF Agree
    <3>3. v1[to + k] = XorWord(v1[to + k - n], v1[to + k - 1])
      BY <1>3, <3>1, <3>2
    <3> QED BY <3>1, <3>3 DEF ExpWord
  <2>3. to + 0 = to /\ \A k \in 0..3 : k = 0 \/ k \in 1..3
    OBVIOUS
  <2> QED BY <2>1, <2>2, <2>3
<1>8. Expanded(v1, x, n, to + 4)
  <2> SUFFICES ASSUME NEW k \in 0..(to + 4 - 1)
               PROVE  v1[k] \in Word /\ v1[k] = ExpWord(v1, x, n, k)
    BY DEF Expanded
  <2>1. CASE k \in 0..(to - 1)
    BY <1>6, <2>1 DEF Expanded
  <2>2. CASE ~(k \in 0..(to - 1))
    <3>1. k - to \in 0..3 /\ to + (k - to) = k
      BY <2>2
    <3> QED BY <1>3, <1>7, <3>1
  <2> QED BY <2>1, <2>2
<1> QED BY <1>3, <1>4, <1>5, <1>8

\* The first word of turn t: the round constant is that of the definition.
LEMMA FirstWordIs ==
    ASSUME NEW u \in Word, NEW w \in Word, NEW t \in 0..9
    PROVE  /\ Xor4(u, RotSub(w), RCON(t), ZeroWord)
                = XorWord(u, XorWord(SubWord(RotWord(w)), Rcon(t + 1)))
           /\ Xor4(u, RotSub(w), RCON(t), ZeroWord) \in Word
<1>1. RotSub(w) = SubWord(RotWord(w)) /\ RotSub(w) \in Word
  BY SubstitutesBytes
<1>2. RCON(t) = Rcon(t + 1) /\ RCON(t) \in Word
  BY RconCorrect
<1>3. XorWord(RCON(t), ZeroWord) = RCON(t)
  BY <1>2, WordGroup
<1>4. Xor4(u, RotSub(w), RCON(t), ZeroWord) = XorWord(XorWord(u, RotSub(w)), RCON(t))
  BY <1>3 DEF Xor4
<1>5. XorWord(XorWord(u, RotSub(w)), RCON(t)) = XorWord(u, XorWord(RotSub(w), RCON(t)))
  BY <1>1, <1>2, WordGroup
<1>6. XorWord(u, RotSub(w)) \in Word
  BY <1>1, WordGroup
<1>7. XorWord(XorWord(u, RotSub(w)), RCON(t)) \in Word
  BY <1>2, <1>6, WordGroup
<1> QED BY <1>1, <1>2, <1>4, <1>5, <1>7

\* One turn for each length of key.  The premise is what a turn begins with.
LEMMA Turn128 ==
    ASSUME NEW w \in Contexts, NEW x, NEW t \in 0..9, NEW b \in Nat, b = 4 * t,
           Expanded(w, x, 4, b + 4), Empty(w, b + 4, AES_PRIV_NR_POS),
           NEW v1, v1 = Chain(w, b, b + 4, Xor4(w[b], RotSub(w[b + 3]), RCON(t), ZeroWord))
    PROVE  v1 \in Contexts /\ Expanded(v1, x, 4, b + 8) /\ Empty(v1, b + 8, AES_PRIV_NR_POS)
<1> DEFINE first == Xor4(w[b], RotSub(w[b + 3]), RCON(t), ZeroWord)
<1>1. b \in 0..(b + 3) /\ b + 3 \in 0..(b + 4 - 1) /\ b \in 0..(b + 4 - 1) /\ b \in Nat
  OBVIOUS
<1>2. w[b] \in Word /\ w[b + 3] \in Word
  BY <1>1 DEF Expanded
<1>3. first = XorWord(w[b], XorWord(SubWord(RotWord(w[b + 3])), Rcon(t + 1))) /\ first \in Word
  BY <1>2, FirstWordIs
<1>4. /\ ~(b + 4 < 4) /\ (b + 4) % 4 = 0 /\ (b + 4) \div 4 = t + 1
      /\ b + 4 - 4 = b /\ b + 4 - 1 = b + 3
  OBVIOUS
<1> HIDE DEF first
<1>5. first = ExpWord(w, x, 4, b + 4)
  BY <1>3, <1>4 DEF ExpWord
<1>6. \A k \in 1..3 : (b + 4 + k) % 4 # 0 /\ ~(4 > 6 /\ (b + 4 + k) % 4 = 4)
  OBVIOUS
<1>7. 4 \in 4..8 /\ b + 4 \in Nat /\ b + 4 + 4 <= AES_PRIV_NR_POS /\ b + 4 + 4 = b + 8
  BY DEF AES_PRIV_NR_POS
<1>8. v1 = Chain(w, b, b + 4, first)
  BY DEF first
<1>9. v1 \in Contexts /\ Expanded(v1, x, 4, b + 4 + 4) /\ Empty(v1, b + 4 + 4, AES_PRIV_NR_POS)
  BY ZenonT(60), <1>1, <1>3, <1>5, <1>6, <1>7, <1>8, ChainExpands
<1> QED BY <1>7, <1>9

\* With 6 words a turn,
LEMMA Turn192 ==
    ASSUME NEW w \in Contexts, NEW x, NEW t \in 0..7, NEW b \in Nat, b = 6 * t,
           Expanded(w, x, 6, b + 6), Empty(w, b + 6, AES_PRIV_NR_POS),
           NEW v1, v1 = Chain(w, b, b + 6, Xor4(w[b], RotSub(w[b + 5]), RCON(t), ZeroWord))
    PROVE  v1 \in Contexts /\ Expanded(v1, x, 6, b + 10) /\ Empty(v1, b + 10, AES_PRIV_NR_POS)
<1> DEFINE first == Xor4(w[b], RotSub(w[b + 5]), RCON(t), ZeroWord)
<1>1. b + 5 \in 0..(b + 6 - 1) /\ b \in 0..(b + 6 - 1) /\ b \in Nat /\ t \in 0..9
  OBVIOUS
<1>2. w[b] \in Word /\ w[b + 5] \in Word
  BY <1>1 DEF Expanded
<1>3. first = XorWord(w[b], XorWord(SubWord(RotWord(w[b + 5])), Rcon(t + 1))) /\ first \in Word
  BY <1>1, <1>2, FirstWordIs
<1>4. /\ ~(b + 6 < 6) /\ (b + 6) % 6 = 0 /\ (b + 6) \div 6 = t + 1
      /\ b + 6 - 6 = b /\ b + 6 - 1 = b + 5
  OBVIOUS
<1> HIDE DEF first
<1>5. first = ExpWord(w, x, 6, b + 6)
  BY <1>3, <1>4 DEF ExpWord
<1>6. \A k \in 1..3 : (b + 6 + k) % 6 # 0 /\ ~(6 > 6 /\ (b + 6 + k) % 6 = 4)
  OBVIOUS
<1>7. 6 \in 4..8 /\ b + 6 \in Nat /\ b + 6 + 4 <= AES_PRIV_NR_POS /\ b + 6 + 4 = b + 10
  BY DEF AES_PRIV_NR_POS
<1>8. v1 = Chain(w, b, b + 6, first)
  BY DEF first
<1>9. v1 \in Contexts /\ Expanded(v1, x, 6, b + 6 + 4) /\ Empty(v1, b + 6 + 4, AES_PRIV_NR_POS)
  BY <1>1, <1>3, <1>5, <1>6, <1>7, <1>8, ChainExpands
<1> QED BY <1>7, <1>9

\* and with 8.
LEMMA Turn256 ==
    ASSUME NEW w \in Contexts, NEW x, NEW t \in 0..6, NEW b \in Nat, b = 8 * t,
           Expanded(w, x, 8, b + 8), Empty(w, b + 8, AES_PRIV_NR_POS),
           NEW v1, v1 = Chain(w, b, b + 8, Xor4(w[b], RotSub(w[b + 7]), RCON(t), ZeroWord))
    PROVE  v1 \in Contexts /\ Expanded(v1, x, 8, b + 12) /\ Empty(v1, b + 12, AES_PRIV_NR_POS)
           /\ Agree(v1, w, b + 8)
<1> DEFINE first == Xor4(w[b], RotSub(w[b + 7]), RCON(t), ZeroWord)
<1>1. b + 7 \in 0..(b + 8 - 1) /\ b \in 0..(b + 8 - 1) /\ b \in Nat /\ t \in 0..9
  OBVIOUS
<1>2. w[b] \in Word /\ w[b + 7] \in Word
  BY <1>1 DEF Expanded
<1>3. first = XorWord(w[b], XorWord(SubWord(RotWord(w[b + 7])), Rcon(t + 1))) /\ first \in Word
  BY <1>1, <1>2, FirstWordIs
<1>4. /\ ~(b + 8 < 8) /\ (b + 8) % 8 = 0 /\ (b + 8) \div 8 = t + 1
      /\ b + 8 - 8 = b /\ b + 8 - 1 = b + 7
  OBVIOUS
<1> HIDE DEF first
<1>5. first = ExpWord(w, x, 8, b + 8)
  BY <1>3, <1>4 DEF ExpWord
<1>6. \A k \in 1..3 : (b + 8 + k) % 8 # 0 /\ ~(8 > 6 /\ (b + 8 + k) % 8 = 4)
  OBVIOUS
<1>7. 8 \in 4..8 /\ b + 8 \in Nat /\ b + 8 + 4 <= AES_PRIV_NR_POS /\ b + 8 + 4 = b + 12
  BY DEF AES_PRIV_NR_POS
<1>8. v1 = Chain(w, b, b + 8, first)
  BY DEF first
<1>9. v1 \in Contexts /\ Expanded(v1, x, 8, b + 8 + 4) /\ Empty(v1, b + 8 + 4, AES_PRIV_NR_POS)
      /\ Agree(v1, w, b + 8)
  BY <1>1, <1>3, <1>5, <1>6, <1>7, <1>8, ChainExpands
<1> QED BY <1>7, <1>9

\* The rest of a turn that is not the last: two words more, or four.
LEMMA Rest192 ==
    ASSUME NEW w \in Contexts, NEW x, NEW t \in 0..6, NEW b \in Nat, b = 6 * t,
           Expanded(w, x, 6, b + 10), Empty(w, b + 10, AES_PRIV_NR_POS),
           NEW v1 \in Contexts,
           v1[b + 10] = XorWord(w[b + 4], w[b + 9]),
           v1[b + 11] = XorWord(w[b + 5], v1[b + 10]),
           \A k \in Positions : k # b + 10 /\ k # b + 11 => v1[k] = w[k]
    PROVE  Expanded(v1, x, 6, b + 12) /\ Empty(v1, b + 12, AES_PRIV_NR_POS)
<1>1. /\ b + 4 \in 0..(b + 10 - 1) /\ b + 5 \in 0..(b + 10 - 1) /\ b + 9 \in 0..(b + 10 - 1)
      /\ b + 10 \in Positions /\ b + 11 \in Positions /\ b \in Nat
  BY DEF Positions, AES_PRIV_NR_POS
<1>2. w[b + 4] \in Word /\ w[b + 5] \in Word /\ w[b + 9] \in Word
  BY <1>1 DEF Expanded
<1>3. v1[b + 10] \in Word
  BY <1>2, WordGroup
<1>4. v1[b + 11] \in Word
  BY <1>2, <1>3, WordGroup
<1>6. Agree(v1, w, b + 10)
  <2> SUFFICES ASSUME NEW k \in 0..(b + 10 - 1) PROVE v1[k] = w[k]
    BY DEF Agree
  <2>1. k \in Positions /\ k # b + 10 /\ k # b + 11
    BY DEF Positions, AES_PRIV_NR_POS
  <2> QED BY <2>1
<1>7. Expanded(v1, x, 6, b + 10)
  <2>1. 6 \in Nat \ {0} /\ b + 10 \in Nat
    OBVIOUS
  <2> QED BY <1>6, <2>1, ExpansionAgrees
<1>8. v1[b + 4] = w[b + 4] /\ v1[b + 5] = w[b + 5] /\ v1[b + 9] = w[b + 9]
  BY <1>1, <1>6 DEF Agree
<1>9. v1[b + 10] = ExpWord(v1, x, 6, b + 10)
  <2>1. ~(b + 10 < 6) /\ (b + 10) % 6 # 0 /\ ~(6 > 6 /\ (b + 10) % 6 = 4)
        /\ b + 10 - 6 = b + 4 /\ b + 10 - 1 = b + 9
    OBVIOUS
  <2> QED BY <1>8, <2>1 DEF ExpWord
<1>10. v1[b + 11] = ExpWord(v1, x, 6, b + 11)
  <2>1. ~(b + 11 < 6) /\ (b + 11) % 6 # 0 /\ ~(6 > 6 /\ (b + 11) % 6 = 4)
        /\ b + 11 - 6 = b + 5 /\ b + 11 - 1 = b + 10
    OBVIOUS
  <2> QED BY <1>8, <2>1 DEF ExpWord
<1>11. Expanded(v1, x, 6, b + 12)
  <2> SUFFICES ASSUME NEW k \in 0..(b + 12 - 1)
               PROVE  v1[k] \in Word /\ v1[k] = ExpWord(v1, x, 6, k)
    BY DEF Expanded
  <2>1. k \in 0..(b + 10 - 1) \/ k = b + 10 \/ k = b + 11
    OBVIOUS
  <2>2. CASE k \in 0..(b + 10 - 1)
    BY <1>7, <2>2 DEF Expanded
  <2> QED BY <1>3, <1>4, <1>9, <1>10, <2>1, <2>2
<1>12. Empty(v1, b + 12, AES_PRIV_NR_POS)
  <2> SUFFICES ASSUME NEW k \in (b + 12)..AES_PRIV_NR_POS PROVE v1[k] = Unset
    BY DEF Empty
  <2>1. k \in Positions /\ k # b + 10 /\ k # b + 11 /\ k \in (b + 10)..AES_PRIV_NR_POS
    BY DEF Positions, AES_PRIV_NR_POS
  <2> QED BY <2>1 DEF Empty
<1> QED BY <1>11, <1>12

\* The second chain of a turn of 8 words, which substitutes without turning.
LEMMA Rest256 ==
    ASSUME NEW w \in Contexts, NEW x, NEW t \in 0..5, NEW b \in Nat, b = 8 * t,
           Expanded(w, x, 8, b + 12), Empty(w, b + 12, AES_PRIV_NR_POS),
           NEW v1, v1 = Chain(w, b + 4, b + 12, XorWord(w[b + 4], Sub(w[b + 11])))
    PROVE  v1 \in Contexts /\ Expanded(v1, x, 8, b + 16) /\ Empty(v1, b + 16, AES_PRIV_NR_POS)
<1> DEFINE first == XorWord(w[b + 4], Sub(w[b + 11]))
<1>1. b + 4 \in 0..(b + 12 - 1) /\ b + 11 \in 0..(b + 12 - 1) /\ b + 4 \in Nat
  OBVIOUS
<1>2. w[b + 4] \in Word /\ w[b + 11] \in Word
  BY <1>1 DEF Expanded
<1>3. Sub(w[b + 11]) = SubWord(w[b + 11]) /\ Sub(w[b + 11]) \in Word
  BY <1>2, SubstitutesBytes
<1>4. first \in Word /\ first = XorWord(w[b + 4], SubWord(w[b + 11]))
  BY <1>2, <1>3, WordGroup
<1>5. ~(b + 12 < 8) /\ (b + 12) % 8 # 0 /\ (b + 12) % 8 = 4 /\ b + 12 - 8 = b + 4
      /\ b + 12 - 1 = b + 11
  OBVIOUS
<1> HIDE DEF first
<1>6. first = ExpWord(w, x, 8, b + 12)
  <2>1. 8 > 6
    OBVIOUS
  <2> QED BY <1>4, <1>5, <2>1 DEF ExpWord
<1>7. \A k \in 1..3 : (b + 12 + k) % 8 # 0 /\ ~(8 > 6 /\ (b + 12 + k) % 8 = 4)
  OBVIOUS
<1>8. 8 \in 4..8 /\ b + 12 \in Nat /\ b + 12 + 4 <= AES_PRIV_NR_POS /\ b + 12 + 4 = b + 16
      /\ b + 12 = b + 4 + 8
  BY DEF AES_PRIV_NR_POS
<1>9. v1 = Chain(w, b + 4, b + 12, first)
  BY DEF first
<1>10. v1 \in Contexts /\ Expanded(v1, x, 8, b + 12 + 4) /\ Empty(v1, b + 12 + 4, AES_PRIV_NR_POS)
  BY <1>1, <1>4, <1>6, <1>7, <1>8, <1>9, ChainExpands
<1> QED BY <1>8, <1>10

-----------------------------------------------------------------------------
\* The rounds.  What a state is after SubBytes and ShiftRows.
Shifted(st) == ShiftRows(SubBytes(st))

\* The bytes it takes from the columns.
LEMMA ShiftedIs ==
    ASSUME NEW st \in States
    PROVE  /\ Shifted(st) \in States
           /\ \A c \in 0..3 : Shifted(st)[c] = <<S[st[c][1]], S[st[(c + 1) % 4][2]],
                                                 S[st[(c + 2) % 4][3]], S[st[(c + 3) % 4][4]]>>
<1>1. S = SBox /\ \A y \in Byte : S[y] \in Byte
  BY SubstitutionsCorrect
<1>2. \A c \in 0..3 : SubBytes(st)[c] = <<S[st[c][1]], S[st[c][2]], S[st[c][3]], S[st[c][4]]>>
  BY <1>1 DEF SubBytes, SubWord, Columns
<1>3. \A c \in 0..3 : Shifted(st)[c] = <<SubBytes(st)[c][1], SubBytes(st)[(c + 1) % 4][2],
                                         SubBytes(st)[(c + 2) % 4][3], SubBytes(st)[(c + 3) % 4][4]>>
  BY DEF Shifted, ShiftRows, Columns
<1>4. \A c \in 0..3 : (c + 1) % 4 \in 0..3 /\ (c + 2) % 4 \in 0..3 /\ (c + 3) % 4 \in 0..3
  OBVIOUS
<1>5. \A c \in 0..3 : Shifted(st)[c] = <<S[st[c][1]], S[st[(c + 1) % 4][2]],
                                         S[st[(c + 2) % 4][3]], S[st[(c + 3) % 4][4]]>>
  BY <1>2, <1>3, <1>4
<1>6. \A c \in 0..3 : Shifted(st)[c] \in Word
  <2> TAKE c \in 0..3
  <2>1. st[c] \in Word /\ st[(c + 1) % 4] \in Word /\ st[(c + 2) % 4] \in Word
        /\ st[(c + 3) % 4] \in Word
    BY <1>4 DEF States
  <2>2. st[c][1] \in Byte /\ st[(c + 1) % 4][2] \in Byte /\ st[(c + 2) % 4][3] \in Byte
        /\ st[(c + 3) % 4][4] \in Byte
    BY <2>1, WordIs
  <2>3. S[st[c][1]] \in Byte /\ S[st[(c + 1) % 4][2]] \in Byte /\ S[st[(c + 2) % 4][3]] \in Byte
        /\ S[st[(c + 3) % 4][4]] \in Byte
    BY <1>1, <2>2
  <2> DEFINE p == S[st[c][1]]  q == S[st[(c + 1) % 4][2]]
             u == S[st[(c + 2) % 4][3]]  x == S[st[(c + 3) % 4][4]]
  <2>4. Shifted(st)[c] = <<p, q, u, x>>
    BY <1>5
  <2> HIDE DEF p, q, u, x
  <2>5. p \in Byte /\ q \in Byte /\ u \in Byte /\ x \in Byte
    BY <2>3 DEF p, q, u, x
  <2> QED BY <2>4, <2>5, WordOf
<1>7. Shifted(st) = [c \in 0..3 |-> Shifted(st)[c]]
  BY DEF Shifted, ShiftRows, Columns
<1> QED BY <1>5, <1>6, <1>7 DEF States

\* The lookups of a round, and of the last one, of the encryption.
LEMMA EncLookups ==
    ASSUME NEW st \in States, NEW c \in 0..3
    PROVE  /\ Xor4(TE0(st[c]), TE1(st[(c + 1) % 4]), TE2(st[(c + 2) % 4]), TE3(st[(c + 3) % 4]))
                = MixColumn(Shifted(st)[c])
           /\ LastEnc(st[c], st[(c + 1) % 4], st[(c + 2) % 4], st[(c + 3) % 4]) = Shifted(st)[c]
<1>1. st[c] \in Word /\ st[(c + 1) % 4] \in Word /\ st[(c + 2) % 4] \in Word
      /\ st[(c + 3) % 4] \in Word
  BY DEF States
<1>2. Shifted(st)[c] = <<S[st[c][1]], S[st[(c + 1) % 4][2]],
                         S[st[(c + 2) % 4][3]], S[st[(c + 3) % 4][4]]>>
  BY ShiftedIs
<1> DEFINE p == st[c]  q == st[(c + 1) % 4]  u == st[(c + 2) % 4]  x == st[(c + 3) % 4]
<1> HIDE DEF p, q, u, x
<1>3. p \in Word /\ q \in Word /\ u \in Word /\ x \in Word
  BY <1>1 DEF p, q, u, x
<1>4. Xor4(TE0(p), TE1(q), TE2(u), TE3(x)) = MixColumn(<<S[p[1]], S[q[2]], S[u[3]], S[x[4]]>>)
  BY <1>3, EncColumn
<1>5. LastEnc(p, q, u, x) = <<S[p[1]], S[q[2]], S[u[3]], S[x[4]]>>
  BY <1>3, LastLookups
<1> QED BY <1>2, <1>4, <1>5 DEF p, q, u, x

\* Those of the decryption, for a state that the encryption has substituted and shifted.
LEMMA DecLookups ==
    ASSUME NEW st \in States, NEW t \in States, st = Shifted(t), NEW c \in 0..3
    PROVE  /\ Xor4(TD0(st[c]), TD1(st[(c + 3) % 4]), TD2(st[(c + 2) % 4]), TD3(st[(c + 1) % 4]))
                = InvColumn(t[c])
           /\ LastDec(st[c], st[(c + 3) % 4], st[(c + 2) % 4], st[(c + 1) % 4]) = t[c]
<1> DEFINE c1 == (c + 1) % 4  c2 == (c + 2) % 4  c3 == (c + 3) % 4
<1>1. /\ c1 \in 0..3 /\ c2 \in 0..3 /\ c3 \in 0..3
      /\ (c3 + 1) % 4 = c /\ (c2 + 2) % 4 = c /\ (c1 + 3) % 4 = c
  OBVIOUS
<1> HIDE DEF c1, c2, c3
<1>2. st[c] \in Word /\ st[c1] \in Word /\ st[c2] \in Word /\ st[c3] \in Word /\ t[c] \in Word
  BY <1>1 DEF States
<1>3. \A d \in 0..3 : st[d] = <<S[t[d][1]], S[t[(d + 1) % 4][2]],
                                S[t[(d + 2) % 4][3]], S[t[(d + 3) % 4][4]]>>
  BY ShiftedIs
<1>4. /\ st[c][1] = S[t[c][1]] /\ st[c3][2] = S[t[c][2]]
      /\ st[c2][3] = S[t[c][3]] /\ st[c1][4] = S[t[c][4]]
  BY <1>1, <1>3
<1>5. /\ t[c][1] \in Byte /\ t[c][2] \in Byte /\ t[c][3] \in Byte /\ t[c][4] \in Byte
      /\ t[c] = <<t[c][1], t[c][2], t[c][3], t[c][4]>>
  BY <1>2, WordIs
<1>6. \A y \in Byte : Si[S[y]] = y
  BY SubstitutionsCorrect
<1>7. <<Si[st[c][1]], Si[st[c3][2]], Si[st[c2][3]], Si[st[c1][4]]>> = t[c]
  BY <1>4, <1>5, <1>6
<1>8. Xor4(TD0(st[c]), TD1(st[c3]), TD2(st[c2]), TD3(st[c1]))
        = InvColumn(<<Si[st[c][1]], Si[st[c3][2]], Si[st[c2][3]], Si[st[c1][4]]>>)
  BY <1>2, DecColumn
<1>9. LastDec(st[c], st[c3], st[c2], st[c1])
        = <<Si[st[c][1]], Si[st[c3][2]], Si[st[c2][3]], Si[st[c1][4]]>>
  <2> DEFINE p == st[c]  q == st[c3]  u == st[c2]  x == st[c1]
  <2>1. p \in Word /\ q \in Word /\ u \in Word /\ x \in Word
    BY <1>2
  <2> HIDE DEF p, q, u, x
  <2>2. LastDec(p, q, u, x) = <<Si[p[1]], Si[q[2]], Si[u[3]], Si[x[4]]>>
    BY <2>1, LastLookups
  <2> QED BY <2>2 DEF p, q, u, x
<1> QED BY <1>7, <1>8, <1>9 DEF c1, c2, c3

\* Adding a round key twice changes nothing.
LEMMA AddTwice ==
    ASSUME NEW u \in Word, NEW w \in Word
    PROVE  XorWord(XorWord(u, w), w) = u
<1>1. XorWord(XorWord(u, w), w) = XorWord(u, XorWord(w, w)) /\ XorWord(w, w) = ZeroWord
      /\ XorWord(u, ZeroWord) = u
  BY WordGroup
<1> QED BY <1>1

\* A sequence of bytes behind another.
LEMMA Joined ==
    ASSUME NEW a \in Seq(Byte), NEW b \in Seq(Byte)
    PROVE  /\ a \o b \in Seq(Byte) /\ Len(a \o b) = Len(a) + Len(b)
           /\ \A k \in 1..(Len(a) + Len(b)) :
                (a \o b)[k] = IF k <= Len(a) THEN a[k] ELSE b[k - Len(a)]
BY ConcatProperties

\* A word as a sequence of bytes.
LEMMA WordSequence ==
    ASSUME NEW w \in Word
    PROVE  w \in Seq(Byte) /\ Len(w) = 4
<1>1. \A a, b, c, d \in Byte : <<a, b, c, d>> \in Seq(Byte) /\ Len(<<a, b, c, d>>) = 4
  OBVIOUS
<1>2. w = <<w[1], w[2], w[3], w[4]>> /\ w[1] \in Byte /\ w[2] \in Byte /\ w[3] \in Byte
      /\ w[4] \in Byte
  BY WordIs
<1> QED BY <1>1, <1>2

\* A block is its four words.
LEMMA BlockWords ==
    ASSUME NEW st \in States
    PROVE  PUTU32(st) \in Blocks16 /\ \A c \in 0..3 : GETU32(PUTU32(st), c) = st[c]
<1>1. \A c \in 0..3 : /\ st[c] \in Word /\ st[c] \in Seq(Byte) /\ Len(st[c]) = 4
                      /\ st[c] = <<st[c][1], st[c][2], st[c][3], st[c][4]>>
  <2> TAKE c \in 0..3
  <2>1. st[c] \in Word
    BY DEF States
  <2> QED BY <2>1, WordIs, WordSequence
<1>2. 0 \in 0..3 /\ 1 \in 0..3 /\ 2 \in 0..3 /\ 3 \in 0..3
  OBVIOUS
<1>3. /\ st[0] \in Seq(Byte) /\ st[1] \in Seq(Byte) /\ st[2] \in Seq(Byte) /\ st[3] \in Seq(Byte)
      /\ Len(st[0]) = 4 /\ Len(st[1]) = 4 /\ Len(st[2]) = 4 /\ Len(st[3]) = 4
  BY <1>1, <1>2
<1> DEFINE a == st[0] \o st[1]  b == a \o st[2]  d == b \o st[3]
<1>4. /\ a \in Seq(Byte) /\ Len(a) = 8
      /\ \A k \in 1..8 : a[k] = IF k <= 4 THEN st[0][k] ELSE st[1][k - 4]
  <2>1. /\ a \in Seq(Byte) /\ Len(a) = Len(st[0]) + Len(st[1])
        /\ \A k \in 1..(Len(st[0]) + Len(st[1])) :
          a[k] = IF k <= Len(st[0]) THEN st[0][k] ELSE st[1][k - Len(st[0])]
    BY <1>3, Joined, Zenon
  <2> HIDE DEF a
  <2> QED BY <1>3, <2>1
<1> HIDE DEF a
<1>5. /\ b \in Seq(Byte) /\ Len(b) = 12
      /\ \A k \in 1..12 : b[k] = IF k <= 8 THEN a[k] ELSE st[2][k - 8]
  <2>1. b \in Seq(Byte) /\ Len(b) = Len(a) + Len(st[2]) /\ \A k \in 1..(Len(a) + Len(st[2])) :
          b[k] = IF k <= Len(a) THEN a[k] ELSE st[2][k - Len(a)]
    BY <1>3, <1>4, Joined, Zenon
  <2> HIDE DEF b
  <2> QED BY <1>3, <1>4, <2>1
<1> HIDE DEF b
<1>6. /\ d \in Seq(Byte) /\ Len(d) = 16
      /\ \A k \in 1..16 : d[k] = IF k <= 12 THEN b[k] ELSE st[3][k - 12]
  <2>1. d \in Seq(Byte) /\ Len(d) = Len(b) + Len(st[3]) /\ \A k \in 1..(Len(b) + Len(st[3])) :
          d[k] = IF k <= Len(b) THEN b[k] ELSE st[3][k - Len(b)]
    BY <1>3, <1>5, Joined, Zenon
  <2> HIDE DEF d
  <2> QED BY <1>3, <1>5, <2>1
<1>7. PUTU32(st) = d
  BY DEF PUTU32, a, b
<1> HIDE DEF d
<1>8. d \in Blocks16
  <2>1. d \in [1..Len(d) -> Byte]
    BY <1>6, LenProperties
  <2> QED BY <1>6, <2>1 DEF Blocks16
<1>9. \A c \in 0..3 : GETU32(d, c) = st[c]
  <2> TAKE c \in 0..3
  <2>1. /\ d[1] = st[0][1] /\ d[2] = st[0][2] /\ d[3] = st[0][3] /\ d[4] = st[0][4]
        /\ d[5] = st[1][1] /\ d[6] = st[1][2] /\ d[7] = st[1][3] /\ d[8] = st[1][4]
    BY <1>4, <1>5, <1>6
  <2>2. /\ d[9] = st[2][1] /\ d[10] = st[2][2] /\ d[11] = st[2][3] /\ d[12] = st[2][4]
        /\ d[13] = st[3][1] /\ d[14] = st[3][2] /\ d[15] = st[3][3] /\ d[16] = st[3][4]
    BY <1>5, <1>6
  <2>3. c = 0 \/ c = 1 \/ c = 2 \/ c = 3
    OBVIOUS
  <2>4. GETU32(d, 0) = st[0]
    BY <1>1, <1>2, <2>1 DEF GETU32
  <2>5. GETU32(d, 1) = st[1]
    BY <1>1, <1>2, <2>1 DEF GETU32
  <2>6. GETU32(d, 2) = st[2]
    BY <1>1, <1>2, <2>2 DEF GETU32
  <2>7. GETU32(d, 3) = st[3]
    BY <1>1, <1>2, <2>2 DEF GETU32
  <2> QED BY <2>3, <2>4, <2>5, <2>6, <2>7
<1> QED BY <1>7, <1>8, <1>9

\* Two blocks with the same words are one.
LEMMA SameWords ==
    ASSUME NEW p \in Blocks16, NEW q \in Blocks16,
           \A c \in 0..3 : GETU32(p, c) = GETU32(q, c)
    PROVE  p = q
<1>1. \A k \in 1..16 : p[k] = q[k]
  <2> TAKE k \in 1..16
  <2> DEFINE c == (k - 1) \div 4
  <2>1. c \in 0..3 /\ (k = 4 * c + 1 \/ k = 4 * c + 2 \/ k = 4 * c + 3 \/ k = 4 * c + 4)
    OBVIOUS
  <2> HIDE DEF c
  <2>2. GETU32(p, c) = GETU32(q, c)
    BY <2>1
  <2>3. p[4 * c + 1] = q[4 * c + 1] /\ p[4 * c + 2] = q[4 * c + 2]
        /\ p[4 * c + 3] = q[4 * c + 3] /\ p[4 * c + 4] = q[4 * c + 4]
    BY <2>2 DEF GETU32
  <2> QED BY <2>1, <2>3
<1> QED BY <1>1 DEF Blocks16

\* The four words of a block are a state.
LEMMA WordsOfBlock ==
    ASSUME NEW p \in Blocks16
    PROVE  [c \in 0..3 |-> GETU32(p, c)] \in States
<1>1. \A c \in 0..3 : GETU32(p, c) \in Word
  <2> TAKE c \in 0..3
  <2>1. 4 * c + 1 \in 1..16 /\ 4 * c + 2 \in 1..16 /\ 4 * c + 3 \in 1..16 /\ 4 * c + 4 \in 1..16
    OBVIOUS
  <2>2. p[4 * c + 1] \in Byte /\ p[4 * c + 2] \in Byte /\ p[4 * c + 3] \in Byte
        /\ p[4 * c + 4] \in Byte
    BY <2>1 DEF Blocks16
  <2> QED BY <2>2, WordOf DEF GETU32
<1> QED BY <1>1 DEF States

-----------------------------------------------------------------------------
\* A context is live exactly while it is prepared or used.
THEOREM ContextsBalance == Spec => []ContextBalanced
<1>1. Init => ContextBalanced
  BY DEF Init, ContextBalanced, Preparing, Using
<1>2. ContextBalanced /\ [Next]_vars => ContextBalanced'
  <2> SUFFICES ASSUME ContextBalanced, [Next]_vars PROVE ContextBalanced'
    OBVIOUS
  <2> USE DEF ContextBalanced, Preparing, Using
  <2>1. CASE AllocFails \/ LoadKey \/ Unsupported
    BY <2>1 DEF AllocFails, LoadKey, Unsupported
  <2>2. CASE Expand128 \/ Expand192 \/ Expand256
    <3>1. pc = "expand" /\ live' = live /\ pc' \in {"expand", "invert", "nr"}
      BY <2>2 DEF Expand128, Expand192, Expand256, NextTurn, UnchangedCall
    <3> QED BY <3>1
  <2>3. CASE InvertOrder \/ MixKeys
    <3>1. pc \in {"invert", "mix"} /\ live' = live /\ pc' \in {"invert", "mix", "nr"}
      BY <2>3 DEF InvertOrder, MixKeys, UnchangedCall
    <3> QED BY <3>1
  <2>4. CASE StoreNr \/ Start
    BY <2>4 DEF StoreNr, Start
  <2>5. CASE EncRound \/ DecRound \/ EncLast \/ DecLast
    <3>1. pc = "rounds" /\ live' = live /\ pc' \in {"rounds", "deinit"}
      BY <2>5 DEF EncRound, DecRound, EncLast, DecLast
    <3> QED BY <3>1
  <2>6. CASE Deinit
    BY <2>6 DEF Deinit
  <2>7. CASE UNCHANGED vars
    BY <2>7 DEF vars
  <2> QED BY <2>1, <2>2, <2>3, <2>4, <2>5, <2>6, <2>7 DEF Next
<1> QED BY <1>1, <1>2, PTL DEF Spec

\* The invariant holds at first.
LEMMA InvInit == Init => CipherInv
<1> SUFFICES ASSUME Init PROVE CipherInv
  OBVIOUS
<1>1. TypeInv
  <2>1. key \in Seq(Byte) /\ plain \in Blocks16
    BY InputsAssumption DEF Init, Blocks16
  <2>2. Fresh \in Contexts
    BY DEF Fresh, Contexts
  <2>3. NoState \in States
    <3>1. ZeroWord \in Word
      BY DEF ZeroWord, Word, Byte
    <3> QED BY <3>1 DEF NoState, States
  <2>4. <<>> \in Seq(States)
    OBVIOUS
  <2>5. rk \in Contexts /\ expanded \in Contexts
    BY <2>2 DEF Init
  <2>6. s \in States /\ trace \in Seq(States)
    BY <2>3, <2>4 DEF Init
  <2>7. pc = "idle" /\ decrypting \in BOOLEAN /\ crypt = NoBlock
    BY DEF Init
  <2>8. base \in Nat /\ Nr \in Nat /\ i \in Nat /\ j \in Int /\ round \in Nat
    BY DEF Init
  <2> QED BY <2>1, <2>5, <2>6, <2>7, <2>8 DEF TypeInv
<1>2. ControlInv /\ ScheduleInv /\ InverseInv
  BY DEF Init, ControlInv, ScheduleInv, InverseInv, Reversing, Scheduled, Using, Preparing
<1>3. TraceInv
  <2>1. EncryptionIsStandard
    BY DEF Init, EncryptionIsStandard
  <2> QED BY <2>1 DEF Init, TraceInv
<1> QED BY <1>1, <1>2, <1>3 DEF CipherInv

\* Nothing of the encryption is touched between two of its steps.
LEMMA HistoryKept ==
    ASSUME TraceInv, UNCHANGED <<key, plain, decrypting, crypt, expanded, trace>>,
           pc \in {"rounds", "deinit"} => decrypting, pc' \notin {"rounds", "deinit"}
    PROVE  TraceInv'
<1>1. EncryptionIsStandard'
  BY DEF TraceInv, EncryptionIsStandard
<1>2. trace' # <<>> => trace'[1] = AddRoundKey(PlainState', expanded', 0)
  BY DEF TraceInv, PlainState
<1>3. ~decrypting => trace = <<>> /\ crypt = NoBlock
  BY DEF TraceInv
<1>4. decrypting => Len(trace) = Nk + 6 /\ crypt \in Blocks16
  BY DEF TraceInv
<1>5. Nk' = Nk
  BY DEF Nk
<1> QED BY <1>1, <1>2, <1>3, <1>4, <1>5 DEF TraceInv

\* A turn of the key expansion: the first words are the key, the turn adds words of
\* the expansion, the last one leaves the whole schedule.
LEMMA ExpansionStep ==
    ASSUME CipherInv, pc = "expand", UnchangedCall,
           NEW n \in {4, 6, 8}, NEW last \in 0..9, <<n, last>> \in {<<4, 9>>, <<6, 7>>, <<8, 6>>},
           Len(key) = 4 * n, i \in 0..last, base = n * i, NextTurn(n, last, n + 6),
           rk' \in Contexts,
           i = last => /\ Expanded(rk', key, n, 4 * (n + 6) + 4)
                       /\ Empty(rk', 4 * (n + 6) + 4, AES_PRIV_NR_POS),
           i # last => /\ Expanded(rk', key, n, base + n + n)
                       /\ Empty(rk', base + n + n, AES_PRIV_NR_POS)
    PROVE  CipherInv'
<1> USE DEF CipherInv
<1>0. /\ key' = key /\ plain' = plain /\ decrypting' = decrypting /\ round' = round
      /\ s' = s /\ crypt' = crypt /\ out' = out /\ expanded' = expanded /\ trace' = trace
  BY DEF UnchangedCall
<1>1. n = Nk /\ Nk' = Nk /\ Supported /\ Supported'
  <2>1. n = Len(key) \div 4 /\ Len(key) \in {16, 24, 32}
    OBVIOUS
  <2> QED BY <1>0, <2>1 DEF Nk, Supported
<1>2. \/ i = last /\ Nr' = n + 6 /\ pc' = (IF decrypting THEN "invert" ELSE "nr")
         /\ base' = 0 /\ i' = 0 /\ j' = 4 * (n + 6)
      \/ i # last /\ base' = base + n /\ i' = i + 1 /\ pc' = pc /\ Nr' = Nr /\ j' = j
  BY DEF NextTurn
<1>3. pc' \in {"expand", "invert", "nr"} /\ (decrypting => pc' # "nr")
      /\ (~decrypting => pc' # "invert") /\ decrypting \in BOOLEAN
  BY <1>2 DEF TypeInv
<1>4. TypeInv'
  <2>1. base \in Nat /\ i \in Nat /\ Nr \in Nat /\ j \in Int
    BY DEF TypeInv
  <2>2. base' \in Nat /\ i' \in Nat /\ Nr' \in Nat /\ j' \in Int
    BY <1>2, <2>1
  <2>3. pc' \in {"idle", "failed", "done"} \cup Preparing \cup Using
    BY <1>3 DEF Preparing
  <2> QED BY <1>0, <2>2, <2>3 DEF TypeInv
<1>5. ControlInv'
  BY <1>0, <1>1, <1>2, <1>3 DEF ControlInv, Reversing, Scheduled, Using
<1>6. ScheduleInv'
  <2>1. CASE i # last
    <3>1. pc' = "expand" /\ i' = i + 1 /\ base' = base + n /\ i' \in 0..last
      BY <1>2, <2>1
    <3>2. Turning(n, last)'
      <4>1. base' = n * i'
        BY <3>1
      <4> QED BY <1>0, <2>1, <3>1, <4>1 DEF Turning
    <3>3. /\ Len(key) = 16 => n = 4 /\ last = 9
          /\ Len(key) = 24 => n = 6 /\ last = 7
          /\ Len(key) = 32 => n = 8 /\ last = 6
      OBVIOUS
    <3>4. decrypting => FullSchedule(expanded)
      BY DEF ScheduleInv
    <3> QED BY <1>0, <1>1, <3>1, <3>2, <3>3, <3>4 DEF ScheduleInv, Scheduled, Using, FullSchedule
  <2>2. CASE i = last
    <3>1. Nr' = Nk + 6 /\ FullSchedule(rk') /\ Empty(rk', 4 * Nr' + 4, AES_PRIV_NR_POS)
      BY <1>1, <1>2, <2>2 DEF FullSchedule
    <3>2. decrypting => FullSchedule(expanded)
      BY DEF ScheduleInv
    <3>3. Empty(rk', 4 * Nr' + 4, AES_PRIV_NR_POS - 1)
      BY <3>1 DEF Empty, AES_PRIV_NR_POS
    <3>4. CASE decrypting
      <4>1. pc' = "invert" /\ base' = 0 /\ i' = 0 /\ j' = 4 * Nr' /\ Nr' \in Nat
        BY <1>1, <1>2, <2>2, <3>1, <3>4
      <4>2. Agree(expanded, rk', 4 * Nr' + 4)
        BY <1>1, <3>1, <3>2, <3>4, ExpansionUnique DEF FullSchedule
      <4>3. Swapped4(rk', expanded', Nr', 0)
        <5>1. ASSUME NEW k \in 0..Nr', NEW c \in 0..3
              PROVE  rk'[4 * k + c] = expanded[4 * k + c] /\ ~(k < 0) /\ ~(k > Nr' - 0)
          BY <4>1, <4>2 DEF Agree
        <5> QED BY <1>0, <5>1 DEF Swapped4
      <4>4. 0 \in 0..Nr' /\ i' = 4 * 0 /\ j' = 4 * (Nr' - 0) /\ 2 * 0 <= Nr'
        BY <4>1
      <4> QED BY <1>0, <1>1, <3>2, <4>1, <4>3, <4>4 DEF ScheduleInv, Scheduled, Using, FullSchedule
    <3>5. CASE ~decrypting
      <4>1. pc' = "nr"
        BY <1>2, <2>2, <3>5
      <4> QED BY <1>0, <1>1, <3>1, <3>3, <3>5, <4>1 DEF ScheduleInv, Scheduled, Using, FullSchedule
    <3> QED BY <3>4, <3>5
  <2> QED BY <2>1, <2>2
<1>7. TraceInv'
  BY <1>0, <1>3, HistoryKept
<1>8. InverseInv'
  BY <1>0, <1>3 DEF InverseInv
<1> QED BY <1>4, <1>5, <1>6, <1>7, <1>8

\* A turn for a key of 128 bits,
LEMMA Expand128Step ==
    ASSUME CipherInv, Expand128
    PROVE  CipherInv'
<1>1. /\ pc = "expand" /\ UnchangedCall /\ NextTurn(4, 9, 10)
      /\ rk' = Chain(rk, base, base + 4, FirstWord(4))
  BY DEF Expand128
<1>2. Len(key) = 16
  <2>1. key \in Seq(Byte) /\ 8 * Len(key) = 128
    BY DEF Expand128, KeyBits, CipherInv, TypeInv
  <2> DEFINE n == Len(key)
  <2>2. n \in Nat
    BY <2>1, LenProperties
  <2> HIDE DEF n
  <2>3. 8 * n = 128
    BY <2>1 DEF n
  <2>4. n = 16
    BY <2>2, <2>3
  <2> QED BY <2>4 DEF n
<1>3. Turning(4, 9) /\ rk \in Contexts
  BY <1>1, <1>2 DEF CipherInv, ScheduleInv, TypeInv
<1>4. /\ i \in 0..9 /\ base \in Nat /\ base = 4 * i
      /\ Expanded(rk, key, 4, base + 4) /\ Empty(rk, base + 4, AES_PRIV_NR_POS)
  BY <1>3 DEF Turning
<1>5. rk' = Chain(rk, base, base + 4, Xor4(rk[base], RotSub(rk[base + 3]), RCON(i), ZeroWord))
  <2>1. base + 4 - 1 = base + 3
    BY <1>4
  <2> QED BY <1>1, <2>1 DEF FirstWord
<1>6. rk' \in Contexts /\ Expanded(rk', key, 4, base + 8) /\ Empty(rk', base + 8, AES_PRIV_NR_POS)
  BY <1>3, <1>4, <1>5, Turn128
<1>7. i = 9 => base + 8 = 4 * (4 + 6) + 4
  BY <1>4
<1>8. base + 8 = base + 4 + 4 /\ 4 + 6 = 10 /\ 16 = 4 * 4 /\ 4 \in {4, 6, 8} /\ 9 \in 0..9
  BY <1>4
<1> QED BY <1>1, <1>2, <1>4, <1>6, <1>7, <1>8, ExpansionStep

\* one of 192, which ends in the middle of the last turn,
LEMMA Expand192Step ==
    ASSUME CipherInv, Expand192
    PROVE  CipherInv'
<1> DEFINE w == Chain(rk, base, base + 6, FirstWord(6))
           p == XorWord(w[base + 4], w[base + 9])
           q == XorWord(w[base + 5], p)
<1>1. /\ pc = "expand" /\ UnchangedCall /\ NextTurn(6, 7, 12)
      /\ rk' = IF i = 7 THEN w ELSE [w EXCEPT ![base + 10] = p, ![base + 11] = q]
  BY DEF Expand192
<1>2. Len(key) = 24
  <2>1. key \in Seq(Byte) /\ 8 * Len(key) = 192
    BY DEF Expand192, KeyBits, CipherInv, TypeInv
  <2> DEFINE n == Len(key)
  <2>2. n \in Nat
    BY <2>1, LenProperties
  <2> HIDE DEF n
  <2>3. 8 * n = 192
    BY <2>1 DEF n
  <2>4. n = 24
    BY <2>2, <2>3
  <2> QED BY <2>4 DEF n
<1>3. Turning(6, 7) /\ rk \in Contexts
  BY <1>1, <1>2 DEF CipherInv, ScheduleInv, TypeInv
<1>4. /\ i \in 0..7 /\ base \in Nat /\ base = 6 * i
      /\ Expanded(rk, key, 6, base + 6) /\ Empty(rk, base + 6, AES_PRIV_NR_POS)
  BY <1>3 DEF Turning
<1>5. w = Chain(rk, base, base + 6, Xor4(rk[base], RotSub(rk[base + 5]), RCON(i), ZeroWord))
  <2>1. base + 6 - 1 = base + 5
    BY <1>4
  <2> QED BY <2>1 DEF FirstWord
<1> HIDE DEF w
<1>6. w \in Contexts /\ Expanded(w, key, 6, base + 10) /\ Empty(w, base + 10, AES_PRIV_NR_POS)
  BY <1>3, <1>4, <1>5, Turn192
<1>7. CASE i = 7
  <2>1. rk' = w /\ base + 10 = 4 * (6 + 6) + 4
    BY <1>1, <1>4, <1>7
  <2>2. 6 + 6 = 12 /\ 24 = 4 * 6 /\ 6 \in {4, 6, 8} /\ 7 \in 0..9
    OBVIOUS
  <2> QED BY <1>1, <1>2, <1>4, <1>6, <1>7, <2>1, <2>2, ExpansionStep
<1>8. CASE i # 7
  <2>1. /\ base + 4 \in 0..(base + 10 - 1) /\ base + 5 \in 0..(base + 10 - 1)
        /\ base + 9 \in 0..(base + 10 - 1) /\ base \in 0..49 /\ i \in 0..6
    BY <1>4, <1>8
  <2>2. w[base + 4] \in Word /\ w[base + 5] \in Word /\ w[base + 9] \in Word
    BY <1>6, <2>1 DEF Expanded
  <2>3. p \in Word
    BY <2>2, WordGroup
  <2>4. q \in Word
    BY <2>2, <2>3, WordGroup
  <2>5. rk' = [w EXCEPT ![base + 10] = p, ![base + 11] = q]
    BY <1>1, <1>8
  <2>6. /\ rk'[base + 10] = p /\ rk'[base + 11] = q /\ rk' \in Contexts
        /\ \A k \in Positions : k # base + 10 /\ k # base + 11 => rk'[k] = w[k]
    <3> DEFINE v1 == [w EXCEPT ![base + 10] = p, ![base + 11] = q]
    <3>1. v1 = [w EXCEPT ![base + 10] = p, ![base + 11] = q] /\ rk' = v1
      BY <2>5
    <3> HIDE DEF p, q, v1
    <3>2. /\ v1[base + 10] = p /\ v1[base + 11] = q /\ v1 \in Contexts
          /\ \A k \in Positions : k # base + 10 /\ k # base + 11 => v1[k] = w[k]
      <4>1. base + 10 \in Positions /\ base + 11 \in Positions /\ base + 10 # base + 11
        BY <2>1 DEF Positions, AES_PRIV_NR_POS
      <4> QED BY <1>6, <2>3, <2>4, <3>1, <4>1 DEF Contexts
    <3> QED BY <3>1, <3>2
  <2>7. rk'[base + 10] = XorWord(w[base + 4], w[base + 9])
        /\ rk'[base + 11] = XorWord(w[base + 5], rk'[base + 10])
    BY <2>6
  <2>8. Expanded(rk', key, 6, base + 12) /\ Empty(rk', base + 12, AES_PRIV_NR_POS)
    BY <1>4, <1>6, <2>1, <2>6, <2>7, Rest192
  <2>9. base + 12 = base + 6 + 6 /\ 6 + 6 = 12 /\ 24 = 4 * 6 /\ 6 \in {4, 6, 8} /\ 7 \in 0..9
    BY <1>4
  <2> QED BY <1>1, <1>2, <1>4, <1>8, <2>6, <2>8, <2>9, ExpansionStep
<1> QED BY <1>7, <1>8

\* and one of 256.
LEMMA Expand256Step ==
    ASSUME CipherInv, Expand256
    PROVE  CipherInv'
<1> DEFINE w == Chain(rk, base, base + 8, FirstWord(8))
<1>1. /\ pc = "expand" /\ UnchangedCall /\ NextTurn(8, 6, 14)
      /\ rk' = IF i = 6 THEN w
               ELSE Chain(w, base + 4, base + 12, XorWord(w[base + 4], Sub(w[base + 11])))
  BY DEF Expand256
<1>2. Len(key) = 32
  <2>1. key \in Seq(Byte) /\ 8 * Len(key) = 256
    BY DEF Expand256, KeyBits, CipherInv, TypeInv
  <2> DEFINE n == Len(key)
  <2>2. n \in Nat
    BY <2>1, LenProperties
  <2> HIDE DEF n
  <2>3. 8 * n = 256
    BY <2>1 DEF n
  <2>4. n = 32
    BY <2>2, <2>3
  <2> QED BY <2>4 DEF n
<1>3. Turning(8, 6) /\ rk \in Contexts
  BY <1>1, <1>2 DEF CipherInv, ScheduleInv, TypeInv
<1>4. /\ i \in 0..6 /\ base \in Nat /\ base = 8 * i
      /\ Expanded(rk, key, 8, base + 8) /\ Empty(rk, base + 8, AES_PRIV_NR_POS)
  BY <1>3 DEF Turning
<1>5. w = Chain(rk, base, base + 8, Xor4(rk[base], RotSub(rk[base + 7]), RCON(i), ZeroWord))
  <2>1. base + 8 - 1 = base + 7
    BY <1>4
  <2> QED BY <2>1 DEF FirstWord
<1> HIDE DEF w
<1>6. w \in Contexts /\ Expanded(w, key, 8, base + 12) /\ Empty(w, base + 12, AES_PRIV_NR_POS)
  BY <1>3, <1>4, <1>5, Turn256
<1>7. CASE i = 6
  <2>1. rk' = w /\ base + 12 = 4 * (8 + 6) + 4
    BY <1>1, <1>4, <1>7
  <2>2. 8 + 6 = 14 /\ 32 = 4 * 8 /\ 8 \in {4, 6, 8} /\ 6 \in 0..9
    OBVIOUS
  <2> QED BY <1>1, <1>2, <1>4, <1>6, <1>7, <2>1, <2>2, ExpansionStep
<1>8. CASE i # 6
  <2>1. rk' = Chain(w, base + 4, base + 12, XorWord(w[base + 4], Sub(w[base + 11])))
    BY <1>1, <1>8
  <2>2. i \in 0..5
    BY <1>4, <1>8
  <2>3. rk' \in Contexts /\ Expanded(rk', key, 8, base + 16)
        /\ Empty(rk', base + 16, AES_PRIV_NR_POS)
    BY <1>4, <1>6, <2>1, <2>2, Rest256
  <2>4. base + 16 = base + 8 + 8 /\ 8 + 6 = 14 /\ 32 = 4 * 8 /\ 8 \in {4, 6, 8} /\ 6 \in 0..9
    BY <1>4
  <2> QED BY <1>1, <1>2, <1>4, <1>8, <2>3, <2>4, ExpansionStep
<1> QED BY <1>7, <1>8

-----------------------------------------------------------------------------
\* The number of rounds, once it is known.
LEMMA NrIs ==
    ASSUME CipherInv, pc \in Reversing \cup Scheduled
    PROVE  Nr \in {10, 12, 14} /\ Nr = Nk + 6 /\ Supported
<1>1. Nr = Nk + 6 /\ Supported
  BY DEF CipherInv, ControlInv
<1>2. Nk \in {4, 6, 8}
  <2> DEFINE n == Len(key)
  <2>1. n \in {16, 24, 32}
    BY <1>1 DEF Supported
  <2> HIDE DEF n
  <2>2. n \div 4 \in {4, 6, 8}
    BY <2>1
  <2> QED BY <2>2 DEF Nk, n
<1> QED BY <1>1, <1>2

\* A state of the invariant in which nothing but the schedule differs.
LEMMA KeysReversed ==
    ASSUME CipherInv, UnchangedCall, Nr' = Nr, pc \in Reversing, pc' \in Reversing \cup {"nr"},
           rk' \in Contexts, base' \in Nat, i' \in Nat, j' \in Int,
           pc' = "invert" => /\ base' = 0
                             /\ \E m \in 0..Nr : /\ i' = 4 * m /\ j' = 4 * (Nr - m)
                                                 /\ 2 * m <= Nr
                                                 /\ Swapped4(rk', expanded', Nr, m),
           pc' = "mix" => i' \in 1..Nr /\ base' = 4 * (i' - 1) /\ Mixed(rk', expanded', Nr, i'),
           pc' = "nr" => Mixed(rk', expanded', Nr, Nr)
    PROVE  CipherInv'
<1> USE DEF CipherInv
<1>0. /\ key' = key /\ plain' = plain /\ decrypting' = decrypting /\ round' = round
      /\ s' = s /\ crypt' = crypt /\ out' = out /\ expanded' = expanded /\ trace' = trace
  BY DEF UnchangedCall
<1>1. decrypting /\ Nk' = Nk /\ Supported /\ Supported' /\ Nr = Nk + 6
  BY <1>0, NrIs DEF Nk, Supported, ControlInv
<1>2. pc' \in {"invert", "mix", "nr"}
  BY DEF Reversing
<1>3. TypeInv'
  <2>1. pc' \in {"idle", "failed", "done"} \cup Preparing \cup Using
    BY <1>2 DEF Preparing
  <2> QED BY <1>0, <2>1 DEF TypeInv
<1>4. ControlInv'
  BY <1>0, <1>1, <1>2 DEF ControlInv, Using
<1>5. ScheduleInv'
  <2>1. FullSchedule(expanded)
    BY <1>1 DEF ScheduleInv
  <2>2. FullSchedule(expanded)'
    BY <1>0, <1>1, <2>1 DEF FullSchedule
  <2>3. CASE pc' = "invert"
    BY <1>0, <1>1, <2>2, <2>3 DEF ScheduleInv, Scheduled, Using
  <2>4. CASE pc' = "mix"
    BY <1>0, <1>1, <2>2, <2>4 DEF ScheduleInv, Scheduled, Using
  <2>5. CASE pc' = "nr"
    BY <1>0, <1>1, <2>2, <2>5 DEF ScheduleInv, Scheduled, Using
  <2> QED BY <1>2, <2>3, <2>4, <2>5
<1>6. TraceInv'
  BY <1>0, <1>1, <1>2, HistoryKept
<1>7. InverseInv'
  BY <1>0, <1>2 DEF InverseInv
<1> QED BY <1>3, <1>4, <1>5, <1>6, <1>7

\* Exchanging two round keys, or ending because the two ends have met.
LEMMA InvertOrderStep ==
    ASSUME CipherInv, InvertOrder
    PROVE  CipherInv'
<1>1. /\ pc = "invert" /\ UnchangedCall /\ base' = base /\ Nr' = Nr /\ pc \in Reversing
      /\ expanded' = expanded
  BY DEF InvertOrder, Reversing, UnchangedCall
<1>2. Nr \in {10, 12, 14}
  BY <1>1, NrIs
<1>3. base = 0 /\ rk \in Contexts /\ i \in Nat /\ j \in Int
  BY <1>1 DEF CipherInv, ScheduleInv, TypeInv
<1>4. PICK m \in 0..Nr : /\ i = 4 * m /\ j = 4 * (Nr - m) /\ 2 * m <= Nr
                         /\ Swapped4(rk, expanded, Nr, m)
  BY <1>1 DEF CipherInv, ScheduleInv
<1>5. \A k \in 0..Nr, c \in 0..3 :
        rk[4 * k + c] = expanded[IF k < m \/ k > Nr - m THEN 4 * (Nr - k) + c ELSE 4 * k + c]
  BY <1>4 DEF Swapped4
<1>6. CASE i < j
  <2>1. rk' = SwapRoundKeys /\ i' = i + 4 /\ j' = j - 4 /\ pc' = "invert"
    BY <1>1, <1>6 DEF InvertOrder
  <2>2. rk' \in Contexts
    <3>1. \A p \in Positions : (p \in i..(i + 3) => j + (p - i) \in Positions)
                               /\ (p \in j..(j + 3) => i + (p - j) \in Positions)
      BY <1>2, <1>4 DEF Positions, AES_PRIV_NR_POS
    <3> QED BY <1>3, <2>1, <3>1 DEF Contexts, SwapRoundKeys
  <2>3. m + 1 \in 0..Nr /\ i' = 4 * (m + 1) /\ j' = 4 * (Nr - (m + 1)) /\ 2 * (m + 1) <= Nr
    BY <1>2, <1>4, <1>6, <2>1
  <2>4. ASSUME NEW k \in 0..Nr, NEW c \in 0..3
        PROVE  rk'[4 * k + c] = expanded[IF k < m + 1 \/ k > Nr - (m + 1)
                                         THEN 4 * (Nr - k) + c ELSE 4 * k + c]
    <3>1. 4 * k + c \in Positions
      BY <1>2 DEF Positions, AES_PRIV_NR_POS
    <3>2. rk'[4 * k + c] = IF 4 * k + c \in i..(i + 3) THEN rk[j + ((4 * k + c) - i)]
                           ELSE IF 4 * k + c \in j..(j + 3) THEN rk[i + ((4 * k + c) - j)]
                           ELSE rk[4 * k + c]
      <4>1. \A p \in Positions :
              rk'[p] = IF p \in i..(i + 3) THEN rk[j + (p - i)]
                       ELSE IF p \in j..(j + 3) THEN rk[i + (p - j)] ELSE rk[p]
        BY <2>1 DEF SwapRoundKeys
      <4> QED BY <3>1, <4>1, Zenon
    <3>3. CASE k = m
      <4>1. /\ 4 * k + c \in i..(i + 3) /\ j + ((4 * k + c) - i) = 4 * (Nr - m) + c
            /\ Nr - m \in 0..Nr
        BY <1>2, <1>4, <3>3
      <4>2. ~(Nr - m < m) /\ ~(Nr - m > Nr - m)
        BY <1>2, <1>4
      <4>3. rk[4 * (Nr - m) + c] = expanded[4 * (Nr - m) + c]
        BY <1>5, <4>1, <4>2
      <4> QED BY <1>4, <3>2, <3>3, <4>1, <4>3
    <3>4. CASE k = Nr - m /\ k # m
      <4>1. /\ ~(4 * k + c \in i..(i + 3)) /\ 4 * k + c \in j..(j + 3)
            /\ i + ((4 * k + c) - j) = 4 * m + c /\ Nr - k = m
        BY <1>2, <1>4, <3>4
      <4>2. ~(m < m) /\ ~(m > Nr - m)
        BY <1>2, <1>4
      <4>3. rk[4 * m + c] = expanded[4 * m + c]
        BY <1>5, <4>2
      <4>4. k > Nr - (m + 1)
        BY <1>2, <1>4, <3>4
      <4> QED BY <3>2, <4>1, <4>3, <4>4
    <3>5. CASE k # m /\ k # Nr - m
      <4>1. ~(4 * k + c \in i..(i + 3)) /\ ~(4 * k + c \in j..(j + 3))
        BY <1>2, <1>4, <3>5
      <4>2. (k < m \/ k > Nr - m) <=> (k < m + 1 \/ k > Nr - (m + 1))
        BY <1>2, <1>4, <3>5
      <4>3. rk'[4 * k + c] = rk[4 * k + c]
        BY <3>2, <4>1
      <4> QED BY <1>5, <4>2, <4>3
    <3> QED BY <3>3, <3>4, <3>5
  <2>5. Swapped4(rk', expanded', Nr, m + 1)
    BY <1>1, <2>4 DEF Swapped4
  <2>6. pc' # "mix" /\ pc' # "nr" /\ base' = 0 /\ pc' \in Reversing /\ base' \in Nat /\ i' \in Nat
        /\ j' \in Int
    BY <1>1, <1>2, <1>3, <2>1 DEF Reversing
  <2> QED BY <1>1, <2>2, <2>3, <2>5, <2>6, KeysReversed
<1>7. CASE ~(i < j)
  <2>1. pc' = "mix" /\ i' = 1 /\ rk' = rk /\ j' = j
    BY <1>1, <1>7 DEF InvertOrder
  <2>2. 2 * m = Nr
    BY <1>2, <1>4, <1>7
  <2>3. ASSUME NEW k \in 0..Nr, NEW c \in 0..3
        PROVE  rk[4 * k + c] = expanded[4 * (Nr - k) + c]
    <3>1. k < m \/ k > Nr - m \/ 4 * (Nr - k) + c = 4 * k + c
      BY <1>2, <2>2
    <3> QED BY <1>5, <3>1
  <2>4. Mixed(rk', expanded', Nr, 1)
    <3>1. \A k \in 0..Nr : ~(k \in 1..(1 - 1))
      OBVIOUS
    <3> QED BY <1>1, <2>1, <2>3, <3>1 DEF Mixed
  <2>5. Mixed(rk', expanded', Nr, i') /\ i' \in 1..Nr /\ base' = 4 * (i' - 1)
    BY <1>1, <1>2, <1>3, <2>1, <2>4
  <2>6. pc' # "invert" /\ pc' # "nr" /\ pc' \in Reversing /\ base' \in Nat /\ i' \in Nat
        /\ j' \in Int /\ rk' \in Contexts
    BY <1>1, <1>3, <2>1 DEF Reversing
  <2> QED BY <1>1, <2>5, <2>6, KeysReversed
<1> QED BY <1>6, <1>7

\* The inverse column of the words of one round key.
LEMMA MixKeysStep ==
    ASSUME CipherInv, MixKeys
    PROVE  CipherInv'
<1>1. /\ pc = "mix" /\ UnchangedCall /\ Nr' = Nr /\ pc \in Reversing /\ expanded' = expanded
      /\ j' = j
  BY DEF MixKeys, Reversing, UnchangedCall
<1>2. Nr \in {10, 12, 14} /\ Nr = Nk + 6 /\ Supported
  BY <1>1, NrIs
<1>3. /\ i \in 1..Nr /\ base = 4 * (i - 1) /\ Mixed(rk, expanded, Nr, i)
      /\ rk \in Contexts /\ j \in Int
  BY <1>1 DEF CipherInv, ScheduleInv, TypeInv
<1>4. decrypting /\ FullSchedule(expanded)
  BY <1>1 DEF CipherInv, ScheduleInv, ControlInv, Reversing
<1>5. CASE i < Nr
  <2>1. /\ base' = base + 4 /\ rk' = MixRoundKey(base') /\ i' = i + 1 /\ pc' = "mix"
        /\ base' = 4 * i
    BY <1>1, <1>3, <1>5 DEF MixKeys
  <2>2. \A p \in Positions : rk'[p] = IF p \in (4 * i)..(4 * i + 3) THEN InvMix(rk[p]) ELSE rk[p]
    BY <2>1 DEF MixRoundKey
  <2>3. \A p \in (4 * i)..(4 * i + 3) : InvMix(rk[p]) \in Word
    <3> TAKE p \in (4 * i)..(4 * i + 3)
    <3> DEFINE c == p - 4 * i
    <3>1. c \in 0..3 /\ i \in 0..Nr /\ p = 4 * i + c /\ ~(i \in 1..(i - 1))
      BY <1>3
    <3> HIDE DEF c
    <3>2. rk[p] = expanded[4 * (Nr - i) + c]
      BY <1>3, <3>1 DEF Mixed
    <3>3. 4 * (Nr - i) + c \in 0..((4 * (Nk + 6) + 4) - 1)
      BY <1>2, <1>3, <3>1
    <3>4. expanded[4 * (Nr - i) + c] \in Word
      <4>1. \A q \in 0..((4 * (Nk + 6) + 4) - 1) : expanded[q] \in Word
        BY <1>4 DEF FullSchedule, Expanded
      <4> QED BY <3>3, <4>1
    <3>5. rk[p] \in Word
      BY <3>2, <3>4
    <3> QED BY <3>5, SubstitutesBytes
  <2>4. rk' \in Contexts
    <3>1. \A p \in Positions : rk'[p] \in Word \cup {Unset}
      BY <1>3, <2>2, <2>3 DEF Contexts
    <3>2. rk' = [p \in Positions |-> rk'[p]]
      BY <2>1 DEF MixRoundKey
    <3> QED BY <3>1, <3>2 DEF Contexts
  <2>5. ASSUME NEW k \in 0..Nr, NEW c \in 0..3
        PROVE  rk'[4 * k + c] = IF k \in 1..((i + 1) - 1) THEN InvMix(expanded[4 * (Nr - k) + c])
                                ELSE expanded[4 * (Nr - k) + c]
    <3>1. 4 * k + c \in Positions
      BY <1>2 DEF Positions, AES_PRIV_NR_POS
    <3>2. rk[4 * k + c] = IF k \in 1..(i - 1) THEN InvMix(expanded[4 * (Nr - k) + c])
                          ELSE expanded[4 * (Nr - k) + c]
      BY <1>3 DEF Mixed
    <3>3. CASE k = i
      <4>1. 4 * k + c \in (4 * i)..(4 * i + 3) /\ ~(k \in 1..(i - 1)) /\ k \in 1..((i + 1) - 1)
        BY <1>3, <3>3
      <4> QED BY <2>2, <3>1, <3>2, <4>1
    <3>4. CASE k # i
      <4>1. ~(4 * k + c \in (4 * i)..(4 * i + 3)) /\ (k \in 1..(i - 1) <=> k \in 1..((i + 1) - 1))
        BY <1>3, <3>4
      <4> QED BY <2>2, <3>1, <3>2, <4>1
    <3> QED BY <3>3, <3>4
  <2>6. Mixed(rk', expanded', Nr, i')
    <3>1. Mixed(rk', expanded, Nr, i + 1)
      BY <2>5, Zenon DEF Mixed
    <3> QED BY <1>1, <2>1, <3>1
  <2>7. i' \in 1..Nr /\ base' = 4 * (i' - 1) /\ base' \in Nat /\ i' \in Nat /\ j' \in Int
    BY <1>1, <1>2, <1>3, <1>5, <2>1
  <2>8. pc' # "invert" /\ pc' # "nr" /\ pc' \in Reversing
    BY <2>1 DEF Reversing
  <2> QED BY <1>1, <2>4, <2>6, <2>7, <2>8, KeysReversed
<1>6. CASE ~(i < Nr)
  <2>1. pc' = "nr" /\ rk' = rk /\ base' = base /\ i' = i
    BY <1>1, <1>6 DEF MixKeys
  <2>2. i = Nr /\ base' \in Nat /\ i' \in Nat /\ j' \in Int
    BY <1>1, <1>2, <1>3, <1>6, <2>1
  <2>3. Mixed(rk', expanded', Nr, Nr) /\ rk' \in Contexts
    BY <1>1, <1>3, <2>1, <2>2
  <2>4. pc' # "invert" /\ pc' # "mix" /\ pc' \in Reversing \cup {"nr"}
    BY <2>1
  <2> QED BY <1>1, <2>2, <2>3, <2>4, KeysReversed
<1> QED BY <1>5, <1>6

\* The number of rounds goes into the last word of the context.
LEMMA StoreNrStep ==
    ASSUME CipherInv, StoreNr
    PROVE  CipherInv'
<1>0. /\ pc = "nr" /\ pc' = "start" /\ key' = key /\ plain' = plain /\ decrypting' = decrypting
      /\ base' = base /\ Nr' = Nr /\ i' = i /\ j' = j /\ round' = round
      /\ s' = s /\ crypt' = crypt /\ out' = out /\ trace' = trace
      /\ rk' = [rk EXCEPT ![AES_PRIV_NR_POS] = <<0, 0, 0, Nr>>]
      /\ expanded' = (IF decrypting THEN expanded ELSE rk)
  BY DEF StoreNr
<1>1. Nr \in {10, 12, 14} /\ Nr = Nk + 6 /\ Supported /\ Nk' = Nk /\ Supported'
  BY <1>0, NrIs DEF Nk, Supported, Scheduled
<1>2. rk \in Contexts /\ expanded \in Contexts /\ decrypting \in BOOLEAN
  BY DEF CipherInv, TypeInv
<1>3. <<0, 0, 0, Nr>> \in Word
  <2>1. 0 \in Byte /\ Nr \in Byte
    BY <1>1 DEF Byte
  <2> QED BY <2>1, WordOf
<1>4. /\ rk' \in Contexts /\ rk'[AES_PRIV_NR_POS] = <<0, 0, 0, Nr>>
      /\ \A p \in 0..(AES_PRIV_NR_POS - 1) : rk'[p] = rk[p]
  BY <1>0, <1>2, <1>3 DEF Contexts, Positions, AES_PRIV_NR_POS
<1>5. Agree(rk', rk, AES_PRIV_NR_POS) /\ Agree(rk', rk, 4 * Nr + 4)
  BY <1>1, <1>4 DEF Agree, AES_PRIV_NR_POS
<1>6. TypeInv'
  <2>1. pc' \in {"idle", "failed", "done"} \cup Preparing \cup Using
    BY <1>0 DEF Using
  <2>2. expanded' \in Contexts
    BY <1>0, <1>2
  <2> QED BY <1>0, <1>4, <2>1, <2>2 DEF CipherInv, TypeInv
<1>7. ControlInv'
  BY <1>0, <1>1, <1>4 DEF ControlInv, Reversing
<1>8. ScheduleInv'
  <2>1. CASE decrypting
    <3>1. Mixed(rk, expanded, Nr, Nr) /\ FullSchedule(expanded)
      BY <1>0, <2>1 DEF CipherInv, ScheduleInv, Scheduled
    <3>2. Mixed(rk', expanded, Nr, Nr)
      <4>1. ASSUME NEW k \in 0..Nr, NEW c \in 0..3
            PROVE  rk'[4 * k + c] = rk[4 * k + c]
        BY <1>1, <1>4 DEF AES_PRIV_NR_POS
      <4> QED BY <3>1, <4>1 DEF Mixed
    <3> QED BY <1>0, <1>1, <2>1, <3>1, <3>2 DEF ScheduleInv, Scheduled, Using, FullSchedule
  <2>2. CASE ~decrypting
    <3>1. FullSchedule(rk) /\ Empty(rk, 4 * Nr + 4, AES_PRIV_NR_POS - 1)
      BY <1>0, <2>2 DEF CipherInv, ScheduleInv, Scheduled
    <3>2. Nk \in Nat \ {0} /\ 4 * Nr + 4 \in Nat /\ 4 * Nr + 4 = 4 * (Nk + 6) + 4
      BY <1>1 DEF Nk, Supported
    <3>3. FullSchedule(rk')
      BY <1>5, <3>1, <3>2, ExpansionAgrees DEF FullSchedule
    <3>4. Empty(rk', 4 * Nr + 4, AES_PRIV_NR_POS - 1)
      BY <1>1, <1>4, <3>1 DEF Empty, AES_PRIV_NR_POS
    <3>5. Agree(expanded', rk', AES_PRIV_NR_POS)
      BY <1>0, <1>5, <2>2 DEF Agree
    <3> QED BY <1>0, <1>1, <2>2, <3>3, <3>4, <3>5 DEF ScheduleInv, Scheduled, Using, FullSchedule
  <2> QED BY <2>1, <2>2
<1>9. TraceInv'
  <2>1. CASE decrypting
    BY <1>0, <2>1, HistoryKept DEF CipherInv
  <2>2. CASE ~decrypting
    <3>1. trace = <<>> /\ crypt = NoBlock
      BY <1>0, <2>2 DEF CipherInv, TraceInv
    <3>2. EncryptionIsStandard'
      BY <1>0, <3>1 DEF EncryptionIsStandard
    <3> QED BY <1>0, <2>2, <3>1, <3>2 DEF TraceInv
  <2> QED BY <2>1, <2>2
<1>10. InverseInv'
  BY <1>0 DEF InverseInv
<1> QED BY <1>6, <1>7, <1>8, <1>9, <1>10 DEF CipherInv

-----------------------------------------------------------------------------
\* The words of the key go in as the first words of the schedule.
LEMMA LoadKeyStep ==
    ASSUME CipherInv, LoadKey
    PROVE  CipherInv'
<1>0. /\ pc = "idle" /\ key' = key /\ plain' = plain /\ decrypting' = decrypting
      /\ base' = 0 /\ Nr' = Nr /\ i' = 0 /\ j' = j /\ round' = round
      /\ s' = s /\ crypt' = crypt /\ out' = out /\ trace' = trace /\ expanded' = expanded
      /\ pc' = (IF KeyBits \in {128, 192, 256} THEN "expand" ELSE "unsupported")
  BY DEF LoadKey
<1> DEFINE words == IF KeyBits = 128 THEN 4 ELSE IF KeyBits = 192 THEN 6 ELSE 8
           n == Len(key)
<1>1. rk' = [p \in Positions |-> IF p < words THEN KeyWord(p) ELSE Unset]
  BY DEF LoadKey
<1>2. key \in Seq(Byte) /\ n \in Nat /\ \A p \in 1..n : key[p] \in Byte
  BY LenProperties DEF CipherInv, TypeInv
<1>3. KeyBits = 8 * n
  BY DEF KeyBits
<1> HIDE DEF n
<1>5. /\ KeyBits = 128 => n = 16
      /\ KeyBits = 192 => n = 24
      /\ KeyBits = 256 => n = 32
      /\ n = 16 => KeyBits = 128
      /\ n = 24 => KeyBits = 192
      /\ n = 32 => KeyBits = 256
  BY <1>2, <1>3
<1>6. \A p \in Nat \ {0} : KeyByte(p) \in Byte /\ (p <= n => KeyByte(p) = key[p])
  BY <1>2 DEF KeyByte, n, Byte
<1>7. \A p \in Nat : KeyWord(p) \in Word /\ (4 * p + 4 <= n => KeyWord(p) = WordAt(key, p))
  <2> TAKE p \in Nat
  <2>1. 4 * p + 1 \in Nat \ {0} /\ 4 * p + 2 \in Nat \ {0} /\ 4 * p + 3 \in Nat \ {0}
        /\ 4 * p + 4 \in Nat \ {0}
    OBVIOUS
  <2>2. KeyWord(p) \in Word
    BY <1>6, <2>1, WordOf DEF KeyWord
  <2>3. ASSUME 4 * p + 4 <= n PROVE KeyWord(p) = WordAt(key, p)
    <3>1. 4 * p + 1 <= n /\ 4 * p + 2 <= n /\ 4 * p + 3 <= n
      BY <1>2, <2>3
    <3> QED BY <1>6, <2>1, <2>3, <3>1 DEF KeyWord, WordAt
  <2> QED BY <2>2, <2>3
<1>8. rk' \in Contexts
  <2>1. \A p \in Positions : p \in Nat
    BY DEF Positions
  <2> HIDE DEF words
  <2> QED BY <1>1, <1>7, <2>1 DEF Contexts
<1>9. ASSUME NEW m \in {4, 6, 8}, words = m, n = 4 * m, NEW last \in Nat
      PROVE  Turning(m, last)'
  <2>1. Expanded(rk', key, m, m)
    <3> SUFFICES ASSUME NEW k \in 0..(m - 1)
                 PROVE  rk'[k] \in Word /\ rk'[k] = ExpWord(rk', key, m, k)
      BY DEF Expanded
    <3>1. k \in Positions /\ k < m /\ k \in Nat /\ 4 * k + 4 <= n
      BY <1>9 DEF Positions, AES_PRIV_NR_POS
    <3>2. rk'[k] = KeyWord(k)
      BY <1>1, <1>9, <3>1
    <3> QED BY <1>7, <3>1, <3>2 DEF ExpWord
  <2>2. Empty(rk', m, AES_PRIV_NR_POS)
    <3> SUFFICES ASSUME NEW p \in m..AES_PRIV_NR_POS PROVE rk'[p] = Unset
      BY DEF Empty
    <3>1. p \in Positions /\ ~(p < m)
      BY DEF Positions, AES_PRIV_NR_POS
    <3> QED BY <1>1, <1>9, <3>1
  <2>3. base' + m = m /\ base' = m * i' /\ i' \in 0..last
    BY <1>0
  <2> QED BY <1>0, <2>1, <2>2, <2>3 DEF Turning
<1>10. TypeInv'
  <2>1. pc' \in {"idle", "failed", "done"} \cup Preparing \cup Using
    BY <1>0 DEF Preparing
  <2> QED BY <1>0, <1>8, <2>1 DEF CipherInv, TypeInv
<1>11. ControlInv'
  <2>1. pc' = "expand" => Len(key) \in {16, 24, 32}
    BY <1>0, <1>5 DEF n
  <2>2. decrypting => Supported
    BY DEF CipherInv, ControlInv
  <2> QED BY <1>0, <2>1, <2>2 DEF ControlInv, Supported, Reversing, Scheduled, Using
<1>12. ScheduleInv'
  <2>1. pc' = "expand" => /\ Len(key') = 16 => Turning(4, 9)'
                          /\ Len(key') = 24 => Turning(6, 7)'
                          /\ Len(key') = 32 => Turning(8, 6)'
    <3>1. n = 16 => Turning(4, 9)'
      BY <1>5, <1>9
    <3>2. n = 24 => Turning(6, 7)'
      BY <1>5, <1>9
    <3>3. n = 32 => Turning(8, 6)'
      BY <1>5, <1>9
    <3> QED BY <1>0, <3>1, <3>2, <3>3 DEF n
  <2>2. decrypting => FullSchedule(expanded)
    BY DEF CipherInv, ScheduleInv
  <2>3. decrypting' => FullSchedule(expanded)'
    BY <1>0, <2>2 DEF FullSchedule, Nk
  <2> QED BY <1>0, <2>1, <2>3 DEF ScheduleInv, Scheduled, Using
<1>13. TraceInv'
  BY <1>0, HistoryKept DEF CipherInv
<1>14. InverseInv'
  BY <1>0 DEF InverseInv
<1> QED BY <1>10, <1>11, <1>12, <1>13, <1>14 DEF CipherInv

\* A failed allocation and an unsupported length leave nothing to keep.
LEMMA RefusalStep ==
    ASSUME CipherInv, AllocFails \/ Unsupported
    PROVE  CipherInv'
<1>0. /\ pc \in {"idle", "unsupported"} /\ pc' = "failed"
      /\ key' = key /\ plain' = plain /\ decrypting' = decrypting /\ rk' = rk
      /\ base' = base /\ Nr' = Nr /\ i' = i /\ j' = j /\ round' = round
      /\ s' = s /\ crypt' = crypt /\ out' = out /\ trace' = trace /\ expanded' = expanded
  BY DEF AllocFails, Unsupported
<1>1. TypeInv'
  BY <1>0 DEF CipherInv, TypeInv
<1>2. ControlInv'
  BY <1>0 DEF CipherInv, ControlInv, Supported, Reversing, Scheduled, Using
<1>3. ScheduleInv'
  <2>1. decrypting => FullSchedule(expanded)
    BY DEF CipherInv, ScheduleInv
  <2>2. decrypting' => FullSchedule(expanded)'
    BY <1>0, <2>1 DEF FullSchedule, Nk
  <2> QED BY <1>0, <2>2 DEF ScheduleInv, Scheduled, Using
<1>4. TraceInv'
  BY <1>0, HistoryKept DEF CipherInv
<1>5. InverseInv'
  BY <1>0 DEF InverseInv
<1> QED BY <1>1, <1>2, <1>3, <1>4, <1>5 DEF CipherInv

\* What a context that is used holds.
LEMMA InUse ==
    ASSUME CipherInv, pc \in Using
    PROVE  /\ Nr \in {10, 12, 14} /\ Nr = Nk + 6 /\ Rounds = Nr
           /\ \A k \in 0..Nr, c \in 0..3 : expanded[4 * k + c] \in Word
           /\ ~decrypting => \A k \in 0..Nr, c \in 0..3 : rk[4 * k + c] = expanded[4 * k + c]
           /\ decrypting => Mixed(rk, expanded, Nr, Nr)
<1>1. Nr \in {10, 12, 14} /\ Nr = Nk + 6
  BY NrIs DEF Scheduled
<1>2. Rounds = Nr
  <2>1. rk[AES_PRIV_NR_POS] = <<0, 0, 0, Nr>>
    BY DEF CipherInv, ControlInv
  <2> QED BY <2>1 DEF Rounds
<1>3. decrypting => Mixed(rk, expanded, Nr, Nr) /\ FullSchedule(expanded)
  BY DEF CipherInv, ScheduleInv, Scheduled
<1>4. ~decrypting => FullSchedule(rk) /\ Agree(expanded, rk, AES_PRIV_NR_POS)
  BY DEF CipherInv, ScheduleInv, Scheduled
<1>5. \A k \in 0..Nr, c \in 0..3 : /\ 4 * k + c \in 0..((4 * (Nk + 6) + 4) - 1)
                                   /\ 4 * k + c \in 0..(AES_PRIV_NR_POS - 1)
  BY <1>1 DEF AES_PRIV_NR_POS
<1>6. CASE decrypting
  <2>1. \A k \in 0..Nr, c \in 0..3 : expanded[4 * k + c] \in Word
    BY <1>3, <1>5, <1>6 DEF FullSchedule, Expanded
  <2> QED BY <1>1, <1>2, <1>3, <1>6, <2>1
<1>7. CASE ~decrypting
  <2>1. \A k \in 0..Nr, c \in 0..3 : rk[4 * k + c] \in Word
    BY <1>4, <1>5, <1>7 DEF FullSchedule, Expanded
  <2>2. \A k \in 0..Nr, c \in 0..3 : rk[4 * k + c] = expanded[4 * k + c]
    BY <1>4, <1>5, <1>7 DEF Agree
  <2> QED BY <1>1, <1>2, <1>7, <2>1, <2>2
<1>8. decrypting \in BOOLEAN
  BY DEF CipherInv, TypeInv
<1> QED BY <1>6, <1>7, <1>8

\* There are more rounds before the last exactly while they are fewer than Nr - 1.
LEMMA RoundsLeft ==
    ASSUME CipherInv, pc = "rounds"
    PROVE  round \in 0..(Nr - 1) /\ (MoreRounds <=> round < Nr - 1)
<1>1. Nr \in {10, 12, 14} /\ Rounds = Nr
  BY InUse DEF Using
<1>2. round \in Nat /\ round < Nr
  BY DEF CipherInv, TypeInv, TraceInv
<1> QED BY <1>1, <1>2 DEF MoreRounds

\* A step that uses the context leaves the schedules as they are.
LEMMA ScheduleKept ==
    ASSUME CipherInv, pc \in Using, pc' \in Using,
           UNCHANGED <<key, plain, decrypting, rk, base, Nr, i, j, expanded>>
    PROVE  ControlInv' /\ ScheduleInv'
<1>1. Nk' = Nk /\ (Supported' <=> Supported)
  BY DEF Nk, Supported
<1>2. pc \in Scheduled /\ pc' \in Scheduled /\ pc' \notin {"expand", "done", "invert", "mix", "nr"}
  BY DEF Scheduled, Using
<1>3. ControlInv'
  BY <1>1, <1>2 DEF CipherInv, ControlInv, Reversing
<1>4. /\ FullSchedule(rk) <=> FullSchedule(rk)'
      /\ FullSchedule(expanded) <=> FullSchedule(expanded)'
  BY <1>1 DEF FullSchedule
<1>5. ScheduleInv'
  BY <1>1, <1>2, <1>4 DEF CipherInv, ScheduleInv
<1> QED BY <1>3, <1>5

\* The first round key makes a state of a block.
LEMMA AddKeyIs ==
    ASSUME NEW st \in States, NEW k, \A c \in 0..3 : rk[4 * k + c] \in Word
    PROVE  /\ AddKey(st, k) \in States
           /\ \A c \in 0..3 : AddKey(st, k)[c] = XorWord(st[c], rk[4 * k + c])
<1>1. AddKey(st, k) = [c \in 0..3 |-> XorWord(st[c], rk[4 * k + c])]
  BY DEF AddKey
<1>2. \A c \in 0..3 : XorWord(st[c], rk[4 * k + c]) \in Word
  <2> TAKE c \in 0..3
  <2>1. st[c] \in Word /\ rk[4 * k + c] \in Word
    BY DEF States
  <2> QED BY <2>1, WordGroup
<1> QED BY <1>1, <1>2 DEF States

-----------------------------------------------------------------------------
\* A block is never taken for none.
LEMMA BlockIsSome ==
    ASSUME NEW p \in Blocks16
    PROVE  p # NoBlock
<1>1. DOMAIN p = 1..16 /\ DOMAIN NoBlock = {}
  BY DEF Blocks16, NoBlock
<1>2. 1 \in 1..16
  OBVIOUS
<1> QED BY <1>1, <1>2

\* Two states with the same columns are one.
LEMMA SameColumns ==
    ASSUME NEW st \in States, NEW t \in States, \A c \in 0..3 : st[c] = t[c]
    PROVE  st = t
BY DEF States

\* Adding a round key, as the definition does it.
LEMMA AddRoundKeyIs ==
    ASSUME NEW st \in States, NEW w, NEW k, \A c \in 0..3 : w[4 * k + c] \in Word
    PROVE  /\ AddRoundKey(st, w, k) \in States
           /\ \A c \in 0..3 : AddRoundKey(st, w, k)[c] = XorWord(st[c], w[4 * k + c])
<1>1. AddRoundKey(st, w, k) = [c \in 0..3 |-> XorWord(st[c], w[4 * k + c])]
  BY DEF AddRoundKey, Columns
<1>2. \A c \in 0..3 : XorWord(st[c], w[4 * k + c]) \in Word
  <2> TAKE c \in 0..3
  <2>1. st[c] \in Word /\ w[4 * k + c] \in Word
    BY DEF States
  <2> QED BY <2>1, WordGroup
<1> QED BY <1>1, <1>2 DEF States

\* MixColumns is MixColumn of each column.
LEMMA MixColumnsIs ==
    ASSUME NEW st \in States
    PROVE  /\ MixColumns(st) \in States
           /\ \A c \in 0..3 : MixColumns(st)[c] = MixColumn(st[c])
<1>1. MixColumns(st) = [c \in 0..3 |-> MixColumn(st[c])]
  BY DEF MixColumns, Columns
<1>2. \A c \in 0..3 : MixColumn(st[c]) \in Word
  <2> TAKE c \in 0..3
  <2>1. st[c] \in Word
    BY DEF States
  <2> QED BY <2>1, ColumnTypes
<1> QED BY <1>1, <1>2 DEF States

\* With the round keys of the definition, AddKey is AddRoundKey.
LEMMA SameKeys ==
    ASSUME NEW st \in States, NEW k, \A c \in 0..3 : rk[4 * k + c] = expanded[4 * k + c]
    PROVE  AddKey(st, k) = AddRoundKey(st, expanded, k)
BY DEF AddKey, AddRoundKey, Columns

\* The states of the encryption.
LEMMA TraceStates ==
    ASSUME CipherInv, NEW n \in 1..Len(trace)
    PROVE  /\ trace[n] \in States /\ Shifted(trace[n]) \in States
           /\ n # 1 => n - 1 \in 1..Len(trace)
                       /\ trace[n] = AddRoundKey(MixColumns(Shifted(trace[n - 1])),
                                                 expanded, n - 1)
<1>1. trace \in Seq(States)
  BY DEF CipherInv, TypeInv
<1>2. Len(trace) \in Nat /\ trace[n] \in States
  BY <1>1, LenProperties
<1>3. ASSUME n # 1
      PROVE  n - 1 \in 1..Len(trace)
             /\ trace[n] = AddRoundKey(MixColumns(Shifted(trace[n - 1])), expanded, n - 1)
  <2>1. n \in 2..Len(trace) /\ n - 1 \in 1..Len(trace)
    BY <1>2, <1>3
  <2> QED BY <2>1 DEF CipherInv, TraceInv, EncryptionIsStandard, Shifted
<1> QED BY <1>2, <1>3, ShiftedIs

\* The first round key is added,
LEMMA StartStep ==
    ASSUME CipherInv, Start
    PROVE  CipherInv'
<1> DEFINE st == [c \in 0..3 |-> GETU32(IF decrypting THEN crypt ELSE plain, c)]
<1>0. /\ pc = "start" /\ pc' = "rounds" /\ key' = key /\ plain' = plain
      /\ decrypting' = decrypting /\ rk' = rk /\ base' = base /\ Nr' = Nr /\ i' = i /\ j' = j
      /\ round' = 0 /\ s' = AddKey(st, 0) /\ crypt' = crypt /\ out' = out /\ expanded' = expanded
      /\ trace' = (IF decrypting THEN trace ELSE <<s'>>)
  BY DEF Start
<1>1. /\ Nr \in {10, 12, 14} /\ Nr = Nk + 6 /\ 0 \in 0..Nr /\ Nr \in 0..Nr
      /\ \A k \in 0..Nr, c \in 0..3 : expanded[4 * k + c] \in Word
      /\ ~decrypting => \A k \in 0..Nr, c \in 0..3 : rk[4 * k + c] = expanded[4 * k + c]
      /\ decrypting => Mixed(rk, expanded, Nr, Nr)
  BY <1>0, InUse DEF Using
<1>2. /\ plain \in Blocks16 /\ decrypting \in BOOLEAN /\ trace \in Seq(States)
      /\ decrypting => crypt \in Blocks16 /\ Len(trace) = Nr
      /\ ~decrypting => crypt = NoBlock /\ trace = <<>>
  BY <1>0, <1>1 DEF CipherInv, TypeInv, TraceInv
<1>3. st \in States
  BY <1>2, WordsOfBlock
<1>4. \A c \in 0..3 : rk[4 * 0 + c] = IF decrypting THEN expanded[4 * Nr + c]
                                      ELSE expanded[4 * 0 + c]
  <2> TAKE c \in 0..3
  <2>1. CASE decrypting
    <3>1. rk[4 * 0 + c] = expanded[4 * (Nr - 0) + c]
      <4>1. ~(0 \in 1..(Nr - 1))
        OBVIOUS
      <4> QED BY <1>1, <2>1, <4>1 DEF Mixed
    <3>2. 4 * (Nr - 0) + c = 4 * Nr + c
      BY <1>1
    <3> QED BY <2>1, <3>1, <3>2
  <2>2. CASE ~decrypting
    BY <1>1, <2>2
  <2> QED BY <2>1, <2>2
<1>5. \A c \in 0..3 : rk[4 * 0 + c] \in Word
  BY <1>1, <1>4
<1>6. s' \in States /\ \A c \in 0..3 : s'[c] = XorWord(st[c], rk[4 * 0 + c])
  <2> HIDE DEF st
  <2> QED BY <1>0, <1>3, <1>5, AddKeyIs
<1>7. ControlInv' /\ ScheduleInv'
  BY <1>0, ScheduleKept DEF Using
<1>8. TypeInv'
  <2>1. pc' \in {"idle", "failed", "done"} \cup Preparing \cup Using
    BY <1>0 DEF Using
  <2>2. trace' \in Seq(States)
    BY <1>0, <1>2, <1>6
  <2> QED BY <1>0, <1>6, <2>1, <2>2 DEF CipherInv, TypeInv
<1>9. CASE decrypting
  <2>1. Nr \in 1..Len(trace)
    BY <1>1, <1>2, <1>9
  <2>2. Shifted(trace[Nr]) \in States
    BY <2>1, TraceStates
  <2>3. st = AddRoundKey(Shifted(trace[Nr]), expanded, Nr)
    <3>1. crypt # NoBlock
      BY <1>2, <1>9, BlockIsSome
    <3> QED BY <1>2, <1>9, <3>1 DEF CipherInv, TraceInv, EncryptionIsStandard, Shifted
  <2> HIDE DEF st
  <2>4. \A c \in 0..3 : s'[c] = Shifted(trace[Nr])[c]
    <3> TAKE c \in 0..3
    <3> DEFINE u == Shifted(trace[Nr])[c]  w == expanded[4 * Nr + c]
    <3>1. u \in Word /\ w \in Word
      BY <1>1, <2>2 DEF States
    <3>2. st[c] = XorWord(u, w)
      BY <1>1, <2>2, <2>3, AddRoundKeyIs
    <3>3. rk[4 * 0 + c] = w
      BY <1>4, <1>9
    <3> HIDE DEF u, w
    <3>4. s'[c] = XorWord(XorWord(u, w), w)
      BY <1>6, <3>2, <3>3
    <3> QED BY <3>1, <3>4, AddTwice DEF u
  <2>5. s' = Shifted(trace[Nr])
    BY <1>6, <2>2, <2>4, SameColumns
  <2>6. InverseInv'
    <3>1. Nr' - round' = Nr
      BY <1>0, <1>1
    <3> QED BY <1>0, <1>9, <2>5, <3>1 DEF InverseInv, Shifted
  <2>7. TraceInv'
    <3>1. /\ EncryptionIsStandard'
          /\ trace' # <<>> => trace'[1] = AddRoundKey(PlainState', expanded', 0)
      BY <1>0, <1>9 DEF CipherInv, TraceInv, EncryptionIsStandard, PlainState
    <3>2. Nk' = Nk /\ 0 < Nr
      BY <1>0, <1>1 DEF Nk
    <3> QED BY <1>0, <1>1, <1>2, <1>9, <3>1, <3>2 DEF TraceInv
  <2> QED BY <1>7, <1>8, <2>6, <2>7 DEF CipherInv
<1>10. CASE ~decrypting
  <2>1. st = PlainState
    BY <1>10 DEF PlainState
  <2>2. s' = AddRoundKey(PlainState, expanded, 0)
    <3> HIDE DEF st
    <3>1. \A c \in 0..3 : rk[4 * 0 + c] = expanded[4 * 0 + c]
      BY <1>4, <1>10
    <3> QED BY <1>0, <1>3, <2>1, <3>1, SameKeys
  <2> HIDE DEF st
  <2>3. trace' = <<s'>> /\ Len(trace') = 1 /\ trace'[1] = s'
    BY <1>0, <1>10
  <2>4. EncryptionIsStandard'
    <3>1. ~(crypt' # NoBlock) /\ 2..Len(trace') = {}
      BY <1>0, <1>2, <1>10, <2>3
    <3> QED BY <3>1 DEF EncryptionIsStandard
  <2>5. PlainState' = PlainState
    BY <1>0 DEF PlainState
  <2>6. TraceInv'
    <3>1. Len(trace') = round' + 1 /\ trace'[round' + 1] = s' /\ crypt' = NoBlock /\ round' < Nr'
      BY <1>0, <1>1, <1>2, <1>10, <2>3
    <3>2. trace'[1] = AddRoundKey(PlainState', expanded', 0)
      BY <1>0, <2>2, <2>3, <2>5
    <3> QED BY <1>0, <1>10, <2>4, <3>1, <3>2 DEF TraceInv
  <2>7. InverseInv'
    BY <1>0, <1>10 DEF InverseInv
  <2> QED BY <1>7, <1>8, <2>6, <2>7 DEF CipherInv
<1> QED BY <1>2, <1>9, <1>10

\* a round of the encryption follows the definition,
LEMMA EncRoundStep ==
    ASSUME CipherInv, EncRound
    PROVE  CipherInv'
<1> DEFINE st == [c \in 0..3 |-> Xor4(TE0(s[c]), TE1(s[(c + 1) % 4]),
                                     TE2(s[(c + 2) % 4]), TE3(s[(c + 3) % 4]))]
<1>0. /\ pc = "rounds" /\ ~decrypting /\ MoreRounds /\ round' = round + 1
      /\ s' = AddKey(st, round') /\ trace' = Append(trace, s')
      /\ pc' = pc /\ key' = key /\ plain' = plain /\ decrypting' = decrypting /\ rk' = rk
      /\ base' = base /\ Nr' = Nr /\ i' = i /\ j' = j /\ crypt' = crypt /\ out' = out
      /\ expanded' = expanded
  BY DEF EncRound
<1>1. /\ Nr \in {10, 12, 14}
      /\ \A k \in 0..Nr, c \in 0..3 : expanded[4 * k + c] \in Word
      /\ \A k \in 0..Nr, c \in 0..3 : rk[4 * k + c] = expanded[4 * k + c]
  BY <1>0, InUse DEF Using
<1>2. round \in Nat /\ round + 1 < Nr /\ round' \in 0..Nr
  BY <1>0, <1>1, RoundsLeft
<1>3. /\ s \in States /\ trace \in Seq(States) /\ crypt = NoBlock
      /\ Len(trace) = round + 1 /\ trace[round + 1] = s
  BY <1>0 DEF CipherInv, TypeInv, TraceInv
<1>4. st = MixColumns(Shifted(s))
  BY <1>3, EncLookups DEF MixColumns, Columns
<1> HIDE DEF st
<1>5. st \in States
  BY <1>3, <1>4, ShiftedIs, MixColumnsIs
<1>6. s' = AddRoundKey(st, expanded, round') /\ s' \in States
  <2>1. \A c \in 0..3 : rk[4 * round' + c] = expanded[4 * round' + c]
                        /\ expanded[4 * round' + c] \in Word
    BY <1>1, <1>2
  <2> QED BY <1>0, <1>5, <2>1, SameKeys, AddRoundKeyIs
<1>7. /\ trace' \in Seq(States) /\ Len(trace') = Len(trace) + 1
      /\ trace'[Len(trace) + 1] = s' /\ \A k \in 1..Len(trace) : trace'[k] = trace[k]
  BY <1>0, <1>3, <1>6, AppendProperties
<1>8. ControlInv' /\ ScheduleInv'
  BY <1>0, ScheduleKept DEF Using
<1>9. TypeInv'
  <2>1. round' \in Nat
    BY <1>0, <1>2
  <2> QED BY <1>0, <1>6, <1>7, <2>1 DEF CipherInv, TypeInv
<1>10. EncryptionIsStandard'
  <2>1. ASSUME NEW n \in 2..Len(trace')
        PROVE  trace'[n] = AddRoundKey(MixColumns(ShiftRows(SubBytes(trace'[n - 1]))),
                                       expanded', n - 1)
    <3>1. n - 1 \in 1..Len(trace) /\ trace'[n - 1] = trace[n - 1]
      BY <1>3, <1>7, <1>2, <2>1
    <3>2. CASE n \in 2..Len(trace)
      <4>1. trace'[n] = trace[n]
        BY <1>2, <1>3, <1>7, <3>2
      <4>2. trace[n] = AddRoundKey(MixColumns(ShiftRows(SubBytes(trace[n - 1]))), expanded, n - 1)
        BY <3>2 DEF CipherInv, TraceInv, EncryptionIsStandard
      <4> QED BY <1>0, <3>1, <4>1, <4>2
    <3>3. CASE n = Len(trace) + 1
      <4>1. n - 1 = round' /\ n - 1 = round + 1 /\ trace[n - 1] = s /\ trace'[n] = s'
        BY <1>0, <1>2, <1>3, <1>7, <3>3
      <4>2. s' = AddRoundKey(MixColumns(ShiftRows(SubBytes(s))), expanded, round')
        BY <1>4, <1>6 DEF Shifted
      <4> QED BY <1>0, <3>1, <4>1, <4>2
    <3> QED BY <1>2, <1>3, <1>7, <2>1, <3>2, <3>3
  <2>2. ~(crypt' # NoBlock)
    BY <1>0, <1>3
  <2> QED BY <2>1, <2>2 DEF EncryptionIsStandard
<1>11. TraceInv'
  <2>1. trace'[1] = AddRoundKey(PlainState', expanded', 0)
    <3>1. 1 \in 1..Len(trace) /\ trace # <<>>
      BY <1>2, <1>3
    <3>2. PlainState' = PlainState
      BY <1>0 DEF PlainState
    <3> QED BY <1>0, <1>7, <3>1, <3>2 DEF CipherInv, TraceInv
  <2>2. round' < Nr' /\ Len(trace') = round' + 1 /\ trace'[round' + 1] = s' /\ crypt' = NoBlock
    BY <1>0, <1>2, <1>3, <1>7
  <2> QED BY <1>0, <1>10, <2>1, <2>2 DEF TraceInv
<1>12. InverseInv'
  BY <1>0 DEF InverseInv
<1> QED BY <1>8, <1>9, <1>11, <1>12 DEF CipherInv

\* and the last one gives the block.
LEMMA EncLastStep ==
    ASSUME CipherInv, EncLast
    PROVE  CipherInv'
<1> DEFINE st == [c \in 0..3 |-> LastEnc(s[c], s[(c + 1) % 4], s[(c + 2) % 4], s[(c + 3) % 4])]
<1>0. /\ pc = "rounds" /\ ~decrypting /\ ~MoreRounds /\ pc' = "deinit"
      /\ s' = AddKey(st, Rounds) /\ crypt' = PUTU32(s')
      /\ key' = key /\ plain' = plain /\ decrypting' = decrypting /\ rk' = rk
      /\ base' = base /\ Nr' = Nr /\ i' = i /\ j' = j /\ round' = round /\ out' = out
      /\ expanded' = expanded /\ trace' = trace
  BY DEF EncLast
<1>1. /\ Nr \in {10, 12, 14} /\ Nr = Nk + 6 /\ Rounds = Nr
      /\ \A k \in 0..Nr, c \in 0..3 : expanded[4 * k + c] \in Word
      /\ \A k \in 0..Nr, c \in 0..3 : rk[4 * k + c] = expanded[4 * k + c]
  BY <1>0, InUse DEF Using
<1>2. round + 1 = Nr /\ Nr \in 0..Nr
  BY <1>0, <1>1, RoundsLeft
<1>3. /\ s \in States /\ trace \in Seq(States) /\ Len(trace) = Nr /\ trace[Nr] = s
  BY <1>0, <1>2 DEF CipherInv, TypeInv, TraceInv
<1>4. st = Shifted(s)
  <2>1. \A c \in 0..3 : st[c] = Shifted(s)[c]
    BY <1>3, EncLookups
  <2>2. st = [c \in 0..3 |-> st[c]]
    OBVIOUS
  <2>3. Shifted(s) = [c \in 0..3 |-> Shifted(s)[c]]
    BY <1>3, ShiftedIs DEF States
  <2> HIDE DEF st
  <2> QED BY <2>1, <2>2, <2>3
<1> HIDE DEF st
<1>5. st \in States
  BY <1>3, <1>4, ShiftedIs
<1>6. s' = AddRoundKey(st, expanded, Nr) /\ s' \in States
  <2>1. \A c \in 0..3 : rk[4 * Nr + c] = expanded[4 * Nr + c] /\ expanded[4 * Nr + c] \in Word
    BY <1>1, <1>2
  <2> QED BY <1>0, <1>1, <1>5, <2>1, SameKeys, AddRoundKeyIs
<1>7. crypt' \in Blocks16 /\ \A c \in 0..3 : GETU32(crypt', c) = s'[c]
  BY <1>0, <1>6, BlockWords
<1>8. ControlInv' /\ ScheduleInv'
  BY <1>0, ScheduleKept DEF Using
<1>9. TypeInv'
  <2>1. pc' \in {"idle", "failed", "done"} \cup Preparing \cup Using
    BY <1>0 DEF Using
  <2> QED BY <1>0, <1>6, <1>7, <2>1 DEF CipherInv, TypeInv
<1>10. EncryptionIsStandard'
  <2>1. [c \in 0..3 |-> GETU32(crypt', c)]
          = AddRoundKey(ShiftRows(SubBytes(trace'[Len(trace')])), expanded', Len(trace'))
    <3>1. [c \in 0..3 |-> GETU32(crypt', c)] = s'
      BY <1>6, <1>7 DEF States
    <3>2. s' = AddRoundKey(ShiftRows(SubBytes(trace[Nr])), expanded, Nr)
      BY <1>3, <1>4, <1>6 DEF Shifted
    <3> QED BY <1>0, <1>3, <3>1, <3>2
  <2>2. \A n \in 2..Len(trace) :
          trace[n] = AddRoundKey(MixColumns(ShiftRows(SubBytes(trace[n - 1]))), expanded, n - 1)
    BY DEF CipherInv, TraceInv, EncryptionIsStandard
  <2> QED BY <1>0, <2>1, <2>2 DEF EncryptionIsStandard
<1>11. TraceInv'
  <2>1. trace' # <<>> => trace'[1] = AddRoundKey(PlainState', expanded', 0)
    <3>1. PlainState' = PlainState
      BY <1>0 DEF PlainState
    <3> QED BY <1>0, <3>1 DEF CipherInv, TraceInv
  <2>2. Nk' = Nk
    BY <1>0 DEF Nk
  <2> QED BY <1>0, <1>1, <1>3, <1>7, <1>10, <2>1, <2>2 DEF TraceInv
<1>12. InverseInv'
  BY <1>0 DEF InverseInv
<1> QED BY <1>8, <1>9, <1>11, <1>12 DEF CipherInv

\* The inverse MixColumn of a round is undone by the round key that was mixed with it.
LEMMA InverseRound ==
    ASSUME NEW u \in Word, NEW e \in Word, NEW w, w = XorWord(MixColumn(u), e)
    PROVE  XorWord(InvColumn(w), InvMix(e)) = u
<1>1. MixColumn(u) \in Word /\ InvMix(e) = InvColumn(e) /\ InvColumn(e) \in Word
  BY ColumnTypes, SubstitutesBytes
<1>2. InvColumn(XorWord(MixColumn(u), e)) = XorWord(InvColumn(MixColumn(u)), InvColumn(e))
  BY <1>1, ColumnsLinear
<1>3. InvColumn(MixColumn(u)) = u
  BY MixOfInverse
<1>4. XorWord(XorWord(u, InvColumn(e)), InvColumn(e)) = u
  BY <1>1, AddTwice
<1> QED BY <1>1, <1>2, <1>3, <1>4

\* A round of the decryption goes back one round of the encryption,
LEMMA DecRoundStep ==
    ASSUME CipherInv, DecRound
    PROVE  CipherInv'
<1> DEFINE st == [c \in 0..3 |-> Xor4(TD0(s[c]), TD1(s[(c + 3) % 4]),
                                     TD2(s[(c + 2) % 4]), TD3(s[(c + 1) % 4]))]
           t == trace[Nr - round]
           u == Shifted(trace[(Nr - round) - 1])
<1>0. /\ pc = "rounds" /\ decrypting /\ MoreRounds /\ round' = round + 1
      /\ s' = AddKey(st, round')
      /\ pc' = pc /\ key' = key /\ plain' = plain /\ decrypting' = decrypting /\ rk' = rk
      /\ base' = base /\ Nr' = Nr /\ i' = i /\ j' = j /\ crypt' = crypt /\ out' = out
      /\ expanded' = expanded /\ trace' = trace
  BY DEF DecRound
<1>1. /\ Nr \in {10, 12, 14} /\ Nr = Nk + 6
      /\ \A k \in 0..Nr, c \in 0..3 : expanded[4 * k + c] \in Word
      /\ Mixed(rk, expanded, Nr, Nr)
  BY <1>0, InUse DEF Using
<1>2. round \in Nat /\ round + 1 < Nr /\ round' \in 1..(Nr - 1) /\ Nr - round' \in 0..Nr
  BY <1>0, <1>1, RoundsLeft
<1>3. s \in States /\ Len(trace) = Nr /\ s = Shifted(t)
  BY <1>0, <1>1 DEF CipherInv, TypeInv, TraceInv, InverseInv, Shifted
<1>4. Nr - round \in 1..Len(trace) /\ Nr - round # 1 /\ (Nr - round) - 1 = Nr - round'
  <2> HIDE DEF st, t, u
  <2>1. Nr \in Nat /\ round' = round + 1 /\ Len(trace) = Nr
    BY <1>0, <1>1, <1>3
  <2>2. Nr - round \in 1..Nr /\ Nr - round # 1
    BY <1>2, <2>1
  <2>3. (Nr - round) - 1 = Nr - (round + 1)
    BY <1>2, <2>1
  <2> QED BY <2>1, <2>2, <2>3
<1>5. /\ t \in States /\ u \in States
      /\ t = AddRoundKey(MixColumns(u), expanded, Nr - round')
  BY <1>4, TraceStates
<1>6. \A c \in 0..3 : st[c] = InvColumn(t[c]) /\ st[c] \in Word
  <2> TAKE c \in 0..3
  <2>1. st[c] = InvColumn(t[c])
    <3> HIDE DEF t
    <3> QED BY <1>3, <1>5, DecLookups
  <2>2. t[c] \in Word
    BY <1>5 DEF States
  <2> HIDE DEF st, t
  <2> QED BY <2>1, <2>2, ColumnTypes
<1>7. st \in States
  BY <1>6 DEF States
<1> HIDE DEF st, t, u
<1>8. \A c \in 0..3 : /\ expanded[4 * (Nr - round') + c] \in Word
                      /\ rk[4 * round' + c] = InvMix(expanded[4 * (Nr - round') + c])
                      /\ rk[4 * round' + c] \in Word
  <2> TAKE c \in 0..3
  <2>1. expanded[4 * (Nr - round') + c] \in Word
    BY <1>1, <1>2
  <2>2. rk[4 * round' + c] = InvMix(expanded[4 * (Nr - round') + c])
    <3>1. round' \in 0..Nr /\ round' \in 1..(Nr - 1)
      BY <1>1, <1>2
    <3> QED BY <1>1, <3>1 DEF Mixed
  <2> QED BY <2>1, <2>2, SubstitutesBytes
<1>9. s' \in States /\ \A c \in 0..3 : s'[c] = XorWord(st[c], rk[4 * round' + c])
  BY <1>0, <1>7, <1>8, AddKeyIs
<1>10. \A c \in 0..3 : s'[c] = u[c]
  <2> TAKE c \in 0..3
  <2> DEFINE e == expanded[4 * (Nr - round') + c]
  <2>1. e \in Word /\ u[c] \in Word
    BY <1>5, <1>8 DEF States
  <2>2. t[c] = XorWord(MixColumn(u[c]), e)
    <3>1. MixColumns(u) \in States /\ MixColumns(u)[c] = MixColumn(u[c])
      BY <1>5, MixColumnsIs
    <3>2. \A d \in 0..3 : expanded[4 * (Nr - round') + d] \in Word
      BY <1>8
    <3>3. AddRoundKey(MixColumns(u), expanded, Nr - round')[c] = XorWord(MixColumns(u)[c], e)
      BY ZenonT(60), <3>1, <3>2, AddRoundKeyIs
    <3> QED BY <1>5, <3>1, <3>3
  <2>3. s'[c] = XorWord(InvColumn(t[c]), InvMix(e))
    BY <1>6, <1>8, <1>9
  <2> HIDE DEF e
  <2> QED BY <2>1, <2>2, <2>3, InverseRound
<1>11. s' = Shifted(trace'[Nr' - round'])
  <2>1. s' = u
    BY <1>5, <1>9, <1>10, SameColumns
  <2> QED BY <1>0, <1>4, <2>1 DEF u
<1>12. ControlInv' /\ ScheduleInv'
  BY <1>0, ScheduleKept DEF Using
<1>13. TypeInv'
  <2>1. round' \in Nat
    BY <1>0, <1>2
  <2> QED BY <1>0, <1>9, <2>1 DEF CipherInv, TypeInv
<1>14. TraceInv'
  <2>1. /\ EncryptionIsStandard'
        /\ trace' # <<>> => trace'[1] = AddRoundKey(PlainState', expanded', 0)
    BY <1>0 DEF CipherInv, TraceInv, EncryptionIsStandard, PlainState
  <2>2. Nk' = Nk /\ round' < Nr' /\ Len(trace) = Nk + 6 /\ crypt \in Blocks16
    BY <1>0, <1>1, <1>2 DEF CipherInv, TraceInv, Nk
  <2> QED BY <1>0, <2>1, <2>2 DEF TraceInv
<1>15. InverseInv'
  BY <1>0, <1>11 DEF InverseInv, Shifted
<1> QED BY <1>12, <1>13, <1>14, <1>15 DEF CipherInv

\* and the last one comes back to the block.
LEMMA DecLastStep ==
    ASSUME CipherInv, DecLast
    PROVE  CipherInv'
<1> DEFINE st == [c \in 0..3 |-> LastDec(s[c], s[(c + 3) % 4], s[(c + 2) % 4], s[(c + 1) % 4])]
           t == trace[1]
<1>0. /\ pc = "rounds" /\ decrypting /\ ~MoreRounds /\ pc' = "deinit"
      /\ s' = AddKey(st, Rounds) /\ out' = PUTU32(s')
      /\ key' = key /\ plain' = plain /\ decrypting' = decrypting /\ rk' = rk
      /\ base' = base /\ Nr' = Nr /\ i' = i /\ j' = j /\ round' = round /\ crypt' = crypt
      /\ expanded' = expanded /\ trace' = trace
  BY DEF DecLast
<1>1. /\ Nr \in {10, 12, 14} /\ Nr = Nk + 6 /\ Rounds = Nr
      /\ \A k \in 0..Nr, c \in 0..3 : expanded[4 * k + c] \in Word
      /\ Mixed(rk, expanded, Nr, Nr)
  BY <1>0, InUse DEF Using
<1>2. round + 1 = Nr /\ Nr - round = 1
  BY <1>0, <1>1, RoundsLeft
<1>3. /\ s \in States /\ Len(trace) = Nr /\ s = Shifted(t)
      /\ plain \in Blocks16 /\ PlainState \in States
  BY <1>0, <1>1, <1>2, WordsOfBlock
  DEF CipherInv, TypeInv, TraceInv, InverseInv, Shifted, PlainState
<1>4. t \in States
  <2>1. 1 \in 1..Len(trace)
    BY <1>1, <1>3
  <2> QED BY <2>1, TraceStates
<1>5. t = AddRoundKey(PlainState, expanded, 0)
  <2>1. trace # <<>>
    BY <1>1, <1>3
  <2> QED BY <2>1 DEF CipherInv, TraceInv
<1>6. \A c \in 0..3 : st[c] = t[c] /\ st[c] \in Word
  <2> TAKE c \in 0..3
  <2>1. st[c] = t[c]
    <3> HIDE DEF t
    <3> QED BY <1>3, <1>4, DecLookups
  <2>2. t[c] \in Word
    BY <1>4 DEF States
  <2> HIDE DEF st, t
  <2> QED BY <2>1, <2>2
<1>7. st \in States
  BY <1>6 DEF States
<1> HIDE DEF st, t
<1>8. \A c \in 0..3 : expanded[4 * 0 + c] \in Word /\ rk[4 * Nr + c] = expanded[4 * 0 + c]
  <2> TAKE c \in 0..3
  <2>1. 0 \in 0..Nr /\ Nr \in 0..Nr /\ ~(Nr \in 1..(Nr - 1)) /\ 4 * (Nr - Nr) + c = 4 * 0 + c
    BY <1>1
  <2>2. rk[4 * Nr + c] = expanded[4 * (Nr - Nr) + c]
    BY <1>1, <2>1 DEF Mixed
  <2> QED BY <1>1, <2>1, <2>2
<1>9. s' \in States /\ \A c \in 0..3 : s'[c] = XorWord(st[c], rk[4 * Nr + c])
  BY <1>0, <1>1, <1>7, <1>8, AddKeyIs
<1>10. \A c \in 0..3 : s'[c] = PlainState[c]
  <2> TAKE c \in 0..3
  <2> DEFINE e == expanded[4 * 0 + c]
  <2>1. e \in Word /\ PlainState[c] \in Word
    BY <1>3, <1>8 DEF States
  <2>2. t[c] = XorWord(PlainState[c], e)
    <3>1. \A d \in 0..3 : expanded[4 * 0 + d] \in Word
      BY <1>8
    <3>2. AddRoundKey(PlainState, expanded, 0)[c] = XorWord(PlainState[c], expanded[4 * 0 + c])
      BY <1>3, <3>1 DEF AddRoundKey, Columns
    <3> QED BY <1>5, <3>2
  <2>3. s'[c] = XorWord(XorWord(PlainState[c], e), e)
    BY <1>6, <1>8, <1>9, <2>2
  <2> HIDE DEF e
  <2> QED BY <2>1, <2>3, AddTwice
<1>11. out' = plain
  <2>1. out' \in Blocks16 /\ \A c \in 0..3 : GETU32(out', c) = s'[c]
    BY <1>0, <1>9, BlockWords
  <2>2. \A c \in 0..3 : GETU32(plain, c) = PlainState[c]
    BY DEF PlainState
  <2>3. \A c \in 0..3 : GETU32(out', c) = GETU32(plain, c)
    BY <1>10, <2>1, <2>2
  <2> QED BY <1>3, <2>1, <2>3, SameWords
<1>12. ControlInv' /\ ScheduleInv'
  BY <1>0, ScheduleKept DEF Using
<1>13. TypeInv'
  <2>1. pc' \in {"idle", "failed", "done"} \cup Preparing \cup Using
    BY <1>0 DEF Using
  <2> QED BY <1>0, <1>9, <2>1 DEF CipherInv, TypeInv
<1>14. TraceInv'
  <2>1. /\ EncryptionIsStandard'
        /\ trace' # <<>> => trace'[1] = AddRoundKey(PlainState', expanded', 0)
    BY <1>0 DEF CipherInv, TraceInv, EncryptionIsStandard, PlainState
  <2>2. Nk' = Nk /\ Len(trace) = Nk + 6 /\ crypt \in Blocks16
    BY <1>0, <1>1 DEF CipherInv, TraceInv, Nk
  <2> QED BY <1>0, <2>1, <2>2 DEF TraceInv
<1>15. InverseInv'
  BY <1>0, <1>11 DEF InverseInv
<1> QED BY <1>12, <1>13, <1>14, <1>15 DEF CipherInv

\* The context is released, and a decryption of what was encrypted may follow.
LEMMA DeinitStep ==
    ASSUME CipherInv, Deinit
    PROVE  CipherInv'
<1>0. /\ pc = "deinit" /\ pc' = (IF decrypting THEN "done" ELSE "idle") /\ decrypting' = TRUE
      /\ rk' = Fresh
      /\ key' = key /\ plain' = plain /\ base' = base /\ Nr' = Nr /\ i' = i /\ j' = j
      /\ round' = round /\ s' = s /\ crypt' = crypt /\ out' = out
      /\ expanded' = expanded /\ trace' = trace
  BY DEF Deinit
<1>1. Nr \in {10, 12, 14} /\ Nr = Nk + 6 /\ Supported /\ Nk' = Nk /\ (Supported' <=> Supported)
  BY <1>0, NrIs DEF Scheduled, Using, Nk, Supported
<1>2. decrypting \in BOOLEAN
  BY DEF CipherInv, TypeInv
<1>3. pc' \in {"done", "idle"}
  BY <1>0, <1>2
<1>4. TypeInv'
  <2>1. Fresh \in Contexts
    BY DEF Fresh, Contexts
  <2> QED BY <1>0, <1>3, <2>1 DEF CipherInv, TypeInv
<1>5. ControlInv'
  BY <1>0, <1>1, <1>3 DEF ControlInv, Reversing, Scheduled, Using
<1>6. FullSchedule(expanded)
  <2>1. CASE decrypting
    BY <2>1 DEF CipherInv, ScheduleInv
  <2>2. CASE ~decrypting
    <3>1. FullSchedule(rk) /\ Agree(expanded, rk, AES_PRIV_NR_POS)
      BY <1>0, <2>2 DEF CipherInv, ScheduleInv, Scheduled, Using
    <3>2. Nk \in Nat \ {0} /\ 4 * (Nk + 6) + 4 \in Nat /\ 4 * (Nk + 6) + 4 <= AES_PRIV_NR_POS
      BY <1>1 DEF AES_PRIV_NR_POS, Supported, Nk
    <3>3. Agree(expanded, rk, 4 * (Nk + 6) + 4)
      BY <3>1, <3>2 DEF Agree, AES_PRIV_NR_POS
    <3> QED BY <3>1, <3>2, <3>3, ExpansionAgrees DEF FullSchedule
  <2> QED BY <1>2, <2>1, <2>2
<1>7. ScheduleInv'
  <2>1. FullSchedule(expanded)'
    BY <1>0, <1>1, <1>6 DEF FullSchedule
  <2> QED BY <1>0, <1>3, <2>1 DEF ScheduleInv, Scheduled, Using
<1>8. TraceInv'
  <2>1. /\ EncryptionIsStandard'
        /\ trace' # <<>> => trace'[1] = AddRoundKey(PlainState', expanded', 0)
    BY <1>0 DEF CipherInv, TraceInv, EncryptionIsStandard, PlainState
  <2>2. Len(trace) = Nk + 6 /\ crypt \in Blocks16
    BY <1>0 DEF CipherInv, TraceInv
  <2> QED BY <1>0, <1>1, <1>3, <2>1, <2>2 DEF TraceInv
<1>9. InverseInv'
  BY <1>0, <1>2 DEF CipherInv, InverseInv
<1> QED BY <1>4, <1>5, <1>7, <1>8, <1>9 DEF CipherInv

-----------------------------------------------------------------------------
\* Every step keeps the invariant.
LEMMA InvStep == CipherInv /\ [Next]_vars => CipherInv'
<1> SUFFICES ASSUME CipherInv, [Next]_vars PROVE CipherInv'
  OBVIOUS
<1>1. CASE AllocFails \/ Unsupported
  BY <1>1, RefusalStep
<1>2. CASE LoadKey
  BY <1>2, LoadKeyStep
<1>3. CASE Expand128
  BY <1>3, Expand128Step
<1>4. CASE Expand192
  BY <1>4, Expand192Step
<1>5. CASE Expand256
  BY <1>5, Expand256Step
<1>6. CASE InvertOrder
  BY <1>6, InvertOrderStep
<1>7. CASE MixKeys
  BY <1>7, MixKeysStep
<1>8. CASE StoreNr
  BY <1>8, StoreNrStep
<1>9. CASE Start
  BY <1>9, StartStep
<1>10. CASE EncRound
  BY <1>10, EncRoundStep
<1>11. CASE DecRound
  BY <1>11, DecRoundStep
<1>12. CASE EncLast
  BY <1>12, EncLastStep
<1>13. CASE DecLast
  BY <1>13, DecLastStep
<1>14. CASE Deinit
  BY <1>14, DeinitStep
<1>15. CASE UNCHANGED vars
  <2>1. /\ pc' = pc /\ key' = key /\ plain' = plain /\ decrypting' = decrypting /\ rk' = rk
        /\ base' = base /\ Nr' = Nr /\ i' = i /\ j' = j /\ round' = round /\ s' = s
        /\ crypt' = crypt /\ out' = out /\ expanded' = expanded /\ trace' = trace
    BY <1>15 DEF vars
  <2>2. Nk' = Nk /\ (Supported' <=> Supported) /\ PlainState' = PlainState
    BY <2>1 DEF Nk, Supported, PlainState
  <2>3. TypeInv' /\ ControlInv' /\ InverseInv'
    BY <2>1, <2>2 DEF CipherInv, TypeInv, ControlInv, InverseInv
  <2>4. (Turning(4, 9)' <=> Turning(4, 9)) /\ (Turning(6, 7)' <=> Turning(6, 7))
        /\ (Turning(8, 6)' <=> Turning(8, 6))
    BY <2>1 DEF Turning
  <2>5. (FullSchedule(rk)' <=> FullSchedule(rk))
        /\ (FullSchedule(expanded)' <=> FullSchedule(expanded))
    BY <2>1, <2>2 DEF FullSchedule
  <2>6. ScheduleInv'
    BY <2>1, <2>2, <2>4, <2>5 DEF CipherInv, ScheduleInv
  <2>7. TraceInv'
    BY <2>1, <2>2 DEF CipherInv, TraceInv, EncryptionIsStandard
  <2> QED BY <2>3, <2>6, <2>7 DEF CipherInv
<1> QED BY <1>1, <1>2, <1>3, <1>4, <1>5, <1>6, <1>7, <1>8, <1>9, <1>10, <1>11, <1>12, <1>13,
           <1>14, <1>15 DEF Next

\* Every variable keeps to its type, for keys of any length.
THEOREM CipherTyped == Spec => []TypeInv
<1>1. CipherInv => TypeInv
  BY DEF CipherInv
<1> QED BY <1>1, InvInit, InvStep, PTL DEF Spec

\* It holds throughout.
LEMMA InvHolds == Spec => []CipherInv
BY InvInit, InvStep, PTL DEF Spec

\* Each length of key gets the schedule of the definition, none a word more or less.
THEOREM SchedulesMatch == Spec => []SchedulesStandard
<1>1. CipherInv => SchedulesStandard
  <2> SUFFICES ASSUME CipherInv PROVE ExpansionIsStandard /\ InverseExpansion
    BY DEF SchedulesStandard
  <2>1. ASSUME pc \in Using, ~decrypting
        PROVE  /\ Rounds = Len(key) \div 4 + 6
               /\ IsExpansion(rk, key, Len(key) \div 4, Rounds)
               /\ \A p \in (4 * Rounds + 4)..(AES_PRIV_NR_POS - 1) : rk[p] = Unset
    <3>1. Rounds = Nr /\ Nr = Nk + 6 /\ Nr \in {10, 12, 14}
      BY <2>1, InUse
    <3>2. FullSchedule(rk) /\ Empty(rk, 4 * Nr + 4, AES_PRIV_NR_POS - 1)
      BY <2>1 DEF CipherInv, ScheduleInv, Scheduled
    <3>3. \A k \in 0..((4 * (Nk + 6) + 4) - 1) : rk[k] = ExpWord(rk, key, Nk, k)
      BY <3>2 DEF FullSchedule, Expanded
    <3>4. (4 * (Nk + 6) + 4) - 1 = 4 * Rounds + 3
      BY <3>1
    <3>5. \A k \in 0..(4 * Rounds + 3) : rk[k] = ExpWord(rk, key, Nk, k)
      BY <3>3, <3>4
    <3>6. IsExpansion(rk, key, Nk, Rounds)
      BY <3>5 DEF IsExpansion, ExpWord
    <3> QED BY <3>1, <3>2, <3>6 DEF Empty, Nk
  <2>2. ASSUME pc \in Using, decrypting, NEW k \in 0..Rounds, NEW c \in 0..3
        PROVE  expanded[4 * (Rounds - k) + c] = IF k \in {0, Rounds} THEN rk[4 * k + c]
                                                ELSE MixColumn(rk[4 * k + c])
    <3>1. /\ Rounds = Nr /\ Nr \in {10, 12, 14} /\ Mixed(rk, expanded, Nr, Nr)
          /\ \A q \in 0..Nr, d \in 0..3 : expanded[4 * q + d] \in Word
      BY <2>2, InUse
    <3>2. k \in 0..Nr /\ Nr - k \in 0..Nr
      BY <2>2, <3>1
    <3>3. expanded[4 * (Nr - k) + c] \in Word
      BY <3>1, <3>2
    <3>4. rk[4 * k + c] = IF k \in 1..(Nr - 1) THEN InvMix(expanded[4 * (Nr - k) + c])
                          ELSE expanded[4 * (Nr - k) + c]
      BY <3>1, <3>2 DEF Mixed
    <3>5. k \in 1..(Nr - 1) <=> ~(k \in {0, Nr})
      BY <3>1, <3>2
    <3>6. MixColumn(InvMix(expanded[4 * (Nr - k) + c])) = expanded[4 * (Nr - k) + c]
      <4> DEFINE e == expanded[4 * (Nr - k) + c]
      <4>1. e \in Word
        BY <3>3
      <4> HIDE DEF e
      <4>2. InvMix(e) = InvColumn(e) /\ MixColumn(InvColumn(e)) = e
        BY <4>1, SubstitutesBytes, MixOfInverse
      <4> QED BY <4>2 DEF e
    <3> QED BY <3>1, <3>4, <3>5, <3>6
  <2>3. ExpansionIsStandard
    BY <2>1 DEF ExpansionIsStandard
  <2>4. InverseExpansion
    BY <2>2 DEF InverseExpansion
  <2> QED BY <2>3, <2>4
<1> QED BY <1>1, InvHolds, PTL

\* An encryption goes through the states of the definition, for every key and block.
THEOREM EncryptionStandard == Spec => []EncryptionIsStandard
<1>1. CipherInv => EncryptionIsStandard
  BY DEF CipherInv, TraceInv
<1> QED BY <1>1, InvHolds, PTL

\* What has been encrypted is decrypted, for every key and block.
THEOREM DecryptionIsInverse == Spec => []DecryptionInverts
<1>1. CipherInv => DecryptionInverts
  <2> SUFFICES ASSUME CipherInv PROVE DecryptionInverts
    OBVIOUS
  <2>1. pc = "rounds" => Rounds = Nr
    BY InUse DEF Using
  <2>2. pc = "done" => decrypting
    BY DEF CipherInv, ControlInv
  <2> QED BY <2>1, <2>2 DEF CipherInv, InverseInv, DecryptionInverts
<1> QED BY <1>1, InvHolds, PTL

-----------------------------------------------------------------------------
\* The kernel next to the processor.  What it looks up is what the processor does,
\* byte by byte: rotating to the left by 3 is rotating to the right by 1.
LEMMA RotatedLeft ==
    ASSUME NEW w
    PROVE  /\ Alike(rotate(w, 3), rotr(w, 1)) /\ Alike(rotate(w, 2), rotr(w, 2))
           /\ Alike(rotate(w, 1), rotr(w, 3))
<1>1. \A n, k \in 1..4 : rotate(w, n)[k] = w[(((k - 1) + n) % 4) + 1]
  BY DEF rotate
<1>2. /\ (((1 - 1) + 3) % 4) + 1 = 4 /\ (((2 - 1) + 3) % 4) + 1 = 1
      /\ (((3 - 1) + 3) % 4) + 1 = 2 /\ (((4 - 1) + 3) % 4) + 1 = 3
      /\ (((1 - 1) + 2) % 4) + 1 = 3 /\ (((2 - 1) + 2) % 4) + 1 = 4
      /\ (((3 - 1) + 2) % 4) + 1 = 1 /\ (((4 - 1) + 2) % 4) + 1 = 2
      /\ (((1 - 1) + 1) % 4) + 1 = 2 /\ (((2 - 1) + 1) % 4) + 1 = 3
      /\ (((3 - 1) + 1) % 4) + 1 = 4 /\ (((4 - 1) + 1) % 4) + 1 = 1
  OBVIOUS
<1> QED BY <1>1, <1>2, Rotated4 DEF Alike

\* The kernel's names for the bytes of a word.
LEMMA KernelBytes ==
    ASSUME NEW v
    PROVE  /\ uint_uchar_1(v) = v[1] /\ uint_uchar_2(v) = v[2]
           /\ uint_uchar_3(v) = v[3] /\ uint_uchar_4(v) = v[4]
BY DEF uint_uchar_1, uint_uchar_2, uint_uchar_3, uint_uchar_4, as_uchar4

\* An entry looked up by the kernel and one looked up by the processor, with any tables.
LEMMA KernelEntries ==
    ASSUME NEW v \in Word
    PROVE  /\ Alike(KTE(0, v), TE0(v)) /\ Alike(KTE(1, v), TE1(v))
           /\ Alike(KTE(2, v), TE2(v)) /\ Alike(KTE(3, v), TE3(v))
           /\ Alike(KTD(0, v), TD0(v)) /\ Alike(KTD(1, v), TD1(v))
           /\ Alike(KTD(2, v), TD2(v)) /\ Alike(KTD(3, v), TD3(v))
<1>1. v[1] \in Byte /\ v[2] \in Byte /\ v[3] \in Byte /\ v[4] \in Byte
  BY WordIs
<1>2. /\ Alike(rotr(Te0[v[2]], 1), Te1[v[2]]) /\ Alike(rotr(Te0[v[3]], 2), Te2[v[3]])
      /\ Alike(rotr(Te0[v[4]], 3), Te3[v[4]])
      /\ Alike(rotr(Td0[v[2]], 1), Td1[v[2]]) /\ Alike(rotr(Td0[v[3]], 2), Td2[v[3]])
      /\ Alike(rotr(Td0[v[4]], 3), Td3[v[4]])
  BY <1>1, LookupsAlike
<1>3. \A w : /\ Alike(rotate(w, 3), rotr(w, 1)) /\ Alike(rotate(w, 2), rotr(w, 2))
             /\ Alike(rotate(w, 1), rotr(w, 3))
  BY RotatedLeft
<1>4. /\ Alike(KTE(0, v), TE0(v)) /\ Alike(KTD(0, v), TD0(v))
  BY KernelBytes DEF KTE, KTD, TE0, TD0, KTe0, KTd0, Alike
<1>5. Alike(KTE(1, v), TE1(v)) /\ Alike(KTD(1, v), TD1(v))
  BY <1>2, <1>3, KernelBytes DEF KTE, KTD, TE1, TD1, KTe0, KTd0, KTe1, KTd1, Alike
<1>6. Alike(KTE(2, v), TE2(v)) /\ Alike(KTD(2, v), TD2(v))
  BY <1>2, <1>3, KernelBytes DEF KTE, KTD, TE2, TD2, KTe0, KTd0, KTe2, KTd2, Alike
<1>7. Alike(KTE(3, v), TE3(v)) /\ Alike(KTD(3, v), TD3(v))
  BY <1>2, <1>3, KernelBytes DEF KTE, KTD, TE3, TD3, KTe0, KTd0, KTe3, KTd3, Alike
<1> QED BY <1>4, <1>5, <1>6, <1>7

\* Four of them added up.
LEMMA KernelLookups ==
    ASSUME NEW p \in Word, NEW q \in Word, NEW u \in Word, NEW x \in Word
    PROVE  /\ Xor4(KTE(0, p), KTE(1, q), KTE(2, u), KTE(3, x))
                = Xor4(TE0(p), TE1(q), TE2(u), TE3(x))
           /\ Xor4(KTD(0, p), KTD(1, q), KTD(2, u), KTD(3, x))
                = Xor4(TD0(p), TD1(q), TD2(u), TD3(x))
<1>1. \A v1, v2, v3, v4 : Xor4(v1, v2, v3, v4) =
        <<X4(v1[1], v2[1], v3[1], v4[1]), X4(v1[2], v2[2], v3[2], v4[2]),
          X4(v1[3], v2[3], v3[3], v4[3]), X4(v1[4], v2[4], v3[4], v4[4])>>
  BY DEF Xor4, XorWord, X4
<1>2. /\ Alike(KTE(0, p), TE0(p)) /\ Alike(KTE(1, q), TE1(q))
      /\ Alike(KTE(2, u), TE2(u)) /\ Alike(KTE(3, x), TE3(x))
      /\ Alike(KTD(0, p), TD0(p)) /\ Alike(KTD(1, q), TD1(q))
      /\ Alike(KTD(2, u), TD2(u)) /\ Alike(KTD(3, x), TD3(x))
  BY KernelEntries
<1> QED BY <1>1, <1>2 DEF Alike

\* The lookups of the last round.
LEMMA KernelLast ==
    ASSUME NEW p \in Word, NEW q \in Word, NEW u \in Word, NEW x \in Word
    PROVE  /\ KLastEnc(p, q, u, x) = LastEnc(p, q, u, x)
           /\ KLastDec(p, q, u, x) = LastDec(p, q, u, x)
<1>1. p[1] \in Byte /\ q[2] \in Byte /\ u[3] \in Byte /\ x[4] \in Byte
  BY WordIs
<1>2. \A y \in Byte : /\ Te0[y][2] = S[y] /\ Te0[y][3] = S[y]
                      /\ Te4[y][1] = S[y] /\ Te4[y][2] = S[y]
                      /\ Te4[y][3] = S[y] /\ Te4[y][4] = S[y]
  BY EntryTypes
<1>3. \A y \in Byte : /\ Td4[y][1] = Si[y] /\ Td4[y][2] = Si[y]
                      /\ Td4[y][3] = Si[y] /\ Td4[y][4] = Si[y]
  BY InverseEntries
<1>4. KLastEnc(p, q, u, x) = <<S[p[1]], S[q[2]], S[u[3]], S[x[4]]>>
  BY <1>1, <1>2, KernelBytes DEF KLastEnc, KTe0, KTe4
<1>5. KLastDec(p, q, u, x) = <<Si[p[1]], Si[q[2]], Si[u[3]], Si[x[4]]>>
  BY <1>1, <1>3, KernelBytes DEF KLastDec, KTd4s, KTd4
<1> QED BY <1>4, <1>5, LastLookups

\* Swapping the bytes of a word on the way in and on the way out.
LEMMA WordIn ==
    ASSUME NEW b, NEW c \in 0..3
    PROVE  Swapped(LoadUint(b, 4 * c)) = GETU32(b, c)
<1>1. LoadUint(b, 4 * c) = <<b[4 * c + 4], b[4 * c + 3], b[4 * c + 2], b[4 * c + 1]>>
  BY DEF LoadUint, as_uint
<1>2. \A a1, a2, a3, a4 : Swapped(<<a1, a2, a3, a4>>) = <<a4, a3, a2, a1>>
  BY DEF Swapped, as_uint, wzyx, as_uchar4
<1> QED BY <1>1, <1>2 DEF GETU32

\* Nothing is lost on the way out.
LEMMA WordOut ==
    ASSUME NEW w \in Word
    PROVE  Stored(Swapped(w)) = w
<1>1. w = <<w[1], w[2], w[3], w[4]>>
  BY WordIs
<1>2. \A a1, a2, a3, a4 : Swapped(<<a1, a2, a3, a4>>) = <<a4, a3, a2, a1>>
  BY DEF Swapped, as_uint, wzyx, as_uchar4
<1>3. \A a1, a2, a3, a4 : Stored(<<a4, a3, a2, a1>>) = <<a1, a2, a3, a4>>
  BY DEF Stored, as_uchar4
<1> QED BY <1>1, <1>2, <1>3

\* The rounds that either of them computes: what the lookups make of a state, then a
\* round key is added; the last round by itself.
Looked(dec, st) ==
    [c \in 0..3 |->
        IF dec
        THEN Xor4(TD0(st[c]), TD1(st[(c + 3) % 4]), TD2(st[(c + 2) % 4]), TD3(st[(c + 1) % 4]))
        ELSE Xor4(TE0(st[c]), TE1(st[(c + 1) % 4]), TE2(st[(c + 2) % 4]), TE3(st[(c + 3) % 4]))]
LookedLast(dec, st) ==
    [c \in 0..3 |->
        IF dec
        THEN LastDec(st[c], st[(c + 3) % 4], st[(c + 2) % 4], st[(c + 1) % 4])
        ELSE LastEnc(st[c], st[(c + 1) % 4], st[(c + 2) % 4], st[(c + 3) % 4])]

\* The states f[0], ..., f[n] of block b under the context w.
IsPath(f, w, b, dec, n) ==
    /\ f \in [0..n -> States]
    /\ f[0] = AddRoundKey([c \in 0..3 |-> GETU32(b, c)], w, 0)
    /\ \A k \in 1..n : f[k] = AddRoundKey(Looked(dec, f[k - 1]), w, k)

\* The lookups of a state are a state.
LEMMA LookedIs ==
    ASSUME NEW dec \in BOOLEAN, NEW st \in States
    PROVE  Looked(dec, st) \in States /\ LookedLast(dec, st) \in States
<1>1. ASSUME NEW c \in 0..3
      PROVE  Looked(dec, st)[c] \in Word /\ LookedLast(dec, st)[c] \in Word
  <2> DEFINE p == st[c]  q == st[(c + 1) % 4]  u == st[(c + 2) % 4]  x == st[(c + 3) % 4]
  <2>1. p \in Word /\ q \in Word /\ u \in Word /\ x \in Word
    BY DEF States
  <2>2. /\ Looked(dec, st)[c] = IF dec THEN Xor4(TD0(p), TD1(x), TD2(u), TD3(q))
                                ELSE Xor4(TE0(p), TE1(q), TE2(u), TE3(x))
        /\ LookedLast(dec, st)[c] = IF dec THEN LastDec(p, x, u, q) ELSE LastEnc(p, q, u, x)
    BY DEF Looked, LookedLast
  <2> HIDE DEF p, q, u, x
  <2>3. \A y \in Byte : S[y] \in Byte /\ Si[y] \in Byte
    BY SubstitutionsCorrect
  <2>4. \A w \in Word : w[1] \in Byte /\ w[2] \in Byte /\ w[3] \in Byte /\ w[4] \in Byte
    BY WordIs
  <2>5. /\ <<S[p[1]], S[q[2]], S[u[3]], S[x[4]]>> \in Word
        /\ <<Si[p[1]], Si[x[2]], Si[u[3]], Si[q[4]]>> \in Word
    BY <2>1, <2>3, <2>4, WordOf
  <2>6. /\ Xor4(TE0(p), TE1(q), TE2(u), TE3(x))
             = MixColumn(<<S[p[1]], S[q[2]], S[u[3]], S[x[4]]>>)
        /\ Xor4(TD0(p), TD1(x), TD2(u), TD3(q))
             = InvColumn(<<Si[p[1]], Si[x[2]], Si[u[3]], Si[q[4]]>>)
    BY <2>1, EncColumn, DecColumn
  <2>7. /\ LastEnc(p, q, u, x) = <<S[p[1]], S[q[2]], S[u[3]], S[x[4]]>>
        /\ LastDec(p, x, u, q) = <<Si[p[1]], Si[x[2]], Si[u[3]], Si[q[4]]>>
    BY <2>1, LastLookups
  <2> QED BY <2>2, <2>5, <2>6, <2>7, ColumnTypes
<1>2. /\ Looked(dec, st) = [c \in 0..3 |-> Looked(dec, st)[c]]
      /\ LookedLast(dec, st) = [c \in 0..3 |-> LookedLast(dec, st)[c]]
  BY DEF Looked, LookedLast
<1> QED BY <1>1, <1>2 DEF States

\* A path goes on by one round.
LEMMA PathExtends ==
    ASSUME NEW n \in Nat, NEW w, NEW b, NEW dec \in BOOLEAN, NEW f, IsPath(f, w, b, dec, n),
           NEW st, st = AddRoundKey(Looked(dec, f[n]), w, n + 1),
           \A c \in 0..3 : w[4 * (n + 1) + c] \in Word
    PROVE  \E h : IsPath(h, w, b, dec, n + 1) /\ h[n + 1] = st
<1> DEFINE h == [k \in 0..(n + 1) |-> IF k = n + 1 THEN st ELSE f[k]]
<1>1. f \in [0..n -> States]
  BY DEF IsPath
<1>2. st \in States
  BY <1>1, LookedIs, AddRoundKeyIs
<1>3. h \in [0..(n + 1) -> States]
  BY <1>1, <1>2
<1>4. h[0] = f[0] /\ h[n + 1] = st /\ \A k \in 0..n : h[k] = f[k]
  OBVIOUS
<1> HIDE DEF h
<1>5. ASSUME NEW k \in 1..(n + 1)
      PROVE  h[k] = AddRoundKey(Looked(dec, h[k - 1]), w, k)
  <2>1. k - 1 \in 0..n /\ h[k - 1] = f[k - 1]
    BY <1>4
  <2>2. CASE k = n + 1
    <3>1. k - 1 = n
      BY <2>2
    <3> QED BY <1>4, <2>1, <2>2, <3>1
  <2>3. CASE k \in 1..n
    BY <1>4, <2>1, <2>3 DEF IsPath
  <2> QED BY <2>2, <2>3
<1>6. IsPath(h, w, b, dec, n + 1)
  BY <1>3, <1>4, <1>5 DEF IsPath
<1> QED BY <1>4, <1>6

-----------------------------------------------------------------------------
\* The block that goes in.
Block == IF decrypting THEN crypt ELSE plain

\* Where the kernel is: it runs while the processor waits, on the processor's own
\* context, two rounds a turn; and when it has finished, the processor goes through
\* the same states.
KernelControl ==
    /\ kpc \in {"idle", "read", "odd", "even", "last", "done"}
    /\ kpc \in {"read", "odd", "even", "last"} => pc = "start"
    /\ kpc = "done" => pc \in Using
    /\ kpc # "idle" => rkbuf = rk /\ NrArg = Nr /\ (decrypting => tables # "local")

\* State st is that after n rounds of the block.
AtRound(st, n) == \E f : IsPath(f, rk, Block, decrypting, n) /\ st = f[n]

\* While the kernel runs: its state is that after as many rounds as its pointer to the
\* round keys has gone past, and the rounds that are left are counted by r.
Walking ==
    /\ kpc = "read" => walk = 0
    /\ kpc = "odd" =>
         \E n \in Nat : r \in Nat /\ r > 0 /\ n + 2 * r = Nr /\ walk = 4 * n /\ AtRound(ks, n)
    /\ kpc = "even" =>
         \E n \in Nat : r \in Nat /\ r > 0 /\ (n + 1) + 2 * r = Nr /\ walk = 4 * (n + 1)
                        /\ AtRound(kt, n)
    /\ kpc = "last" => walk = 4 * Nr /\ AtRound(kt, Nr - 1)

\* When it has finished: the processor's states are those the kernel went through, and
\* what the kernel wrote is the block they end in.
Followed ==
    /\ kpc = "done" /\ pc # "deinit" =>
         \E f : /\ IsPath(f, rk, Block, decrypting, Nr - 1)
                /\ kout = PUTU32(AddRoundKey(LookedLast(decrypting, f[Nr - 1]), rk, Nr))
                /\ pc = "rounds" => s = f[round]
    /\ kpc = "done" /\ pc = "deinit" => kout = IF decrypting THEN out ELSE crypt

\* The invariant of the two together.
KernelInv == KernelControl /\ Walking /\ Followed

\* The round keys of a context in use are words.
LEMMA KeysAreWords ==
    ASSUME CipherInv, pc \in Using
    PROVE  \A k \in 0..Nr, c \in 0..3 : rk[4 * k + c] \in Word
<1>1. /\ Nr \in {10, 12, 14}
      /\ \A k \in 0..Nr, c \in 0..3 : expanded[4 * k + c] \in Word
      /\ ~decrypting => \A k \in 0..Nr, c \in 0..3 : rk[4 * k + c] = expanded[4 * k + c]
      /\ decrypting => Mixed(rk, expanded, Nr, Nr)
  BY InUse
<1>2. ASSUME decrypting, NEW k \in 0..Nr, NEW c \in 0..3
      PROVE  rk[4 * k + c] \in Word
  <2> DEFINE e == expanded[4 * (Nr - k) + c]
  <2>1. e \in Word
    <3>1. Nr - k \in 0..Nr
      BY <1>1, <1>2
    <3> QED BY <1>1, <3>1
  <2>2. rk[4 * k + c] = IF k \in 1..(Nr - 1) THEN InvMix(e) ELSE e
    BY <1>1, <1>2 DEF Mixed
  <2> HIDE DEF e
  <2> QED BY <2>1, <2>2, SubstitutesBytes
<1> QED BY <1>1, <1>2

\* There is a block while the context is used.
LEMMA BlockGiven ==
    ASSUME CipherInv, pc \in {"start", "rounds"}
    PROVE  Block \in Blocks16 /\ [c \in 0..3 |-> GETU32(Block, c)] \in States
<1>1. Block \in Blocks16
  BY DEF CipherInv, TypeInv, TraceInv, Block
<1> QED BY <1>1, WordsOfBlock

\* A round of the kernel is a round of the processor, with the round key its pointer
\* is at.
LEMMA KernelRound ==
    ASSUME NEW st \in States, NEW n \in 0..1, NEW k \in Nat, walk + 4 * n = 4 * k, walk \in Nat,
           rkbuf = rk, decrypting \in BOOLEAN
    PROVE  /\ KAddKey(st, n) = AddRoundKey(st, rk, k)
           /\ KRound(n, st) = AddRoundKey(Looked(decrypting, st), rk, k)
<1>1. \A c \in 0..3 : (walk + 4 * n) + c = 4 * k + c
  OBVIOUS
<1>2. ASSUME NEW v1 PROVE KAddKey(v1, n) = AddRoundKey(v1, rk, k)
  <2>1. KAddKey(v1, n) = [c \in 0..3 |-> XorWord(v1[c], rk[(walk + 4 * n) + c])]
    BY DEF KAddKey
  <2> QED BY <1>1, <2>1 DEF AddRoundKey, Columns
<1> DEFINE v == [c \in 0..3 |->
        IF decrypting
        THEN Xor4(KTD(0, st[c]), KTD(1, st[(c + 3) % 4]),
                  KTD(2, st[(c + 2) % 4]), KTD(3, st[(c + 1) % 4]))
        ELSE Xor4(KTE(0, st[c]), KTE(1, st[(c + 1) % 4]),
                  KTE(2, st[(c + 2) % 4]), KTE(3, st[(c + 3) % 4]))]
<1>3. \A c \in 0..3 : v[c] = Looked(decrypting, st)[c]
  <2> TAKE c \in 0..3
  <2> DEFINE p == st[c]  q == st[(c + 1) % 4]  u == st[(c + 2) % 4]  x == st[(c + 3) % 4]
  <2>1. p \in Word /\ q \in Word /\ u \in Word /\ x \in Word
    BY DEF States
  <2>2. /\ Looked(decrypting, st)[c] =
             IF decrypting THEN Xor4(TD0(p), TD1(x), TD2(u), TD3(q))
             ELSE Xor4(TE0(p), TE1(q), TE2(u), TE3(x))
        /\ v[c] = IF decrypting THEN Xor4(KTD(0, p), KTD(1, x), KTD(2, u), KTD(3, q))
                  ELSE Xor4(KTE(0, p), KTE(1, q), KTE(2, u), KTE(3, x))
    BY DEF Looked
  <2> HIDE DEF p, q, u, x, v
  <2> QED BY <2>1, <2>2, KernelLookups
<1>4. v = Looked(decrypting, st)
  <2>1. /\ v = [c \in 0..3 |-> v[c]]
        /\ Looked(decrypting, st) = [c \in 0..3 |-> Looked(decrypting, st)[c]]
    BY DEF Looked
  <2> HIDE DEF v
  <2> QED BY <1>3, <2>1
<1>5. KRound(n, st) = KAddKey(v, n)
  BY DEF KRound
<1> HIDE DEF v
<1> QED BY <1>2, <1>4, <1>5

\* A step of the two is one of the processor, or leaves the processor alone.
LEMMA KernelSteps ==
    ASSUME [KNext]_<<vars, kvars>>
    PROVE  [Next]_vars
BY DEF KNext, Enqueue, ReadBlock, KOddRound, KEvenRound, WriteBlock, Processor, vars, kvars


\* Giving the block to the kernel,
LEMMA EnqueueStep ==
    ASSUME CipherInv, KernelInv, Enqueue
    PROVE  KernelInv'
<1>1. Rounds = Nr
  BY InUse DEF Enqueue, Using
<1>2. /\ pc = "start" /\ pc' = pc /\ rk' = rk /\ Nr' = Nr /\ rkbuf' = rk /\ NrArg' = Nr
      /\ walk' = 0 /\ kpc' = "read"
      /\ decrypting' = decrypting /\ tables' = tables /\ (decrypting => tables # "local")
  BY <1>1 DEF Enqueue, vars
<1> QED BY <1>2 DEF KernelInv, KernelControl, Walking, Followed

\* its reading the block and adding the first round key,
LEMMA ReadBlockStep ==
    ASSUME CipherInv, KernelInv, ReadBlock
    PROVE  KernelInv'
<1>0. /\ kpc = "read" /\ kpc' = "odd" /\ pc = "start" /\ rkbuf = rk /\ NrArg = Nr /\ walk = 0
      /\ pc' = pc /\ rk' = rk /\ Nr' = Nr /\ decrypting' = decrypting /\ plain' = plain
      /\ crypt' = crypt /\ tables' = tables /\ rkbuf' = rkbuf /\ NrArg' = NrArg /\ walk' = walk
      /\ r' = NrArg \div 2
      /\ ks' = KAddKey([c \in 0..3 |-> Swapped(LoadUint(Block, 4 * c))], 0)
  BY DEF ReadBlock, vars, KernelInv, KernelControl, Walking, Block
<1>1. /\ Nr \in {10, 12, 14} /\ 0 \in 0..Nr /\ decrypting \in BOOLEAN
      /\ \A c \in 0..3 : rk[4 * 0 + c] \in Word
  BY <1>0, InUse, KeysAreWords DEF Using, CipherInv, TypeInv
<1> DEFINE st == [c \in 0..3 |-> GETU32(Block, c)]
           v == [c \in 0..3 |-> Swapped(LoadUint(Block, 4 * c))]
<1>2. st \in States
  BY <1>0, BlockGiven
<1>3. v = st
  BY WordIn
<1> HIDE DEF v, st
<1>4. ks' = AddRoundKey(st, rk, 0) /\ ks' \in States
  <2>1. KAddKey(st, 0) = AddRoundKey(st, rk, 0)
    BY <1>0, <1>1, <1>2, KernelRound
  <2>2. ks' = KAddKey(v, 0)
    BY <1>0 DEF v
  <2> QED BY <1>1, <1>2, <1>3, <2>1, <2>2, AddRoundKeyIs
<1> DEFINE f == [k \in 0..0 |-> ks']
<1>5. IsPath(f, rk, Block, decrypting, 0) /\ f[0] = ks'
  <2>1. f \in [0..0 -> States] /\ f[0] = ks' /\ 1..0 = {}
    BY <1>4
  <2> HIDE DEF f
  <2> QED BY <1>4, <2>1 DEF IsPath, st
<1>6. AtRound(ks, 0)'
  <2> HIDE DEF f
  <2>1. Block' = Block
    BY <1>0 DEF Block
  <2> QED BY <1>0, <1>5, <2>1 DEF AtRound
<1>7. r' \in Nat /\ r' > 0 /\ 0 + 2 * r' = Nr /\ walk' = 4 * 0
  BY <1>0, <1>1
<1> QED BY <1>0, <1>6, <1>7 DEF KernelInv, KernelControl, Walking, Followed

\* the first round of a turn,
LEMMA OddStep ==
    ASSUME CipherInv, KernelInv, KOddRound
    PROVE  KernelInv'
<1>0. /\ kpc = "odd" /\ pc = "start" /\ rkbuf = rk /\ NrArg = Nr
      /\ kpc' = (IF r' = 0 THEN "last" ELSE "even")
      /\ pc' = pc /\ rk' = rk /\ Nr' = Nr /\ decrypting' = decrypting /\ plain' = plain
      /\ crypt' = crypt /\ tables' = tables /\ rkbuf' = rkbuf /\ NrArg' = NrArg
      /\ walk' = walk + 8 /\ r' = r - 1
      /\ kt' = KRound(1, ks)
  BY DEF KOddRound, vars, KernelInv, KernelControl
<1>1. PICK n \in Nat : r \in Nat /\ r > 0 /\ n + 2 * r = Nr /\ walk = 4 * n /\ AtRound(ks, n)
  BY <1>0 DEF KernelInv, Walking
<1>2. PICK f : IsPath(f, rk, Block, decrypting, n) /\ ks = f[n]
  BY <1>1 DEF AtRound
<1>3. /\ Nr \in {10, 12, 14} /\ decrypting \in BOOLEAN
      /\ \A k \in 0..Nr, c \in 0..3 : rk[4 * k + c] \in Word
  BY <1>0, InUse, KeysAreWords DEF Using, CipherInv, TypeInv
<1>4. n + 1 \in 0..Nr /\ walk \in Nat /\ walk + 4 * 1 = 4 * (n + 1)
  BY <1>1, <1>3
<1>5. ks \in States
  BY <1>2 DEF IsPath
<1>6. kt' = AddRoundKey(Looked(decrypting, f[n]), rk, n + 1)
  <2>1. n + 1 \in Nat /\ 1 \in 0..1 /\ decrypting \in BOOLEAN
    BY <1>1, <1>3
  <2>2. KRound(1, ks) = AddRoundKey(Looked(decrypting, ks), rk, n + 1)
    BY <1>0, <1>4, <1>5, <2>1, KernelRound
  <2> QED BY <1>0, <1>2, <2>2
<1>7. AtRound(kt, n + 1)'
  <2>1. \E h : IsPath(h, rk, Block, decrypting, n + 1) /\ h[n + 1] = kt'
    BY <1>2, <1>3, <1>4, <1>6, PathExtends
  <2>2. Block' = Block
    BY <1>0 DEF Block
  <2> QED BY <1>0, <2>1, <2>2 DEF AtRound
<1>8. CASE r' = 0
  <2>1. n + 1 = Nr - 1 /\ walk' = 4 * Nr
    BY <1>0, <1>1, <1>3, <1>8
  <2>2. AtRound(kt, Nr - 1)'
    BY <1>0, <1>7, <2>1
  <2> QED BY <1>0, <1>8, <2>1, <2>2 DEF KernelInv, KernelControl, Walking, Followed
<1>9. CASE r' # 0
  <2>1. /\ n + 1 \in Nat /\ r' \in Nat /\ r' > 0 /\ ((n + 1) + 1) + 2 * r' = Nr
        /\ walk' = 4 * ((n + 1) + 1)
    BY <1>0, <1>1, <1>9
  <2> QED BY <1>0, <1>7, <1>9, <2>1 DEF KernelInv, KernelControl, Walking, Followed
<1> QED BY <1>8, <1>9

\* the second, which also ends the loop,
LEMMA EvenStep ==
    ASSUME CipherInv, KernelInv, KEvenRound
    PROVE  KernelInv'
<1>0. /\ kpc = "even" /\ pc = "start" /\ rkbuf = rk /\ NrArg = Nr /\ kpc' = "odd"
      /\ pc' = pc /\ rk' = rk /\ Nr' = Nr /\ decrypting' = decrypting /\ plain' = plain
      /\ crypt' = crypt /\ tables' = tables /\ rkbuf' = rkbuf /\ NrArg' = NrArg
      /\ walk' = walk /\ r' = r
      /\ ks' = KRound(0, kt)
  BY DEF KEvenRound, vars, KernelInv, KernelControl
<1>1. PICK n \in Nat : /\ r \in Nat /\ r > 0 /\ (n + 1) + 2 * r = Nr /\ walk = 4 * (n + 1)
                       /\ AtRound(kt, n)
  BY <1>0 DEF KernelInv, Walking
<1>2. PICK f : IsPath(f, rk, Block, decrypting, n) /\ kt = f[n]
  BY <1>1 DEF AtRound
<1>3. /\ Nr \in {10, 12, 14} /\ decrypting \in BOOLEAN
      /\ \A k \in 0..Nr, c \in 0..3 : rk[4 * k + c] \in Word
  BY <1>0, InUse, KeysAreWords DEF Using, CipherInv, TypeInv
<1>4. n + 1 \in 0..Nr /\ walk \in Nat /\ walk + 4 * 0 = 4 * (n + 1)
  BY <1>1, <1>3
<1>5. kt \in States
  BY <1>2 DEF IsPath
<1>6. ks' = AddRoundKey(Looked(decrypting, f[n]), rk, n + 1)
  <2>1. n + 1 \in Nat /\ 0 \in 0..1 /\ decrypting \in BOOLEAN
    BY <1>1, <1>3
  <2>2. KRound(0, kt) = AddRoundKey(Looked(decrypting, kt), rk, n + 1)
    BY <1>0, <1>4, <1>5, <2>1, KernelRound
  <2> QED BY <1>0, <1>2, <2>2
<1>7. AtRound(ks, n + 1)'
  <2>1. \E h : IsPath(h, rk, Block, decrypting, n + 1) /\ h[n + 1] = ks'
    BY <1>2, <1>3, <1>4, <1>6, PathExtends
  <2>2. Block' = Block
    BY <1>0 DEF Block
  <2> QED BY <1>0, <2>1, <2>2 DEF AtRound
<1>8. n + 1 \in Nat
  OBVIOUS
<1> QED BY <1>0, <1>1, <1>7, <1>8 DEF KernelInv, KernelControl, Walking, Followed

-----------------------------------------------------------------------------
\* and the last round, which writes the block.
LEMMA WriteStep ==
    ASSUME CipherInv, KernelInv, WriteBlock
    PROVE  KernelInv'
<1> DEFINE v == [c \in 0..3 |->
                  IF decrypting
                  THEN KLastDec(kt[c], kt[(c + 3) % 4], kt[(c + 2) % 4], kt[(c + 1) % 4])
                  ELSE KLastEnc(kt[c], kt[(c + 1) % 4], kt[(c + 2) % 4], kt[(c + 3) % 4])]
           words == KAddKey(v, 0)
<1>0. /\ kpc = "last" /\ pc = "start" /\ rkbuf = rk /\ NrArg = Nr /\ kpc' = "done"
      /\ walk = 4 * Nr /\ AtRound(kt, Nr - 1) /\ (decrypting => tables # "local")
      /\ pc' = pc /\ rk' = rk /\ Nr' = Nr /\ decrypting' = decrypting /\ plain' = plain
      /\ crypt' = crypt /\ tables' = tables /\ rkbuf' = rkbuf /\ NrArg' = NrArg
      /\ kout' = Stored(Swapped(words[0])) \o Stored(Swapped(words[1]))
                   \o Stored(Swapped(words[2])) \o Stored(Swapped(words[3]))
  BY DEF WriteBlock, vars, KernelInv, KernelControl, Walking
<1>1. PICK f : IsPath(f, rk, Block, decrypting, Nr - 1) /\ kt = f[Nr - 1]
  BY <1>0 DEF AtRound
<1>2. /\ Nr \in {10, 12, 14} /\ decrypting \in BOOLEAN
      /\ \A c \in 0..3 : rk[4 * Nr + c] \in Word
  <2>1. /\ Nr \in {10, 12, 14} /\ decrypting \in BOOLEAN
        /\ \A k \in 0..Nr, c \in 0..3 : rk[4 * k + c] \in Word
    BY <1>0, InUse, KeysAreWords DEF Using, CipherInv, TypeInv
  <2>2. Nr \in 0..Nr
    BY <2>1
  <2> QED BY <2>1, <2>2
<1>3. kt \in States
  <2>1. Nr - 1 \in 0..(Nr - 1)
    BY <1>2
  <2> QED BY <1>1, <2>1 DEF IsPath
<1>4. v = LookedLast(decrypting, kt)
  <2>1. \A c \in 0..3 : v[c] = LookedLast(decrypting, kt)[c]
    <3> TAKE c \in 0..3
    <3> DEFINE p == kt[c]  q == kt[(c + 1) % 4]  u == kt[(c + 2) % 4]  x == kt[(c + 3) % 4]
    <3>1. p \in Word /\ q \in Word /\ u \in Word /\ x \in Word
      BY <1>3 DEF States
    <3>2. /\ LookedLast(decrypting, kt)[c] =
                 IF decrypting THEN LastDec(p, x, u, q) ELSE LastEnc(p, q, u, x)
          /\ v[c] = IF decrypting THEN KLastDec(p, x, u, q) ELSE KLastEnc(p, q, u, x)
      BY DEF LookedLast
    <3> HIDE DEF p, q, u, x, v
    <3> QED BY <3>1, <3>2, KernelLast
  <2>2. /\ v = [c \in 0..3 |-> v[c]]
        /\ LookedLast(decrypting, kt) = [c \in 0..3 |-> LookedLast(decrypting, kt)[c]]
    BY DEF LookedLast
  <2> HIDE DEF v
  <2> QED BY <2>1, <2>2
<1> HIDE DEF v
<1>5. words = AddRoundKey(v, rk, Nr) /\ words \in States
  <2>1. v \in States
    BY <1>2, <1>3, <1>4, LookedIs
  <2>2. walk \in Nat /\ Nr \in Nat /\ walk + 4 * 0 = 4 * Nr
    BY <1>0, <1>2
  <2> QED BY <1>0, <1>2, <2>1, <2>2, KernelRound, AddRoundKeyIs
<1> HIDE DEF words
<1>6. kout' = PUTU32(words)
  <2>1. words[0] \in Word /\ words[1] \in Word /\ words[2] \in Word /\ words[3] \in Word
    BY <1>5 DEF States
  <2>2. /\ Stored(Swapped(words[0])) = words[0] /\ Stored(Swapped(words[1])) = words[1]
        /\ Stored(Swapped(words[2])) = words[2] /\ Stored(Swapped(words[3])) = words[3]
    BY <2>1, WordOut
  <2> QED BY <1>0, <2>2 DEF PUTU32
<1>7. kout' = PUTU32(AddRoundKey(LookedLast(decrypting, f[Nr - 1]), rk, Nr))
  BY <1>1, <1>4, <1>5, <1>6
<1>8. Block' = Block
  BY <1>0 DEF Block
<1>9. KernelControl' /\ Walking'
  BY <1>0 DEF KernelControl, Walking, Using
<1>10. Followed'
  BY <1>0, <1>1, <1>7, <1>8 DEF Followed
<1> QED BY <1>9, <1>10 DEF KernelInv

\* The processor's own steps before the kernel has been given the block, and behind
\* the call, are not of its concern.
LEMMA IdleStep ==
    ASSUME KernelInv, Processor, kpc = "idle"
    PROVE  KernelInv'
<1>1. kpc' = "idle"
  BY DEF Processor
<1> QED BY <1>1 DEF KernelInv, KernelControl, Walking, Followed

\* A step of the processor that uses the context and leaves it.
LEMMA FollowedStep ==
    ASSUME KernelInv, kpc = "done", kpc' = kpc, pc' \in {"rounds", "deinit"},
           UNCHANGED <<decrypting, tables, rk, Nr, rkbuf, NrArg>>, Followed'
    PROVE  KernelInv'
BY DEF KernelInv, KernelControl, Walking, Using

\* AddKey, written as the path has it.
LEMMA AddKeySame ==
    ASSUME NEW st, NEW k
    PROVE  AddKey(st, k) = AddRoundKey(st, rk, k)
BY DEF AddKey, AddRoundKey, Columns

\* The processor starts on the path of the kernel,
LEMMA FollowStart ==
    ASSUME CipherInv, KernelInv, kpc = "done", kpc' = kpc, kout' = kout,
           UNCHANGED <<tables, rkbuf, NrArg>>, Start
    PROVE  KernelInv'
<1>0. /\ pc = "start" /\ pc' = "rounds" /\ plain' = plain /\ decrypting' = decrypting
      /\ rk' = rk /\ Nr' = Nr /\ crypt' = crypt /\ round' = 0
      /\ s' = AddKey([c \in 0..3 |-> GETU32(Block, c)], 0)
  BY DEF Start, Block
<1>1. PICK f : /\ IsPath(f, rk, Block, decrypting, Nr - 1)
               /\ kout = PUTU32(AddRoundKey(LookedLast(decrypting, f[Nr - 1]), rk, Nr))
  BY <1>0 DEF KernelInv, Followed
<1>2. s' = f[0]
  BY <1>0, <1>1, AddKeySame DEF IsPath
<1>3. Block' = Block
  BY <1>0 DEF Block
<1>4. Followed'
  BY <1>0, <1>1, <1>2, <1>3 DEF Followed
<1> QED BY <1>0, <1>4, FollowedStep

\* goes along it,
LEMMA FollowRound ==
    ASSUME CipherInv, KernelInv, kpc = "done", kpc' = kpc, kout' = kout,
           UNCHANGED <<tables, rkbuf, NrArg>>, EncRound \/ DecRound
    PROVE  KernelInv'
<1>0. /\ pc = "rounds" /\ MoreRounds /\ pc' = "rounds" /\ plain' = plain
      /\ decrypting' = decrypting /\ rk' = rk /\ Nr' = Nr /\ crypt' = crypt
      /\ round' = round + 1
  BY DEF EncRound, DecRound
<1>1. s' = AddKey(Looked(decrypting, s), round + 1)
  <2>1. CASE EncRound
    <3> DEFINE st == [c \in 0..3 |-> Xor4(TE0(s[c]), TE1(s[(c + 1) % 4]),
                                          TE2(s[(c + 2) % 4]), TE3(s[(c + 3) % 4]))]
    <3>1. ~decrypting /\ s' = AddKey(st, round + 1)
      BY <2>1 DEF EncRound
    <3>2. Looked(decrypting, s) = st
      BY <3>1 DEF Looked
    <3> HIDE DEF st
    <3> QED BY <3>1, <3>2
  <2>2. CASE DecRound
    <3> DEFINE st == [c \in 0..3 |-> Xor4(TD0(s[c]), TD1(s[(c + 3) % 4]),
                                          TD2(s[(c + 2) % 4]), TD3(s[(c + 1) % 4]))]
    <3>1. decrypting /\ s' = AddKey(st, round + 1)
      BY <2>2 DEF DecRound
    <3>2. Looked(decrypting, s) = st
      BY <3>1 DEF Looked
    <3> HIDE DEF st
    <3> QED BY <3>1, <3>2
  <2> QED BY <2>1, <2>2
<1>2. PICK f : /\ IsPath(f, rk, Block, decrypting, Nr - 1)
               /\ kout = PUTU32(AddRoundKey(LookedLast(decrypting, f[Nr - 1]), rk, Nr))
               /\ s = f[round]
  BY <1>0 DEF KernelInv, Followed
<1>3. round + 1 \in 1..(Nr - 1) /\ (round + 1) - 1 = round
  <2>1. round \in 0..(Nr - 1) /\ round < Nr - 1 /\ Nr \in {10, 12, 14}
    BY <1>0, RoundsLeft, InUse DEF Using
  <2> QED BY <2>1
<1>4. s' = f[round']
  <2> DEFINE n == round + 1
  <2>1. n \in 1..(Nr - 1) /\ n - 1 = round
    BY <1>3
  <2>2. f[n] = AddRoundKey(Looked(decrypting, f[n - 1]), rk, n)
    <3> HIDE DEF n
    <3> QED BY <1>2, <2>1 DEF IsPath
  <2>3. s' = AddRoundKey(Looked(decrypting, s), rk, n)
    BY <1>1, AddKeySame
  <2> QED BY <1>0, <1>2, <2>1, <2>2, <2>3
<1>5. Block' = Block
  BY <1>0 DEF Block
<1>6. Followed'
  BY <1>0, <1>2, <1>4, <1>5 DEF Followed
<1> QED BY <1>0, <1>6, FollowedStep

\* and ends in the block the kernel has written.
LEMMA FollowLast ==
    ASSUME CipherInv, KernelInv, kpc = "done", kpc' = kpc, kout' = kout,
           UNCHANGED <<tables, rkbuf, NrArg>>, EncLast \/ DecLast
    PROVE  KernelInv'
<1>0. /\ pc = "rounds" /\ ~MoreRounds /\ pc' = "deinit" /\ decrypting' = decrypting
      /\ rk' = rk /\ Nr' = Nr
  BY DEF EncLast, DecLast
<1>1. round = Nr - 1 /\ Rounds = Nr
  <2>1. round \in 0..(Nr - 1) /\ ~(round < Nr - 1) /\ Nr \in {10, 12, 14} /\ Rounds = Nr
    BY <1>0, RoundsLeft, InUse DEF Using
  <2> QED BY <2>1
<1>2. PICK f : /\ kout = PUTU32(AddRoundKey(LookedLast(decrypting, f[Nr - 1]), rk, Nr))
               /\ s = f[round]
  BY <1>0 DEF KernelInv, Followed
<1>3. kout = PUTU32(AddKey(LookedLast(decrypting, s), Rounds))
  BY <1>1, <1>2, AddKeySame
<1>4. CASE EncLast
  <2> DEFINE st == [c \in 0..3 |-> LastEnc(s[c], s[(c + 1) % 4], s[(c + 2) % 4], s[(c + 3) % 4])]
  <2>1. ~decrypting /\ s' = AddKey(st, Rounds) /\ crypt' = PUTU32(s')
    BY <1>4 DEF EncLast
  <2>2. LookedLast(decrypting, s) = st
    BY <2>1 DEF LookedLast
  <2> HIDE DEF st
  <2>3. Followed'
    BY <1>0, <1>3, <2>1, <2>2 DEF Followed
  <2> QED BY <1>0, <2>3, FollowedStep
<1>5. CASE DecLast
  <2> DEFINE st == [c \in 0..3 |-> LastDec(s[c], s[(c + 3) % 4], s[(c + 2) % 4], s[(c + 1) % 4])]
  <2>1. decrypting /\ s' = AddKey(st, Rounds) /\ out' = PUTU32(s')
    BY <1>5 DEF DecLast
  <2>2. LookedLast(decrypting, s) = st
    BY <2>1 DEF LookedLast
  <2> HIDE DEF st
  <2>3. Followed'
    BY <1>0, <1>3, <2>1, <2>2 DEF Followed
  <2> QED BY <1>0, <2>3, FollowedStep
<1> QED BY <1>4, <1>5

\* A step of the processor, whatever the kernel has done.
LEMMA ProcessorStep ==
    ASSUME CipherInv, KernelInv, Processor
    PROVE  KernelInv'
<1>1. CASE kpc = "idle"
  BY <1>1, IdleStep
<1>2. CASE kpc = "done"
  <2>1. pc \in Using
    BY <1>2 DEF KernelInv, KernelControl
  <2>2. CASE pc = "deinit"
    <3>1. kpc' = "idle"
      BY <2>2 DEF Processor
    <3> QED BY <3>1 DEF KernelInv, KernelControl, Walking, Followed
  <2>3. CASE pc # "deinit"
    <3>1. kpc' = kpc /\ kout' = kout /\ UNCHANGED <<tables, rkbuf, NrArg>> /\ Next
      BY <2>3 DEF Processor
    <3>2. CASE pc = "start"
      <4>1. Start
        BY <3>1, <3>2 DEF Next, AllocFails, LoadKey, Unsupported, Expand128, Expand192, Expand256,
              InvertOrder, MixKeys, StoreNr, EncRound, DecRound, EncLast, DecLast, Deinit
      <4> QED BY <1>2, <3>1, <4>1, FollowStart
    <3>3. CASE pc = "rounds"
      <4>1. EncRound \/ DecRound \/ EncLast \/ DecLast
        BY <3>1, <3>3 DEF Next, AllocFails, LoadKey, Unsupported, Expand128, Expand192, Expand256,
              InvertOrder, MixKeys, StoreNr, Start, Deinit
      <4> QED BY <1>2, <3>1, <4>1, FollowRound, FollowLast
    <3> QED BY <2>1, <2>3, <3>2, <3>3 DEF Using
  <2> QED BY <2>2, <2>3
<1>3. CASE kpc \in {"read", "odd", "even", "last"}
  <2>1. pc = "start"
    BY <1>3 DEF KernelInv, KernelControl
  <2>2. kpc = "done" \/ (decrypting /\ tables = "local")
    BY <2>1 DEF Processor
  <2>3. ~(decrypting /\ tables = "local")
    BY <1>3 DEF KernelInv, KernelControl
  <2> QED BY <1>3, <2>2, <2>3
<1> QED BY <1>1, <1>2, <1>3 DEF KernelInv, KernelControl

\* Every step keeps what the proofs know of the processor and of the kernel.
LEMMA KernelStep == CipherInv /\ KernelInv /\ [KNext]_<<vars, kvars>> => CipherInv' /\ KernelInv'
<1> SUFFICES ASSUME CipherInv, KernelInv, [KNext]_<<vars, kvars>>
             PROVE  CipherInv' /\ KernelInv'
  OBVIOUS
<1>1. CipherInv'
  BY KernelSteps, InvStep
<1>2. CASE UNCHANGED <<vars, kvars>>
  <2>1. Block' = Block
    BY <1>2 DEF vars, Block
  <2>2. KernelControl'
    BY <1>2 DEF vars, kvars, KernelInv, KernelControl
  <2>3. \A v1, n : AtRound(v1, n)' <=> AtRound(v1, n)
    BY <1>2, <2>1 DEF vars, AtRound
  <2>4. Walking'
    BY <1>2, <2>3 DEF vars, kvars, KernelInv, Walking
  <2>5. Followed'
    BY <1>2, <2>1 DEF vars, kvars, KernelInv, Followed
  <2> QED BY <1>1, <2>2, <2>4, <2>5 DEF KernelInv
<1>3. CASE KNext
  BY <1>1, <1>3, EnqueueStep, ReadBlockStep, OddStep, EvenStep, WriteStep, ProcessorStep DEF KNext
<1> QED BY <1>2, <1>3

\* The kernel writes the block the processor computes, for every key and block, in both
\* directions, with every way to compile the tables of either (ROUND of aes.cl).
THEOREM KernelsAgree == KSpec => []KernelAgrees
<1>1. KInit => CipherInv /\ KernelInv
  <2> SUFFICES ASSUME KInit PROVE CipherInv /\ KernelInv
    OBVIOUS
  <2>1. CipherInv
    BY InvInit DEF KInit
  <2>2. KernelInv
    BY DEF KInit, KernelInv, KernelControl, Walking, Followed
  <2> QED BY <2>1, <2>2
<1>2. KernelInv => KernelAgrees
  BY DEF KernelInv, Followed, KernelAgrees
<1> QED BY <1>1, <1>2, KernelStep, PTL DEF KSpec

=============================================================================
