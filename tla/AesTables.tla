----------------------------- MODULE AesTables ------------------------------
(***************************************************************************)
(* The lookup tables of src/aes-internal.c with the macros of              *)
(* src/aes-internal.h that read them.  The tables are built from the two   *)
(* substitutions they contain, which are data.                             *)
(***************************************************************************)
EXTENDS Words

CONSTANT SmallTables    \* AES_SMALL_TABLES: the rotated tables are left out

ASSUME TablesAssumption == SmallTables \in BOOLEAN

\* The substitution in the middle bytes of Te0, and the one in Td4s.
SBytes == <<
     99, 124, 119, 123, 242, 107, 111, 197,  48,   1, 103,  43, 254, 215, 171, 118,
    202, 130, 201, 125, 250,  89,  71, 240, 173, 212, 162, 175, 156, 164, 114, 192,
    183, 253, 147,  38,  54,  63, 247, 204,  52, 165, 229, 241, 113, 216,  49,  21,
      4, 199,  35, 195,  24, 150,   5, 154,   7,  18, 128, 226, 235,  39, 178, 117,
      9, 131,  44,  26,  27, 110,  90, 160,  82,  59, 214, 179,  41, 227,  47, 132,
     83, 209,   0, 237,  32, 252, 177,  91, 106, 203, 190,  57,  74,  76,  88, 207,
    208, 239, 170, 251,  67,  77,  51, 133,  69, 249,   2, 127,  80,  60, 159, 168,
     81, 163,  64, 143, 146, 157,  56, 245, 188, 182, 218,  33,  16, 255, 243, 210,
    205,  12,  19, 236,  95, 151,  68,  23, 196, 167, 126,  61, 100,  93,  25, 115,
     96, 129,  79, 220,  34,  42, 144, 136,  70, 238, 184,  20, 222,  94,  11, 219,
    224,  50,  58,  10,  73,   6,  36,  92, 194, 211, 172,  98, 145, 149, 228, 121,
    231, 200,  55, 109, 141, 213,  78, 169, 108,  86, 244, 234, 101, 122, 174,   8,
    186, 120,  37,  46,  28, 166, 180, 198, 232, 221, 116,  31,  75, 189, 139, 138,
    112,  62, 181, 102,  72,   3, 246,  14,  97,  53,  87, 185, 134, 193,  29, 158,
    225, 248, 152,  17, 105, 217, 142, 148, 155,  30, 135, 233, 206,  85,  40, 223,
    140, 161, 137,  13, 191, 230,  66, 104,  65, 153,  45,  15, 176,  84, 187,  22 >>

SiBytes == <<
     82,   9, 106, 213,  48,  54, 165,  56, 191,  64, 163, 158, 129, 243, 215, 251,
    124, 227,  57, 130, 155,  47, 255, 135,  52, 142,  67,  68, 196, 222, 233, 203,
     84, 123, 148,  50, 166, 194,  35,  61, 238,  76, 149,  11,  66, 250, 195,  78,
      8,  46, 161, 102,  40, 217,  36, 178, 118,  91, 162,  73, 109, 139, 209,  37,
    114, 248, 246, 100, 134, 104, 152,  22, 212, 164,  92, 204,  93, 101, 182, 146,
    108, 112,  72,  80, 253, 237, 185, 218,  94,  21,  70,  87, 167, 141, 157, 132,
    144, 216, 171,   0, 140, 188, 211,  10, 247, 228,  88,   5, 184, 179,  69,   6,
    208,  44,  30, 143, 202,  63,  15,   2, 193, 175, 189,   3,   1,  19, 138, 107,
     58, 145,  17,  65,  79, 103, 220, 234, 151, 242, 207, 206, 240, 180, 230, 115,
    150, 172, 116,  34, 231, 173,  53, 133, 226, 249,  55, 232,  28, 117, 223, 110,
     71, 241,  26, 113,  29,  41, 197, 137, 111, 183,  98,  14, 170,  24, 190,  27,
    252,  86,  62,  75, 198, 210, 121,  32, 154, 219, 192, 254, 120, 205,  90, 244,
     31, 221, 168,  51, 136,   7, 199,  49, 177,  18,  16,  89,  39, 128, 236,  95,
     96,  81, 127, 169,  25, 181,  74,  13,  45, 229, 122, 159, 147, 201, 156, 239,
    160, 224,  59,  77, 174,  42, 245, 176, 200, 235, 187,  60, 131,  83, 153,  97,
     23,  43,   4, 126, 186, 119, 214,  38, 225, 105,  20,  99,  85,  33,  12, 125 >>

S == [x \in Byte |-> SBytes[x + 1]]
Si == [x \in Byte |-> SiBytes[x + 1]]

\* Te0[x] = S[x].[02, 01, 01, 03], and so on.
Te0 == [x \in Byte |-> <<MulNibble(S[x], 2), S[x], S[x], MulNibble(S[x], 3)>>]
Te1 == [x \in Byte |-> <<MulNibble(S[x], 3), MulNibble(S[x], 2), S[x], S[x]>>]
Te2 == [x \in Byte |-> <<S[x], MulNibble(S[x], 3), MulNibble(S[x], 2), S[x]>>]
Te3 == [x \in Byte |-> <<S[x], S[x], MulNibble(S[x], 3), MulNibble(S[x], 2)>>]
Te4 == [x \in Byte |-> <<S[x], S[x], S[x], S[x]>>]

Td0 == [x \in Byte |-> <<MulNibble(Si[x], 14), MulNibble(Si[x], 9), MulNibble(Si[x], 13), MulNibble(Si[x], 11)>>]
Td1 == [x \in Byte |-> <<MulNibble(Si[x], 11), MulNibble(Si[x], 14), MulNibble(Si[x], 9), MulNibble(Si[x], 13)>>]
Td2 == [x \in Byte |-> <<MulNibble(Si[x], 13), MulNibble(Si[x], 11), MulNibble(Si[x], 14), MulNibble(Si[x], 9)>>]
Td3 == [x \in Byte |-> <<MulNibble(Si[x], 9), MulNibble(Si[x], 13), MulNibble(Si[x], 11), MulNibble(Si[x], 14)>>]
Td4 == [x \in Byte |-> <<Si[x], Si[x], Si[x], Si[x]>>]

\* rcons, the most significant byte of rcon.
rcons == <<1, 2, 4, 8, 16, 32, 64, 128, 27, 54>>
RCON(i) == <<rcons[i + 1], 0, 0, 0>>

-----------------------------------------------------------------------------
\* Rotation to the right by n bytes.
rotr(w, n) == [k \in 1..4 |-> w[((k + 3 - n) % 4) + 1]]

TE0(w) == Te0[w[1]]
TE1(w) == IF SmallTables THEN rotr(Te0[w[2]], 1) ELSE Te1[w[2]]
TE2(w) == IF SmallTables THEN rotr(Te0[w[3]], 2) ELSE Te2[w[3]]
TE3(w) == IF SmallTables THEN rotr(Te0[w[4]], 3) ELSE Te3[w[4]]

TD0(w) == Td0[w[1]]
TD1(w) == IF SmallTables THEN rotr(Td0[w[2]], 1) ELSE Td1[w[2]]
TD2(w) == IF SmallTables THEN rotr(Td0[w[3]], 2) ELSE Td2[w[3]]
TD3(w) == IF SmallTables THEN rotr(Td0[w[4]], 3) ELSE Td3[w[4]]

\* The byte that the mask and the shift of TE41 .. TE44 and their variants
\* leave: byte 2 or 3 of an entry of Te0, or any byte of one of Te4.
SubByte(x, position) ==
    IF SmallTables THEN Te0[x][IF position <= 2 THEN 2 ELSE 3] ELSE Te4[x][position]

\* TE41(a) ^ TE42(b) ^ TE43(c) ^ TE44(d): byte n of the n-th word.
LastEnc(a, b, c, d) ==
    <<SubByte(a[1], 1), SubByte(b[2], 2), SubByte(c[3], 3), SubByte(d[4], 4)>>

\* TE421(w) ^ TE432(w) ^ TE443(w) ^ TE414(w), and TE411 .. TE444.
RotSub(w) == <<SubByte(w[2], 1), SubByte(w[3], 2), SubByte(w[4], 3), SubByte(w[1], 4)>>
Sub(w) == LastEnc(w, w, w, w)

\* TD41(a) ^ TD42(b) ^ TD43(c) ^ TD44(d).
LastDec(a, b, c, d) ==
    IF SmallTables
    THEN <<Si[a[1]], Si[b[2]], Si[c[3]], Si[d[4]]>>
    ELSE <<Td4[a[1]][1], Td4[b[2]][2], Td4[c[3]][3], Td4[d[4]][4]>>

\* TE4(x): the substitution of one byte.
TE4(x) == SubByte(x, 4)

\* TD0_(TE4(b1)) ^ TD1_(TE4(b2)) ^ TD2_(TE4(b3)) ^ TD3_(TE4(b4)).
InvMix(w) ==
    LET v == <<TE4(w[1]), TE4(w[2]), TE4(w[3]), TE4(w[4])>>
    IN  Xor4(TD0(v), TD1(v), TD2(v), TD3(v))
=============================================================================
