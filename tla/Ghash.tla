------------------------------- MODULE Ghash --------------------------------
(***************************************************************************)
(* GHASH of src/aes-gcm.c with its multiplication in GF(2^128), bit by     *)
(* bit: ghash_start, one call of ghash after the other on the same y, as   *)
(* aes_gcm_ghash and aes_gcm_prepare_j0 make them, gf_mult one bit of x a  *)
(* step.  Gcm takes from here that GHASH is a polynomial in H.             *)
(***************************************************************************)
EXTENDS Words, FiniteSets

CONSTANTS
    Subkeys,        \* values of H, blocks
    DataSequences   \* for each y, the byte sequences hashed into it

VARIABLES
    pc,
    h, calls,       \* the arguments: H, and the data of each call
    call,           \* the number of the call in progress
    y,
    xpos,           \* bytes of its data that are hashed
    bit,            \* 8 * i + j of gf_mult
    mx, z, v,       \* its x, z and v
    hashed          \* history: the blocks hashed so far, padded

vars == <<pc, h, calls, call, y, xpos, bit, mx, z, v, hashed>>

Block == 16

Blocks == Word \X Word \X Word \X Word

\* H is a block, data are bytes.
Inputs == Subkeys \subseteq Blocks /\ DataSequences \subseteq Seq(Seq(Byte))

ZeroBlock == <<ZeroWord, ZeroWord, ZeroWord, ZeroWord>>

\* Byte p of a block, and the block of the bytes o, numbered from 0.
Octet(b, p) == b[1 + p \div 4][1 + (p % 4)]
BlockOf(o) ==
    <<<<o[0], o[1], o[2], o[3]>>, <<o[4], o[5], o[6], o[7]>>,
      <<o[8], o[9], o[10], o[11]>>, <<o[12], o[13], o[14], o[15]>>>>

Init ==
    /\ h \in Subkeys /\ calls \in DataSequences
    /\ pc = "loop"
    /\ call = 1
    /\ y = ZeroBlock            \* ghash_start
    /\ xpos = 0
    /\ bit = 0
    /\ mx = ZeroBlock /\ z = ZeroBlock /\ v = ZeroBlock
    /\ hashed = <<>>

-----------------------------------------------------------------------------
xor_block(d, s) ==
    <<XorWord(d[1], s[1]), XorWord(d[2], s[2]), XorWord(d[3], s[3]), XorWord(d[4], s[4])>>

\* Word k shifted to the right, its uppermost bit set if the last byte of the
\* word before it is odd as the block stands.
ShiftWord(b, k) ==
    LET carry == IF k = 1 THEN 0 ELSE b[k - 1][4] % 2
        half(high, low) == 128 * (high % 2) + low \div 2
    IN  [b EXCEPT ![k] = <<half(carry, @[1]), half(@[1], @[2]), half(@[2], @[3]), half(@[3], @[4])>>]

\* The words from the last to the first.
shift_right_block(b) ==
    ShiftWord(ShiftWord(ShiftWord(ShiftWord(b, 4), 3), 2), 1)

\* x[i] & 1 << (7 - j).
BitOf(b, n) == Bit(Octet(b, n \div 8), 7 - (n % 8))

-----------------------------------------------------------------------------
Data == calls[call]
Remaining == IF call \in DOMAIN calls THEN Len(Data) - xpos ELSE -1

\* y becomes y XOR b, and then gf_mult(y, h, tmp) begins.
Absorb(b) ==
    /\ y' = xor_block(y, b)
    /\ hashed' = Append(hashed, b)
    /\ mx' = y'
    /\ z' = ZeroBlock
    /\ v' = h
    /\ bit' = 0
    /\ pc' = "mult"
    /\ UNCHANGED <<h, calls, call>>

\* A turn of the loop over full blocks.
FullBlock ==
    /\ pc = "loop" /\ Remaining >= Block
    /\ Absorb(BlockOf([p \in 0..15 |-> Data[xpos + p + 1]]))
    /\ xpos' = xpos + Block

\* The zero padded last block.
LastBlock ==
    /\ pc = "loop" /\ Remaining \in 1..(Block - 1)
    /\ Absorb(BlockOf([p \in 0..15 |-> IF p < Remaining THEN Data[xpos + p + 1] ELSE 0]))
    /\ xpos' = xpos + Remaining

\* ghash returns; the next call goes on with y.
Return ==
    /\ pc = "loop" /\ Remaining = 0
    /\ call' = call + 1
    /\ xpos' = 0
    /\ UNCHANGED <<pc, h, calls, y, bit, mx, z, v, hashed>>

\* Mutant: the reduction is decided by the bit that is left after the shift.
MultiplyBit_late ==
    /\ pc = "mult" /\ bit < 8 * Block
    /\ z' = IF BitOf(mx, bit) = 1 THEN xor_block(z, v) ELSE z
    /\ LET w == shift_right_block(v)
       IN  v' = IF Octet(w, 15) % 2 = 1 THEN [w EXCEPT ![1][1] = XorByte(@, 225)] ELSE w
    /\ bit' = bit + 1
    /\ UNCHANGED <<pc, h, calls, call, y, xpos, mx, hashed>>

\* Z_(i + 1) and V_(i + 1); R is 11100001 || 0^120.
MultiplyBit ==
    /\ pc = "mult" /\ bit < 8 * Block
    /\ z' = IF BitOf(mx, bit) = 1 THEN xor_block(z, v) ELSE z
    /\ LET w == shift_right_block(v)
       IN  v' = IF Octet(v, 15) % 2 = 1 THEN [w EXCEPT ![1][1] = XorByte(@, 225)] ELSE w
    /\ bit' = bit + 1
    /\ UNCHANGED <<pc, h, calls, call, y, xpos, mx, hashed>>

\* gf_mult returns and its result is copied to y.
Multiplied ==
    /\ pc = "mult" /\ bit = 8 * Block
    /\ y' = z
    /\ pc' = "loop"
    /\ UNCHANGED <<h, calls, call, xpos, bit, mx, z, v, hashed>>

Next == FullBlock \/ LastBlock \/ Return \/ MultiplyBit \/ Multiplied

Spec == Init /\ [][Next]_vars

-----------------------------------------------------------------------------
\* The reference: polynomials over GF(2) as sets of exponents, multiplied first
\* and then reduced modulo X^128 + X^7 + X^2 + X + 1.  The uppermost bit of the
\* first byte of a block is the coefficient of X^0.
Sum2(a, b) == (a \ b) \cup (b \ a)

PolynomialOf(b) == {n \in 0..127 : BitOf(b, n) = 1}

Shifted(a, n) == {e + n : e \in a}

\* X^128 is Q, so a polynomial of degree 254 is reduced by putting Q in twice.
TimesQ(a) == Sum2(Sum2(a, Shifted(a, 1)), Sum2(Shifted(a, 2), Shifted(a, 7)))
Folded(a) == Sum2({e \in a : e < 128}, TimesQ({e - 128 : e \in {d \in a : d >= 128}}))
Reduced(a) == Folded(Folded(a))

Product(a, b) ==
    {e \in 0..254 : Cardinality({n \in a : e - n \in b}) % 2 = 1}
Times(a, b) == Reduced(Product(a, b))

\* Powers(H, n)[k] is H^(k + 1), and Y_m is block k of m times H^(m - k + 1), added up.
Powers(H, n) == LET power[k \in 0..n] == IF k = 0 THEN H ELSE Times(power[k - 1], H) IN power
Terms(blocks, H) ==
    LET m == Len(blocks)
        sum[k \in 0..m] ==
            IF k = 0 THEN {}
            ELSE Sum2(sum[k - 1], Times(PolynomialOf(blocks[k]), Powers(H, m)[m - k]))
    IN  sum
Hash(blocks, H) == Terms(blocks, H)[Len(blocks)]

\* The blocks, the products and the position in the data have their types; the
\* position never passes the end of the data.
TypeOK ==
    /\ pc \in {"loop", "mult"}
    /\ \A b \in {y, mx, z, v} : b \in Blocks
    /\ call \in DOMAIN calls => xpos \in 0..Len(Data)
    /\ bit \in 0..128

\* In step n of gf_mult v is y times X^n, reduced, and z the product of y and
\* the first n terms of x (shift_right_block shifts 128 bits across four words
\* in place).
ProductSoFar ==
    pc = "mult" =>
        /\ PolynomialOf(v) = Reduced(Shifted(PolynomialOf(h), bit))
        /\ PolynomialOf(z) = Times({n \in PolynomialOf(mx) : n < bit}, PolynomialOf(h))

\* Between two blocks y is the polynomial in H whose coefficients are the blocks
\* hashed so far, whichever calls they came in (ghash).
GhashIsPolynomial ==
    pc = "loop" => PolynomialOf(y) = Hash(hashed, PolynomialOf(h))

\* The blocks hashed are those of the data, each call's filled up with zeros on
\* its own: nothing that an earlier block left in tmp gets into the padding.
Padded(x) ==
    [k \in 1..((Len(x) + Block - 1) \div Block) |->
        BlockOf([p \in 0..15 |->
            IF Block * (k - 1) + p < Len(x) THEN x[Block * (k - 1) + p + 1] ELSE 0])]

PaddedUpto ==
    LET blocks[k \in 0..Len(calls)] ==
            IF k = 0 THEN <<>> ELSE blocks[k - 1] \o Padded(calls[k])
    IN  blocks

PaddedApart ==
    pc = "loop" /\ xpos = 0 => hashed = PaddedUpto[call - 1]
=============================================================================
