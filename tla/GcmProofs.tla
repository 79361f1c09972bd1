----------------------------- MODULE GcmProofs ------------------------------
(***************************************************************************)
(* The safety of one call of the GCM functions, for every set of keys,     *)
(* ivs and messages and every counter width: type correctness, contexts,   *)
(* GCTR computes what the definition says and nothing more, and no block   *)
(* is encrypted twice, but the zero block for an empty iv.  Then calls     *)
(* together: they are a service of authenticated encryption, because GHASH *)
(* keeps apart what it is given.                                           *)
(***************************************************************************)
EXTENDS Gcm, SequenceTheorems, WellFoundedInduction, TLAPS

-----------------------------------------------------------------------------
\* Lemmas about sequences and padding.  IsSeq leaves the set of the elements open:
\* each takes the elements themselves as that set, and then has what SequenceTheorems
\* says of Seq.

\* Every nonempty set of numbers has a least one: the form of induction that
\* needs no predicate as a parameter.
LEMMA LeastElement ==
    ASSUME NEW U, U \subseteq Nat, U # {}
    PROVE  \E m \in U : \A k \in U : m <= k
<1> DEFINE R == OpToRel(<, Nat)
<1>1. IsWellFoundedOn(R, Nat)
  BY NatLessThanWellFounded
<1>2. ASSUME NEW i \in Nat, NEW j \in Nat, i < j
      PROVE  <<i, j>> \in R
  BY <1>2 DEF OpToRel
<1> HIDE DEF R
<1>3. PICK m \in U : \A k \in U : ~(<<k, m>> \in R)
  BY <1>1, WFMin
<1>4. ASSUME NEW k \in U PROVE m <= k
  <2>1. m \in Nat /\ k \in Nat
    OBVIOUS
  <2>2. ~(k < m)
    BY <1>2, <1>3, <2>1
  <2> QED BY <2>1, <2>2
<1> QED BY <1>4

\* A function of 1..n is a sequence.
LEMMA FunctionIsSeq ==
    ASSUME NEW n \in Nat, NEW f, f = [p \in 1..n |-> f[p]]
    PROVE  IsSeq(f) /\ Len(f) = n
<1> DEFINE R == {f[p] : p \in 1..n}
<1>1. f \in [1..n -> R]
  OBVIOUS
<1>2. f \in Seq(R) /\ Len(f) = n
  BY <1>1
<1> QED BY <1>2 DEF IsSeq

\* The length of a sequence, and its places.
LEMMA SeqFacts ==
    ASSUME NEW x, IsSeq(x)
    PROVE  Len(x) \in Nat /\ DOMAIN x = 1..Len(x)
BY DEF IsSeq

\* Of whatever elements.
LEMMA SeqIsSeq ==
    ASSUME NEW R, NEW s \in Seq(R)
    PROVE  IsSeq(s)
BY DEF IsSeq

\* Sequences with the same elements at the same places are one.
LEMMA SameSeq ==
    ASSUME NEW x, IsSeq(x), NEW y, IsSeq(y), Len(x) = Len(y),
           \A p \in 1..Len(x) : x[p] = y[p]
    PROVE  x = y
BY DEF IsSeq

\* An element behind a sequence,
LEMMA AppendIsSeq ==
    ASSUME NEW s, IsSeq(s), NEW e
    PROVE  /\ IsSeq(Append(s, e))
           /\ Len(Append(s, e)) = Len(s) + 1
           /\ \A i \in 1..Len(s) : Append(s, e)[i] = s[i]
           /\ Append(s, e)[Len(s) + 1] = e
<1> DEFINE R == {s[p] : p \in 1..Len(s)} \cup {e}
<1>1. s \in [1..Len(s) -> R] /\ Len(s) \in Nat
  BY DEF IsSeq
<1>2. s \in Seq(R) /\ e \in R
  BY <1>1
<1> HIDE DEF R
<1>3. /\ Append(s, e) \in Seq(R)
      /\ Len(Append(s, e)) = Len(s) + 1
      /\ \A i \in 1..Len(s) : Append(s, e)[i] = s[i]
      /\ Append(s, e)[Len(s) + 1] = e
  BY <1>2, AppendProperties
<1> QED BY <1>3, SeqIsSeq

\* The first n elements,
LEMMA PrefixIsSeq ==
    ASSUME NEW s, IsSeq(s), NEW n \in 0..Len(s)
    PROVE  /\ IsSeq(SubSeq(s, 1, n)) /\ Len(SubSeq(s, 1, n)) = n
           /\ \A i \in 1..n : SubSeq(s, 1, n)[i] = s[i]
<1> DEFINE R == {s[p] : p \in 1..Len(s)}
<1>1. s \in [1..Len(s) -> R] /\ Len(s) \in Nat
  BY DEF IsSeq
<1>2. s \in Seq(R)
  BY <1>1
<1> HIDE DEF R
<1>3. /\ SubSeq(s, 1, n) \in Seq(R) /\ Len(SubSeq(s, 1, n)) = n
      /\ \A i \in 1..n : SubSeq(s, 1, n)[i] = s[i]
  BY <1>2
<1> QED BY <1>3, SeqIsSeq

\* and those from m on.
LEMMA SuffixIsSeq ==
    ASSUME NEW s, IsSeq(s), NEW m \in 1..Len(s)
    PROVE  /\ IsSeq(SubSeq(s, m, Len(s)))
           /\ Len(SubSeq(s, m, Len(s))) = Len(s) - m + 1
           /\ \A i \in 1..(Len(s) - m + 1) : SubSeq(s, m, Len(s))[i] = s[m + i - 1]
<1> DEFINE R == {s[p] : p \in 1..Len(s)}
<1>1. s \in [1..Len(s) -> R] /\ Len(s) \in Nat
  BY DEF IsSeq
<1> HIDE DEF R
<1>2. \A i \in m..Len(s) : s[i] \in R
  BY <1>1
<1>3. m \in Int /\ Len(s) \in Int /\ m <= Len(s)
  BY <1>1
<1>4. /\ SubSeq(s, m, Len(s)) \in Seq(R)
      /\ Len(SubSeq(s, m, Len(s))) = IF m <= Len(s) THEN Len(s) - m + 1 ELSE 0
      /\ \A i \in 1..(Len(s) - m + 1) : SubSeq(s, m, Len(s))[i] = s[m + i - 1]
  BY <1>2, <1>3, SubSeqProperties
<1> QED BY <1>3, <1>4, SeqIsSeq

\* One sequence behind the other.
LEMMA ConcatIsSeq ==
    ASSUME NEW s, IsSeq(s), NEW t, IsSeq(t)
    PROVE  /\ IsSeq(s \o t)
           /\ Len(s \o t) = Len(s) + Len(t)
           /\ \A i \in 1..(Len(s) + Len(t)) :
                (s \o t)[i] = IF i <= Len(s) THEN s[i] ELSE t[i - Len(s)]
<1> DEFINE R == {s[p] : p \in 1..Len(s)} \cup {t[p] : p \in 1..Len(t)}
<1>1. /\ s \in [1..Len(s) -> R] /\ Len(s) \in Nat
      /\ t \in [1..Len(t) -> R] /\ Len(t) \in Nat
  BY DEF IsSeq
<1>2. s \in Seq(R) /\ t \in Seq(R)
  BY <1>1
<1> HIDE DEF R
<1> QED BY <1>2, ConcatProperties, SeqIsSeq

\* Exclusive or is its own inverse.
LEMMA XorTwice == \A a, b : Xor(a, Xor(a, b)) = b
BY Zenon DEF Xor

\* How many blocks a sequence has.
LEMMA PaddedBlocksIsSeq ==
    ASSUME NEW x, IsSeq(x)
    PROVE  /\ IsSeq(PaddedBlocks(x))
           /\ Len(PaddedBlocks(x)) = (Len(x) + Block - 1) \div Block
           /\ Len(PaddedBlocks(x)) \in Nat
<1>1. (Len(x) + Block - 1) \div Block \in Nat
  BY DEF IsSeq, Block
<1> QED BY <1>1, FunctionIsSeq DEF PaddedBlocks

\* Where byte p of a sequence is in its blocks.
LEMMA PaddedByte ==
    ASSUME NEW x, IsSeq(x), NEW p \in 1..Len(x)
    PROVE  PaddedBlocks(x)[1 + (p - 1) \div 16][1 + ((p - 1) % 16)] = x[p]
<1> DEFINE i == 1 + (p - 1) \div 16
           j == 1 + ((p - 1) % 16)
<1>1. Len(x) \in Nat
  BY DEF IsSeq
<1>2. /\ i \in 1..((Len(x) + 15) \div 16)
      /\ j \in 1..16
      /\ 16 * (i - 1) + j = p
  BY <1>1
<1> HIDE DEF i, j
<1>3. i \in 1..((Len(x) + Block - 1) \div Block)
  BY <1>1, <1>2 DEF Block
<1>4. PaddedBlocks(x)[i] =
        [l \in 1..Block |-> LET q == Block * (i - 1) + l
                            IN  IF q <= Len(x) THEN x[q] ELSE Zero]
  BY <1>3 DEF PaddedBlocks
<1>5. j \in 1..Block /\ Block * (i - 1) + j = p /\ p <= Len(x)
  BY <1>1, <1>2 DEF Block
<1>6. PaddedBlocks(x)[i][j] = x[p]
  BY <1>4, <1>5
<1> QED BY <1>6 DEF i, j

\* The blocks of a sequence, with its length, determine it.
LEMMA PaddedBlocksInjective ==
    ASSUME NEW x, IsSeq(x), NEW y, IsSeq(y), Len(x) = Len(y),
           PaddedBlocks(x) = PaddedBlocks(y)
    PROVE  x = y
<1>1. ASSUME NEW p \in 1..Len(x)
      PROVE  x[p] = y[p]
  BY PaddedByte
<1> QED BY <1>1, SameSeq

-----------------------------------------------------------------------------
USE DEF Block

\* Blocks of the keystream that have been computed.
DataBlocks == Len(ecb) - 1

\* The first block of ecb makes the hash subkey, the next n are the keystream.
EncryptedBlocks(n) ==
    /\ n \in Nat /\ Len(ecb) >= n + 1
    /\ ecb[1] = ZeroCounterBlock
    /\ \A i \in 2..(n + 1) : ecb[i] = BlockAt(J0, i - 1)

\* Inputs are within the limit of the definition, sealed ciphertexts too.
InputInv ==
    /\ Len(call.in) <= Block * (W - 2)
    /\ call.key \in Keys \/ pc = "idle"
    /\ call.iv \in Ivs \/ pc = "idle"
    /\ \A r \in sealed : IsSeq(r.crypt) /\ Len(r.crypt) <= Block * (W - 2)

\* A counter block that could meet the zero block starts at 1, or is the zero
\* block, for an empty iv.
J0Inv ==
    pc \in Working \ {"j0"} =>
        \/ call.iv = <<>> /\ J0 = ZeroCounterBlock
        \/ J0.base = ZeroCounterBlock.base => J0.ctr = 1

\* Where each step of a call finds the history of encrypted blocks.
EcbInv ==
    /\ pc = "init" => ecb = <<>>
    /\ pc \in {"init", "j0", "gctr"} => xpos = 0
    /\ pc \in {"j0", "gctr"} => EncryptedBlocks(0) /\ Len(ecb) = 1
    /\ pc = "blocks" =>
         /\ EncryptedBlocks(DataBlocks)
         /\ xpos = Block * DataBlocks
         /\ cb = BlockAt(J0, Len(ecb))
    /\ pc \in {"ghash", "tag"} =>
         /\ EncryptedBlocks(DataBlocks)
         /\ xpos = Len(call.in)
         /\ Block * DataBlocks < Len(call.in) + Block
    /\ pc = "finish" =>
         /\ EncryptedBlocks(DataBlocks - 1)
         /\ xpos = Len(call.in)
         /\ Block * (DataBlocks - 1) < Len(call.in) + Block
         /\ ecb[Len(ecb)] = J0
    /\ pc = "idle" => KeystreamFresh

\* The inductive invariant.
Inv ==
    /\ TypeOK
    /\ InputInv
    /\ J0Inv
    /\ EcbInv
    /\ GctrCorrect
    /\ ContextBalanced

-----------------------------------------------------------------------------
LEMMA ByteOfBlock ==
    ASSUME NEW k \in Nat, NEW p \in (16 * k + 1)..(16 * k + 16)
    PROVE  (p - 1) \div 16 = k /\ 1 + ((p - 1) % 16) = p - 16 * k
OBVIOUS

\* inc32 walks through the blocks after j0.
LEMMA IncAt ==
    ASSUME NEW j0, j0.ctr \in 0..(W - 1), NEW k \in 0..(W - 2)
    PROVE  /\ inc32(BlockAt(j0, k)) = BlockAt(j0, k + 1)
           /\ BlockAt(j0, k).ctr \in 0..(W - 1)
           /\ BlockAt(j0, k + 1).ctr \in 0..(W - 1)
BY WAssumption DEF inc32, BlockAt, CtrAt

\* No two of the blocks j0 .. j0 + W - 2 are the same.
LEMMA BlocksDiffer ==
    ASSUME NEW j0, j0.ctr \in 0..(W - 1),
           NEW i \in 0..(W - 2), NEW k \in 0..(W - 2),
           BlockAt(j0, i) = BlockAt(j0, k)
    PROVE  i = k
BY WAssumption DEF BlockAt, CtrAt

\* None of them is the block that makes the hash subkey.
LEMMA ZeroBlockDiffers ==
    ASSUME NEW j0, j0.ctr \in 0..(W - 1), NEW i \in 0..(W - 2),
           j0.base = ZeroCounterBlock.base => j0.ctr = 1
    PROVE  BlockAt(j0, i) # ZeroCounterBlock
<1>1. ZeroCounterBlock.ctr = 0
  BY DEF ZeroCounterBlock
<1>2. BlockAt(j0, i).base = j0.base /\ BlockAt(j0, i).ctr = CtrAt(j0.ctr, i)
  BY DEF BlockAt
<1>3. j0.ctr = 1 => CtrAt(j0.ctr, i) # 0
  BY WAssumption DEF CtrAt
<1> QED BY <1>1, <1>2, <1>3

-----------------------------------------------------------------------------
\* The coefficient of H^(i + 1) in a GHASH value.
Coefficient(c, i) == IF i < Len(c) THEN c[Len(c) - i] ELSE ZeroBlock

\* Dropping the leading zero blocks changes no coefficient.
LEMMA PolynomialCoefficients ==
    ASSUME NEW c, IsSeq(c)
    PROVE  /\ IsSeq(Polynomial(c))
           /\ \A i \in Nat : Coefficient(Polynomial(c), i) = Coefficient(c, i)
<1> DEFINE nonzero == {i \in DOMAIN c : c[i] # ZeroBlock}
<1>1. Len(c) \in Nat /\ DOMAIN c = 1..Len(c)
  BY SeqFacts
<1>2. CASE nonzero = {}
  <2>1. Polynomial(c) = <<>>
    BY <1>2 DEF Polynomial
  <2>2. IsSeq(<<>>) /\ Len(<<>>) = 0
    BY DEF IsSeq
  <2>3. ASSUME NEW i \in Nat PROVE Coefficient(c, i) = ZeroBlock
    BY <1>1, <1>2 DEF Coefficient
  <2>4. ASSUME NEW i \in Nat PROVE Coefficient(<<>>, i) = ZeroBlock
    BY <2>2 DEF Coefficient
  <2> QED BY <2>1, <2>2, <2>3, <2>4
<1>3. CASE nonzero # {}
  <2> DEFINE first == CHOOSE i \in nonzero : \A k \in nonzero : i <= k
  <2>1. nonzero \subseteq Nat
    BY <1>1
  <2>2. \E i \in nonzero : \A k \in nonzero : i <= k
    BY <1>3, <2>1, LeastElement
  <2>3. first \in nonzero /\ \A k \in nonzero : first <= k
    BY <2>2
  <2>4. Polynomial(c) = SubSeq(c, first, Len(c))
    BY <1>3 DEF Polynomial
  <2>5. first \in 1..Len(c) /\ \A k \in 1..Len(c) : k < first => c[k] = ZeroBlock
    <3>1. first \in 1..Len(c)
      BY <1>1, <2>3
    <3>2. ASSUME NEW k \in 1..Len(c), c[k] # ZeroBlock
          PROVE  first <= k
      BY <1>1, <2>3, <3>2
    <3> QED BY <1>1, <3>1, <3>2
  <2> HIDE DEF first, nonzero
  <2> DEFINE n == Len(c) - first + 1
  <2>6. n \in Nat /\ n = Len(c) - first + 1
    BY <1>1, <2>5
  <2> HIDE DEF n
  <2>7. /\ IsSeq(Polynomial(c))
        /\ Len(Polynomial(c)) = n
        /\ \A i \in 1..n : Polynomial(c)[i] = c[first + i - 1]
    BY <2>4, <2>5, <2>6, SuffixIsSeq
  <2>8. ASSUME NEW i \in Nat
        PROVE  Coefficient(Polynomial(c), i) = Coefficient(c, i)
    <3>1. CASE i < n
      <4>1. n - i \in 1..n /\ first + (n - i) - 1 = Len(c) - i /\ i < Len(c)
        BY <1>1, <2>5, <2>6, <3>1
      <4>2. Coefficient(Polynomial(c), i) = Polynomial(c)[n - i]
        BY <2>7, <3>1 DEF Coefficient
      <4>3. Polynomial(c)[n - i] = c[Len(c) - i]
        BY <2>7, <4>1
      <4> QED BY <4>1, <4>2, <4>3 DEF Coefficient
    <3>2. CASE ~(i < n)
      <4>1. Coefficient(Polynomial(c), i) = ZeroBlock
        BY <2>7, <3>2 DEF Coefficient
      <4>2. i < Len(c) => Len(c) - i \in 1..Len(c) /\ Len(c) - i < first
        BY <1>1, <2>5, <2>6, <3>2
      <4> QED BY <2>5, <4>1, <4>2 DEF Coefficient
    <3> QED BY <3>1, <3>2
  <2> QED BY <2>7, <2>8
<1> QED BY <1>2, <1>3

\* ghash puts the blocks of x below those of y.
LEMMA GhashCoefficients ==
    ASSUME NEW x, IsSeq(x), NEW y, IsSeq(y)
    PROVE  /\ IsSeq(ghash(x, y))
           /\ \A i \in Nat :
                LET B == PaddedBlocks(x)
                IN  Coefficient(ghash(x, y), i) =
                      IF i < Len(B) THEN B[Len(B) - i] ELSE Coefficient(y, i - Len(B))
<1> DEFINE B == PaddedBlocks(x)
<1>1. IsSeq(B) /\ Len(B) \in Nat /\ Len(y) \in Nat
  BY PaddedBlocksIsSeq, SeqFacts
<1>2. ghash(x, y) = Polynomial(y \o B)
  BY DEF ghash
<1> HIDE DEF B
<1>3. /\ IsSeq(y \o B)
      /\ Len(y \o B) = Len(y) + Len(B)
      /\ \A i \in 1..(Len(y) + Len(B)) :
           (y \o B)[i] = IF i <= Len(y) THEN y[i] ELSE B[i - Len(y)]
  BY <1>1, ConcatIsSeq
<1>4. /\ IsSeq(ghash(x, y))
      /\ \A i \in Nat : Coefficient(ghash(x, y), i) = Coefficient(y \o B, i)
  BY <1>2, <1>3, PolynomialCoefficients
<1>5. ASSUME NEW i \in Nat
      PROVE  Coefficient(y \o B, i) =
               IF i < Len(B) THEN B[Len(B) - i] ELSE Coefficient(y, i - Len(B))
  <2> DEFINE n == Len(y) + Len(B)
  <2>1. CASE i < Len(B)
    <3>1. n - i \in 1..n /\ ~(n - i <= Len(y)) /\ (n - i) - Len(y) = Len(B) - i /\ i < n
      BY <1>1, <2>1
    <3> HIDE DEF n
    <3>2. Coefficient(y \o B, i) = (y \o B)[n - i]
      BY <1>3, <3>1 DEF Coefficient, n
    <3>3. (y \o B)[n - i] = B[(n - i) - Len(y)]
      BY <1>3, <3>1 DEF n
    <3> QED BY <2>1, <3>1, <3>2, <3>3
  <2>2. CASE i >= Len(B) /\ i < n
    <3>1. n - i \in 1..n /\ n - i <= Len(y) /\ n - i = Len(y) - (i - Len(B))
          /\ i - Len(B) < Len(y)
      BY <1>1, <2>2
    <3> HIDE DEF n
    <3>2. Coefficient(y \o B, i) = (y \o B)[n - i]
      BY <1>3, <2>2 DEF Coefficient, n
    <3>3. (y \o B)[n - i] = y[n - i]
      BY <1>3, <3>1 DEF n
    <3>4. Coefficient(y, i - Len(B)) = y[Len(y) - (i - Len(B))]
      BY <3>1 DEF Coefficient
    <3>5. ~(i < Len(B))
      BY <1>1, <2>2
    <3> QED BY <3>1, <3>2, <3>3, <3>4, <3>5
  <2>3. CASE i >= n
    <3>1. ~(i < Len(B)) /\ ~(i - Len(B) < Len(y)) /\ ~(i < n)
      BY <1>1, <2>3
    <3> QED BY <1>3, <3>1 DEF Coefficient
  <2> QED BY <1>1, <2>1, <2>2, <2>3
<1> QED BY <1>4, <1>5 DEF B

\* The byte that tells a number apart.
NumberByte(n) == IF n = 0 THEN Zero ELSE {<<"num", n>>}

LEMMA NumberByteInjective ==
    ASSUME NEW m \in Nat, NEW n \in Nat, NumberByte(m) = NumberByte(n)
    PROVE  m = n
<1>1. \A k \in Nat : {<<"num", k>>} # Zero
  BY DEF Zero
<1>2. <<"num", m>> = <<"num", n>> => m = n
  OBVIOUS
<1> QED BY <1>1, <1>2 DEF NumberByte

\* The block of two numbers, and where they are in it.
LEMMA LengthBlock ==
    ASSUME NEW a \in Nat, NEW b \in Nat
    PROVE  /\ IsSeq(Be64(a) \o Be64(b))
           /\ Len(PaddedBlocks(Be64(a) \o Be64(b))) = 1
           /\ PaddedBlocks(Be64(a) \o Be64(b))[1][8] = NumberByte(a)
           /\ PaddedBlocks(Be64(a) \o Be64(b))[1][16] = NumberByte(b)
<1> DEFINE x == Be64(a) \o Be64(b)
<1>1. ASSUME NEW n \in Nat
      PROVE  IsSeq(Be64(n)) /\ Len(Be64(n)) = 8 /\ Be64(n)[8] = NumberByte(n)
  <2>1. Be64(n) = [j \in 1..8 |-> Be64(n)[j]]
    BY DEF Be64
  <2>2. Be64(n)[8] = NumberByte(n)
    BY DEF Be64, NumberByte
  <2> QED BY <2>1, <2>2, FunctionIsSeq
<1>2. /\ IsSeq(x) /\ Len(x) = 16
      /\ x[8] = Be64(a)[8] /\ x[16] = Be64(b)[8]
  <2>1. /\ IsSeq(x) /\ Len(x) = Len(Be64(a)) + Len(Be64(b))
        /\ \A i \in 1..(Len(Be64(a)) + Len(Be64(b))) :
             x[i] = IF i <= Len(Be64(a)) THEN Be64(a)[i] ELSE Be64(b)[i - Len(Be64(a))]
    BY <1>1, ConcatIsSeq
  <2> HIDE DEF x
  <2>2. Len(Be64(a)) = 8 /\ Len(Be64(b)) = 8
    BY <1>1
  <2> QED BY <2>1, <2>2
<1> HIDE DEF x
<1>3. Len(PaddedBlocks(x)) = 1
  <2>1. Len(PaddedBlocks(x)) = (16 + 16 - 1) \div 16
    BY <1>2, PaddedBlocksIsSeq
  <2>2. (16 + 16 - 1) \div 16 = 1
    OBVIOUS
  <2> QED BY <2>1, <2>2
<1>4. PaddedBlocks(x)[1][8] = x[8] /\ PaddedBlocks(x)[1][16] = x[16]
  <2>1. 1 \in 1..((Len(x) + Block - 1) \div Block)
    BY <1>2
  <2>2. PaddedBlocks(x)[1] =
          [j \in 1..16 |-> IF 16 * (1 - 1) + j <= Len(x) THEN x[16 * (1 - 1) + j] ELSE Zero]
    BY <2>1 DEF PaddedBlocks
  <2> QED BY <1>2, <2>2
<1> QED BY <1>1, <1>2, <1>3, <1>4 DEF x

\* From the block of two lengths the lengths can be read.
LEMMA LengthBlockInjective ==
    ASSUME NEW a \in Nat, NEW b \in Nat, NEW c \in Nat, NEW d \in Nat,
           PaddedBlocks(Be64(8 * a) \o Be64(8 * b))[1]
             = PaddedBlocks(Be64(8 * c) \o Be64(8 * d))[1]
    PROVE  a = c /\ b = d
<1>1. 8 * a \in Nat /\ 8 * b \in Nat /\ 8 * c \in Nat /\ 8 * d \in Nat
  OBVIOUS
<1>2. NumberByte(8 * a) = NumberByte(8 * c) /\ NumberByte(8 * b) = NumberByte(8 * d)
  BY <1>1, LengthBlock
<1>3. 8 * a = 8 * c /\ 8 * b = 8 * d
  BY <1>1, <1>2, NumberByteInjective
<1> QED BY <1>3

\* The coefficients of a GHASH of two parts are the blocks of the lengths, of the
\* second and of the first part.
LEMMA TwoPartCoefficients ==
    ASSUME NEW x, IsSeq(x), NEW y, IsSeq(y)
    PROVE  LET h == aes_gcm_ghash(x, y)
               X == PaddedBlocks(x)
               Y == PaddedBlocks(y)
           IN  /\ IsSeq(h)
               /\ Coefficient(h, 0) = PaddedBlocks(Be64(8 * Len(x)) \o Be64(8 * Len(y)))[1]
               /\ \A i \in 1..Len(Y) : Coefficient(h, 1 + Len(Y) - i) = Y[i]
               /\ \A i \in 1..Len(X) : Coefficient(h, 1 + Len(Y) + Len(X) - i) = X[i]
<1> DEFINE lens == Be64(8 * Len(x)) \o Be64(8 * Len(y))
           X == PaddedBlocks(x)
           Y == PaddedBlocks(y)
           L == PaddedBlocks(lens)
           h1 == ghash(x, ghash_start)
           h2 == ghash(y, h1)
           h3 == ghash(lens, h2)
<1>1. aes_gcm_ghash(x, y) = h3
  BY DEF aes_gcm_ghash
<1>2. IsSeq(lens) /\ Len(L) = 1
  <2>1. 8 * Len(x) \in Nat /\ 8 * Len(y) \in Nat
    BY SeqFacts
  <2> QED BY <2>1, LengthBlock
<1>3. Len(X) \in Nat /\ Len(Y) \in Nat
  BY PaddedBlocksIsSeq
<1>4. IsSeq(ghash_start)
  BY DEF ghash_start, IsSeq
<1>5. /\ IsSeq(h1)
      /\ \A i \in Nat : Coefficient(h1, i) =
           IF i < Len(X) THEN X[Len(X) - i] ELSE Coefficient(ghash_start, i - Len(X))
  BY <1>4, GhashCoefficients
<1>6. /\ IsSeq(h2)
      /\ \A i \in Nat : Coefficient(h2, i) =
           IF i < Len(Y) THEN Y[Len(Y) - i] ELSE Coefficient(h1, i - Len(Y))
  BY <1>5, GhashCoefficients
<1>7. /\ IsSeq(h3)
      /\ \A i \in Nat : Coefficient(h3, i) =
           IF i < Len(L) THEN L[Len(L) - i] ELSE Coefficient(h2, i - Len(L))
  BY <1>2, <1>6, GhashCoefficients
<1> HIDE DEF lens, X, Y, L, h1, h2, h3
<1>8. Coefficient(h3, 0) = L[1]
  BY <1>2, <1>7
<1>9. ASSUME NEW i \in 1..Len(Y)
      PROVE  Coefficient(h3, 1 + Len(Y) - i) = Y[i]
  <2>1. /\ 1 + Len(Y) - i \in Nat /\ ~(1 + Len(Y) - i < 1)
        /\ (1 + Len(Y) - i) - 1 = Len(Y) - i
        /\ Len(Y) - i \in Nat /\ Len(Y) - i < Len(Y)
        /\ Len(Y) - (Len(Y) - i) = i
    BY <1>3
  <2>2. Coefficient(h3, 1 + Len(Y) - i) = Coefficient(h2, Len(Y) - i)
    BY <1>2, <1>7, <2>1
  <2>3. Coefficient(h2, Len(Y) - i) = Y[i]
    BY <1>6, <2>1
  <2> QED BY <2>2, <2>3
<1>10. ASSUME NEW i \in 1..Len(X)
       PROVE  Coefficient(h3, 1 + Len(Y) + Len(X) - i) = X[i]
  <2>1. /\ 1 + Len(Y) + Len(X) - i \in Nat /\ ~(1 + Len(Y) + Len(X) - i < 1)
        /\ (1 + Len(Y) + Len(X) - i) - 1 = Len(Y) + Len(X) - i
        /\ Len(Y) + Len(X) - i \in Nat /\ ~(Len(Y) + Len(X) - i < Len(Y))
        /\ (Len(Y) + Len(X) - i) - Len(Y) = Len(X) - i
        /\ Len(X) - i \in Nat /\ Len(X) - i < Len(X)
        /\ Len(X) - (Len(X) - i) = i
    BY <1>3
  <2>2. Coefficient(h3, 1 + Len(Y) + Len(X) - i) = Coefficient(h2, Len(Y) + Len(X) - i)
    BY <1>2, <1>7, <2>1
  <2>3. Coefficient(h2, Len(Y) + Len(X) - i) = Coefficient(h1, Len(X) - i)
    BY <1>6, <2>1
  <2>4. Coefficient(h1, Len(X) - i) = X[i]
    BY <1>5, <2>1
  <2> QED BY <2>2, <2>3, <2>4
<1> QED BY <1>1, <1>7, <1>8, <1>9, <1>10 DEF lens, X, Y, L

\* Nothing else has the GHASH of an aad and a ciphertext: neither their blocks nor
\* their lengths can be moved from one to the other (aes_gcm_ghash).
LEMMA GhashInjective ==
    ASSUME NEW x, IsSeq(x), NEW y, IsSeq(y), NEW u, IsSeq(u), NEW v, IsSeq(v),
           aes_gcm_ghash(x, y) = aes_gcm_ghash(u, v)
    PROVE  x = u /\ y = v
<1> DEFINE h == aes_gcm_ghash(x, y)
           X == PaddedBlocks(x)
           Y == PaddedBlocks(y)
           U == PaddedBlocks(u)
           V == PaddedBlocks(v)
<1>1. Len(x) \in Nat /\ Len(y) \in Nat /\ Len(u) \in Nat /\ Len(v) \in Nat
  BY SeqFacts
<1>2. /\ Coefficient(h, 0) = PaddedBlocks(Be64(8 * Len(x)) \o Be64(8 * Len(y)))[1]
      /\ \A i \in 1..Len(Y) : Coefficient(h, 1 + Len(Y) - i) = Y[i]
      /\ \A i \in 1..Len(X) : Coefficient(h, 1 + Len(Y) + Len(X) - i) = X[i]
  BY TwoPartCoefficients
<1>3. /\ Coefficient(h, 0) = PaddedBlocks(Be64(8 * Len(u)) \o Be64(8 * Len(v)))[1]
      /\ \A i \in 1..Len(V) : Coefficient(h, 1 + Len(V) - i) = V[i]
      /\ \A i \in 1..Len(U) : Coefficient(h, 1 + Len(V) + Len(U) - i) = U[i]
  BY TwoPartCoefficients
<1>4. Len(x) = Len(u) /\ Len(y) = Len(v)
  <2>1. PaddedBlocks(Be64(8 * Len(x)) \o Be64(8 * Len(y)))[1]
          = PaddedBlocks(Be64(8 * Len(u)) \o Be64(8 * Len(v)))[1]
    BY <1>2, <1>3
  <2> QED BY <1>1, <2>1, LengthBlockInjective
<1>5. /\ IsSeq(X) /\ IsSeq(Y) /\ IsSeq(U) /\ IsSeq(V)
      /\ Len(X) = Len(U) /\ Len(Y) = Len(V)
  BY <1>4, PaddedBlocksIsSeq
<1> HIDE DEF h, X, Y, U, V
<1>6. Y = V
  BY <1>2, <1>3, <1>5, SameSeq
<1>7. X = U
  BY <1>2, <1>3, <1>5, SameSeq
<1> QED BY <1>4, <1>6, <1>7, PaddedBlocksInjective DEF X, Y, U, V

\* The coefficients of the hash of an iv are the blocks of its length and of the iv.
LEMMA HashedIvCoefficients ==
    ASSUME NEW z, IsSeq(z)
    PROVE  /\ Coefficient(HashedIv(z), 0) = PaddedBlocks(Be64(8 * 0) \o Be64(8 * Len(z)))[1]
           /\ \A i \in 1..Len(PaddedBlocks(z)) :
                Coefficient(HashedIv(z), 1 + Len(PaddedBlocks(z)) - i) = PaddedBlocks(z)[i]
<1> DEFINE lens == Be64(0) \o Be64(8 * Len(z))
           Z == PaddedBlocks(z)
           L == PaddedBlocks(lens)
           h1 == ghash(z, ghash_start)
           h2 == ghash(lens, h1)
<1>1. HashedIv(z) = h2
  BY DEF HashedIv
<1>2. IsSeq(lens) /\ Len(L) = 1
  <2>1. 0 \in Nat /\ 8 * Len(z) \in Nat
    BY SeqFacts
  <2> QED BY <2>1, LengthBlock
<1>3. Len(Z) \in Nat
  BY PaddedBlocksIsSeq
<1>4. /\ IsSeq(h1)
      /\ \A i \in Nat : Coefficient(h1, i) =
           IF i < Len(Z) THEN Z[Len(Z) - i] ELSE Coefficient(ghash_start, i - Len(Z))
  <2>1. IsSeq(ghash_start)
    BY DEF ghash_start, IsSeq
  <2> QED BY <2>1, GhashCoefficients
<1>5. /\ IsSeq(h2)
      /\ \A i \in Nat : Coefficient(h2, i) =
           IF i < Len(L) THEN L[Len(L) - i] ELSE Coefficient(h1, i - Len(L))
  BY <1>2, <1>4, GhashCoefficients
<1> HIDE DEF lens, Z, L, h1, h2
<1>6. Coefficient(h2, 0) = L[1]
  BY <1>2, <1>5
<1>7. ASSUME NEW i \in 1..Len(Z)
      PROVE  Coefficient(h2, 1 + Len(Z) - i) = Z[i]
  <2>1. /\ 1 + Len(Z) - i \in Nat /\ ~(1 + Len(Z) - i < 1)
        /\ (1 + Len(Z) - i) - 1 = Len(Z) - i
        /\ Len(Z) - i \in Nat /\ Len(Z) - i < Len(Z)
        /\ Len(Z) - (Len(Z) - i) = i
    BY <1>3
  <2>2. Coefficient(h2, 1 + Len(Z) - i) = Coefficient(h1, Len(Z) - i)
    BY <1>2, <1>5, <2>1
  <2>3. Coefficient(h1, Len(Z) - i) = Z[i]
    BY <1>4, <2>1
  <2> QED BY <2>2, <2>3
<1>8. 8 * 0 = 0
  OBVIOUS
<1> QED BY <1>1, <1>6, <1>7, <1>8 DEF lens, Z, L

\* Nor has another iv the hash of an iv (aes_gcm_prepare_j0).
LEMMA HashedIvInjective ==
    ASSUME NEW x, IsSeq(x), NEW u, IsSeq(u), HashedIv(x) = HashedIv(u)
    PROVE  x = u
<1>1. Len(x) = Len(u)
  <2>1. Len(x) \in Nat /\ Len(u) \in Nat /\ 0 \in Nat
    BY SeqFacts
  <2>2. PaddedBlocks(Be64(8 * 0) \o Be64(8 * Len(x)))[1]
          = PaddedBlocks(Be64(8 * 0) \o Be64(8 * Len(u)))[1]
    BY HashedIvCoefficients
  <2> QED BY <2>1, <2>2, LengthBlockInjective
<1>2. /\ IsSeq(PaddedBlocks(x)) /\ IsSeq(PaddedBlocks(u))
      /\ Len(PaddedBlocks(x)) = Len(PaddedBlocks(u))
  BY <1>1, PaddedBlocksIsSeq
<1>3. PaddedBlocks(x) = PaddedBlocks(u)
  <2>1. ASSUME NEW i \in 1..Len(PaddedBlocks(x))
        PROVE  PaddedBlocks(x)[i] = PaddedBlocks(u)[i]
    BY HashedIvCoefficients, <1>2
  <2> QED BY <1>2, <2>1, SameSeq
<1> QED BY <1>1, <1>3, PaddedBlocksInjective

\* The hash of an iv that has a byte is not zero: its length is not.
LEMMA HashedIvEmpty ==
    ASSUME NEW z, IsSeq(z), HashedIv(z) = <<>>
    PROVE  z = <<>>
<1>1. Len(z) \in Nat /\ 8 * 0 = 0 /\ 8 * Len(z) \in Nat
  BY SeqFacts
<1>2. Coefficient(HashedIv(z), 0) = ZeroBlock
  BY DEF Coefficient
<1>3. PaddedBlocks(Be64(0) \o Be64(8 * Len(z)))[1] = ZeroBlock
  BY <1>1, <1>2, HashedIvCoefficients
<1>4. NumberByte(8 * Len(z)) = NumberByte(0)
  <2>1. ZeroBlock[16] = Zero
    BY DEF ZeroBlock
  <2> QED BY <1>1, <1>3, <2>1, LengthBlock DEF NumberByte
<1>5. Len(z) = 0
  BY <1>1, <1>4, NumberByteInjective
<1> QED BY <1>5, SeqFacts

-----------------------------------------------------------------------------
LEMMA InitInv == Init => Inv
<1> SUFFICES ASSUME Init PROVE Inv
  OBVIOUS
<1> USE DEF Init
<1>1. IsSeq(<<>>) /\ Len(<<>>) = 0
  BY DEF IsSeq
<1>2. TypeOK
  BY <1>1, WAssumption, BoundAssumption DEF TypeOK, NoCall, NoBlock, Working
<1>3. InputInv /\ J0Inv /\ EcbInv /\ GctrCorrect /\ ContextBalanced
  BY <1>1, WAssumption
  DEF InputInv, J0Inv, EcbInv, GctrCorrect, ContextBalanced, NoCall, Working, KeystreamFresh
<1> QED BY <1>2, <1>3 DEF Inv

\* Entering a call with admissible arguments.
LEMMA EnterInv ==
    ASSUME Inv, NEW c, Enter(c),
           c.op \in {"ae", "ad"}, c.key \in Keys, c.iv \in Ivs,
           IsSeq(c.in), Len(c.in) <= Block * (W - 2)
    PROVE  Inv'
<1> USE DEF Enter, Inv
<1>1. IsSeq(<<>>) /\ Len(<<>>) = 0
  BY DEF IsSeq
<1>2. IsSeq(out') /\ Len(out') = Len(c.in) + Block
  <2>1. Len(c.in) + Block \in Nat
    BY DEF IsSeq
  <2> QED BY <2>1, FunctionIsSeq
<1>3. TypeOK'
  <2>1. pc' \in {"idle", "init"} \cup Working /\ call'.op \in {"none", "ae", "ad"}
    OBVIOUS
  <2>2. IsSeq(call'.in) /\ IsSeq(out') /\ IsSeq(ecb')
    BY <1>1, <1>2
  <2>3. ctx' \in Nat /\ calls' \in 0..MaxCalls
    BY BoundAssumption DEF TypeOK
  <2>4. /\ J0' = [base |-> J0'.base, ctr |-> J0'.ctr] /\ J0'.ctr \in 0..(W - 1)
        /\ cb' = [base |-> cb'.base, ctr |-> cb'.ctr] /\ cb'.ctr \in 0..(W - 1)
    BY WAssumption DEF NoBlock
  <2>5. xpos' \in 0..Len(call'.in) /\ (pc' # "idle" => Len(out') = Len(call'.in) + Block)
    BY <1>2, SeqFacts
  <2> QED BY <2>1, <2>2, <2>3, <2>4, <2>5 DEF TypeOK
<1>4. InputInv'
  BY DEF InputInv
<1>5. (J0Inv /\ EcbInv /\ GctrCorrect /\ ContextBalanced)'
  BY <1>2, SeqFacts DEF J0Inv, EcbInv, GctrCorrect, ContextBalanced, Working
<1> QED BY <1>3, <1>4, <1>5

LEMMA CallAeInv ==
    ASSUME Inv, NEW k \in Keys, NEW iv \in Ivs, NEW a \in Aads, NEW m \in Messages,
           CallAe(k, iv, m, a)
    PROVE  Inv'
<1>1. IsSeq(m) /\ Len(m) <= Block * (W - 2)
  BY ByteAssumption, LengthAssumption
<1> DEFINE c == [op |-> "ae", key |-> k, iv |-> iv, in |-> m, aad |-> a, tag |-> <<>>]
<1>2. Enter(c)
  BY DEF CallAe
<1> QED BY <1>1, <1>2, EnterInv

LEMMA CallGmacInv ==
    ASSUME Inv, NEW k \in Keys, NEW iv \in Ivs, NEW a \in Aads, CallGmac(k, iv, a)
    PROVE  Inv'
<1>1. IsSeq(<<>>) /\ Len(<<>>) <= Block * (W - 2)
  BY WAssumption DEF IsSeq
<1> DEFINE c == [op |-> "ae", key |-> k, iv |-> iv, in |-> <<>>, aad |-> a, tag |-> <<>>]
<1>2. Enter(c)
  BY DEF CallGmac
<1> QED BY <1>1, <1>2, EnterInv

LEMMA CallAdInv ==
    ASSUME Inv, NEW k \in Keys, NEW iv \in Ivs, NEW a \in Aads, CallAd(k, iv, a)
    PROVE  Inv'
<1> PICK r \in sealed, x \in Crypts(k, iv) :
      Enter([op |-> "ad", key |-> k, iv |-> iv, in |-> x, aad |-> a, tag |-> r.tag])
  BY DEF CallAd
<1> DEFINE c == [op |-> "ad", key |-> k, iv |-> iv, in |-> x, aad |-> a, tag |-> r.tag]
<1>1. IsSeq(x) /\ Len(x) <= Block * (W - 2)
  <2>1. CASE x \in {q.crypt : q \in sealed}
    BY <2>1 DEF Inv, InputInv
  <2>2. CASE \E m \in Messages : x = Gctr(k, aes_gcm_prepare_j0(k, iv), m)
    <3> PICK m \in Messages : x = Gctr(k, aes_gcm_prepare_j0(k, iv), m)
      BY <2>2
    <3>1. Len(m) \in Nat /\ Len(m) <= Block * (W - 2)
      BY ByteAssumption, LengthAssumption DEF IsSeq
    <3>2. IsSeq(x) /\ Len(x) = Len(m)
      BY <3>1, FunctionIsSeq DEF Gctr
    <3> QED BY <3>1, <3>2
  <2> QED BY <2>1, <2>2 DEF Crypts
<1>2. Enter(c)
  OBVIOUS
<1> QED BY <1>1, <1>2, EnterInv

-----------------------------------------------------------------------------
LEMMA InitFailsInv == ASSUME Inv, InitFails PROVE Inv'
<1> USE DEF Inv, InitFails, Return
<1>1. TypeOK'
  BY DEF TypeOK, Working
<1>2. InputInv' /\ J0Inv' /\ GctrCorrect' /\ ContextBalanced'
  BY DEF InputInv, J0Inv, GctrCorrect, GctrByte, BlockAt, ContextBalanced, Working
<1>3. EcbInv'
  BY DEF EcbInv, KeystreamFresh, MasksWithSubkey
<1> QED BY <1>1, <1>2, <1>3

LEMMA InitHashSubkeyInv == ASSUME Inv, InitHashSubkey PROVE Inv'
<1> USE DEF Inv, InitHashSubkey
<1>1. IsSeq(ecb) /\ Len(ecb) = 0
  BY DEF EcbInv, TypeOK
<1>2. /\ IsSeq(ecb') /\ Len(ecb') = 1
      /\ ecb'[1] = ZeroCounterBlock
  <2> DEFINE e == Append(ecb, ZeroCounterBlock)
  <2>1. ecb' = e
    OBVIOUS
  <2>2. /\ IsSeq(e) /\ Len(e) = Len(ecb) + 1
        /\ e[Len(ecb) + 1] = ZeroCounterBlock
    BY <1>1, AppendIsSeq
  <2> HIDE DEF e
  <2> QED BY <1>1, <2>1, <2>2
<1>3. TypeOK'
  BY <1>2 DEF TypeOK, Working
<1>4. InputInv' /\ J0Inv' /\ ContextBalanced'
  BY DEF InputInv, J0Inv, ContextBalanced, Working
<1>5. EcbInv'
  BY <1>2 DEF EcbInv, EncryptedBlocks
<1>6. GctrCorrect'
  BY DEF GctrCorrect, GctrByte, BlockAt
<1> QED BY <1>3, <1>4, <1>5, <1>6

LEMMA PrepareJ0Inv == ASSUME Inv, PrepareJ0 PROVE Inv'
<1> USE DEF Inv, PrepareJ0
<1>1. xpos = 0 /\ call.key \in Keys /\ call.iv \in Ivs
  BY DEF EcbInv, InputInv
<1>2. J0' = [base |-> J0'.base, ctr |-> J0'.ctr] /\ J0'.ctr \in 0..(W - 1)
  BY <1>1, WAssumption, GhashLowAssumption DEF aes_gcm_prepare_j0, ZeroCounterBlock
<1>3. \/ call.iv = <<>> /\ J0' = ZeroCounterBlock
      \/ J0'.base = ZeroCounterBlock.base => J0'.ctr = 1
  <2>1. Len(call.iv) = 12 => J0'.ctr = 1
    BY DEF aes_gcm_prepare_j0
  <2>2. Len(call.iv) # 12 /\ HashedIv(call.iv) # <<>> =>
          J0'.base = <<"ghash", HashedIv(call.iv)>>
    BY DEF aes_gcm_prepare_j0
  <2>3. Len(call.iv) # 12 /\ HashedIv(call.iv) = <<>> =>
          J0' = ZeroCounterBlock /\ call.iv = <<>>
    BY <1>1, ByteAssumption, HashedIvEmpty DEF aes_gcm_prepare_j0
  <2>4. ZeroCounterBlock.base = <<"iv", [j \in 1..12 |-> Zero]>>
    BY DEF ZeroCounterBlock
  <2> QED BY <2>1, <2>2, <2>3, <2>4
<1>4. TypeOK'
  BY <1>2 DEF TypeOK, Working
<1>5. InputInv' /\ J0Inv' /\ ContextBalanced'
  BY <1>3 DEF InputInv, J0Inv, ContextBalanced, Working
<1>6. EcbInv'
  BY DEF EcbInv, EncryptedBlocks
<1>7. GctrCorrect'
  <2>1. \A p \in DOMAIN out : out[p] = Untouched(p)
    BY <1>1, SeqFacts DEF GctrCorrect, TypeOK
  <2> QED BY <1>1, <2>1, SeqFacts DEF GctrCorrect, TypeOK
<1> QED BY <1>4, <1>5, <1>6, <1>7

LEMMA GctrStartInv == ASSUME Inv, GctrStart PROVE Inv'
<1> USE DEF Inv, GctrStart
<1>1. xpos = 0 /\ EncryptedBlocks(0) /\ Len(ecb) = 1
  BY DEF EcbInv
<1>2. /\ J0 = BlockAt(J0, 0)
      /\ inc32(J0) = BlockAt(J0, 1)
      /\ BlockAt(J0, 1).ctr \in 0..(W - 1)
  <2>1. J0 = BlockAt(J0, 0)
    BY WAssumption DEF TypeOK, BlockAt, CtrAt
  <2> QED BY <2>1, IncAt, WAssumption DEF TypeOK
<1>3. TypeOK'
  BY <1>2 DEF TypeOK, Working, BlockAt
<1>4. InputInv' /\ J0Inv' /\ ContextBalanced'
  BY DEF InputInv, J0Inv, ContextBalanced, Working
<1>5. EcbInv'
  BY <1>1, <1>2 DEF EcbInv, EncryptedBlocks, DataBlocks
<1>6. GctrCorrect'
  BY DEF GctrCorrect, GctrByte, BlockAt
<1> QED BY <1>3, <1>4, <1>5, <1>6

\* Encrypting one more block of the keystream.
LEMMA AppendBlock ==
    ASSUME TypeOK, NEW n \in Nat, Len(ecb) = n + 1, EncryptedBlocks(n),
           ecb' = Append(ecb, BlockAt(J0, n + 1)), J0' = J0
    PROVE  /\ IsSeq(ecb')
           /\ Len(ecb') = n + 2
           /\ EncryptedBlocks(n + 1)'
<1> DEFINE e == Append(ecb, BlockAt(J0, n + 1))
<1>1. IsSeq(ecb)
  BY DEF TypeOK
<1>2. /\ IsSeq(e)
      /\ Len(e) = n + 2
      /\ \A i \in 1..(n + 1) : e[i] = ecb[i]
      /\ e[n + 2] = BlockAt(J0, n + 1)
  BY <1>1, AppendIsSeq
<1>3. ecb' = e
  OBVIOUS
<1> HIDE DEF e
<1>4. BlockAt(J0, n + 1)' = BlockAt(J0, n + 1) /\ \A i \in Nat : BlockAt(J0, i)' = BlockAt(J0, i)
  BY DEF BlockAt
<1>5. EncryptedBlocks(n + 1)'
  <2>1. ecb'[1] = ZeroCounterBlock
    BY <1>2, <1>3 DEF EncryptedBlocks
  <2>2. ASSUME NEW i \in 2..(n + 2)
        PROVE  ecb'[i] = BlockAt(J0, i - 1)
    BY <1>2, <1>3 DEF EncryptedBlocks
  <2> QED BY <1>2, <1>3, <2>1, <2>2 DEF EncryptedBlocks, BlockAt
<1> QED BY <1>2, <1>3, <1>5

\* XorKeystream turns the next bytes of the output into GCTR's.
LEMMA XorKeystreamCorrect ==
    ASSUME Inv, pc = "blocks", NEW last \in xpos..(xpos + Block), last <= Len(call.in),
           XorKeystream(xpos + 1, last), xpos' = last,
           UNCHANGED <<call, J0>>
    PROVE  GctrCorrect' /\ IsSeq(out') /\ Len(out') = Len(out)
<1> DEFINE k == DataBlocks
<1>1. /\ k \in Nat
      /\ xpos = 16 * k
      /\ cb = BlockAt(J0, k + 1)
  BY SeqFacts DEF Inv, EcbInv, EncryptedBlocks, TypeOK, DataBlocks
<1>2. /\ IsSeq(out) /\ DOMAIN out = 1..Len(out) /\ Len(out) \in Nat
      /\ Len(call.in) \in Nat
  BY SeqFacts DEF Inv, TypeOK
<1>3. IsSeq(out') /\ Len(out') = Len(out)
  BY <1>2, FunctionIsSeq DEF XorKeystream
<1>4. ASSUME NEW p \in DOMAIN out
      PROVE  out'[p] = IF p <= last THEN GctrByte(call.key, J0, call.in, p) ELSE Untouched(p)
  <2>1. CASE p \in (xpos + 1)..last
    <3>1. out'[p] = Xor(Keystream(call.key, cb, p - (xpos + 1) + 1), call.in[p])
      BY <2>1 DEF XorKeystream
    <3>2. p \in (16 * k + 1)..(16 * k + 16)
      BY <1>1, <2>1
    <3>3. (p - 1) \div 16 = k /\ 1 + ((p - 1) % 16) = p - 16 * k
      BY <1>1, <3>2, ByteOfBlock
    <3>4. p - (xpos + 1) + 1 = 1 + ((p - 1) % 16) /\ 1 + (p - 1) \div 16 = k + 1
      BY <1>1, <1>2, <3>3
    <3>5. p <= last
      BY <2>1
    <3> QED BY <1>1, <3>1, <3>4, <3>5 DEF GctrByte
  <2>2. CASE p \notin (xpos + 1)..last
    <3>1. out'[p] = out[p]
      BY <2>2 DEF XorKeystream
    <3>2. p \in Nat /\ xpos \in Nat /\ last \in Nat /\ xpos <= last
      BY <1>1, <1>2
    <3>3. (p <= xpos) <=> (p <= last)
      BY <2>2, <3>2
    <3> QED BY <3>1, <3>3 DEF Inv, GctrCorrect
  <2> QED BY <2>1, <2>2
<1>5. DOMAIN out' = DOMAIN out
  BY DEF XorKeystream
<1> QED BY <1>3, <1>4, <1>5 DEF GctrCorrect, GctrByte, BlockAt

LEMMA GctrBlockInv == ASSUME Inv, GctrBlock PROVE Inv'
<1> USE DEF Inv, GctrBlock
<1>1. PICK k \in Nat :
          /\ Len(ecb) = k + 1
          /\ xpos = 16 * k /\ xpos \in Nat
          /\ cb = BlockAt(J0, k + 1)
          /\ EncryptedBlocks(k)
          /\ Len(call.in) \in Nat
  <2>1. /\ Len(ecb) = DataBlocks + 1 /\ DataBlocks \in Nat
        /\ xpos = 16 * DataBlocks /\ xpos \in Nat
        /\ cb = BlockAt(J0, DataBlocks + 1)
        /\ EncryptedBlocks(DataBlocks)
        /\ Len(call.in) \in Nat
    BY SeqFacts DEF EcbInv, EncryptedBlocks, TypeOK, DataBlocks
  <2> QED BY <2>1
<1>2. k + 1 <= W - 2
  BY <1>1, WAssumption DEF InputInv
<1>3. GctrCorrect' /\ IsSeq(out') /\ Len(out') = Len(out)
  BY <1>1, XorKeystreamCorrect
<1>4. IsSeq(ecb') /\ Len(ecb') = k + 2 /\ EncryptedBlocks(k + 1)'
  BY <1>1, AppendBlock
<1>5. cb' = BlockAt(J0, k + 2) /\ cb'.ctr \in 0..(W - 1)
  <2>1. k + 1 \in 0..(W - 2) /\ (k + 1) + 1 = k + 2 /\ J0.ctr \in 0..(W - 1)
    BY <1>1, <1>2, WAssumption DEF TypeOK
  <2>2. cb' = inc32(BlockAt(J0, k + 1))
    BY <1>1
  <2> QED BY <2>1, <2>2, IncAt
<1>6. TypeOK'
  <2>1. (xpos \in 0..Len(call.in))'
    BY <1>1
  <2>2. (cb = [base |-> cb.base, ctr |-> cb.ctr])'
    BY <1>5 DEF BlockAt
  <2> QED BY <2>1, <2>2, <1>3, <1>4, <1>5 DEF TypeOK, Working
<1>7. InputInv' /\ J0Inv' /\ ContextBalanced'
  BY DEF InputInv, J0Inv, ContextBalanced, Working
<1>8. EcbInv'
  <2>1. DataBlocks' = k + 1
    BY <1>1, <1>4 DEF DataBlocks
  <2>2. (xpos = Block * DataBlocks)'
    BY <1>1, <2>1
  <2>3. (cb = BlockAt(J0, Len(ecb)))'
    BY <1>4, <1>5 DEF BlockAt
  <2>4. EncryptedBlocks(DataBlocks)'
    BY <1>4, <2>1 DEF EncryptedBlocks
  <2> QED BY <2>2, <2>3, <2>4 DEF EcbInv
<1> QED BY <1>3, <1>6, <1>7, <1>8

LEMMA GctrLastInv == ASSUME Inv, GctrLast PROVE Inv'
<1> USE DEF Inv, GctrLast
<1>1. PICK k \in Nat :
          /\ Len(ecb) = k + 1
          /\ xpos = 16 * k /\ xpos \in 0..Len(call.in)
          /\ cb = BlockAt(J0, k + 1)
          /\ EncryptedBlocks(k)
          /\ Len(call.in) \in Nat
  <2>1. /\ Len(ecb) = DataBlocks + 1 /\ DataBlocks \in Nat
        /\ xpos = 16 * DataBlocks /\ xpos \in 0..Len(call.in)
        /\ cb = BlockAt(J0, DataBlocks + 1)
        /\ EncryptedBlocks(DataBlocks)
        /\ Len(call.in) \in Nat
    BY SeqFacts DEF EcbInv, EncryptedBlocks, TypeOK, DataBlocks
  <2> QED BY <2>1
<1>2. GctrCorrect' /\ IsSeq(out') /\ Len(out') = Len(out)
  <2>1. CASE xpos < Len(call.in)
    <3>1. PICK last \in Nat : Len(call.in) = last
      BY <1>1
    <3>2. /\ last \in xpos..(xpos + Block)
          /\ XorKeystream(xpos + 1, last) /\ xpos' = last
          /\ last <= Len(call.in)
          /\ pc = "blocks" /\ UNCHANGED <<call, J0>>
      BY <1>1, <2>1, <3>1
    <3>3. Inv
      OBVIOUS
    <3> HIDE DEF Inv, GctrLast
    <3> QED BY <3>2, <3>3, XorKeystreamCorrect
  <2>2. CASE ~(xpos < Len(call.in))
    <3>1. xpos' = xpos /\ UNCHANGED <<out, call, J0>>
      BY <1>1, <2>2
    <3> QED BY <3>1 DEF GctrCorrect, GctrByte, BlockAt, TypeOK
  <2> QED BY <2>1, <2>2
<1>3. PICK n \in Nat :
          /\ IsSeq(ecb') /\ Len(ecb') = n + 1
          /\ EncryptedBlocks(n)'
          /\ 16 * n < Len(call.in) + 16
  <2>1. CASE xpos < Len(call.in)
    <3>1. IsSeq(ecb') /\ Len(ecb') = k + 2 /\ EncryptedBlocks(k + 1)'
      BY <1>1, <2>1, AppendBlock
    <3> QED BY <1>1, <2>1, <3>1
  <2>2. CASE ~(xpos < Len(call.in))
    <3>1. EncryptedBlocks(k)'
      BY <1>1, <2>2 DEF EncryptedBlocks, BlockAt
    <3> QED BY <1>1, <2>2, <3>1 DEF TypeOK
  <2> QED BY <2>1, <2>2
<1>4. TypeOK'
  BY <1>1, <1>2, <1>3 DEF TypeOK, Working
<1>5. InputInv' /\ J0Inv' /\ ContextBalanced'
  BY DEF InputInv, J0Inv, ContextBalanced, Working
<1>6. EcbInv'
  <2>1. DataBlocks' = n
    BY <1>3 DEF DataBlocks
  <2>2. EncryptedBlocks(DataBlocks)'
    BY <1>3, <2>1 DEF EncryptedBlocks
  <2> QED BY <1>3, <2>1, <2>2 DEF EcbInv
<1> QED BY <1>2, <1>4, <1>5, <1>6

LEMMA GhashInv == ASSUME Inv, Ghash PROVE Inv'
<1> USE DEF Inv, Ghash
<1>1. TypeOK'
  BY DEF TypeOK, Working
<1>2. InputInv' /\ J0Inv' /\ ContextBalanced'
  BY DEF InputInv, J0Inv, ContextBalanced, Working
<1>3. EcbInv'
  <2>1. CASE pc = "ghash"
    BY <2>1 DEF EcbInv, EncryptedBlocks, DataBlocks, BlockAt
  <2> QED BY <2>1
<1>4. GctrCorrect'
  BY DEF GctrCorrect, GctrByte, BlockAt
<1> QED BY <1>1, <1>2, <1>3, <1>4

LEMMA TagInv == ASSUME Inv, Tag PROVE Inv'
<1> USE DEF Inv, Tag
<1>1. PICK n \in Nat :
          /\ Len(ecb) = n + 1
          /\ EncryptedBlocks(n)
          /\ xpos = Len(call.in)
          /\ 16 * n < Len(call.in) + 16
  <2>1. /\ Len(ecb) = DataBlocks + 1 /\ DataBlocks \in Nat
        /\ EncryptedBlocks(DataBlocks)
        /\ xpos = Len(call.in)
        /\ 16 * DataBlocks < Len(call.in) + 16
    BY SeqFacts DEF EcbInv, EncryptedBlocks, TypeOK, DataBlocks
  <2> QED BY <2>1
<1> DEFINE e == Append(ecb, J0)
<1>2. /\ IsSeq(e) /\ Len(e) = n + 2
      /\ \A i \in 1..(n + 1) : e[i] = ecb[i]
      /\ e[n + 2] = J0
  BY <1>1, AppendIsSeq DEF TypeOK
<1>3. ecb' = e
  OBVIOUS
<1> HIDE DEF e
<1>4. EncryptedBlocks(n)'
  BY <1>1, <1>2, <1>3 DEF EncryptedBlocks, BlockAt
<1>5. TypeOK'
  BY <1>2, <1>3 DEF TypeOK, Working
<1>6. InputInv' /\ J0Inv' /\ ContextBalanced'
  BY DEF InputInv, J0Inv, ContextBalanced, Working
<1>7. EcbInv'
  <2>1. (DataBlocks - 1)' = n
    BY <1>2, <1>3 DEF DataBlocks
  <2>2. EncryptedBlocks(DataBlocks - 1)'
    BY <1>4, <2>1 DEF EncryptedBlocks
  <2> QED BY <1>1, <1>2, <1>3, <2>1, <2>2 DEF EcbInv
<1>8. GctrCorrect'
  BY DEF GctrCorrect, GctrByte, BlockAt
<1> QED BY <1>5, <1>6, <1>7, <1>8

-----------------------------------------------------------------------------
\* The blocks of ecb are told apart by how many increments after J0 they are.
LEMMA FreshFromEcbInv == ASSUME Inv PROVE KeystreamFresh
<1> USE DEF Inv
<1>1. CASE pc = "idle"
  BY <1>1 DEF EcbInv
<1>2. CASE pc = "init"
  <2>1. Len(ecb) = 0
    BY <1>2 DEF EcbInv
  <2> QED BY <2>1 DEF KeystreamFresh
<1>3. CASE pc \in {"j0", "gctr"}
  <2>1. Len(ecb) = 1
    BY <1>3 DEF EcbInv
  <2> QED BY <2>1 DEF KeystreamFresh
<1>4. ASSUME pc \in Working \ {"j0", "gctr"}
      PROVE  KeystreamFresh
  <2>1. PICK n \in 0..(W - 2) :
            /\ EncryptedBlocks(n)
            /\ \/ Len(ecb) = n + 1
               \/ Len(ecb) = n + 2 /\ ecb[n + 2] = J0
    <3>1. Len(call.in) \in Nat /\ xpos \in Nat /\ xpos <= Len(call.in)
          /\ Len(call.in) <= 16 * (W - 2)
      BY SeqFacts DEF TypeOK, InputInv
    <3>2. CASE pc = "blocks"
      <4>1. EncryptedBlocks(DataBlocks) /\ Block * DataBlocks <= Len(call.in)
        BY <3>1, <3>2 DEF EcbInv
      <4>2. Len(ecb) \in Nat /\ Len(ecb) = DataBlocks + 1 /\ DataBlocks \in Nat
        BY <4>1, SeqFacts DEF EncryptedBlocks, DataBlocks, TypeOK
      <4>3. DataBlocks <= W - 2
        BY <3>1, <4>1, <4>2, WAssumption
      <4> QED BY <4>1, <4>2, <4>3
    <3>3. CASE pc \in {"ghash", "tag"}
      <4>1. EncryptedBlocks(DataBlocks) /\ Block * DataBlocks < Len(call.in) + Block
        BY <3>1, <3>3 DEF EcbInv
      <4>2. Len(ecb) \in Nat /\ Len(ecb) = DataBlocks + 1 /\ DataBlocks \in Nat
        BY <4>1, SeqFacts DEF EncryptedBlocks, DataBlocks, TypeOK
      <4>3. DataBlocks <= W - 2
        BY <3>1, <4>1, <4>2, WAssumption
      <4> QED BY <4>1, <4>2, <4>3
    <3>4. CASE pc = "finish"
      <4>1. /\ EncryptedBlocks(DataBlocks - 1) /\ ecb[Len(ecb)] = J0
            /\ Block * (DataBlocks - 1) < Len(call.in) + Block
        BY <3>1, <3>4 DEF EcbInv
      <4>2. /\ Len(ecb) \in Nat /\ Len(ecb) = (DataBlocks - 1) + 2
            /\ DataBlocks - 1 \in Nat
        BY <4>1, SeqFacts DEF EncryptedBlocks, DataBlocks, TypeOK
      <4>3. DataBlocks - 1 <= W - 2
        BY <3>1, <4>1, <4>2, WAssumption
      <4> QED BY <4>1, <4>2, <4>3
    <3> QED BY <1>4, <3>2, <3>3, <3>4 DEF Working
  \* How far ecb[i] is from J0, for all but the first block.
  <2> DEFINE at(i) == IF i = n + 2 THEN 0 ELSE i - 1
  <2>2. /\ J0.ctr \in 0..(W - 1)
        /\ \/ call.iv = <<>> /\ J0 = ZeroCounterBlock
           \/ J0.base = ZeroCounterBlock.base => J0.ctr = 1
        /\ J0 = BlockAt(J0, 0)
    BY <1>4, WAssumption DEF TypeOK, J0Inv, Working, BlockAt, CtrAt
  <2>3. ASSUME NEW i \in 2..Len(ecb)
        PROVE  ecb[i] = BlockAt(J0, at(i)) /\ at(i) \in 0..(W - 2)
    BY <2>1, <2>2, WAssumption DEF EncryptedBlocks
  \* The zero block comes back as J0 only.
  <2>4. ASSUME NEW i \in 2..Len(ecb), ecb[i] = ecb[1]
        PROVE  call.iv = <<>> /\ i = Len(ecb) /\ ecb[1] = ZeroCounterBlock
    <3>1. ecb[1] = ZeroCounterBlock
      BY <2>1 DEF EncryptedBlocks
    <3>2. call.iv = <<>> /\ J0 = ZeroCounterBlock
      BY <2>2, <2>3, <2>4, <3>1, ZeroBlockDiffers
    <3>3. BlockAt(J0, at(i)) = BlockAt(J0, 0) /\ 0 \in 0..(W - 2)
      BY <2>2, <2>3, <2>4, <3>1, <3>2, WAssumption
    <3>4. at(i) = 0
      BY <2>2, <2>3, <3>3, BlocksDiffer
    <3> QED BY <2>1, <3>1, <3>2, <3>4
  <2>5. ASSUME NEW i \in 2..Len(ecb), NEW j \in 2..Len(ecb), ecb[i] = ecb[j]
        PROVE  i = j
    <3>1. at(i) = at(j)
      BY <2>2, <2>3, <2>5, BlocksDiffer
    <3> QED BY <2>1, <3>1
  <2>6. ASSUME NEW i \in 1..Len(ecb), NEW j \in 1..Len(ecb), ecb[i] = ecb[j]
        PROVE  i = j \/ (call.iv = <<>> /\ MasksWithSubkey(i, j))
    <3>1. CASE i = 1
      BY <2>1, <2>4, <2>6, <3>1 DEF MasksWithSubkey
    <3>2. CASE j = 1
      BY <2>1, <2>4, <2>6, <3>2 DEF MasksWithSubkey
    <3>3. CASE i # 1 /\ j # 1
      BY <2>1, <2>5, <2>6, <3>3
    <3> QED BY <3>1, <3>2, <3>3
  <2> QED BY <2>6 DEF KeystreamFresh
<1> QED BY <1>1, <1>2, <1>3, <1>4 DEF TypeOK

LEMMA FinishInv == ASSUME Inv, FinishAe \/ FinishAd PROVE Inv'
<1> USE DEF Inv, FinishAe, FinishAd, Return
<1>1. TypeOK'
  BY DEF TypeOK, Working, ContextBalanced
<1>2. J0Inv' /\ ContextBalanced'
  BY DEF J0Inv, ContextBalanced, Working
<1>3. InputInv'
  <2>1. CASE FinishAd
    BY <2>1 DEF InputInv
  <2>2. CASE FinishAe
    <3> DEFINE c == SubSeq(out, 1, Len(call.in))
    <3>1. IsSeq(c) /\ Len(c) = Len(call.in)
      <4>1. IsSeq(out) /\ Len(call.in) \in 0..Len(out)
        BY SeqFacts, <2>2 DEF TypeOK
      <4> QED BY <4>1, PrefixIsSeq
    <3>2. answer'.crypt = c
      BY <2>2
    <3>3. A!Record(answer').crypt = c
      BY <3>2 DEF A!Record
    <3>4. \A r \in sealed' : r \in sealed \/ r.crypt = c
      BY <2>2, <3>3
    <3> HIDE DEF c
    <3>5. \A r \in sealed' : IsSeq(r.crypt) /\ Len(r.crypt) <= Block * (W - 2)
      BY <3>1, <3>4 DEF InputInv
    <3>6. (Len(call.in) <= Block * (W - 2))' /\ pc' = "idle"
      BY <2>2 DEF InputInv
    <3> QED BY <3>5, <3>6 DEF InputInv
  <2> QED BY <2>1, <2>2
<1>4. EcbInv'
  BY FreshFromEcbInv DEF EcbInv, KeystreamFresh, MasksWithSubkey
<1>5. GctrCorrect'
  BY DEF GctrCorrect, GctrByte, BlockAt
<1> QED BY <1>1, <1>2, <1>3, <1>4, <1>5

LEMMA StutterInv == ASSUME Inv, UNCHANGED vars PROVE Inv'
<1> USE DEF Inv, vars
<1>1. TypeOK' /\ InputInv' /\ J0Inv' /\ ContextBalanced'
  BY DEF TypeOK, InputInv, J0Inv, ContextBalanced
<1>2. EcbInv'
  BY DEF EcbInv, EncryptedBlocks, DataBlocks, KeystreamFresh, MasksWithSubkey, BlockAt
<1>3. GctrCorrect'
  BY DEF GctrCorrect, GctrByte, BlockAt
<1> QED BY <1>1, <1>2, <1>3

LEMMA NextInv == Inv /\ [Next]_vars => Inv'
<1> SUFFICES ASSUME Inv, [Next]_vars PROVE Inv'
  OBVIOUS
<1>1. CASE \E k \in Keys, iv \in Ivs, a \in Aads, m \in Messages : CallAe(k, iv, m, a)
  BY <1>1, CallAeInv
<1>2. CASE \E k \in Keys, iv \in Ivs, a \in Aads : CallGmac(k, iv, a)
  BY <1>2, CallGmacInv
<1>3. CASE \E k \in Keys, iv \in Ivs, a \in Aads : CallAd(k, iv, a)
  BY <1>3, CallAdInv
<1>4. CASE InitFails
  BY <1>4, InitFailsInv
<1>5. CASE InitHashSubkey
  BY <1>5, InitHashSubkeyInv
<1>6. CASE PrepareJ0
  BY <1>6, PrepareJ0Inv
<1>7. CASE GctrStart
  BY <1>7, GctrStartInv
<1>8. CASE GctrBlock
  BY <1>8, GctrBlockInv
<1>9. CASE GctrLast
  BY <1>9, GctrLastInv
<1>10. CASE Ghash
  BY <1>10, GhashInv
<1>11. CASE Tag
  BY <1>11, TagInv
<1>12. CASE FinishAe \/ FinishAd
  BY <1>12, FinishInv
<1>13. CASE UNCHANGED vars
  BY <1>13, StutterInv
<1> QED BY <1>1, <1>2, <1>3, <1>4, <1>5, <1>6, <1>7, <1>8, <1>9, <1>10, <1>11, <1>12, <1>13
        DEF Next, Step

-----------------------------------------------------------------------------
\* The ciphertext of the call in progress.
Crypt == IF call.op = "ae" THEN SubSeq(out, 1, Len(call.in)) ELSE call.in

\* What aes_gcm_ae makes of its arguments.
TagFor(key, iv, aad, crypt) ==
    <<key, aes_gcm_prepare_j0(key, iv), aes_gcm_ghash(aad, crypt)>>

\* A record sealed is the definition's.
SealedInv ==
    \A r \in sealed :
        /\ IsSeq(r.iv) /\ IsSeq(r.aad) /\ IsSeq(r.plain) /\ IsSeq(r.crypt)
        /\ r.crypt = Gctr(r.key, aes_gcm_prepare_j0(r.key, r.iv), r.plain)
        /\ r.tag = TagFor(r.key, r.iv, r.aad, r.crypt)

\* A call is admissible; a tag that is presented was issued.
CallInv ==
    pc # "idle" =>
        /\ call.op \in {"ae", "ad"}
        /\ IsSeq(call.iv) /\ IsSeq(call.aad)
        /\ call.op = "ad" => \E r \in sealed : r.tag = call.tag

\* What the steps of a call have made of its arguments.
MadeInv ==
    /\ pc \in Working \ {"j0"} => J0 = aes_gcm_prepare_j0(call.key, call.iv)
    /\ pc \in {"tag", "finish"} => S = aes_gcm_ghash(call.aad, Crypt)
    /\ pc = "finish" => T = <<call.key, J0, S>>

AeadInv == Inv /\ SealedInv /\ CallInv /\ MadeInv

LEMMA PrepareJ0Injective ==
    ASSUME NEW k, NEW x, IsSeq(x), NEW y, IsSeq(y),
           aes_gcm_prepare_j0(k, x) = aes_gcm_prepare_j0(k, y)
    PROVE  x = y
<1> DEFINE j0(z) == aes_gcm_prepare_j0(k, z)
           zeros == [j \in 1..12 |-> Zero]
<1>1. j0(x) = j0(y)
  OBVIOUS
<1>2. \A z : Len(z) = 12 => j0(z) = [base |-> <<"iv", z>>, ctr |-> 1]
  BY DEF aes_gcm_prepare_j0
<1>3. \A z : Len(z) # 12 /\ HashedIv(z) # <<>> => j0(z).base = <<"ghash", HashedIv(z)>>
  BY DEF aes_gcm_prepare_j0
<1>4. \A z : Len(z) # 12 /\ HashedIv(z) = <<>> => j0(z) = [base |-> <<"iv", zeros>>, ctr |-> 0]
  BY DEF aes_gcm_prepare_j0, ZeroCounterBlock
<1> HIDE DEF j0, zeros
<1>5. \A z, w : <<"iv", z>> # <<"ghash", w>>
  OBVIOUS
<1>6. CASE Len(x) = 12 /\ Len(y) = 12
  BY <1>1, <1>2, <1>6
<1>7. CASE Len(x) # 12 /\ Len(y) # 12
  <2>1. HashedIv(x) = HashedIv(y)
    BY <1>1, <1>3, <1>4, <1>5, <1>7
  <2> QED BY <2>1, HashedIvInjective
<1>8. ASSUME NEW z, NEW w, Len(z) = 12, Len(w) # 12
      PROVE  j0(z) # j0(w)
  BY <1>2, <1>3, <1>4, <1>5, <1>8
<1> QED BY <1>1, <1>6, <1>7, <1>8

\* A tag belongs to one key, iv, aad and ciphertext.
LEMMA TagForInjective ==
    ASSUME NEW k, NEW l,
           NEW x, IsSeq(x), NEW a, IsSeq(a), NEW c, IsSeq(c),
           NEW y, IsSeq(y), NEW b, IsSeq(b), NEW d, IsSeq(d),
           TagFor(k, x, a, c) = TagFor(l, y, b, d)
    PROVE  k = l /\ x = y /\ a = b /\ c = d
<1>1. /\ k = l
      /\ aes_gcm_prepare_j0(k, x) = aes_gcm_prepare_j0(l, y)
      /\ aes_gcm_ghash(a, c) = aes_gcm_ghash(b, d)
  BY DEF TagFor
<1>2. x = y
  BY <1>1, PrepareJ0Injective
<1>3. a = b /\ c = d
  BY <1>1, GhashInjective
<1> QED BY <1>1, <1>2, <1>3

LEMMA GctrIsSeq ==
    ASSUME NEW k, NEW j0, NEW m, IsSeq(m)
    PROVE  IsSeq(Gctr(k, j0, m)) /\ Len(Gctr(k, j0, m)) = Len(m)
<1>1. Len(m) \in Nat
  BY SeqFacts
<1> QED BY <1>1, FunctionIsSeq DEF Gctr

\* Decrypting is encrypting once more.
LEMMA GctrTwice ==
    ASSUME NEW k, NEW j0, NEW m, IsSeq(m)
    PROVE  Gctr(k, j0, Gctr(k, j0, m)) = m
<1> DEFINE c == Gctr(k, j0, m)
<1>1. IsSeq(c) /\ Len(c) = Len(m)
  BY GctrIsSeq
<1>2. IsSeq(Gctr(k, j0, c)) /\ Len(Gctr(k, j0, c)) = Len(m)
  BY <1>1, GctrIsSeq
<1>3. ASSUME NEW p \in 1..Len(m)
      PROVE  Gctr(k, j0, c)[p] = m[p]
  <2> DEFINE s == Keystream(k, BlockAt(j0, 1 + (p - 1) \div Block), 1 + ((p - 1) % Block))
  <2>1. c[p] = Xor(s, m[p])
    BY DEF Gctr, GctrByte
  <2>2. Gctr(k, j0, c)[p] = Xor(s, c[p])
    <3> HIDE DEF c
    <3> QED BY <1>1 DEF Gctr, GctrByte
  <2> HIDE DEF c, s
  <2> QED BY <2>1, <2>2, XorTwice
<1> HIDE DEF c
<1> QED BY <1>2, <1>3, SameSeq DEF c

-----------------------------------------------------------------------------
LEMMA InitAead == Init => AeadInv
<1> SUFFICES ASSUME Init PROVE AeadInv
  OBVIOUS
<1>1. Inv
  BY InitInv
<1>2. SealedInv /\ CallInv /\ MadeInv
  BY DEF Init, SealedInv, CallInv, MadeInv, Working
<1> QED BY <1>1, <1>2 DEF AeadInv

\* A call begins with what its caller has a right to pass.
LEMMA EnterAead ==
    ASSUME AeadInv, NEW c, Enter(c),
           c.op \in {"ae", "ad"}, c.iv \in Ivs, c.aad \in Aads,
           c.op = "ad" => \E r \in sealed : r.tag = c.tag
    PROVE  /\ SealedInv' /\ CallInv' /\ MadeInv'
           /\ UNCHANGED <<sealed, answer>>
<1> USE DEF Enter, AeadInv
<1>1. SealedInv'
  BY DEF SealedInv
<1>2. CallInv'
  BY ByteAssumption DEF CallInv
<1>3. MadeInv'
  BY DEF MadeInv, Working
<1> QED BY <1>1, <1>2, <1>3

LEMMA CallAead ==
    ASSUME AeadInv, NEW k \in Keys, NEW iv \in Ivs, NEW a \in Aads,
           \/ \E m \in Messages : CallAe(k, iv, m, a)
           \/ CallGmac(k, iv, a)
           \/ CallAd(k, iv, a)
    PROVE  /\ SealedInv' /\ CallInv' /\ MadeInv'
           /\ UNCHANGED <<sealed, answer>>
<1>1. ASSUME NEW m \in Messages, CallAe(k, iv, m, a)
      PROVE  SealedInv' /\ CallInv' /\ MadeInv' /\ UNCHANGED <<sealed, answer>>
  <2> DEFINE c == [op |-> "ae", key |-> k, iv |-> iv, in |-> m, aad |-> a, tag |-> <<>>]
  <2>1. Enter(c)
    BY <1>1 DEF CallAe
  <2> QED BY <2>1, EnterAead
<1>2. CASE CallGmac(k, iv, a)
  <2> DEFINE c == [op |-> "ae", key |-> k, iv |-> iv, in |-> <<>>, aad |-> a, tag |-> <<>>]
  <2>1. Enter(c)
    BY <1>2 DEF CallGmac
  <2> QED BY <2>1, EnterAead
<1>3. CASE CallAd(k, iv, a)
  <2> PICK r \in sealed, x \in Crypts(k, iv) :
        Enter([op |-> "ad", key |-> k, iv |-> iv, in |-> x, aad |-> a, tag |-> r.tag])
    BY <1>3 DEF CallAd
  <2> DEFINE c == [op |-> "ad", key |-> k, iv |-> iv, in |-> x, aad |-> a, tag |-> r.tag]
  <2>1. Enter(c)
    OBVIOUS
  <2> QED BY <2>1, EnterAead
<1> QED BY <1>1, <1>2, <1>3

\* The steps between the first and the last one.
LEMMA WorkAead ==
    ASSUME AeadInv,
           \/ InitHashSubkey \/ PrepareJ0 \/ GctrStart \/ GctrBlock \/ GctrLast
           \/ Ghash \/ Tag
    PROVE  /\ SealedInv' /\ CallInv' /\ MadeInv'
           /\ UNCHANGED <<sealed, answer>>
<1> USE DEF AeadInv
<1>1. UNCHANGED <<sealed, answer, call>> /\ pc # "idle"
  BY DEF InitHashSubkey, PrepareJ0, GctrStart, GctrBlock, GctrLast, Ghash, Tag
<1>2. SealedInv'
  BY <1>1 DEF SealedInv
<1>3. CallInv'
  BY <1>1 DEF CallInv
<1>4. MadeInv'
  <2>1. CASE InitHashSubkey \/ PrepareJ0
    BY <2>1 DEF InitHashSubkey, PrepareJ0, MadeInv, Working
  <2>2. CASE GctrStart \/ GctrBlock \/ GctrLast
    BY <2>2 DEF GctrStart, GctrBlock, GctrLast, MadeInv, Working
  <2>3. CASE Ghash \/ Tag
    BY <2>3 DEF Ghash, Tag, MadeInv, Crypt, Working
  <2> QED BY <2>1, <2>2, <2>3
<1> QED BY <1>1, <1>2, <1>3, <1>4

\* What GCTR leaves in the caller's buffer.
LEMMA ResultOfGctr ==
    ASSUME AeadInv, pc = "finish"
    PROVE  /\ IsSeq(call.in)
           /\ IsSeq(SubSeq(out, 1, Len(call.in)))
           /\ Len(SubSeq(out, 1, Len(call.in))) = Len(call.in)
           /\ SubSeq(out, 1, Len(call.in))
                = Gctr(call.key, aes_gcm_prepare_j0(call.key, call.iv), call.in)
<1> USE DEF AeadInv, Inv
<1> DEFINE n == Len(call.in)
           c == SubSeq(out, 1, n)
           g == Gctr(call.key, aes_gcm_prepare_j0(call.key, call.iv), call.in)
<1>1. /\ n \in Nat /\ IsSeq(out) /\ DOMAIN out = 1..Len(out)
      /\ IsSeq(call.in) /\ n \in 0..Len(out) /\ 1..n \subseteq 1..Len(out)
      /\ xpos = n /\ J0 = aes_gcm_prepare_j0(call.key, call.iv)
  BY SeqFacts DEF TypeOK, EcbInv, MadeInv, Working
<1>2. IsSeq(c) /\ Len(c) = n /\ \A i \in 1..n : c[i] = out[i]
  BY <1>1, PrefixIsSeq
<1>3. IsSeq(g) /\ Len(g) = n
  BY <1>1, GctrIsSeq
<1>4. ASSUME NEW i \in 1..n PROVE c[i] = g[i]
  <2>1. out[i] = GctrByte(call.key, J0, call.in, i)
    BY <1>1 DEF GctrCorrect
  <2>2. g[i] = GctrByte(call.key, J0, call.in, i)
    BY <1>1 DEF Gctr
  <2> QED BY <1>2, <2>1, <2>2
<1> HIDE DEF c, g
<1>5. c = g
  BY <1>2, <1>3, <1>4, SameSeq
<1> QED BY <1>1, <1>2, <1>5 DEF c, g

LEMMA InitFailsAead ==
    ASSUME AeadInv, InitFails
    PROVE  SealedInv' /\ CallInv' /\ MadeInv' /\ A!Refuse
<1> USE DEF AeadInv, InitFails, Return
<1>1. SealedInv' /\ CallInv' /\ MadeInv'
  BY DEF SealedInv, CallInv, MadeInv, Working
<1>2. A!Refuse
  BY DEF A!Refuse, CallInv
<1> QED BY <1>1, <1>2

\* Sealing gives a tag that exactly the inputs of an earlier record have.
LEMMA FinishAeAead ==
    ASSUME AeadInv, FinishAe
    PROVE  SealedInv' /\ CallInv' /\ MadeInv' /\ A!Seal
<1> USE DEF AeadInv
<1> DEFINE c == SubSeq(out, 1, Len(call.in))
           j0 == aes_gcm_prepare_j0(call.key, call.iv)
<1>1. pc = "finish" /\ call.op = "ae" /\ pc' = "idle"
  BY DEF FinishAe, Return
<1>2. /\ IsSeq(call.in) /\ IsSeq(c) /\ Len(c) = Len(call.in)
      /\ c = Gctr(call.key, j0, call.in)
      /\ IsSeq(call.iv) /\ IsSeq(call.aad)
  BY <1>1, ResultOfGctr DEF CallInv
<1>3. T = TagFor(call.key, call.iv, call.aad, c)
  BY <1>1 DEF MadeInv, Crypt, TagFor, Working
<1>4. answer' = [op |-> "ae", key |-> call.key, iv |-> call.iv, aad |-> call.aad,
                 plain |-> call.in, crypt |-> c, tag |-> T, ready |-> TRUE, ret |-> 0]
  BY <1>1 DEF FinishAe, Return
<1> DEFINE r == [key |-> call.key, iv |-> call.iv, aad |-> call.aad,
                 plain |-> call.in, crypt |-> c, tag |-> T]
<1>5. A!Record(answer') = r /\ sealed' = sealed \cup {r}
  BY <1>4 DEF A!Record, FinishAe
<1> HIDE DEF c, j0
<1>6. SealedInv'
  BY <1>2, <1>3, <1>5 DEF SealedInv, j0
<1>7. CallInv' /\ MadeInv'
  BY <1>1 DEF CallInv, MadeInv, Working
<1>8. ASSUME NEW q \in sealed
      PROVE  (q.tag = answer'.tag) <=> A!SameInputs(q, answer')
  <2>1. /\ IsSeq(q.iv) /\ IsSeq(q.aad) /\ IsSeq(q.crypt)
        /\ q.tag = TagFor(q.key, q.iv, q.aad, q.crypt)
    BY DEF SealedInv
  <2>2. ASSUME q.tag = T
        PROVE  q.key = call.key /\ q.iv = call.iv /\ q.aad = call.aad /\ q.crypt = c
    <3>1. TagFor(q.key, q.iv, q.aad, q.crypt) = TagFor(call.key, call.iv, call.aad, c)
      BY <1>3, <2>1, <2>2
    <3> HIDE DEF AeadInv
    <3> QED BY <1>2, <2>1, <3>1, TagForInjective
  <2>3. q.key = call.key /\ q.iv = call.iv /\ q.aad = call.aad /\ q.crypt = c => q.tag = T
    BY <1>3, <2>1
  <2>4. A!SameInputs(q, answer') <=>
          q.key = call.key /\ q.iv = call.iv /\ q.aad = call.aad /\ q.crypt = c
    BY <1>4 DEF A!SameInputs
  <2>5. answer'.tag = T
    BY <1>4
  <2> QED BY <2>2, <2>3, <2>4, <2>5
<1>9. A!Seal
  <2>1. sealed' = sealed \cup {A!Record(answer')}
    BY <1>5
  <2>2. /\ answer'.op = "ae" /\ answer'.ready /\ answer'.ret = 0
        /\ Len(answer'.crypt) = Len(answer'.plain)
    BY <1>2, <1>4
  <2> QED BY <1>8, <2>1, <2>2 DEF A!Seal
<1> QED BY <1>6, <1>7, <1>9

\* Opening succeeds exactly for what was sealed, with the plaintext of then.
LEMMA FinishAdAead ==
    ASSUME AeadInv, FinishAd
    PROVE  SealedInv' /\ CallInv' /\ MadeInv' /\ A!Open
<1> USE DEF AeadInv
<1> DEFINE m == SubSeq(out, 1, Len(call.in))
           j0 == aes_gcm_prepare_j0(call.key, call.iv)
<1>1. pc = "finish" /\ call.op = "ad" /\ pc' = "idle" /\ UNCHANGED sealed
  BY DEF FinishAd, Return
<1>2. /\ IsSeq(call.in)
      /\ m = Gctr(call.key, j0, call.in)
      /\ IsSeq(call.iv) /\ IsSeq(call.aad)
      /\ \E r \in sealed : r.tag = call.tag
  BY <1>1, ResultOfGctr DEF CallInv
<1>3. T = TagFor(call.key, call.iv, call.aad, call.in)
  BY <1>1 DEF MadeInv, Crypt, TagFor, Working
<1>4. answer' = [op |-> "ad", key |-> call.key, iv |-> call.iv, aad |-> call.aad,
                 plain |-> m, crypt |-> call.in, tag |-> call.tag,
                 ready |-> TRUE, ret |-> IF call.tag = T THEN 0 ELSE -1]
  BY <1>1 DEF FinishAd, Return
<1> HIDE DEF m, j0
<1>5. SealedInv' /\ CallInv' /\ MadeInv'
  BY <1>1 DEF SealedInv, CallInv, MadeInv, Working
<1>6. \A r \in sealed : A!SameInputs(r, answer') <=>
        r.key = call.key /\ r.iv = call.iv /\ r.aad = call.aad /\ r.crypt = call.in
  BY <1>4 DEF A!SameInputs
<1> DEFINE matching == {r \in sealed : A!SameInputs(r, answer') /\ r.tag = answer'.tag}
<1>7. CASE call.tag = T
  <2> PICK r \in sealed : r.tag = T
    BY <1>2, <1>7
  <2>1. /\ IsSeq(r.iv) /\ IsSeq(r.aad) /\ IsSeq(r.crypt) /\ IsSeq(r.plain)
        /\ r.crypt = Gctr(r.key, aes_gcm_prepare_j0(r.key, r.iv), r.plain)
        /\ r.tag = TagFor(r.key, r.iv, r.aad, r.crypt)
    BY DEF SealedInv
  <2>2. r.key = call.key /\ r.iv = call.iv /\ r.aad = call.aad /\ r.crypt = call.in
    BY <1>2, <1>3, <2>1, TagForInjective
  <2>3. r.plain = m
    BY <1>2, <2>1, <2>2, GctrTwice DEF j0
  <2>4. r \in matching /\ r.plain = answer'.plain /\ answer'.ret = 0
    BY <1>4, <1>6, <1>7, <2>2, <2>3
  <2> QED BY <1>1, <1>4, <1>5, <2>4 DEF A!Open
<1>8. CASE call.tag # T
  <2>1. ASSUME NEW r \in matching PROVE FALSE
    <3>1. /\ r \in sealed /\ r.tag = call.tag
          /\ r.key = call.key /\ r.iv = call.iv /\ r.aad = call.aad /\ r.crypt = call.in
      BY <1>4, <1>6
    <3>2. r.tag = TagFor(r.key, r.iv, r.aad, r.crypt)
      BY <3>1 DEF SealedInv
    <3> QED BY <1>3, <1>8, <3>1, <3>2
  <2>2. matching = {} /\ answer'.ret = -1
    BY <1>4, <1>8, <2>1
  <2> QED BY <1>1, <1>4, <1>5, <2>2 DEF A!Open
<1> QED BY <1>7, <1>8

\* Each step of a call is a step of the service, or none.
LEMMA NextAead ==
    ASSUME AeadInv, [Next]_vars
    PROVE  AeadInv' /\ [A!Next]_<<sealed, answer>>
<1>1. Inv'
  BY NextInv DEF AeadInv
<1>2. CASE \E k \in Keys, iv \in Ivs, a \in Aads :
             \/ \E m \in Messages : CallAe(k, iv, m, a)
             \/ CallGmac(k, iv, a)
             \/ CallAd(k, iv, a)
  BY <1>1, <1>2, CallAead DEF AeadInv
<1>3. CASE \/ InitHashSubkey \/ PrepareJ0 \/ GctrStart \/ GctrBlock \/ GctrLast
           \/ Ghash \/ Tag
  BY <1>1, <1>3, WorkAead DEF AeadInv
<1>4. CASE InitFails
  BY <1>1, <1>4, InitFailsAead DEF AeadInv, A!Next
<1>5. CASE FinishAe
  BY <1>1, <1>5, FinishAeAead DEF AeadInv, A!Next
<1>6. CASE FinishAd
  BY <1>1, <1>6, FinishAdAead DEF AeadInv, A!Next
<1>7. CASE UNCHANGED vars
  <2>1. SealedInv' /\ CallInv' /\ MadeInv'
    BY <1>7 DEF AeadInv, SealedInv, CallInv, MadeInv, Crypt, Working, vars
  <2> QED BY <1>1, <1>7, <2>1 DEF AeadInv, vars
<1> QED BY <1>2, <1>3, <1>4, <1>5, <1>6, <1>7 DEF Next, Step

-----------------------------------------------------------------------------
\* The state of a call is well formed at every step of it: the inductive
\* invariant holds in every reachable state, and with it the types.
THEOREM TypeCorrect == Spec => []TypeOK
<1>1. Inv => TypeOK
  BY DEF Inv
<1> QED BY InitInv, NextInv, <1>1, PTL DEF Spec

\* However long the message (up to the limit of the definition), wherever the
\* counter starts and however often it wraps, no call whose iv has a byte
\* encrypts a block twice; a call with an empty iv, which the code takes, does so
\* with the zero block alone, for the hash subkey and for the tag (aes_gctr,
\* inc32, aes_gcm_init_hash_subkey, aes_gcm_prepare_j0).
THEOREM FreshKeystream == Spec => []KeystreamFresh
<1>1. Inv => KeystreamFresh
  BY FreshFromEcbInv
<1> QED BY InitInv, NextInv, <1>1, PTL DEF Spec

\* GCTR computes the definition's bytes for every message and stays inside
\* the caller's buffer (aes_gctr).
THEOREM CorrectGctr == Spec => []GctrCorrect
<1>1. Inv => GctrCorrect
  BY DEF Inv
<1> QED BY InitInv, NextInv, <1>1, PTL DEF Spec

\* Every way out of a call frees its cipher context, and only once
\* (aes_gcm_ae, aes_gcm_ad).
THEOREM BalancedContexts == Spec => []ContextBalanced
<1>1. Inv => ContextBalanced
  BY DEF Inv
<1> QED BY InitInv, NextInv, <1>1, PTL DEF Spec

\* For every set of keys, ivs, aads and messages the functions are a service of
\* authenticated encryption.
THEOREM AeadImplemented == Spec => ImplementsAead
<1>1. Init => A!Init
  BY DEF Init, A!Init
<1> QED BY <1>1, InitAead, NextAead, PTL DEF Spec, ImplementsAead, A!Spec, A!vars
=============================================================================
