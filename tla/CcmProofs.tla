----------------------------- MODULE CcmProofs -------------------------------
(***************************************************************************)
(* CCM, for every set of keys, nonces, messages and aads within the limits *)
(* of the definition: one call never gives the cipher the same block       *)
(* twice, its output is the input under the right blocks, and the calls    *)
(* are a service of authenticated encryption.                              *)
(***************************************************************************)
EXTENDS Ccm, SequenceTheorems, TLAPS

-----------------------------------------------------------------------------
\* Lemmas about sequences and padding.  IsSeq leaves the set of the elements open:
\* each takes the elements themselves as that set, and then has what SequenceTheorems
\* says of Seq.

\* A function of 1..n is a sequence.
LEMMA FunctionIsSeq ==
    ASSUME NEW n \in Nat, NEW f, f = [p \in 1..n |-> f[p]]
    PROVE  IsSeq(f) /\ Len(f) = n
<1> DEFINE R == {f[p] : p \in 1..n}
<1>1. f \in [1..n -> R]
  OBVIOUS
<1>2. f \in Seq(R) /\ Len(f) = n
  BY <1>1
<1> QED BY <1>2 DEF IsSeq

\* The length of a sequence, and its places.
LEMMA SeqFacts ==
    ASSUME NEW u, IsSeq(u)
    PROVE  Len(u) \in Nat /\ DOMAIN u = 1..Len(u)
BY DEF IsSeq

\* Of whatever elements.
LEMMA SeqIsSeq ==
    ASSUME NEW R, NEW s \in Seq(R)
    PROVE  IsSeq(s)
BY DEF IsSeq

\* Sequences with the same elements at the same places are one.
LEMMA SameSeq ==
    ASSUME NEW u, IsSeq(u), NEW v, IsSeq(v), Len(u) = Len(v),
           \A p \in 1..Len(u) : u[p] = v[p]
    PROVE  u = v
BY DEF IsSeq

\* An element behind a sequence,
LEMMA AppendIsSeq ==
    ASSUME NEW s, IsSeq(s), NEW e
    PROVE  /\ IsSeq(Append(s, e))
           /\ Len(Append(s, e)) = Len(s) + 1
           /\ \A i \in 1..Len(s) : Append(s, e)[i] = s[i]
           /\ Append(s, e)[Len(s) + 1] = e
<1> DEFINE R == {s[p] : p \in 1..Len(s)} \cup {e}
<1>1. s \in [1..Len(s) -> R] /\ Len(s) \in Nat
  BY DEF IsSeq
<1>2. s \in Seq(R) /\ e \in R
  BY <1>1
<1> HIDE DEF R
<1>3. /\ Append(s, e) \in Seq(R)
      /\ Len(Append(s, e)) = Len(s) + 1
      /\ \A i \in 1..Len(s) : Append(s, e)[i] = s[i]
      /\ Append(s, e)[Len(s) + 1] = e
  BY <1>2, AppendProperties
<1> QED BY <1>3, SeqIsSeq

\* or behind none.
LEMMA AppendToEmpty ==
    ASSUME NEW e
    PROVE  /\ IsSeq(Append(<<>>, e))
           /\ Len(Append(<<>>, e)) = 1
           /\ Append(<<>>, e)[1] = e
<1>1. Append(<<>>, e) = <<e>>
  OBVIOUS
<1>2. Len(<<e>>) = 1 /\ <<e>>[1] = e /\ <<e>> = [p \in 1..1 |-> <<e>>[p]]
  OBVIOUS
<1> QED BY <1>1, <1>2 DEF IsSeq

\* The first n elements,
LEMMA PrefixIsSeq ==
    ASSUME NEW s, IsSeq(s), NEW n \in 0..Len(s)
    PROVE  /\ IsSeq(SubSeq(s, 1, n)) /\ Len(SubSeq(s, 1, n)) = n
           /\ \A i \in 1..n : SubSeq(s, 1, n)[i] = s[i]
<1> DEFINE R == {s[p] : p \in 1..Len(s)}
<1>1. s \in [1..Len(s) -> R] /\ Len(s) \in Nat
  BY DEF IsSeq
<1>2. s \in Seq(R)
  BY <1>1
<1> HIDE DEF R
<1>3. /\ SubSeq(s, 1, n) \in Seq(R) /\ Len(SubSeq(s, 1, n)) = n
      /\ \A i \in 1..n : SubSeq(s, 1, n)[i] = s[i]
  BY <1>2
<1> QED BY <1>3, SeqIsSeq

\* One sequence behind the other.
LEMMA ConcatIsSeq ==
    ASSUME NEW s, IsSeq(s), NEW t, IsSeq(t)
    PROVE  /\ IsSeq(s \o t)
           /\ Len(s \o t) = Len(s) + Len(t)
           /\ \A i \in 1..(Len(s) + Len(t)) :
                (s \o t)[i] = IF i <= Len(s) THEN s[i] ELSE t[i - Len(s)]
<1> DEFINE R == {s[p] : p \in 1..Len(s)} \cup {t[p] : p \in 1..Len(t)}
<1>1. /\ s \in [1..Len(s) -> R] /\ Len(s) \in Nat
      /\ t \in [1..Len(t) -> R] /\ Len(t) \in Nat
  BY DEF IsSeq
<1>2. s \in Seq(R) /\ t \in Seq(R)
  BY <1>1
<1> HIDE DEF R
<1> QED BY <1>2, ConcatProperties, SeqIsSeq

\* Exclusive or is its own inverse.
LEMMA XorTwice == \A a, b : Xor(a, Xor(a, b)) = b
BY Zenon DEF Xor

\* How many blocks a sequence has.
LEMMA PaddedBlocksIsSeq ==
    ASSUME NEW u, IsSeq(u)
    PROVE  /\ IsSeq(PaddedBlocks(u))
           /\ Len(PaddedBlocks(u)) = (Len(u) + Block - 1) \div Block
           /\ Len(PaddedBlocks(u)) \in Nat
<1>1. (Len(u) + Block - 1) \div Block \in Nat
  BY DEF IsSeq, Block
<1> QED BY <1>1, FunctionIsSeq DEF PaddedBlocks

\* Where byte p of a sequence is in its blocks.
LEMMA PaddedByte ==
    ASSUME NEW u, IsSeq(u), NEW p \in 1..Len(u)
    PROVE  PaddedBlocks(u)[1 + (p - 1) \div 16][1 + ((p - 1) % 16)] = u[p]
<1> DEFINE i == 1 + (p - 1) \div 16
           j == 1 + ((p - 1) % 16)
<1>1. Len(u) \in Nat
  BY DEF IsSeq
<1>2. /\ i \in 1..((Len(u) + 15) \div 16)
      /\ j \in 1..16
      /\ 16 * (i - 1) + j = p
  BY <1>1
<1> HIDE DEF i, j
<1>3. i \in 1..((Len(u) + Block - 1) \div Block)
  BY <1>1, <1>2 DEF Block
<1>4. PaddedBlocks(u)[i] =
        [l \in 1..Block |-> LET q == Block * (i - 1) + l
                            IN  IF q <= Len(u) THEN u[q] ELSE Zero]
  BY <1>3 DEF PaddedBlocks
<1>5. j \in 1..Block /\ Block * (i - 1) + j = p /\ p <= Len(u)
  BY <1>1, <1>2 DEF Block
<1>6. PaddedBlocks(u)[i][j] = u[p]
  BY <1>4, <1>5
<1> QED BY <1>6 DEF i, j

\* The blocks of a sequence, with its length, determine it.
LEMMA PaddedBlocksInjective ==
    ASSUME NEW u, IsSeq(u), NEW v, IsSeq(v), Len(u) = Len(v),
           PaddedBlocks(u) = PaddedBlocks(v)
    PROVE  u = v
<1>1. ASSUME NEW p \in 1..Len(u)
      PROVE  u[p] = v[p]
  BY PaddedByte
<1> QED BY <1>1, SameSeq

-----------------------------------------------------------------------------
USE DEF Block

\* The first block a call encrypts, and how many blocks follow it.
First == IF call.op = "ae" THEN B0(call) ELSE Ai(call, 0)
Blocks(n) == (n + Block - 1) \div Block

\* The call has encrypted its first block and then A_1 .. A_k.
Walked(k) ==
    /\ IsSeq(ecb) /\ Len(ecb) = k + 1
    /\ ecb[1] = First
    /\ \A i \in 1..k : ecb[i + 1] = Ai(call, i)

\* The arguments of a call are within the limits of the definition.
CallInv ==
    /\ IsSeq(call.in)
    /\ pc # "idle" =>
        /\ call.op \in {"ae", "ad"}
        /\ call.M \in TagLens
        /\ call.aad \in Aads
        /\ Len(call.in) < W
    /\ pc \notin {"idle", "init"} => ~TooLong
    /\ \A r \in sealed : IsSeq(r.crypt) /\ Len(r.crypt) < W

\* How far each step finds the output and the history.
ProgressInv ==
    /\ pc \in {"idle", "init", "auth", "encr", "tag"}
    /\ ctx \in Nat /\ calls \in Nat
    /\ IsSeq(out) /\ IsSeq(ecb)
    /\ pc # "idle" => Len(out) = Len(call.in) + Block
    /\ done \in 0..Len(call.in)
    /\ pc = "init" => done = 0 /\ ecb = <<>>
    /\ pc = "auth" =>
         IF call.op = "ae" THEN done = 0 /\ ecb = <<>>
         ELSE done = Len(call.in) /\ Walked(Blocks(done))
    /\ pc = "encr" => \E k \in Nat : done = Block * k /\ Walked(k)
    /\ pc = "tag" =>
         /\ done = Len(call.in)
         /\ call.op = "ae" => Walked(Blocks(done))
    /\ pc = "idle" \/ (pc = "tag" /\ call.op = "ad") => KeystreamFresh

\* The inductive invariant of one call.
Inv ==
    /\ CallInv
    /\ ProgressInv
    /\ OutputCorrect
    /\ ContextBalanced

-----------------------------------------------------------------------------
\* B_0 is told apart from the counter blocks by its flags.
LEMMA B0Differs ==
    ASSUME NEW c, c.M \in {4, 6, 8, 10, 12, 14, 16}, NEW d, NEW i
    PROVE  B0(c) # Ai(d, i)
<1>1. B0(c).flags = Flags(c.M, c.aad) /\ Ai(d, i).flags = 1
  BY DEF B0, Ai, L
<1>2. Flags(c.M, c.aad) > 1
  BY DEF Flags, L
<1> QED BY <1>1, <1>2

\* The counter blocks of a message are told apart by their numbers.
LEMMA AiDiffer ==
    ASSUME NEW c, NEW i \in 0..(W - 1), NEW k \in 0..(W - 1), Ai(c, i) = Ai(c, k)
    PROVE  i = k
<1>1. Ai(c, i).n = i % W /\ Ai(c, k).n = k % W
  BY DEF Ai
<1>2. i % W = i /\ k % W = k
  BY WAssumption
<1> QED BY <1>1, <1>2

LEMMA BlocksBound ==
    ASSUME NEW n \in Nat, n < W
    PROVE  Blocks(n) \in 0..(W - 1)
BY WAssumption DEF Blocks

\* The blocks of a call by number, B_0 being in front of A_0.
BlockNumber(n) == IF n = -1 THEN B0(call) ELSE Ai(call, n)

LEMMA BlockNumbersDiffer ==
    ASSUME call.M \in {4, 6, 8, 10, 12, 14, 16},
           NEW m \in -1..(W - 1), NEW n \in -1..(W - 1), BlockNumber(m) = BlockNumber(n)
    PROVE  m = n
<1>1. CASE m = -1 /\ n # -1
  BY <1>1, B0Differs DEF BlockNumber
<1>2. CASE m # -1 /\ n = -1
  BY <1>2, B0Differs DEF BlockNumber
<1>3. CASE m # -1 /\ n # -1
  <2>1. m \in 0..(W - 1) /\ n \in 0..(W - 1)
    BY <1>3
  <2> QED BY <1>3, <2>1, AiDiffer DEF BlockNumber
<1> QED BY <1>1, <1>2, <1>3

\* The block a call encrypts besides those of the walk.
Other == IF call.op = "ae" THEN Ai(call, 0) ELSE B0(call)

\* Whoever has walked over the blocks of a message, and then takes the block that
\* is left, has encrypted none twice.
LEMMA FreshWalk ==
    ASSUME NEW k \in 0..(W - 1), Walked(k),
           call.M \in {4, 6, 8, 10, 12, 14, 16}
    PROVE  /\ IsSeq(Append(ecb, Other))
           /\ \A i, j \in 1..Len(Append(ecb, Other)) :
                Append(ecb, Other)[i] = Append(ecb, Other)[j] => i = j
<1> DEFINE e == Append(ecb, Other)
           at(i) == IF i = 1 THEN (IF call.op = "ae" THEN -1 ELSE 0)
                    ELSE IF i = k + 2 THEN (IF call.op = "ae" THEN 0 ELSE -1)
                    ELSE i - 1
<1>1. /\ IsSeq(e) /\ Len(e) = k + 2
      /\ e[1] = First
      /\ \A i \in 1..k : e[i + 1] = Ai(call, i)
      /\ e[k + 2] = Other
  <2>1. /\ IsSeq(ecb) /\ Len(ecb) = k + 1 /\ ecb[1] = First
        /\ \A i \in 1..k : ecb[i + 1] = Ai(call, i)
    BY DEF Walked
  <2>2. /\ IsSeq(e) /\ Len(e) = Len(ecb) + 1
        /\ \A i \in 1..Len(ecb) : e[i] = ecb[i]
        /\ e[Len(ecb) + 1] = Other
    BY <2>1, AppendIsSeq
  <2> HIDE DEF e
  <2>3. ASSUME NEW i \in 1..k PROVE e[i + 1] = Ai(call, i)
    <3>1. i + 1 \in 1..(k + 1)
      OBVIOUS
    <3> QED BY <2>1, <2>2, <3>1
  <2>4. 1 \in 1..(k + 1) /\ (k + 1) + 1 = k + 2
    OBVIOUS
  <2> QED BY <2>1, <2>2, <2>3, <2>4
<1> HIDE DEF e
<1>2. ASSUME NEW i \in 1..(k + 2)
      PROVE  e[i] = BlockNumber(at(i)) /\ at(i) \in -1..(W - 1)
  <2> W \in Nat /\ W > 30
    BY WAssumption
  <2>1. CASE i = 1
    BY <1>1, <2>1 DEF First, BlockNumber
  <2>2. CASE i = k + 2
    <3>1. at(i) = IF call.op = "ae" THEN 0 ELSE -1
      BY <2>2
    <3>2. e[i] = Other
      BY <1>1, <2>2
    <3> QED BY <3>1, <3>2 DEF Other, BlockNumber
  <2>3. CASE i # 1 /\ i # k + 2
    <3>1. i - 1 \in 1..k /\ (i - 1) + 1 = i /\ at(i) = i - 1
      BY <2>3
    <3>2. e[i] = Ai(call, i - 1)
      BY <1>1, <3>1
    <3>3. i - 1 \in 1..(W - 1) /\ i - 1 # -1
      BY <3>1
    <3> HIDE DEF at
    <3> QED BY <3>1, <3>2, <3>3 DEF BlockNumber
  <2> QED BY <2>1, <2>2, <2>3
<1>3. ASSUME NEW i \in 1..(k + 2), NEW j \in 1..(k + 2), at(i) = at(j)
      PROVE  i = j
  BY <1>3
<1>4. ASSUME NEW i \in 1..(k + 2), NEW j \in 1..(k + 2), e[i] = e[j]
      PROVE  i = j
  <2>1. at(i) = at(j)
    <3> HIDE DEF at
    <3> QED BY <1>2, <1>4, BlockNumbersDiffer
  <2> QED BY <1>3, <2>1
<1> QED BY <1>1, <1>4 DEF e

-----------------------------------------------------------------------------
LEMMA InitInv == Init => Inv
<1> SUFFICES ASSUME Init PROVE Inv
  OBVIOUS
<1>1. IsSeq(<<>>) /\ Len(<<>>) = 0
  BY DEF IsSeq
<1>2. CallInv /\ OutputCorrect /\ ContextBalanced
  BY <1>1 DEF Init, NoCall, CallInv, OutputCorrect, ContextBalanced
<1>3. ProgressInv
  BY <1>1, BoundAssumption DEF Init, NoCall, ProgressInv, KeystreamFresh
<1> QED BY <1>2, <1>3 DEF Inv

\* Entering a call with admissible arguments.
LEMMA EnterInv ==
    ASSUME Inv, NEW c, NEW t, Enter(c, t),
           c.op \in {"ae", "ad"}, c.M \in TagLens, c.aad \in Aads,
           IsSeq(c.in), Len(c.in) < W
    PROVE  Inv'
<1> USE DEF Enter, Inv
<1>1. IsSeq(<<>>) /\ Len(<<>>) = 0 /\ Len(c.in) \in Nat
  BY SeqFacts DEF IsSeq
<1>2. IsSeq(out') /\ Len(out') = Len(c.in) + Block
  BY <1>1, FunctionIsSeq
<1>3. CallInv'
  BY DEF CallInv
<1>4. ProgressInv'
  BY <1>1, <1>2 DEF ProgressInv
<1>5. OutputCorrect' /\ ContextBalanced'
  BY <1>1 DEF OutputCorrect, ContextBalanced
<1> QED BY <1>3, <1>4, <1>5

LEMMA CallAeInv ==
    ASSUME Inv, NEW k \in Keys, NEW n \in Nonces, NEW M \in TagLens, NEW a \in Aads,
           CallAe(k, n, M, a)
    PROVE  Inv'
<1> PICK m \in Messages :
      Enter([op |-> "ae", key |-> k, nonce |-> n, M |-> M, in |-> m, aad |-> a], NoTag)
  BY DEF CallAe
<1>1. IsSeq(m) /\ Len(m) < W
  BY ByteAssumption, LengthAssumption
<1> DEFINE c == [op |-> "ae", key |-> k, nonce |-> n, M |-> M, in |-> m, aad |-> a]
<1>2. Enter(c, NoTag)
  OBVIOUS
<1> QED BY <1>1, <1>2, EnterInv

LEMMA CtrOfIsSeq ==
    ASSUME NEW c, NEW m, IsSeq(m)
    PROVE  IsSeq(CtrOf(c, m)) /\ Len(CtrOf(c, m)) = Len(m)
<1>1. Len(m) \in Nat
  BY SeqFacts
<1> QED BY <1>1, FunctionIsSeq DEF CtrOf

\* What a peer presents: a ciphertext within the limits, a tag that was issued.
LEMMA CallAdEnters ==
    ASSUME Inv, NEW k \in Keys, NEW n \in Nonces, NEW M \in TagLens, NEW a \in Aads,
           CallAd(k, n, M, a)
    PROVE  \E y : \E r \in sealed :
             /\ IsSeq(y) /\ Len(y) < W
             /\ Enter([op |-> "ad", key |-> k, nonce |-> n, M |-> M, in |-> y, aad |-> a],
                      r.tag)
<1> DEFINE c(m) == [op |-> "ad", key |-> k, nonce |-> n, M |-> M, in |-> m, aad |-> a]
<1> PICK r \in sealed, m \in Messages :
      \/ Enter([c(m) EXCEPT !.in = r.crypt], r.tag)
      \/ Enter([c(m) EXCEPT !.in = CtrOf(c(m), m)], r.tag)
  BY DEF CallAd
<1>1. \A y : [c(m) EXCEPT !.in = y] = c(y)
  OBVIOUS
<1>2. IsSeq(r.crypt) /\ Len(r.crypt) < W
  BY DEF Inv, CallInv
<1>3. IsSeq(CtrOf(c(m), m)) /\ Len(CtrOf(c(m), m)) < W
  BY ByteAssumption, LengthAssumption, CtrOfIsSeq
<1>4. \/ Enter(c(r.crypt), r.tag)
      \/ Enter(c(CtrOf(c(m), m)), r.tag)
  BY <1>1
<1> QED BY <1>2, <1>3, <1>4

LEMMA CallAdInv ==
    ASSUME Inv, NEW k \in Keys, NEW n \in Nonces, NEW M \in TagLens, NEW a \in Aads,
           CallAd(k, n, M, a)
    PROVE  Inv'
<1> PICK y : \E r \in sealed :
      /\ IsSeq(y) /\ Len(y) < W
      /\ Enter([op |-> "ad", key |-> k, nonce |-> n, M |-> M, in |-> y, aad |-> a], r.tag)
  BY CallAdEnters
<1> PICK r \in sealed :
      /\ IsSeq(y) /\ Len(y) < W
      /\ Enter([op |-> "ad", key |-> k, nonce |-> n, M |-> M, in |-> y, aad |-> a], r.tag)
  OBVIOUS
<1> DEFINE c == [op |-> "ad", key |-> k, nonce |-> n, M |-> M, in |-> y, aad |-> a]
<1>1. Enter(c, r.tag)
  OBVIOUS
<1> QED BY <1>1, EnterInv

-----------------------------------------------------------------------------
LEMMA InitFailsInv == ASSUME Inv, InitFails PROVE Inv'
<1> USE DEF Inv, InitFails, Return
<1>1. CallInv' /\ OutputCorrect' /\ ContextBalanced'
  BY DEF CallInv, OutputCorrect, CtrByte, Ai, ContextBalanced
<1>2. KeystreamFresh'
  <2>1. Len(ecb') = 0
    BY DEF ProgressInv
  <2> QED BY <2>1 DEF KeystreamFresh
<1>3. ProgressInv'
  BY <1>2 DEF ProgressInv
<1> QED BY <1>1, <1>3

LEMMA InitSucceedsInv == ASSUME Inv, InitSucceeds PROVE Inv'
<1> USE DEF Inv, InitSucceeds
<1>1. CallInv' /\ OutputCorrect' /\ ContextBalanced'
  BY DEF CallInv, TooLong, OutputCorrect, CtrByte, Ai, ContextBalanced
<1>2. ecb = <<>> /\ done = 0 /\ call.op \in {"ae", "ad"}
  BY DEF ProgressInv, CallInv
<1>3. CASE call.op = "ae"
  BY <1>1, <1>2, <1>3 DEF ProgressInv
<1>4. CASE call.op = "ad"
  <2>1. ecb' = Append(<<>>, Ai(call, 0))
    BY <1>2, <1>4
  <2>2. IsSeq(ecb') /\ Len(ecb') = 1 /\ ecb'[1] = Ai(call, 0)
    BY <2>1, AppendToEmpty
  <2>3. Walked(0)'
    BY <1>4, <2>2 DEF Walked, First, Ai
  <2>4. (\E k \in Nat : done = Block * k /\ Walked(k))'
    BY <1>2, <2>3
  <2> QED BY <1>1, <1>4, <2>2, <2>4 DEF ProgressInv
<1> QED BY <1>1, <1>2, <1>3, <1>4

LEMMA AuthenticateInv == ASSUME Inv, Authenticate PROVE Inv'
<1> USE DEF Inv, Authenticate
<1>1. CallInv' /\ OutputCorrect' /\ ContextBalanced'
  BY DEF CallInv, TooLong, OutputCorrect, CtrByte, Ai, ContextBalanced
<1>2. /\ call.op \in {"ae", "ad"} /\ call.M \in {4, 6, 8, 10, 12, 14, 16}
      /\ Len(call.in) \in Nat /\ Len(call.in) < W
  <2>1. call.M \in TagLens /\ ~(call.M > Block)
    BY DEF CallInv, TooLong
  <2> QED BY <2>1, TagLenAssumption, SeqFacts DEF CallInv
<1>3. CASE call.op = "ae"
  <2>1. ecb' = Append(<<>>, B0(call)) /\ done = 0
    BY <1>3 DEF ProgressInv
  <2>2. IsSeq(ecb') /\ Len(ecb') = 1 /\ ecb'[1] = B0(call)
    BY <2>1, AppendToEmpty
  <2>3. call' = call
    OBVIOUS
  <2>4. Walked(0)'
    BY <1>3, <2>2, <2>3 DEF Walked, First, B0
  <2>5. (\E k \in Nat : done = Block * k /\ Walked(k))'
    BY <2>1, <2>4
  <2> QED BY <1>1, <1>3, <2>2, <2>5 DEF ProgressInv
<1>4. CASE call.op = "ad"
  <2>1. done = Len(call.in) /\ Walked(Blocks(done)) /\ Blocks(done) \in 0..(W - 1)
    BY <1>2, <1>4, BlocksBound DEF ProgressInv
  <2>2. IsSeq(ecb') /\ KeystreamFresh'
    <3>1. ecb' = Append(ecb, Other)
      BY <1>4 DEF Other
    <3> QED BY <1>2, <2>1, <3>1, FreshWalk DEF KeystreamFresh
  <2> QED BY <1>1, <1>4, <2>1, <2>2 DEF ProgressInv
<1> QED BY <1>2, <1>3, <1>4

\* One more block of the walk.
LEMMA EncryptWalks ==
    ASSUME Inv, NEW k \in Nat, NEW len \in 1..Block, Encrypt(len), UNCHANGED call,
           done = Block * k, Walked(k), done + len <= Len(call.in),
           len = Block \/ done + len = Len(call.in)
    PROVE  Walked(k + 1)' /\ IsSeq(out') /\ Len(out') = Len(out) /\ OutputCorrect'
<1> USE DEF Inv
<1>1. /\ Counter = k + 1
      /\ Len(call.in) \in Nat /\ Len(out) \in Nat /\ DOMAIN out = 1..Len(out)
      /\ IsSeq(ecb)
  BY SeqFacts DEF Counter, CallInv, ProgressInv
<1>2. Walked(k + 1)'
  <2> DEFINE e == Append(ecb, Ai(call, k + 1))
  <2>1. ecb' = e
    BY <1>1 DEF Encrypt
  <2>2. /\ IsSeq(e) /\ Len(e) = Len(ecb) + 1
        /\ \A i \in 1..Len(ecb) : e[i] = ecb[i]
        /\ e[Len(ecb) + 1] = Ai(call, k + 1)
    BY <1>1, AppendIsSeq
  <2> HIDE DEF e
  <2>3. /\ IsSeq(e) /\ Len(e) = k + 2
        /\ \A i \in 1..(k + 1) : e[i] = ecb[i]
        /\ e[k + 2] = Ai(call, k + 1)
    BY <2>2 DEF Walked
  <2>4. e[1] = First
    BY <2>3 DEF Walked
  <2>5. ASSUME NEW i \in 1..(k + 1) PROVE e[i + 1] = Ai(call, i)
    <3>1. CASE i \in 1..k
      <4>1. i + 1 \in 1..(k + 1)
        BY <3>1
      <4> QED BY <2>3, <3>1, <4>1 DEF Walked
    <3>2. CASE i = k + 1
      BY <2>3, <3>2
    <3> QED BY <3>1, <3>2
  <2>6. First' = First /\ \A i : Ai(call, i)' = Ai(call, i)
    BY DEF First, B0, Ai
  <2> QED BY <2>1, <2>3, <2>4, <2>5, <2>6 DEF Walked
<1>3. IsSeq(out') /\ Len(out') = Len(out)
  BY <1>1, FunctionIsSeq DEF Encrypt
<1>4. ASSUME NEW p \in 1..Len(call.in), p <= Len(out)
      PROVE  out'[p] = IF p <= done + len THEN CtrByte(call, call.in, p) ELSE Untouched(p)
  <2>1. p \in DOMAIN out /\ out[p] = IF p <= done THEN CtrByte(call, call.in, p)
                                     ELSE Untouched(p)
    BY <1>1, <1>4 DEF OutputCorrect
  <2>2. CASE p \in (done + 1)..(done + len)
    <3>1. out'[p] = Xor(Keystream(call.key, Ai(call, k + 1), p - done), call.in[p])
      BY <1>1, <2>1, <2>2 DEF Encrypt
    <3>2. p \in (16 * k + 1)..(16 * k + 16)
      BY <1>4, <2>2
    <3>3. 1 + (p - 1) \div 16 = k + 1 /\ 1 + ((p - 1) % 16) = p - done
      BY <3>2
    <3>4. p <= done + len
      BY <2>2
    <3> QED BY <3>1, <3>3, <3>4 DEF CtrByte
  <2>3. CASE p <= done
    <3>1. p \notin (done + 1)..(done + len) /\ p \notin (done + 1)..(done + Block)
          /\ p <= done + len
      BY <2>3
    <3> QED BY <2>1, <2>3, <3>1 DEF Encrypt
  \* The rest of the last block is behind the input.
  <2>4. CASE p > done + len
    <3>1. p \notin (done + 1)..(done + Block)
      BY <1>1, <1>4, <2>4
    <3>2. p \notin (done + 1)..(done + len) /\ ~(p <= done) /\ ~(p <= done + len)
      BY <2>4
    <3> QED BY <2>1, <3>1, <3>2 DEF Encrypt
  <2> QED BY <1>1, <2>2, <2>3, <2>4
<1>5. OutputCorrect'
  BY <1>3, <1>4 DEF OutputCorrect, Encrypt, CtrByte, Ai
<1> QED BY <1>2, <1>3, <1>5

LEMMA EncryptBlockInv == ASSUME Inv, EncryptBlock PROVE Inv'
<1> USE DEF Inv, EncryptBlock
<1> PICK k \in Nat : done = Block * k /\ Walked(k)
  BY DEF ProgressInv
<1>1. Walked(k + 1)' /\ IsSeq(out') /\ Len(out') = Len(out) /\ OutputCorrect'
  BY EncryptWalks
<1>2. CallInv' /\ ContextBalanced'
  BY DEF CallInv, TooLong, ContextBalanced
<1>3. (done = Block * (k + 1))' /\ (done \in 0..Len(call.in))'
  BY SeqFacts DEF Encrypt, CallInv
<1>4. ProgressInv'
  <2>1. (\E n \in Nat : done = Block * n /\ Walked(n))'
    BY <1>1, <1>3
  <2> QED BY <1>1, <1>3, <2>1 DEF ProgressInv, Walked
<1> QED BY <1>1, <1>2, <1>4

LEMMA BlocksOfWalk ==
    ASSUME NEW k \in Nat, NEW n \in Nat, 16 * k <= n, n < 16 * k + 16
    PROVE  Blocks(n) = IF n = 16 * k THEN k ELSE k + 1
BY DEF Blocks

LEMMA EncryptLastInv == ASSUME Inv, EncryptLast PROVE Inv'
<1> USE DEF Inv, EncryptLast
<1> PICK k \in Nat : done = Block * k /\ Walked(k)
  BY DEF ProgressInv
<1>1. /\ Len(call.in) \in Nat /\ Len(call.in) < W /\ call.op \in {"ae", "ad"}
      /\ done \in 0..Len(call.in)
      /\ call.M \in {4, 6, 8, 10, 12, 14, 16}
  <2>1. call.M \in TagLens /\ ~(call.M > Block)
    BY DEF CallInv, TooLong
  <2> QED BY <2>1, TagLenAssumption, SeqFacts DEF CallInv, ProgressInv
<1>2. /\ done' = Len(call.in)
      /\ Walked(Blocks(Len(call.in)))'
      /\ IsSeq(out') /\ Len(out') = Len(out) /\ OutputCorrect'
  <2>1. CASE done < Len(call.in)
    <3>1. PICK n \in Nat : n = Len(call.in) /\ done < n /\ done + 16 > n
      <4>1. done + 16 > Len(call.in)
        OBVIOUS
      <4> HIDE DEF Inv, EncryptLast
      <4> QED BY <1>1, <2>1, <4>1
    <3>2. PICK d \in Nat : d = done /\ d = 16 * k
      <4> HIDE DEF Inv, EncryptLast
      <4> QED OBVIOUS
    <3> DEFINE len == n - d
    <3>3. len \in 1..Block /\ d + len = n /\ d + len <= n
      <4> HIDE DEF Inv, EncryptLast
      <4>1. d < n /\ d + 16 > n
        BY <3>1, <3>2
      <4> QED BY <4>1
    <3>4. Encrypt(len) /\ UNCHANGED call
      BY <2>1, <3>1, <3>2 DEF Encrypt
    <3>5. Blocks(n) = k + 1
      <4>1. 16 * k <= n /\ n < 16 * k + 16 /\ n # 16 * k
        BY <3>1, <3>2
      <4> QED BY <4>1, BlocksOfWalk
    <3> HIDE DEF len
    <3>6. done' = d + len
      BY <3>2, <3>4 DEF Encrypt
    <3>7. Inv /\ done = Block * k /\ Walked(k) /\ done + len <= Len(call.in)
          /\ done + len = Len(call.in)
      BY <3>1, <3>2, <3>3
    <3> HIDE DEF Inv, EncryptLast
    <3>8. Walked(k + 1)' /\ IsSeq(out') /\ Len(out') = Len(out) /\ OutputCorrect'
      BY <3>3, <3>4, <3>7, EncryptWalks
    <3> QED BY <3>1, <3>3, <3>4, <3>5, <3>6, <3>8
  <2>2. CASE ~(done < Len(call.in))
    <3>1. done = Len(call.in) /\ UNCHANGED <<done, out, ecb, call>>
      BY <1>1, <2>2
    <3>2. Blocks(Len(call.in)) = k
      BY <1>1, <3>1, BlocksOfWalk
    <3>3. Walked(k)' /\ OutputCorrect'
      BY <3>1 DEF Walked, First, B0, Ai, OutputCorrect, CtrByte
    <3> QED BY <3>1, <3>2, <3>3 DEF ProgressInv
  <2> QED BY <2>1, <2>2
<1>3. CallInv' /\ ContextBalanced'
  BY DEF CallInv, TooLong, ContextBalanced
<1>4. Blocks(Len(call.in))' = Blocks(Len(call.in))
  OBVIOUS
<1>5. ProgressInv'
  BY <1>1, <1>2, <1>4 DEF ProgressInv, Walked
<1> QED BY <1>2, <1>3, <1>5

LEMMA FinishInv == ASSUME Inv, FinishAe \/ FinishAd PROVE Inv'
<1> USE DEF Inv
<1>1. /\ pc = "tag" /\ pc' = "idle" /\ UNCHANGED <<call, done, out, x, calls>>
      /\ ctx' = ctx - 1
      /\ \/ call.op = "ad" /\ UNCHANGED <<ecb, sealed>>
         \/ /\ call.op = "ae" /\ ecb' = Append(ecb, Ai(call, 0))
            /\ sealed' = sealed \cup {A!Record(answer')}
            /\ answer'.crypt = SubSeq(out, 1, Len(call.in))
  BY DEF FinishAe, FinishAd, Return
<1>2. /\ Len(call.in) \in Nat /\ Len(call.in) < W /\ IsSeq(call.in)
      /\ call.M \in {4, 6, 8, 10, 12, 14, 16}
      /\ done = Len(call.in) /\ Len(call.in) \in 0..Len(out)
      /\ IsSeq(out)
  <2>1. call.M \in TagLens /\ ~(call.M > Block)
    BY <1>1 DEF CallInv, TooLong
  <2> QED BY <1>1, <2>1, TagLenAssumption, SeqFacts DEF CallInv, ProgressInv
<1>3. CallInv'
  <2>1. ASSUME NEW r \in sealed' PROVE IsSeq(r.crypt) /\ Len(r.crypt) < W
    <3>1. CASE r \in sealed
      BY <3>1 DEF CallInv
    <3>2. CASE r = A!Record(answer') /\ answer'.crypt = SubSeq(out, 1, Len(call.in))
      <4>1. r.crypt = SubSeq(out, 1, Len(call.in))
        BY <3>2 DEF A!Record
      <4> QED BY <1>2, <4>1, PrefixIsSeq
    <3> QED BY <1>1, <3>1, <3>2
  <2> QED BY <1>1, <1>2, <2>1 DEF CallInv
<1>4. IsSeq(ecb') /\ KeystreamFresh'
  <2>1. CASE call.op = "ae"
    <3>1. Walked(Blocks(done)) /\ Blocks(done) \in 0..(W - 1)
      BY <1>1, <1>2, <2>1, BlocksBound DEF ProgressInv
    <3>2. ecb' = Append(ecb, Other)
      BY <1>1, <2>1 DEF Other
    <3> QED BY <1>2, <3>1, <3>2, FreshWalk DEF KeystreamFresh
  <2>2. CASE call.op = "ad"
    BY <1>1, <2>2 DEF ProgressInv, KeystreamFresh
  <2> QED BY <1>1, <2>1, <2>2
<1>5. ProgressInv' /\ ContextBalanced'
  BY <1>1, <1>2, <1>4 DEF ProgressInv, ContextBalanced
<1>6. OutputCorrect'
  BY <1>1 DEF OutputCorrect, CtrByte, Ai
<1> QED BY <1>3, <1>4, <1>5, <1>6

LEMMA NextInv == Inv /\ [Next]_vars => Inv'
<1> SUFFICES ASSUME Inv, [Next]_vars PROVE Inv'
  OBVIOUS
<1>1. CASE \E k \in Keys, n \in Nonces, M \in TagLens, a \in Aads :
             CallAe(k, n, M, a) \/ CallAd(k, n, M, a)
  BY <1>1, CallAeInv, CallAdInv
<1>2. CASE InitFails
  BY <1>2, InitFailsInv
<1>3. CASE InitSucceeds
  BY <1>3, InitSucceedsInv
<1>4. CASE Authenticate
  BY <1>4, AuthenticateInv
<1>5. CASE EncryptBlock
  BY <1>5, EncryptBlockInv
<1>6. CASE EncryptLast
  BY <1>6, EncryptLastInv
<1>7. CASE FinishAe \/ FinishAd
  BY <1>7, FinishInv
<1>8. CASE UNCHANGED vars
  <2>1. CallInv' /\ OutputCorrect' /\ ContextBalanced'
    BY <1>8 DEF Inv, CallInv, TooLong, OutputCorrect, CtrByte, Ai, ContextBalanced, vars
  <2>2. ProgressInv'
    BY <1>8 DEF Inv, ProgressInv, Walked, First, B0, Ai, KeystreamFresh, vars
  <2> QED BY <2>1, <2>2 DEF Inv
<1> QED BY <1>1, <1>2, <1>3, <1>4, <1>5, <1>6, <1>7, <1>8 DEF Next

-----------------------------------------------------------------------------
\* What aes_ccm_ae makes of its arguments: the ciphertext and the tag.
CryptFor(key, nonce, plain) == CtrOf([key |-> key, nonce |-> nonce], plain)
MacFor(M, nonce, aad, plain) ==
    <<B0([M |-> M, aad |-> aad, nonce |-> nonce, in |-> plain])>>
        \o AadBlocks(aad) \o PaddedBlocks(plain)
TagFor(key, nonce, M, aad, plain) ==
    <<M, key, Ai([nonce |-> nonce], 0), MacFor(M, nonce, aad, plain)>>

\* An aad and a message within the limits of the definition.
Admissible(aad, plain) ==
    IsSeq(aad) /\ Len(aad) <= 30 /\ IsSeq(plain) /\ Len(plain) < W

\* A record sealed is the definition's.
SealedInv ==
    \A r \in sealed :
        /\ Admissible(r.aad, r.plain)
        /\ r.iv = <<r.iv[1], r.iv[2]>>
        /\ r.crypt = CryptFor(r.key, r.iv[1], r.plain)
        /\ r.tag = TagFor(r.key, r.iv[1], r.iv[2], r.aad, r.plain)

\* The plaintext of the call in progress.
Plain == IF call.op = "ae" THEN call.in ELSE SubSeq(out, 1, Len(call.in))

\* What the steps of a call have made of its arguments; a tag presented was issued.
MadeInv ==
    /\ pc = "tag" \/ (pc = "encr" /\ call.op = "ae") =>
         x = MacFor(call.M, call.nonce, call.aad, Plain)
    /\ pc # "idle" /\ call.op = "ad" => \E r \in sealed : r.tag = auth

AeadInv == Inv /\ SealedInv /\ MadeInv

-----------------------------------------------------------------------------
\* The encoded aad determines the aad: its length is in front of it.
LEMMA AadBlocksInjective ==
    ASSUME NEW a, IsSeq(a), Len(a) <= 30, NEW b, IsSeq(b), Len(b) <= 30,
           AadBlocks(a) = AadBlocks(b)
    PROVE  a = b
<1> DEFINE y(z) == Be16(Len(z)) \o z
<1>1. ASSUME NEW z, IsSeq(z), Len(z) <= 30
      PROVE  /\ IsSeq(y(z)) /\ Len(y(z)) = 2 + Len(z) /\ Len(z) \in Nat
             /\ y(z)[2] = {<<"num", Len(z)>>}
             /\ \A p \in 1..Len(z) : y(z)[p + 2] = z[p]
  <2>1. IsSeq(Be16(Len(z))) /\ Len(Be16(Len(z))) = 2 /\ Len(z) \in Nat
    BY <1>1, SeqFacts DEF Be16, IsSeq
  <2>2. Be16(Len(z))[2] = {<<"num", Len(z)>>}
    <3>1. Len(z) % W = Len(z)
      BY <1>1, <2>1, WAssumption
    <3> QED BY <3>1 DEF Be16
  <2>3. /\ IsSeq(y(z)) /\ Len(y(z)) = Len(Be16(Len(z))) + Len(z)
        /\ \A i \in 1..(Len(Be16(Len(z))) + Len(z)) :
             y(z)[i] = IF i <= Len(Be16(Len(z))) THEN Be16(Len(z))[i]
                       ELSE z[i - Len(Be16(Len(z)))]
    BY <1>1, <2>1, ConcatIsSeq
  <2> HIDE DEF y
  <2>4. \A i \in 1..(2 + Len(z)) :
           y(z)[i] = IF i <= 2 THEN Be16(Len(z))[i] ELSE z[i - 2]
    BY <2>1, <2>3
  <2>5. ASSUME NEW p \in 1..Len(z) PROVE y(z)[p + 2] = z[p]
    <3>1. p + 2 \in 1..(2 + Len(z)) /\ ~(p + 2 <= 2) /\ (p + 2) - 2 = p
      BY <2>1
    <3> QED BY <2>4, <3>1
  <2>6. y(z)[2] = Be16(Len(z))[2]
    BY <2>1, <2>4
  <2> QED BY <2>1, <2>2, <2>3, <2>5, <2>6
<1> HIDE DEF y
<1>2. ASSUME NEW z, IsSeq(z), Len(z) <= 30
      PROVE  /\ AadBlocks(z) = IF z = <<>> THEN <<>> ELSE PaddedBlocks(y(z))
             /\ Len(PaddedBlocks(y(z))) # 0
             /\ PaddedBlocks(y(z))[1][2] = {<<"num", Len(z)>>}
  <2>1. AadBlocks(z) = IF z = <<>> THEN <<>> ELSE PaddedBlocks(y(z))
    BY DEF AadBlocks, y
  <2>2. Len(PaddedBlocks(y(z))) # 0
    <3>1. Len(PaddedBlocks(y(z))) = (2 + Len(z) + 16 - 1) \div 16 /\ Len(z) \in Nat
      BY <1>1, <1>2, PaddedBlocksIsSeq
    <3>2. (2 + Len(z) + 16 - 1) \div 16 # 0
      BY <3>1
    <3> QED BY <3>1, <3>2
  <2>3. PaddedBlocks(y(z))[1][2] = y(z)[2]
    <3>1. 2 \in 1..Len(y(z)) /\ 1 + (2 - 1) \div 16 = 1 /\ 1 + ((2 - 1) % 16) = 2
      BY <1>1, <1>2
    <3>2. PaddedBlocks(y(z))[1 + (2 - 1) \div 16][1 + ((2 - 1) % 16)] = y(z)[2]
      BY <1>1, <1>2, <3>1, PaddedByte
    <3> QED BY <3>1, <3>2
  <2> QED BY <1>1, <1>2, <2>1, <2>2, <2>3
<1>3. Len(<<>>) = 0
  OBVIOUS
<1>4. (a = <<>>) = (b = <<>>)
  BY <1>2, <1>3
<1>5. CASE a # <<>> /\ b # <<>>
  <2>1. PaddedBlocks(y(a)) = PaddedBlocks(y(b))
    BY <1>2, <1>5
  <2>2. {<<"num", Len(a)>>} = {<<"num", Len(b)>>}
    BY <1>2, <2>1
  <2>3. Len(a) = Len(b)
    <3>1. <<"num", Len(a)>> = <<"num", Len(b)>>
      BY <2>2, Zenon
    <3> QED BY <3>1
  <2>4. y(a) = y(b)
    BY <1>1, <2>1, <2>3, PaddedBlocksInjective
  <2>5. ASSUME NEW p \in 1..Len(a) PROVE a[p] = b[p]
    BY <1>1, <2>3, <2>4
  <2> QED BY <2>3, <2>5, SameSeq
<1> QED BY <1>4, <1>5

\* Neither blocks nor lengths can be moved between the aad and the plaintext.
LEMMA MacForInjective ==
    ASSUME NEW M, NEW n, NEW a, NEW p, Admissible(a, p),
           NEW b, NEW q, Admissible(b, q), MacFor(M, n, a, p) = MacFor(M, n, b, q)
    PROVE  a = b /\ p = q
<1> DEFINE B(z, r) == <<B0([M |-> M, aad |-> z, nonce |-> n, in |-> r])>>
           X(z) == AadBlocks(z)
           Y(r) == PaddedBlocks(r)
           m(z, r) == MacFor(M, n, z, r)
<1>1. ASSUME NEW z, NEW r, Admissible(z, r)
      PROVE  /\ IsSeq(X(z)) /\ IsSeq(Y(r)) /\ Len(X(z)) \in Nat /\ Len(Y(r)) \in Nat
             /\ Len(Y(r)) = (Len(r) + Block - 1) \div Block
             /\ IsSeq(m(z, r)) /\ Len(m(z, r)) = 1 + Len(X(z)) + Len(Y(r))
             /\ m(z, r)[1] = B0([M |-> M, aad |-> z, nonce |-> n, in |-> r])
             /\ \A i \in 1..Len(X(z)) : m(z, r)[1 + i] = X(z)[i]
             /\ \A i \in 1..Len(Y(r)) : m(z, r)[1 + Len(X(z)) + i] = Y(r)[i]
  <2>1. IsSeq(z) /\ IsSeq(r) /\ IsSeq(<<>>)
    BY <1>1 DEF Admissible, IsSeq
  <2>2. IsSeq(X(z)) /\ Len(X(z)) \in Nat
    <3>1. IsSeq(Be16(Len(z)))
      BY DEF Be16, IsSeq
    <3>2. IsSeq(Be16(Len(z)) \o z)
      BY <2>1, <3>1, ConcatIsSeq
    <3>3. IsSeq(X(z))
      BY <2>1, <3>2, PaddedBlocksIsSeq DEF AadBlocks
    <3> QED BY <3>3, SeqFacts
  <2>3. IsSeq(Y(r)) /\ Len(Y(r)) = (Len(r) + Block - 1) \div Block /\ Len(Y(r)) \in Nat
    BY <2>1, PaddedBlocksIsSeq
  <2>4. IsSeq(B(z, r)) /\ Len(B(z, r)) = 1
        /\ B(z, r)[1] = B0([M |-> M, aad |-> z, nonce |-> n, in |-> r])
    BY DEF IsSeq
  <2>5. m(z, r) = (B(z, r) \o X(z)) \o Y(r)
    BY DEF MacFor
  <2> HIDE DEF B, X, Y, m
  <2> DEFINE s == B(z, r) \o X(z)
             t == s \o Y(r)
  <2>6. /\ IsSeq(s) /\ Len(s) = 1 + Len(X(z)) /\ Len(s) \in Nat
        /\ \A i \in 1..(1 + Len(X(z))) :
             s[i] = IF i <= 1 THEN B(z, r)[i] ELSE X(z)[i - 1]
    <3>1. /\ IsSeq(s) /\ Len(s) = Len(B(z, r)) + Len(X(z))
          /\ \A i \in 1..(Len(B(z, r)) + Len(X(z))) :
               s[i] = IF i <= Len(B(z, r)) THEN B(z, r)[i] ELSE X(z)[i - Len(B(z, r))]
      BY <2>2, <2>4, ConcatIsSeq
    <3> HIDE DEF s
    <3> QED BY <2>2, <2>4, <3>1
  <2> HIDE DEF s
  <2>7. /\ IsSeq(t) /\ Len(t) = Len(s) + Len(Y(r))
        /\ \A i \in 1..(Len(s) + Len(Y(r))) :
             t[i] = IF i <= Len(s) THEN s[i] ELSE Y(r)[i - Len(s)]
    BY <2>3, <2>6, ConcatIsSeq
  <2>8. m(z, r) = t
    BY <2>5 DEF s
  <2> HIDE DEF t
  <2>9. t[1] = B(z, r)[1]
    BY <2>2, <2>3, <2>6, <2>7
  <2>10. ASSUME NEW i \in 1..Len(X(z)) PROVE t[1 + i] = X(z)[i]
    <3>1. 1 + i \in 1..(Len(s) + Len(Y(r))) /\ 1 + i <= Len(s) /\ ~(1 + i <= 1)
          /\ (1 + i) - 1 = i /\ 1 + i \in 1..(1 + Len(X(z)))
      BY <2>2, <2>3, <2>6
    <3>2. t[1 + i] = s[1 + i]
      BY <2>7, <3>1
    <3> QED BY <2>6, <3>1, <3>2
  <2>11. ASSUME NEW i \in 1..Len(Y(r)) PROVE t[1 + Len(X(z)) + i] = Y(r)[i]
    <3>1. Len(s) + i \in 1..(Len(s) + Len(Y(r))) /\ ~(Len(s) + i <= Len(s))
          /\ (Len(s) + i) - Len(s) = i
      BY <2>2, <2>3, <2>6
    <3>2. t[Len(s) + i] = Y(r)[i]
      BY <2>7, <3>1
    <3> QED BY <2>6, <3>2
  <2> QED BY <2>2, <2>3, <2>4, <2>6, <2>7, <2>8, <2>9, <2>10, <2>11
<1> HIDE DEF X, Y, m
<1>2. m(a, p) = m(b, q)
  BY DEF m
<1>3. Len(p) = Len(q)
  <2>1. m(a, p)[1] = m(b, q)[1]
    BY <1>2
  <2>2. Len(p) % W = Len(q) % W
    <3>1. B0([M |-> M, aad |-> a, nonce |-> n, in |-> p]).n
            = B0([M |-> M, aad |-> b, nonce |-> n, in |-> q]).n
      BY <1>1, <2>1
    <3> QED BY <3>1 DEF B0
  <2>3. Len(p) \in 0..(W - 1) /\ Len(q) \in 0..(W - 1)
    BY SeqFacts, WAssumption DEF Admissible
  <2>4. ASSUME NEW i \in 0..(W - 1) PROVE i % W = i
    BY WAssumption
  <2> QED BY <2>2, <2>3, <2>4
<1>4. Len(Y(p)) = Len(Y(q)) /\ Len(X(a)) = Len(X(b))
  <2>1. Len(Y(p)) = Len(Y(q))
    BY <1>1, <1>3
  <2>2. 1 + Len(X(a)) + Len(Y(p)) = 1 + Len(X(b)) + Len(Y(q))
    BY <1>1, <1>2
  <2>3. Len(X(a)) \in Nat /\ Len(X(b)) \in Nat /\ Len(Y(p)) \in Nat
    BY <1>1
  <2> QED BY <2>1, <2>2, <2>3
<1>5. X(a) = X(b)
  <2>1. ASSUME NEW i \in 1..Len(X(a)) PROVE X(a)[i] = X(b)[i]
    <3>1. m(a, p)[1 + i] = X(a)[i]
      BY <1>1
    <3>2. m(b, q)[1 + i] = X(b)[i]
      <4>1. i \in 1..Len(X(b))
        BY <1>4
      <4> QED BY <1>1, <4>1
    <3> QED BY <1>2, <3>1, <3>2
  <2> QED BY <1>1, <1>4, <2>1, SameSeq
<1>6. Y(p) = Y(q)
  <2>1. ASSUME NEW i \in 1..Len(Y(p)) PROVE Y(p)[i] = Y(q)[i]
    <3>1. m(a, p)[1 + Len(X(a)) + i] = Y(p)[i]
      BY <1>1
    <3>2. m(b, q)[1 + Len(X(b)) + i] = Y(q)[i]
      <4>1. i \in 1..Len(Y(q))
        BY <1>4
      <4> QED BY <1>1, <4>1
    <3> QED BY <1>2, <1>4, <3>1, <3>2
  <2> QED BY <1>1, <1>4, <2>1, SameSeq
<1> QED BY <1>3, <1>5, <1>6, AadBlocksInjective, PaddedBlocksInjective DEF Admissible, X, Y

\* A tag determines everything that went into it.
LEMMA TagForInjective ==
    ASSUME NEW k, NEW n, NEW M, NEW a, NEW p, Admissible(a, p),
           NEW l, NEW o, NEW N, NEW b, NEW q, Admissible(b, q),
           TagFor(k, n, M, a, p) = TagFor(l, o, N, b, q)
    PROVE  k = l /\ n = o /\ M = N /\ a = b /\ p = q
<1>1. /\ M = N /\ k = l
      /\ Ai([nonce |-> n], 0) = Ai([nonce |-> o], 0)
      /\ MacFor(M, n, a, p) = MacFor(N, o, b, q)
  BY DEF TagFor
<1>2. n = o
  <2>1. Ai([nonce |-> n], 0).nonce = n /\ Ai([nonce |-> o], 0).nonce = o
    BY DEF Ai
  <2> QED BY <1>1, <2>1
<1>3. a = b /\ p = q
  BY <1>1, <1>2, MacForInjective
<1> QED BY <1>1, <1>2, <1>3

\* Decrypting is encrypting once more.
LEMMA CryptTwice ==
    ASSUME NEW k, NEW n, NEW m, IsSeq(m)
    PROVE  CryptFor(k, n, CryptFor(k, n, m)) = m
<1> DEFINE d == [key |-> k, nonce |-> n]
           c == CtrOf(d, m)
<1>1. IsSeq(c) /\ Len(c) = Len(m)
  BY CtrOfIsSeq
<1>2. IsSeq(CtrOf(d, c)) /\ Len(CtrOf(d, c)) = Len(m)
  BY <1>1, CtrOfIsSeq
<1>3. ASSUME NEW p \in 1..Len(m)
      PROVE  CtrOf(d, c)[p] = m[p]
  <2> DEFINE s == Keystream(d.key, Ai(d, 1 + (p - 1) \div Block), 1 + ((p - 1) % Block))
  <2>1. c[p] = Xor(s, m[p])
    BY DEF CtrOf, CtrByte
  <2>2. CtrOf(d, c)[p] = Xor(s, c[p])
    <3> HIDE DEF c
    <3> QED BY <1>1 DEF CtrOf, CtrByte
  <2> HIDE DEF c, s
  <2> QED BY <2>1, <2>2, XorTwice
<1> HIDE DEF c
<1>4. CtrOf(d, c) = m
  BY <1>2, <1>3, SameSeq
<1> QED BY <1>4 DEF c, CryptFor

-----------------------------------------------------------------------------
LEMMA InitAead == Init => AeadInv
<1> SUFFICES ASSUME Init PROVE AeadInv
  OBVIOUS
<1>1. Inv
  BY InitInv
<1>2. SealedInv /\ MadeInv
  BY DEF Init, SealedInv, MadeInv
<1> QED BY <1>1, <1>2 DEF AeadInv

\* A call begins; a tag presented was issued.
LEMMA CallAead ==
    ASSUME AeadInv, NEW k \in Keys, NEW n \in Nonces, NEW M \in TagLens, NEW a \in Aads,
           CallAe(k, n, M, a) \/ CallAd(k, n, M, a)
    PROVE  /\ SealedInv' /\ MadeInv'
           /\ UNCHANGED <<sealed, answer>>
<1>1. ASSUME NEW c, NEW t, Enter(c, t), c.op = "ad" => \E r \in sealed : r.tag = t
      PROVE  SealedInv' /\ MadeInv' /\ UNCHANGED <<sealed, answer>>
  BY <1>1 DEF AeadInv, Enter, SealedInv, MadeInv
<1>2. CASE CallAe(k, n, M, a)
  <2> PICK m \in Messages :
        Enter([op |-> "ae", key |-> k, nonce |-> n, M |-> M, in |-> m, aad |-> a], NoTag)
    BY <1>2 DEF CallAe
  <2> DEFINE c == [op |-> "ae", key |-> k, nonce |-> n, M |-> M, in |-> m, aad |-> a]
  <2>1. Enter(c, NoTag) /\ c.op = "ae"
    OBVIOUS
  <2> QED BY <1>1, <2>1
<1>3. CASE CallAd(k, n, M, a)
  <2> PICK y : \E r \in sealed :
        Enter([op |-> "ad", key |-> k, nonce |-> n, M |-> M, in |-> y, aad |-> a], r.tag)
    BY <1>3, CallAdEnters DEF AeadInv
  <2> PICK r \in sealed :
        Enter([op |-> "ad", key |-> k, nonce |-> n, M |-> M, in |-> y, aad |-> a], r.tag)
    OBVIOUS
  <2> DEFINE c == [op |-> "ad", key |-> k, nonce |-> n, M |-> M, in |-> y, aad |-> a]
  <2>1. Enter(c, r.tag)
    OBVIOUS
  <2> HIDE DEF c
  <2> QED BY <1>1, <2>1
<1> QED BY <1>2, <1>3

\* What the counter mode leaves in the caller's buffer.
LEMMA ResultOfCtr ==
    ASSUME Inv, pc = "tag" \/ (pc = "auth" /\ call.op = "ad")
    PROVE  /\ IsSeq(call.in)
           /\ SubSeq(out, 1, Len(call.in)) = CryptFor(call.key, call.nonce, call.in)
<1> USE DEF Inv
<1> DEFINE n == Len(call.in)
           c == SubSeq(out, 1, n)
           g == CryptFor(call.key, call.nonce, call.in)
<1>1. /\ IsSeq(call.in) /\ n \in Nat /\ IsSeq(out) /\ Len(out) = n + 16
      /\ done = n
  BY SeqFacts DEF CallInv, ProgressInv
<1>2. n \in 0..Len(out) /\ \A i \in 1..n : i <= Len(out)
  BY <1>1
<1>3. IsSeq(c) /\ Len(c) = n /\ \A i \in 1..n : c[i] = out[i]
  BY <1>1, <1>2, PrefixIsSeq
<1>4. IsSeq(g) /\ Len(g) = n
  BY <1>1, CtrOfIsSeq DEF CryptFor
<1>5. ASSUME NEW i \in 1..n PROVE c[i] = g[i]
  <2>1. i <= Len(out) /\ i <= done
    BY <1>1, <1>2
  <2>2. out[i] = CtrByte(call, call.in, i)
    BY <2>1 DEF OutputCorrect
  <2>3. g[i] = CtrByte([key |-> call.key, nonce |-> call.nonce], call.in, i)
    BY DEF CryptFor, CtrOf
  <2>4. CtrByte(call, call.in, i)
          = CtrByte([key |-> call.key, nonce |-> call.nonce], call.in, i)
    BY DEF CtrByte, Ai
  <2> QED BY <1>3, <2>2, <2>3, <2>4
<1> HIDE DEF c, g
<1>6. c = g
  BY <1>3, <1>4, <1>5, SameSeq
<1> QED BY <1>1, <1>6 DEF c, g

\* What the code gives the caller is what the definition says of these arguments.
LEMMA ArgumentsOfCall ==
    ASSUME AeadInv, pc = "tag"
    PROVE  /\ Admissible(call.aad, Plain)
           /\ IsSeq(call.in) /\ Len(call.in) < W
           /\ TagOf = TagFor(call.key, call.nonce, call.M, call.aad, Plain)
           /\ CryptFor(call.key, call.nonce, Plain)
                = IF call.op = "ae" THEN SubSeq(out, 1, Len(call.in)) ELSE call.in
<1> USE DEF AeadInv
<1> DEFINE c == SubSeq(out, 1, Len(call.in))
           g == CryptFor(call.key, call.nonce, call.in)
<1>1. IsSeq(call.in) /\ c = g /\ IsSeq(g) /\ Len(g) = Len(call.in)
      /\ CryptFor(call.key, call.nonce, g) = call.in
  <2>1. IsSeq(call.in) /\ c = g
    <3>1. Inv /\ (pc = "tag" \/ (pc = "auth" /\ call.op = "ad"))
      OBVIOUS
    <3> HIDE DEF AeadInv
    <3> QED BY <3>1, ResultOfCtr
  <2>2. IsSeq(g) /\ Len(g) = Len(call.in)
    BY <2>1, CtrOfIsSeq DEF CryptFor
  <2>3. CryptFor(call.key, call.nonce, g) = call.in
    BY <2>1, CryptTwice
  <2> QED BY <2>1, <2>2, <2>3
<1>2. Plain = IF call.op = "ae" THEN call.in ELSE c
  BY DEF Plain
<1>3. call.aad \in Aads /\ ~(Len(call.aad) > 30) /\ Len(call.in) < W
  BY DEF Inv, CallInv, TooLong
<1>4. IsSeq(call.aad) /\ Len(call.aad) \in Nat
  BY <1>3, ByteAssumption, SeqFacts
<1> HIDE DEF c, g
<1>5. Admissible(call.aad, Plain)
  BY <1>1, <1>2, <1>3, <1>4 DEF Admissible
<1>6. TagOf = TagFor(call.key, call.nonce, call.M, call.aad, Plain)
  <2>1. x = MacFor(call.M, call.nonce, call.aad, Plain)
    BY DEF MadeInv
  <2>2. Ai(call, 0) = Ai([nonce |-> call.nonce], 0)
    BY DEF Ai
  <2> QED BY <2>1, <2>2 DEF TagOf, TagFor
<1>7. CryptFor(call.key, call.nonce, Plain) = IF call.op = "ae" THEN c ELSE call.in
  BY <1>1, <1>2 DEF g
<1> QED BY <1>1, <1>3, <1>5, <1>6, <1>7 DEF c

\* The steps between the first and the last one.
LEMMA WorkAead ==
    ASSUME AeadInv, InitSucceeds \/ Authenticate \/ EncryptBlock \/ EncryptLast
    PROVE  /\ SealedInv' /\ MadeInv'
           /\ UNCHANGED <<sealed, answer>>
<1> USE DEF AeadInv
<1>1. /\ UNCHANGED <<sealed, answer, call, auth>>
      /\ pc \in {"init", "auth", "encr"}
  BY DEF InitSucceeds, Authenticate, EncryptBlock, EncryptLast
<1>2. SealedInv'
  BY <1>1 DEF SealedInv
<1>3. call'.op = "ad" => \E r \in sealed' : r.tag = auth'
  BY <1>1 DEF MadeInv
<1>4. pc' = "tag" \/ (pc' = "encr" /\ call'.op = "ae") =>
        x' = MacFor(call.M, call.nonce, call.aad, Plain')
  <2>1. CASE InitSucceeds
    BY <2>1 DEF InitSucceeds
  <2>2. CASE Authenticate
    <3>1. Plain' = Plain /\ B0(call) = B0([M |-> call.M, aad |-> call.aad,
                                           nonce |-> call.nonce, in |-> Plain])
      <4>1. Len(Plain) = Len(call.in)
        <5>1. CASE call.op = "ae"
          BY <5>1 DEF Plain
        <5>2. CASE call.op # "ae"
          <6>1. call.op = "ad" /\ pc = "auth"
            BY <2>2, <5>2 DEF Authenticate, Inv, CallInv
          <6>2. IsSeq(call.in) /\ Plain = CryptFor(call.key, call.nonce, call.in)
            BY <5>2, <6>1, ResultOfCtr DEF Plain
          <6> QED BY <6>2, CtrOfIsSeq DEF CryptFor
        <5> QED BY <5>1, <5>2
      <4> QED BY <2>2, <4>1 DEF Authenticate, Plain, B0
    <3>2. x' = <<B0(call)>> \o AadBlocks(call.aad) \o PaddedBlocks(Plain)
      BY <2>2 DEF Authenticate, Plain
    <3> QED BY <3>1, <3>2 DEF MacFor
  <2>3. CASE EncryptBlock \/ EncryptLast
    BY <1>1, <2>3 DEF EncryptBlock, EncryptLast, MadeInv, Plain
  <2> QED BY <2>1, <2>2, <2>3
<1> QED BY <1>1, <1>2, <1>3, <1>4 DEF MadeInv

LEMMA InitFailsAead ==
    ASSUME AeadInv, InitFails
    PROVE  SealedInv' /\ MadeInv' /\ A!Refuse
<1> USE DEF AeadInv, InitFails, Return
<1>1. SealedInv' /\ MadeInv'
  BY DEF SealedInv, MadeInv
<1>2. A!Refuse
  BY DEF A!Refuse, Inv, CallInv
<1> QED BY <1>1, <1>2

\* Sealing gives a tag that exactly the inputs of an earlier record have.
LEMMA FinishAeAead ==
    ASSUME AeadInv, FinishAe
    PROVE  SealedInv' /\ MadeInv' /\ A!Seal
<1> USE DEF AeadInv
<1> DEFINE c == SubSeq(out, 1, Len(call.in))
           t == TagFor(call.key, call.nonce, call.M, call.aad, call.in)
<1>1. pc = "tag" /\ call.op = "ae" /\ pc' = "idle"
  BY DEF FinishAe, Return
<1>2. /\ Admissible(call.aad, call.in)
      /\ c = CryptFor(call.key, call.nonce, call.in)
      /\ Len(c) = Len(call.in)
      /\ TagOf = t
  <2>1. Plain = call.in
    BY <1>1 DEF Plain
  <2>2. /\ Admissible(call.aad, call.in) /\ IsSeq(call.in)
        /\ c = CryptFor(call.key, call.nonce, call.in) /\ TagOf = t
    BY <1>1, <2>1, ArgumentsOfCall
  <2>3. Len(CryptFor(call.key, call.nonce, call.in)) = Len(call.in)
    BY <2>2, CtrOfIsSeq DEF CryptFor
  <2> QED BY <2>2, <2>3
<1> HIDE DEF t
<1>3. answer' = [op |-> "ae", key |-> call.key, iv |-> <<call.nonce, call.M>>,
                 aad |-> call.aad, plain |-> call.in, crypt |-> c, tag |-> t,
                 ready |-> TRUE, ret |-> 0]
  BY <1>1, <1>2 DEF FinishAe, Return
<1> DEFINE r == [key |-> call.key, iv |-> <<call.nonce, call.M>>, aad |-> call.aad,
                 plain |-> call.in, crypt |-> c, tag |-> t]
<1>4. A!Record(answer') = r /\ sealed' = sealed \cup {r}
  BY <1>3 DEF A!Record, FinishAe
<1> HIDE DEF c
<1>5. SealedInv'
  BY <1>2, <1>4 DEF SealedInv, t
<1>6. MadeInv'
  BY <1>1 DEF MadeInv
<1>7. ASSUME NEW q \in sealed
      PROVE  (q.tag = answer'.tag) <=> A!SameInputs(q, answer')
  <2> DEFINE same == /\ q.key = call.key /\ q.iv = <<call.nonce, call.M>>
                     /\ q.aad = call.aad /\ q.crypt = c
  <2>1. /\ Admissible(q.aad, q.plain) /\ q.iv = <<q.iv[1], q.iv[2]>>
        /\ q.crypt = CryptFor(q.key, q.iv[1], q.plain)
        /\ q.tag = TagFor(q.key, q.iv[1], q.iv[2], q.aad, q.plain)
    BY DEF SealedInv
  <2>2. q.tag = t => same
    <3> SUFFICES ASSUME q.tag = t PROVE same
      OBVIOUS
    <3>1. /\ q.key = call.key /\ q.iv[1] = call.nonce /\ q.iv[2] = call.M
          /\ q.aad = call.aad /\ q.plain = call.in
      <4>1. TagFor(q.key, q.iv[1], q.iv[2], q.aad, q.plain)
              = TagFor(call.key, call.nonce, call.M, call.aad, call.in)
        BY <2>1 DEF t
      <4> HIDE DEF AeadInv
      <4> QED BY <1>2, <2>1, <4>1, TagForInjective
    <3>2. q.iv = <<call.nonce, call.M>> /\ q.crypt = c
      BY <1>2, <2>1, <3>1
    <3> QED BY <3>1, <3>2
  <2>3. same => q.tag = t
    <3> SUFFICES ASSUME same PROVE q.tag = t
      OBVIOUS
    <3>1. q.iv[1] = call.nonce /\ q.iv[2] = call.M
      OBVIOUS
    <3>2. CryptFor(q.key, q.iv[1], q.plain) = CryptFor(q.key, q.iv[1], call.in)
      BY <1>2, <2>1, <3>1
    <3>3. q.plain = call.in
      BY <1>2, <2>1, <3>2, CryptTwice DEF Admissible
    <3> QED BY <2>1, <3>1, <3>3 DEF t
  <2>4. A!SameInputs(q, answer') <=> same
    BY <1>3 DEF A!SameInputs
  <2>5. answer'.tag = t
    BY <1>3
  <2> QED BY <2>2, <2>3, <2>4, <2>5
<1>8. A!Seal
  <2>1. sealed' = sealed \cup {A!Record(answer')}
    BY <1>4
  <2>2. /\ answer'.op = "ae" /\ answer'.ready /\ answer'.ret = 0
        /\ Len(answer'.crypt) = Len(answer'.plain)
    BY <1>2, <1>3
  <2> QED BY <1>7, <2>1, <2>2 DEF A!Seal
<1> QED BY <1>5, <1>6, <1>8

\* Opening succeeds exactly for what was sealed, with the plaintext of then.
LEMMA FinishAdAead ==
    ASSUME AeadInv, FinishAd
    PROVE  SealedInv' /\ MadeInv' /\ A!Open
<1> USE DEF AeadInv
<1> DEFINE m == SubSeq(out, 1, Len(call.in))
           t == TagFor(call.key, call.nonce, call.M, call.aad, m)
<1>1. pc = "tag" /\ call.op = "ad" /\ pc' = "idle" /\ UNCHANGED <<sealed, auth>>
  BY DEF FinishAd, Return
<1>2. /\ Admissible(call.aad, m) /\ IsSeq(call.in)
      /\ call.in = CryptFor(call.key, call.nonce, m)
      /\ m = CryptFor(call.key, call.nonce, call.in)
      /\ TagOf = t
      /\ \E r \in sealed : r.tag = auth
  <2>1. Plain = m
    BY <1>1 DEF Plain
  <2>2. call.op # "ae"
    BY <1>1
  <2>3. \E r \in sealed : r.tag = auth
    BY <1>1 DEF MadeInv
  <2>4. m = CryptFor(call.key, call.nonce, call.in)
    BY <1>1, ResultOfCtr
  <2> HIDE DEF m
  <2> QED BY <1>1, <2>1, <2>2, <2>3, <2>4, ArgumentsOfCall
<1> HIDE DEF t
<1>3. answer' = [op |-> "ad", key |-> call.key, iv |-> <<call.nonce, call.M>>,
                 aad |-> call.aad, plain |-> m, crypt |-> call.in, tag |-> auth,
                 ready |-> TRUE, ret |-> IF auth = t THEN 0 ELSE -1]
  BY <1>1, <1>2 DEF FinishAd, Return
<1> HIDE DEF m
<1>4. SealedInv' /\ MadeInv'
  BY <1>1 DEF SealedInv, MadeInv
<1>5. \A r \in sealed : A!SameInputs(r, answer') <=>
        /\ r.key = call.key /\ r.iv = <<call.nonce, call.M>>
        /\ r.aad = call.aad /\ r.crypt = call.in
  BY <1>3 DEF A!SameInputs
<1> DEFINE matching == {r \in sealed : A!SameInputs(r, answer') /\ r.tag = answer'.tag}
<1>6. CASE auth = t
  <2> PICK r \in sealed : r.tag = t
    BY <1>2, <1>6
  <2>1. /\ Admissible(r.aad, r.plain) /\ r.iv = <<r.iv[1], r.iv[2]>>
        /\ r.crypt = CryptFor(r.key, r.iv[1], r.plain)
        /\ r.tag = TagFor(r.key, r.iv[1], r.iv[2], r.aad, r.plain)
    BY DEF SealedInv
  <2>2. /\ r.key = call.key /\ r.iv[1] = call.nonce /\ r.iv[2] = call.M
        /\ r.aad = call.aad /\ r.plain = m
    <3>1. TagFor(r.key, r.iv[1], r.iv[2], r.aad, r.plain)
            = TagFor(call.key, call.nonce, call.M, call.aad, m)
      BY <2>1 DEF t
    <3> HIDE DEF AeadInv
    <3> QED BY <1>2, <2>1, <3>1, TagForInjective
  <2>3. r.iv = <<call.nonce, call.M>> /\ r.crypt = call.in
    BY <1>2, <2>1, <2>2
  <2>4. r \in matching /\ r.plain = answer'.plain /\ answer'.ret = 0
    BY <1>3, <1>5, <1>6, <2>2, <2>3
  <2> QED BY <1>1, <1>3, <1>4, <2>4 DEF A!Open
<1>7. CASE auth # t
  <2>1. ASSUME NEW r \in matching PROVE FALSE
    <3>1. /\ r \in sealed /\ r.tag = auth
          /\ r.key = call.key /\ r.iv = <<call.nonce, call.M>>
          /\ r.aad = call.aad /\ r.crypt = call.in
      BY <1>3, <1>5
    <3>2. /\ Admissible(r.aad, r.plain)
          /\ r.crypt = CryptFor(r.key, r.iv[1], r.plain)
          /\ r.tag = TagFor(r.key, r.iv[1], r.iv[2], r.aad, r.plain)
      BY <3>1 DEF SealedInv
    <3>3. r.iv[1] = call.nonce /\ r.iv[2] = call.M
      BY <3>1
    <3>4. r.plain = m
      BY <1>2, <3>1, <3>2, <3>3, CryptTwice DEF Admissible
    <3> QED BY <1>7, <3>1, <3>2, <3>3, <3>4 DEF t
  <2>2. matching = {} /\ answer'.ret = -1
    BY <1>3, <1>7, <2>1
  <2> QED BY <1>1, <1>3, <1>4, <2>2 DEF A!Open
<1> QED BY <1>6, <1>7

\* Each step of a call is a step of the service, or none.
LEMMA NextAead ==
    ASSUME AeadInv, [Next]_vars
    PROVE  AeadInv' /\ [A!Next]_<<sealed, answer>>
<1>1. Inv'
  BY NextInv DEF AeadInv
<1>2. CASE \E k \in Keys, n \in Nonces, M \in TagLens, a \in Aads :
             CallAe(k, n, M, a) \/ CallAd(k, n, M, a)
  BY <1>1, <1>2, CallAead DEF AeadInv
<1>3. CASE InitSucceeds \/ Authenticate \/ EncryptBlock \/ EncryptLast
  BY <1>1, <1>3, WorkAead DEF AeadInv
<1>4. CASE InitFails
  BY <1>1, <1>4, InitFailsAead DEF AeadInv, A!Next
<1>5. CASE FinishAe
  BY <1>1, <1>5, FinishAeAead DEF AeadInv, A!Next
<1>6. CASE FinishAd
  BY <1>1, <1>6, FinishAdAead DEF AeadInv, A!Next
<1>7. CASE UNCHANGED vars
  <2>1. SealedInv' /\ MadeInv'
    BY <1>7 DEF AeadInv, SealedInv, MadeInv, Plain, vars
  <2> QED BY <1>1, <1>7, <2>1 DEF AeadInv, vars
<1> QED BY <1>2, <1>3, <1>4, <1>5, <1>6, <1>7 DEF Next

\* Whatever stage a call is in, it has encrypted no block twice.
LEMMA FreshFromInv == ASSUME Inv PROVE KeystreamFresh
<1>1. CASE pc = "idle" \/ (pc = "tag" /\ call.op = "ad")
  BY <1>1 DEF Inv, ProgressInv
<1>2. CASE ecb = <<>>
  BY <1>2 DEF KeystreamFresh
<1>3. ASSUME NEW k \in 0..(W - 1), Walked(k), pc \in {"auth", "encr", "tag"}
      PROVE  KeystreamFresh
  <2> DEFINE e == Append(ecb, Other)
  <2>1. call.M \in {4, 6, 8, 10, 12, 14, 16}
    <3>1. call.M \in TagLens /\ ~(call.M > Block)
      BY <1>3 DEF Inv, CallInv, TooLong
    <3> QED BY <3>1, TagLenAssumption
  <2>2. \A i, j \in 1..Len(e) : e[i] = e[j] => i = j
    BY <1>3, <2>1, FreshWalk
  <2>3. /\ Len(e) = Len(ecb) + 1 /\ Len(ecb) \in Nat
        /\ \A i \in 1..Len(ecb) : e[i] = ecb[i]
    BY <1>3, AppendIsSeq, SeqFacts DEF Walked
  <2> HIDE DEF e
  <2>4. \A i \in 1..Len(ecb) : i \in 1..Len(e)
    BY <2>3
  <2> QED BY <2>2, <2>3, <2>4 DEF KeystreamFresh
<1>4. ASSUME pc # "idle"
      PROVE  Len(call.in) \in Nat /\ Len(call.in) < W /\ call.op \in {"ae", "ad"}
  BY <1>4, SeqFacts DEF Inv, CallInv
<1>5. CASE \/ pc = "auth" /\ call.op = "ad"
           \/ pc = "tag" /\ call.op = "ae"
  <2>1. Walked(Blocks(Len(call.in)))
    BY <1>5 DEF Inv, ProgressInv
  <2>2. Blocks(Len(call.in)) \in 0..(W - 1)
    BY <1>4, <1>5, BlocksBound
  <2> QED BY <1>3, <1>5, <2>1, <2>2
<1>6. CASE pc = "encr"
  <2>1. PICK k \in Nat : done = 16 * k /\ Walked(k)
    BY <1>6 DEF Inv, ProgressInv
  <2>2. done \in 0..Len(call.in)
    BY DEF Inv, ProgressInv
  <2>3. k \in 0..(W - 1)
    <3>1. PICK n, d : n = Len(call.in) /\ d = done
      OBVIOUS
    <3>2. n \in Nat /\ n < W /\ d \in 0..n /\ d = 16 * k
      BY <1>4, <1>6, <2>1, <2>2, <3>1
    <3> QED BY <3>2, WAssumption
  <2> QED BY <1>3, <1>6, <2>1, <2>3
<1>7. pc \in {"idle", "init", "auth", "encr", "tag"}
  BY DEF Inv, ProgressInv
<1>8. CASE \/ pc = "init"
           \/ pc = "auth" /\ call.op = "ae"
  <2>1. ecb = <<>>
    BY <1>8 DEF Inv, ProgressInv
  <2> QED BY <1>2, <2>1
<1>9. pc = "idle" \/ call.op = "ae" \/ call.op = "ad"
  BY <1>4
<1> QED BY <1>1, <1>5, <1>6, <1>7, <1>8, <1>9

-----------------------------------------------------------------------------
\* Whatever the nonce, the message and the aad, no call gives the cipher the same
\* block twice (aes_ccm_auth_start, aes_ccm_encr).
THEOREM FreshKeystream == Spec => []KeystreamFresh
BY InitInv, NextInv, FreshFromInv, PTL DEF Spec

\* Byte for byte the output is the input under A_1, A_2, .. (aes_ccm_encr).
THEOREM CorrectOutput == Spec => []OutputCorrect
<1>1. Inv => OutputCorrect
  BY DEF Inv
<1> QED BY InitInv, NextInv, <1>1, PTL DEF Spec

\* Every way out of a call frees its cipher context, and only once
\* (aes_ccm_ae, aes_ccm_ad).
THEOREM BalancedContexts == Spec => []ContextBalanced
<1>1. Inv => ContextBalanced
  BY DEF Inv
<1> QED BY InitInv, NextInv, <1>1, PTL DEF Spec

\* For every set of keys, nonces, tag lengths, aads and messages within the limits
\* of the definition the functions are a service of authenticated encryption.
THEOREM AeadImplemented == Spec => ImplementsAead
<1>1. Init => A!Init
  BY DEF Init, A!Init
<1> QED BY <1>1, InitAead, NextAead, PTL DEF Spec, ImplementsAead, A!Spec, A!vars
=============================================================================
